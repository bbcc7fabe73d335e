---------------------------- MODULE StaticLeases ----------------------------
(***************************************************************************)
(* The static leases of nanodhcp.conf: add_static_lease and                *)
(* remove_static_lease of nanodhcp.rs with their handlers, and the DHCP    *)
(* edit on hold that rewrites the same file (SafeEdit has all its steps).  *)
(*                                                                         *)
(* The file is its static lines and the version of its other settings.  A  *)
(* line is plain, as to_conf_value writes what parsing reads; or its MAC   *)
(* or its name is padded, written by hand or sent with blanks that parsing *)
(* trims; or its name has a comma, and it parses as no lease at all.       *)
(***************************************************************************)
EXTENDS Naturals

CONSTANTS
    Mac, Ip,
    Request,             \* lease requests that may be in progress at once
    MaxLeaseEdits        \* bound: lease requests over a behaviour

VARIABLES
    dhcp,                \* nanodhcp.conf
    dhcpBak,             \* its .bak: {} or one content
    leasePc, leaseCopy,  \* per request: next step, content in hand
    trial,               \* the DHCP edit: none, has read, on trial
    trialCopy,           \* the content it is to write
    void,                \* history: the store's promise is void
    leaseEdits

leaseRequest == <<leasePc, leaseCopy>>
vars == <<dhcp, dhcpBak, leaseRequest, trial, trialCopy, void, leaseEdits>>

Forms == {"plain", "padded", "padded name", "comma"}
Lease == [mac : Mac, ip : Ip, form : Forms]
Content == [leases : SUBSET Lease, pool : {"none", "old", "new"}]

\* The lines that list_static_leases and the checks see.
Parsed(c) == {l \in c.leases : l.form # "comma"}

\* A file that was truncated still loads, as one without any key.
Empty == [leases |-> {}, pool |-> "none"]

Idle == \A r \in Request : leasePc[r] = "idle"

Init ==
    /\ dhcp \in {[leases |-> ls, pool |-> "old"] :
                    ls \in {{}} \cup {{l} : l \in [mac : Mac, ip : Ip, form : {"padded"}]}}
    /\ dhcpBak = {}
    /\ leasePc = [r \in Request |-> "idle"]
    /\ leaseCopy = [r \in Request |-> Empty]
    /\ trial = "none" /\ trialCopy = Empty
    /\ void = FALSE /\ leaseEdits = 0

\* A request has read the file and decided on the new content.
Begin(r, new) ==
    /\ leasePc[r] = "idle" /\ leaseEdits < MaxLeaseEdits
    /\ leaseEdits' = leaseEdits + 1
    /\ leasePc' = [leasePc EXCEPT ![r] = "truncate"]
    /\ leaseCopy' = [leaseCopy EXCEPT ![r] = new]
    /\ UNCHANGED <<dhcp, dhcpBak, trial, trialCopy>>

Alone == Idle /\ trial # "read"

\* The slip of a check that forgets the addresses.
TakenByMac(l) == \E old \in Parsed(dhcp) : old.mac = l.mac

\* DuplicateMac, DuplicateIp.  A padded MAC equals none in the file.
Taken(l) == \E old \in Parsed(dhcp) :
    \/ l.form # "padded" /\ old.mac = l.mac
    \/ old.ip = l.ip

\* The slip of a request that does not look for a duplicate.
AddUnchecked(r) == \E l \in Lease :
    /\ Begin(r, [dhcp EXCEPT !.leases = @ \cup {l}])
    /\ void' = (void \/ ~Alone \/ l.form = "padded")

Add(r) == \E l \in Lease :
    /\ ~Taken(l)
    /\ Begin(r, [dhcp EXCEPT !.leases = @ \cup {l}])
    /\ void' = (void \/ ~Alone \/ l.form = "padded")

\* The first line of the MAC is looked for as parsed and removed as it would
\* be written: a padded line stays, and the answer is ok all the same.
Remove(r) == \E l \in Parsed(dhcp) :
    /\ Begin(r, [dhcp EXCEPT !.leases = @ \ {[l EXCEPT !.form = "plain"]}])
    /\ void' = (void \/ ~Alone)

\* fs::write truncates, then writes; the restart's result is not looked at.
Truncate(r) ==
    /\ leasePc[r] = "truncate"
    /\ leasePc' = [leasePc EXCEPT ![r] = "fill"]
    /\ dhcp' = Empty
    /\ UNCHANGED <<dhcpBak, leaseCopy, trial, trialCopy, void, leaseEdits>>

Fill(r) ==
    /\ leasePc[r] = "fill"
    /\ leasePc' = [leasePc EXCEPT ![r] = "idle"]
    /\ dhcp' = leaseCopy[r]
    /\ leaseCopy' = [leaseCopy EXCEPT ![r] = Empty]
    /\ UNCHANGED <<dhcpBak, trial, trialCopy, void, leaseEdits>>

\* The write fails, before it has truncated the file or after.
WriteFails(r) ==
    /\ leasePc[r] # "idle"
    /\ leasePc' = [leasePc EXCEPT ![r] = "idle"]
    /\ leaseCopy' = [leaseCopy EXCEPT ![r] = Empty]
    /\ void' = (void \/ leasePc[r] = "fill")
    /\ UNCHANGED <<dhcp, dhcpBak, trial, trialCopy, leaseEdits>>

-----------------------------------------------------------------------------
\* The DHCP edit reads the file, and writes it with other settings after it has
\* copied it to its .bak; from_conf refuses a file without keys.
StageRead ==
    /\ trial = "none" /\ dhcp.pool # "none"
    /\ trial' = "read"
    /\ trialCopy' = [dhcp EXCEPT !.pool = IF @ = "old" THEN "new" ELSE "old"]
    /\ void' = (void \/ ~Idle)
    /\ UNCHANGED <<dhcp, dhcpBak, leaseRequest, leaseEdits>>

StageRefused == trial = "none" /\ dhcp.pool = "none" /\ UNCHANGED vars

StageWrite ==
    /\ trial = "read" /\ trial' = "trial"
    /\ dhcpBak' = {dhcp}
    /\ dhcp' = trialCopy
    /\ trialCopy' = Empty
    /\ UNCHANGED <<leaseRequest, void, leaseEdits>>

Confirm ==
    /\ trial = "trial" /\ trial' = "none"
    /\ dhcpBak' = {}
    /\ UNCHANGED <<dhcp, leaseRequest, trialCopy, void, leaseEdits>>

Revert ==
    /\ trial = "trial" /\ trial' = "none"
    /\ dhcp' \in dhcpBak /\ dhcpBak' = {}
    /\ void' = (void \/ ~Idle)
    /\ UNCHANGED <<leaseRequest, trialCopy, leaseEdits>>

Next ==
    \/ \E r \in Request : Add(r) \/ Remove(r) \/ Truncate(r) \/ Fill(r) \/ WriteFails(r)
    \/ StageRead \/ StageRefused \/ StageWrite \/ Confirm \/ Revert

LeaseSpec == Init /\ [][Next]_vars

-----------------------------------------------------------------------------
\* No MAC and no address has two leases, unless requests overlapped (with each
\* other or with a DHCP edit), a write was cut short or a MAC was sent padded.
\* A rollback cannot bring a second one back.
LeasesUnique == void \/ \A l, k \in Parsed(dhcp) : l.mac = k.mac \/ l.ip = k.ip => l = k

\* Under the same condition the file is a store: add and remove change at most the
\* one lease they name (neither does anything, answering ok, where the name has a
\* comma or a blank), and only the rollback of a hold takes an acknowledged lease
\* back, together with every other edit of the hold.  A file that a request has
\* truncated counts as what the request is about to write.
Present(c) == {[mac |-> l.mac, ip |-> l.ip] : l \in Parsed(c)}
Effective ==
    IF \E r \in Request : leasePc[r] = "fill"
    THEN leaseCopy[CHOOSE r \in Request : leasePc[r] = "fill"] ELSE dhcp
Store == INSTANCE LeaseStore WITH
    entries <- Present(Effective), saved <- {Present(c) : c \in dhcpBak}
ImplementsLeaseStore == Store!Spec
=============================================================================
