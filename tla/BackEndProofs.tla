--------------------------- MODULE BackEndProofs ---------------------------
(***************************************************************************)
(* Proofs about the back ends that MCBackEnds puts side by side, each from *)
(* its own specification and for any constants: the static leases and the  *)
(* store they implement, the monitor mode, the bans and the limits of      *)
(* requests, nanodns.conf with the list of blocked domains, the e-paper    *)
(* panel and the readers of listings; and what VpnProofs says of tunnels.  *)
(***************************************************************************)
EXTENDS MCBackEnds, ConfLinesProofs, FiniteSetTheorems

-----------------------------------------------------------------------------
(* The static leases.                                                      *)

\* What the variables hold.
Types ==
    /\ dhcp \in Content /\ dhcpBak \in SUBSET Content
    /\ leasePc \in [Request -> {"idle", "truncate", "fill"}]
    /\ leaseCopy \in [Request -> Content]
    /\ trial \in {"none", "read", "trial"} /\ trialCopy \in Content
    /\ void \in BOOLEAN /\ leaseEdits \in Nat

Unique(c) == \A l, k \in Parsed(c) : l.mac = k.mac \/ l.ip = k.ip => l = k

\* Every content that may get into the file is unique.
UniqueEverywhere ==
    ~void => /\ Unique(dhcp) /\ Unique(trialCopy)
             /\ \A c \in dhcpBak : Unique(c)
             /\ \A r \in Request : Unique(leaseCopy[r])

LEMMA EmptyFits == Empty \in Content /\ Unique(Empty)
BY DEF Empty, Content, Unique, Parsed

LEMMA ContentParts ==
    ASSUME NEW c \in Content
    PROVE  c.leases \in SUBSET Lease /\ c.pool \in {"none", "old", "new"}
BY DEF Content

LEMMA WithLease ==
    ASSUME NEW c \in Content, NEW l \in Lease
    PROVE  /\ [c EXCEPT !.leases = @ \cup {l}] \in Content
           /\ [c EXCEPT !.leases = @ \cup {l}].leases = c.leases \cup {l}
BY DEF Content

LEMMA WithoutLease ==
    ASSUME NEW c \in Content, NEW l
    PROVE  /\ [c EXCEPT !.leases = @ \ {l}] \in Content
           /\ [c EXCEPT !.leases = @ \ {l}].leases = c.leases \ {l}
BY DEF Content

LEMMA WithPool ==
    ASSUME NEW c \in Content
    PROVE  /\ [c EXCEPT !.pool = IF @ = "old" THEN "new" ELSE "old"] \in Content
           /\ [c EXCEPT !.pool = IF @ = "old" THEN "new" ELSE "old"].leases = c.leases
BY DEF Content

LEMMA InitContent ==
    ASSUME Init
    PROVE  dhcp \in Content /\ Unique(dhcp)
<1>1. PICK ls \in {{}} \cup {{l} : l \in [mac : Mac, ip : Ip, form : {"padded"}]} :
        dhcp = [leases |-> ls, pool |-> "old"]
  BY DEF Init
<1>2. ls \in SUBSET Lease BY <1>1 DEF Lease, Forms
<1>3. \A l, k \in ls : l = k BY <1>1
<1>4. dhcp.leases = ls BY <1>1
<1> QED BY <1>1, <1>2, <1>3, <1>4 DEF Content, Unique, Parsed

LEMMA InitTypes == Init => Types
<1> SUFFICES ASSUME Init PROVE Types OBVIOUS
<1> QED BY InitContent, EmptyFits DEF Init, Types

LEMMA BeginTypes ==
    ASSUME Types, NEW r \in Request, NEW new \in Content, Begin(r, new)
    PROVE  /\ dhcp' \in Content /\ dhcpBak' \in SUBSET Content
           /\ leasePc' \in [Request -> {"idle", "truncate", "fill"}]
           /\ leaseCopy' \in [Request -> Content]
           /\ trial' \in {"none", "read", "trial"} /\ trialCopy' \in Content
           /\ leaseEdits' \in Nat
BY DEF Types, Begin

LEMMA StepTypes == Types /\ [Next]_vars => Types'
<1> SUFFICES ASSUME Types, [Next]_vars PROVE Types' OBVIOUS
<1>1. ASSUME NEW r \in Request, Add(r) PROVE Types'
  <2>1. PICK l \in Lease : Begin(r, [dhcp EXCEPT !.leases = @ \cup {l}])
                            /\ void' = (void \/ ~Alone \/ l.form = "padded")
    BY <1>1 DEF Add
  <2>2. [dhcp EXCEPT !.leases = @ \cup {l}] \in Content BY WithLease DEF Types
  <2>3. void' \in BOOLEAN BY <2>1
  <2> QED BY <2>1, <2>2, <2>3, BeginTypes DEF Types
<1>2. ASSUME NEW r \in Request, Remove(r) PROVE Types'
  <2>1. PICK l \in Parsed(dhcp) : Begin(r, [dhcp EXCEPT !.leases = @ \ {[l EXCEPT !.form = "plain"]}])
                                  /\ void' = (void \/ ~Alone)
    BY <1>2 DEF Remove
  <2>2. [dhcp EXCEPT !.leases = @ \ {[l EXCEPT !.form = "plain"]}] \in Content BY WithoutLease DEF Types
  <2>3. void' \in BOOLEAN BY <2>1
  <2> QED BY <2>1, <2>2, <2>3, BeginTypes DEF Types
<1>3. ASSUME NEW r \in Request, Truncate(r) PROVE Types'
  BY <1>3, EmptyFits DEF Types, Truncate
<1>4. ASSUME NEW r \in Request, Fill(r) PROVE Types'
  BY <1>4, EmptyFits DEF Types, Fill
<1>5. ASSUME NEW r \in Request, WriteFails(r) PROVE Types'
  <2>1. void' \in BOOLEAN BY <1>5 DEF WriteFails
  <2> QED BY <1>5, <2>1, EmptyFits DEF Types, WriteFails
<1>6. ASSUME StageRead PROVE Types'
  <2>1. void' \in BOOLEAN BY <1>6 DEF StageRead
  <2>2. trialCopy' \in Content BY <1>6, WithPool DEF StageRead, Types
  <2> QED BY <1>6, <2>1, <2>2 DEF Types, StageRead, leaseRequest
<1>7. ASSUME StageRefused PROVE Types'
  BY <1>7 DEF Types, StageRefused, vars, leaseRequest
<1>8. ASSUME StageWrite PROVE Types'
  BY <1>8, EmptyFits DEF Types, StageWrite, leaseRequest
<1>9. ASSUME Confirm PROVE Types'
  BY <1>9 DEF Types, Confirm, leaseRequest
<1>10. ASSUME Revert PROVE Types'
  <2>1. void' \in BOOLEAN BY <1>10 DEF Revert
  <2> QED BY <1>10, <2>1 DEF Types, Revert, leaseRequest
<1>11. ASSUME UNCHANGED vars PROVE Types'
  BY <1>11 DEF Types, vars, leaseRequest
<1> QED BY <1>1, <1>2, <1>3, <1>4, <1>5, <1>6, <1>7, <1>8, <1>9, <1>10, <1>11 DEF Next

\* The file, its .bak, what requests and the hold have in hand: each is a
\* content of nanodhcp.conf, and every request at one of its steps.
THEOREM LeaseTypes == LeaseSpec => []Types
<1>1. Init => Types BY InitTypes
<1>2. Types /\ [Next]_vars => Types' BY StepTypes
<1> QED BY <1>1, <1>2, PTL DEF LeaseSpec

-----------------------------------------------------------------------------
LEMMA UniqueWith ==
    ASSUME Types, NEW l \in Lease, l.form # "padded", ~Taken(l), Unique(dhcp)
    PROVE  Unique([dhcp EXCEPT !.leases = @ \cup {l}])
<1>1. [dhcp EXCEPT !.leases = @ \cup {l}].leases = dhcp.leases \cup {l} BY WithLease DEF Types
<1>2. \A old \in Parsed(dhcp) : old.mac # l.mac /\ old.ip # l.ip BY DEF Taken
<1> QED BY <1>1, <1>2 DEF Unique, Parsed

LEMMA UniqueWithout ==
    ASSUME Types, NEW l, Unique(dhcp)
    PROVE  Unique([dhcp EXCEPT !.leases = @ \ {l}])
<1>1. [dhcp EXCEPT !.leases = @ \ {l}].leases = dhcp.leases \ {l} BY WithoutLease DEF Types
<1> QED BY <1>1 DEF Unique, Parsed

LEMMA InitUnique == Init => UniqueEverywhere
<1> SUFFICES ASSUME Init PROVE UniqueEverywhere OBVIOUS
<1>1. \A r \in Request : leaseCopy[r] = Empty BY DEF Init
<1>2. trialCopy = Empty /\ dhcpBak = {} BY DEF Init
<1> QED BY <1>1, <1>2, InitContent, EmptyFits DEF UniqueEverywhere

\* A request that begins with a unique content in hand.
LEMMA BeginUnique ==
    ASSUME Types, NEW r \in Request, NEW new, Begin(r, new),
           UniqueEverywhere, ~void' => ~void, ~void' => Unique(new)
    PROVE  UniqueEverywhere'
<1>1. UNCHANGED <<dhcp, dhcpBak, trialCopy>> BY DEF Begin
<1>2. \A q \in Request : leaseCopy'[q] = IF q = r THEN new ELSE leaseCopy[q] BY DEF Begin, Types
<1>3. SUFFICES ASSUME ~void'
               PROVE  /\ Unique(dhcp') /\ Unique(trialCopy')
                      /\ \A c \in dhcpBak' : Unique(c)
                      /\ \A q \in Request : Unique(leaseCopy'[q])
  BY DEF UniqueEverywhere, Unique
<1>4. Unique(dhcp) /\ Unique(trialCopy) /\ (\A c \in dhcpBak : Unique(c))
      /\ (\A q \in Request : Unique(leaseCopy[q])) /\ Unique(new)
  BY <1>3 DEF UniqueEverywhere
<1>5. ASSUME NEW q \in Request PROVE Unique(leaseCopy'[q])
  <2>1. CASE q = r BY <2>1, <1>2, <1>4
  <2>2. CASE q # r BY <2>2, <1>2, <1>4
  <2> QED BY <2>1, <2>2
<1> QED BY <1>1, <1>4, <1>5

\* A step that writes contents that were somewhere before, or empty ones.
LEMMA MovedUnique ==
    ASSUME UniqueEverywhere, Types, ~void' => ~void,
           dhcp' \in {dhcp, Empty, trialCopy} \cup dhcpBak \cup {leaseCopy[r] : r \in Request},
           trialCopy' \in {trialCopy, Empty},
           dhcpBak' \subseteq dhcpBak \cup {dhcp},
           \A r \in Request : leaseCopy'[r] \in {leaseCopy[r], Empty}
    PROVE  UniqueEverywhere'
<1>1. SUFFICES ASSUME ~void'
               PROVE  /\ Unique(dhcp') /\ Unique(trialCopy')
                      /\ \A c \in dhcpBak' : Unique(c)
                      /\ \A q \in Request : Unique(leaseCopy'[q])
  BY DEF UniqueEverywhere, Unique
<1>2. Unique(dhcp) /\ Unique(trialCopy) /\ (\A c \in dhcpBak : Unique(c))
      /\ (\A q \in Request : Unique(leaseCopy[q])) /\ Unique(Empty)
  BY <1>1, EmptyFits DEF UniqueEverywhere
<1>3. Unique(dhcp') BY <1>2
<1>4. Unique(trialCopy') BY <1>2
<1>5. \A c \in dhcpBak' : Unique(c) BY <1>2
<1>6. \A q \in Request : Unique(leaseCopy'[q]) BY <1>2
<1> QED BY <1>3, <1>4, <1>5, <1>6

LEMMA StepUnique == Types /\ UniqueEverywhere /\ [Next]_vars => UniqueEverywhere'
<1> SUFFICES ASSUME Types, UniqueEverywhere, [Next]_vars PROVE UniqueEverywhere' OBVIOUS
<1>1. ASSUME NEW r \in Request, Add(r) PROVE UniqueEverywhere'
  <2>1. PICK l \in Lease : /\ ~Taken(l)
                           /\ Begin(r, [dhcp EXCEPT !.leases = @ \cup {l}])
                           /\ void' = (void \/ ~Alone \/ l.form = "padded")
    BY <1>1 DEF Add
  <2>3. ~void' => ~void /\ l.form # "padded" BY <2>1
  <2>4. ~void' => Unique([dhcp EXCEPT !.leases = @ \cup {l}])
    BY <2>1, <2>3, UniqueWith DEF UniqueEverywhere
  <2> QED BY <2>1, <2>3, <2>4, BeginUnique
<1>2. ASSUME NEW r \in Request, Remove(r) PROVE UniqueEverywhere'
  <2>1. PICK l \in Parsed(dhcp) : /\ Begin(r, [dhcp EXCEPT !.leases = @ \ {[l EXCEPT !.form = "plain"]}])
                                 /\ void' = (void \/ ~Alone)
    BY <1>2 DEF Remove
  <2>2. ~void' => Unique([dhcp EXCEPT !.leases = @ \ {[l EXCEPT !.form = "plain"]}])
    BY <2>1, UniqueWithout DEF UniqueEverywhere
  <2> QED BY <2>1, <2>2, BeginUnique
<1>3. ASSUME NEW r \in Request, Truncate(r) PROVE UniqueEverywhere'
  <2>1. ~void' => ~void BY <1>3 DEF Truncate
  <2> QED BY <1>3, <2>1, MovedUnique DEF Truncate
<1>4. ASSUME NEW r \in Request, Fill(r) PROVE UniqueEverywhere'
  <2>1. \A q \in Request : leaseCopy'[q] \in {leaseCopy[q], Empty} BY <1>4 DEF Fill, Types
  <2>2. ~void' => ~void BY <1>4 DEF Fill
  <2> QED BY <1>4, <2>1, <2>2, MovedUnique DEF Fill
<1>5. ASSUME NEW r \in Request, WriteFails(r) PROVE UniqueEverywhere'
  <2>1. \A q \in Request : leaseCopy'[q] \in {leaseCopy[q], Empty} BY <1>5 DEF WriteFails, Types
  <2>2. ~void' => ~void BY <1>5 DEF WriteFails
  <2> QED BY <1>5, <2>1, <2>2, MovedUnique DEF WriteFails
<1>6. ASSUME StageRead PROVE UniqueEverywhere'
  <2>1. trialCopy' = [dhcp EXCEPT !.pool = IF @ = "old" THEN "new" ELSE "old"] BY <1>6 DEF StageRead
  <2>2. trialCopy'.leases = dhcp.leases BY <2>1, WithPool DEF Types
  <2>3. ~void' => ~void BY <1>6 DEF StageRead
  <2>4. UNCHANGED <<dhcp, dhcpBak, leaseCopy>> BY <1>6 DEF StageRead, leaseRequest
  <2> QED BY <2>2, <2>3, <2>4 DEF UniqueEverywhere, Unique, Parsed
<1>7. ASSUME StageRefused PROVE UniqueEverywhere'
  BY <1>7, MovedUnique DEF StageRefused, vars, leaseRequest
<1>8. ASSUME StageWrite PROVE UniqueEverywhere'
  <2>1. ~void' => ~void BY <1>8 DEF StageWrite
  <2> QED BY <1>8, <2>1, MovedUnique DEF StageWrite, leaseRequest
<1>9. ASSUME Confirm PROVE UniqueEverywhere'
  <2>1. ~void' => ~void BY <1>9 DEF Confirm
  <2> QED BY <1>9, <2>1, MovedUnique DEF Confirm, leaseRequest
<1>10. ASSUME Revert PROVE UniqueEverywhere'
  <2>1. ~void' => ~void BY <1>10 DEF Revert
  <2> QED BY <1>10, <2>1, MovedUnique DEF Revert, leaseRequest
<1>11. ASSUME UNCHANGED vars PROVE UniqueEverywhere'
  BY <1>11, MovedUnique DEF vars, leaseRequest
<1> QED BY <1>1, <1>2, <1>3, <1>4, <1>5, <1>6, <1>7, <1>8, <1>9, <1>10, <1>11 DEF Next

\* No MAC and no address has two leases, for any number of requests beside the
\* hold: LeasesUnique is not inductive, for what is read and not yet written
\* and the .bak come into the file later; UniqueEverywhere speaks of them too.
THEOREM StaticLeasesUnique == LeaseSpec => []LeasesUnique
<1>1. Init => UniqueEverywhere BY InitUnique
<1>2. Types /\ UniqueEverywhere /\ [Next]_vars => UniqueEverywhere' BY StepUnique
<1>3. UniqueEverywhere => LeasesUnique BY DEF UniqueEverywhere, LeasesUnique, Unique
<1> QED BY <1>1, <1>2, <1>3, LeaseTypes, PTL DEF LeaseSpec

-----------------------------------------------------------------------------
\* What a lone request has in hand: the file with one lease more, or less.
OneMore(c, file) == \E l \in Lease :
    /\ \A old \in Parsed(file) : old.mac # l.mac /\ old.ip # l.ip
    /\ c.leases = file.leases \cup {l}
OneLess(c, file) == \E l \in Parsed(file) : c.leases = file.leases \ {[l EXCEPT !.form = "plain"]}

OneAtATime == \A q, r \in Request : leasePc[q] # "idle" /\ leasePc[r] # "idle" => q = r
ReadIsCurrent == trial = "read" => Idle /\ trialCopy.leases = dhcp.leases
OneChange == \A r \in Request :
    leasePc[r] = "truncate" => OneMore(leaseCopy[r], dhcp) \/ OneLess(leaseCopy[r], dhcp)

\* Until the promise is void nobody is between another's read and its write.
Orderly == ~void => OneAtATime /\ ReadIsCurrent /\ OneChange

LEMMA InitOrderly == Init => Orderly
BY DEF Init, Orderly, OneAtATime, ReadIsCurrent, OneChange

LEMMA LoneRequest ==
    ASSUME Types, OneAtATime, ReadIsCurrent, NEW r \in Request, leasePc[r] # "idle"
    PROVE  trial # "read" /\ \A q \in Request : q # r => leasePc[q] = "idle"
BY DEF OneAtATime, ReadIsCurrent, Idle

\* A request that is alone begins with one change in hand.
LEMMA BeginOrderly ==
    ASSUME Types, NEW r \in Request, NEW new, Begin(r, new), Alone,
           OneMore(new, dhcp) \/ OneLess(new, dhcp)
    PROVE  (OneAtATime /\ ReadIsCurrent /\ OneChange)'
<1>1. \A q \in Request : leasePc'[q] = IF q = r THEN "truncate" ELSE "idle"
  BY DEF Begin, Types, Alone, Idle
<1>2. leaseCopy'[r] = new /\ dhcp' = dhcp /\ trial' # "read" BY DEF Begin, Types, Alone
<1>3. OneAtATime' BY <1>1 DEF OneAtATime
<1>4. ReadIsCurrent' BY <1>2 DEF ReadIsCurrent
<1>5. OneChange' BY <1>1, <1>2 DEF OneChange
<1> QED BY <1>3, <1>4, <1>5

\* A request goes on, alone, to a step at which it is not about to truncate.
LEMMA GoOnOrderly ==
    ASSUME Types, OneAtATime, ReadIsCurrent, NEW r \in Request, leasePc[r] # "idle",
           NEW step \in {"fill", "idle"}, leasePc' = [leasePc EXCEPT ![r] = step], trial' = trial
    PROVE  (OneAtATime /\ ReadIsCurrent /\ OneChange)'
<1>1. trial # "read" /\ \A q \in Request : q # r => leasePc[q] = "idle" BY LoneRequest
<1>2. \A q \in Request : leasePc'[q] = IF q = r THEN step ELSE "idle" BY <1>1 DEF Types
<1>3. OneAtATime' BY <1>2 DEF OneAtATime
<1>4. ReadIsCurrent' BY <1>1 DEF ReadIsCurrent
<1>5. OneChange' BY <1>2 DEF OneChange
<1> QED BY <1>3, <1>4, <1>5

\* The hold moves while no request is in progress.
LEMMA HoldOrderly ==
    ASSUME Idle, UNCHANGED leaseRequest, trial' = "read" => trialCopy'.leases = dhcp'.leases
    PROVE  (OneAtATime /\ ReadIsCurrent /\ OneChange)'
<1>1. \A q \in Request : leasePc'[q] = "idle" BY DEF Idle, leaseRequest
<1>2. OneAtATime' BY <1>1 DEF OneAtATime
<1>3. ReadIsCurrent' BY <1>1 DEF ReadIsCurrent, Idle
<1>4. OneChange' BY <1>1 DEF OneChange
<1> QED BY <1>2, <1>3, <1>4

LEMMA AddOne ==
    ASSUME Types, NEW r \in Request, Add(r), ~void'
    PROVE  /\ ~void /\ Alone
           /\ \E new : Begin(r, new) /\ OneMore(new, dhcp)
<1>1. PICK l \in Lease : /\ ~Taken(l)
                         /\ Begin(r, [dhcp EXCEPT !.leases = @ \cup {l}])
                         /\ void' = (void \/ ~Alone \/ l.form = "padded")
  BY DEF Add
<1>3. l.form # "padded" /\ ~void /\ Alone BY <1>1
<1>4. [dhcp EXCEPT !.leases = @ \cup {l}].leases = dhcp.leases \cup {l} BY WithLease DEF Types
<1>5. \A old \in Parsed(dhcp) : old.mac # l.mac /\ old.ip # l.ip BY <1>1, <1>3 DEF Taken
<1>6. OneMore([dhcp EXCEPT !.leases = @ \cup {l}], dhcp) BY <1>4, <1>5 DEF OneMore
<1> QED BY <1>1, <1>3, <1>6

LEMMA RemoveOne ==
    ASSUME Types, NEW r \in Request, Remove(r), ~void'
    PROVE  /\ ~void /\ Alone
           /\ \E new : Begin(r, new) /\ OneLess(new, dhcp)
<1>1. PICK l \in Parsed(dhcp) : /\ Begin(r, [dhcp EXCEPT !.leases = @ \ {[l EXCEPT !.form = "plain"]}])
                               /\ void' = (void \/ ~Alone)
  BY DEF Remove
<1>2. ~void /\ Alone BY <1>1
<1>3. [dhcp EXCEPT !.leases = @ \ {[l EXCEPT !.form = "plain"]}].leases
        = dhcp.leases \ {[l EXCEPT !.form = "plain"]}
  BY WithoutLease DEF Types
<1>4. OneLess([dhcp EXCEPT !.leases = @ \ {[l EXCEPT !.form = "plain"]}], dhcp) BY <1>3 DEF OneLess
<1> QED BY <1>1, <1>2, <1>4

LEMMA StepOrderly == Types /\ Orderly /\ [Next]_vars => Orderly'
<1> SUFFICES ASSUME Types, Orderly, [Next]_vars, ~void'
             PROVE  (OneAtATime /\ ReadIsCurrent /\ OneChange)'
  BY DEF Orderly
<1>1. ASSUME NEW r \in Request, Add(r) PROVE (OneAtATime /\ ReadIsCurrent /\ OneChange)'
  BY <1>1, AddOne, BeginOrderly
<1>2. ASSUME NEW r \in Request, Remove(r) PROVE (OneAtATime /\ ReadIsCurrent /\ OneChange)'
  BY <1>2, RemoveOne, BeginOrderly
<1>3. ASSUME NEW r \in Request, Truncate(r) PROVE (OneAtATime /\ ReadIsCurrent /\ OneChange)'
  <2>1. ~void BY <1>3 DEF Truncate
  <2> QED BY <1>3, <2>1, GoOnOrderly DEF Orderly, Truncate
<1>4. ASSUME NEW r \in Request, Fill(r) PROVE (OneAtATime /\ ReadIsCurrent /\ OneChange)'
  <2>1. ~void BY <1>4 DEF Fill
  <2> QED BY <1>4, <2>1, GoOnOrderly DEF Orderly, Fill
<1>5. ASSUME NEW r \in Request, WriteFails(r) PROVE (OneAtATime /\ ReadIsCurrent /\ OneChange)'
  <2>1. ~void BY <1>5 DEF WriteFails
  <2> QED BY <1>5, <2>1, GoOnOrderly DEF Orderly, WriteFails
<1>6. ASSUME StageRead PROVE (OneAtATime /\ ReadIsCurrent /\ OneChange)'
  <2>1. Idle BY <1>6 DEF StageRead
  <2>2. trialCopy' = [dhcp EXCEPT !.pool = IF @ = "old" THEN "new" ELSE "old"] BY <1>6 DEF StageRead
  <2>3. trialCopy'.leases = dhcp.leases BY <2>2, WithPool DEF Types
  <2> QED BY <1>6, <2>1, <2>3, HoldOrderly DEF StageRead
<1>7. ASSUME StageWrite PROVE (OneAtATime /\ ReadIsCurrent /\ OneChange)'
  <2>1. ~void /\ trial = "read" BY <1>7 DEF StageWrite
  <2>2. Idle BY <2>1 DEF Orderly, ReadIsCurrent
  <2> QED BY <1>7, <2>2, HoldOrderly DEF StageWrite
<1>8. ASSUME Confirm PROVE (OneAtATime /\ ReadIsCurrent /\ OneChange)'
  <2>1. ~void BY <1>8 DEF Confirm
  <2>2. OneAtATime /\ OneChange BY <2>1 DEF Orderly
  <2>3. UNCHANGED <<dhcp, leasePc, leaseCopy>> /\ trial' = "none" BY <1>8 DEF Confirm, leaseRequest
  <2> QED BY <2>2, <2>3 DEF OneAtATime, ReadIsCurrent, OneChange
<1>9. ASSUME Revert PROVE (OneAtATime /\ ReadIsCurrent /\ OneChange)'
  <2>1. Idle BY <1>9 DEF Revert
  <2> QED BY <1>9, <2>1, HoldOrderly DEF Revert
<1>10. ASSUME UNCHANGED vars PROVE (OneAtATime /\ ReadIsCurrent /\ OneChange)'
  <2>1. ~void BY <1>10 DEF vars
  <2> QED BY <1>10, <2>1 DEF Orderly, vars, leaseRequest, OneAtATime, ReadIsCurrent, OneChange, Idle
<1>11. ASSUME StageRefused PROVE UNCHANGED vars BY <1>11 DEF StageRefused
<1> QED BY <1>1, <1>2, <1>3, <1>4, <1>5, <1>6, <1>7, <1>8, <1>9, <1>10, <1>11 DEF Next

-----------------------------------------------------------------------------
LEMMA PresentMore ==
    ASSUME NEW file, NEW c, NEW l, c.leases = file.leases \cup {l}, Present(c) # Present(file)
    PROVE  Present(c) = Present(file) \cup {[mac |-> l.mac, ip |-> l.ip]}
<1>1. l.form = "comma" => Parsed(c) = Parsed(file) BY DEF Parsed
<1>2. l.form # "comma" BY <1>1 DEF Present
<1>3. Parsed(c) = Parsed(file) \cup {l} BY <1>2 DEF Parsed
<1> QED BY <1>3 DEF Present

LEMMA PresentLess ==
    ASSUME NEW file \in Content, Unique(file), NEW c, NEW l \in Parsed(file),
           c.leases = file.leases \ {[l EXCEPT !.form = "plain"]}, Present(c) # Present(file)
    PROVE  Present(c) = Present(file) \ {[mac |-> l.mac, ip |-> l.ip]}
<1> DEFINE k == [l EXCEPT !.form = "plain"]
<1>1. l \in Lease BY ContentParts DEF Parsed
<1>2. k \in Lease /\ k.mac = l.mac /\ k.form = "plain" BY <1>1 DEF Lease, Forms
<1> HIDE DEF k
<1>3. k \in file.leases
  <2> SUFFICES ASSUME k \notin file.leases PROVE FALSE OBVIOUS
  <2>1. c.leases = file.leases BY DEF k
  <2> QED BY <2>1 DEF Present, Parsed
<1>4. k = l BY <1>2, <1>3 DEF Unique, Parsed
<1>5. Parsed(c) = Parsed(file) \ {l} BY <1>4 DEF Parsed, k
<1>6. \A m \in Parsed(file) : [mac |-> m.mac, ip |-> m.ip] = [mac |-> l.mac, ip |-> l.ip] => m = l
  <2> TAKE m \in Parsed(file)
  <2> HAVE [mac |-> m.mac, ip |-> m.ip] = [mac |-> l.mac, ip |-> l.ip]
  <2>1. [mac |-> m.mac, ip |-> m.ip].mac = [mac |-> l.mac, ip |-> l.ip].mac OBVIOUS
  <2>2. m.mac = l.mac BY <2>1
  <2> QED BY <2>2 DEF Unique
<1> QED BY <1>5, <1>6 DEF Present

LEMMA EffectiveFile == (\A r \in Request : leasePc[r] # "fill") => Effective = dhcp
BY DEF Effective

LEMMA EffectiveCopy ==
    ASSUME NEW r \in Request
    PROVE  leasePc[r] = "fill" /\ (\A q \in Request : leasePc[q] = "fill" => q = r)
              => Effective = leaseCopy[r]
BY DEF Effective

\* One lease more or less is a step of the store.
LEMMA ChangeIsStep ==
    ASSUME NEW file \in Content, Unique(file), NEW c,
           OneMore(c, file) \/ OneLess(c, file), Present(c) # Present(file)
    PROVE  \E e \in [mac : Mac, ip : Ip] :
              \/ /\ \A f \in Present(file) : f.mac # e.mac /\ f.ip # e.ip
                 /\ Present(c) = Present(file) \cup {e}
              \/ Present(c) = Present(file) \ {e}
<1>0. file.leases \subseteq Lease BY ContentParts
<1>1. CASE OneMore(c, file)
  <2>1. PICK l \in Lease : /\ \A old \in Parsed(file) : old.mac # l.mac /\ old.ip # l.ip
                           /\ c.leases = file.leases \cup {l}
    BY <1>1 DEF OneMore
  <2>2. [mac |-> l.mac, ip |-> l.ip] \in [mac : Mac, ip : Ip] BY DEF Lease
  <2>3. \A f \in Present(file) : f.mac # l.mac /\ f.ip # l.ip BY <2>1 DEF Present
  <2>4. Present(c) = Present(file) \cup {[mac |-> l.mac, ip |-> l.ip]} BY <2>1, PresentMore
  <2> QED BY <2>2, <2>3, <2>4
<1>2. CASE OneLess(c, file)
  <2>1. PICK l \in Parsed(file) : c.leases = file.leases \ {[l EXCEPT !.form = "plain"]}
    BY <1>2 DEF OneLess
  <2>2. [mac |-> l.mac, ip |-> l.ip] \in [mac : Mac, ip : Ip] BY <1>0 DEF Lease, Parsed
  <2>3. Present(c) = Present(file) \ {[mac |-> l.mac, ip |-> l.ip]} BY <2>1, PresentLess
  <2> QED BY <2>2, <2>3
<1> QED BY <1>1, <1>2

-----------------------------------------------------------------------------
Entries == Present(Effective)
Saved == {Present(c) : c \in dhcpBak}

LEMMA InitStore == Init => Store!Init
<1> SUFFICES ASSUME Init PROVE Store!Init OBVIOUS
<1>1. \A r \in Request : leasePc[r] # "fill" BY DEF Init
<1>2. Effective = dhcp BY <1>1, EffectiveFile
<1>3. dhcp.leases \subseteq Lease BY InitContent, ContentParts
<1>4. Present(dhcp) \in SUBSET [mac : Mac, ip : Ip] BY <1>3 DEF Present, Lease, Parsed
<1>5. dhcpBak = {} /\ void = FALSE BY DEF Init
<1> QED BY <1>2, <1>4, <1>5 DEF Store!Init, Store!Entry

\* A step that leaves the contents in force and the .bak alone is a stutter.
LEMMA BeginStutters ==
    ASSUME Types, NEW r \in Request, NEW new, Begin(r, new), Alone
    PROVE  UNCHANGED <<Entries, Saved>>
<1>1. \A q \in Request : leasePc[q] # "fill" /\ leasePc'[q] # "fill" BY DEF Begin, Types, Alone, Idle
<1>2. Effective = dhcp BY <1>1, EffectiveFile
<1>3. Effective' = dhcp' BY <1>1 DEF Effective
<1>4. dhcp' = dhcp /\ dhcpBak' = dhcpBak BY DEF Begin
<1> QED BY <1>2, <1>3, <1>4 DEF Entries, Saved, Present, Parsed

\* The step at which an edit takes effect.
LEMMA TruncateIsChange ==
    ASSUME Types, UniqueEverywhere, Orderly, ~void, NEW r \in Request, Truncate(r), Entries' # Entries
    PROVE  \E e \in [mac : Mac, ip : Ip] :
              \/ /\ \A f \in Entries : f.mac # e.mac /\ f.ip # e.ip
                 /\ Entries' = Entries \cup {e}
              \/ Entries' = Entries \ {e}
<1>1. leasePc[r] = "truncate" BY DEF Truncate
<1>2. \A q \in Request : q # r => leasePc[q] = "idle" BY <1>1, LoneRequest DEF Orderly
<1>3. \A q \in Request : leasePc[q] # "fill" BY <1>1, <1>2
<1>4. leasePc'[r] = "fill" /\ \A q \in Request : leasePc'[q] = "fill" => q = r
  BY <1>2 DEF Truncate, Types
<1>5. Effective = dhcp BY <1>3, EffectiveFile
<1>6. Effective' = leaseCopy'[r] BY <1>4 DEF Effective
<1>7. leaseCopy' = leaseCopy BY DEF Truncate
<1>8. Entries = Present(dhcp) /\ Entries' = Present(leaseCopy[r]) BY <1>5, <1>6, <1>7 DEF Entries, Present, Parsed
<1>9. OneMore(leaseCopy[r], dhcp) \/ OneLess(leaseCopy[r], dhcp) BY <1>1 DEF Orderly, OneChange
<1>10. dhcp \in Content /\ Unique(dhcp) BY DEF Types, UniqueEverywhere
<1> QED BY <1>8, <1>9, <1>10, ChangeIsStep

LEMMA FillStutters ==
    ASSUME Types, Orderly, ~void, NEW r \in Request, Fill(r)
    PROVE  UNCHANGED <<Entries, Saved>>
<1>1. leasePc[r] = "fill" BY DEF Fill
<1>2. \A q \in Request : q # r => leasePc[q] = "idle" BY <1>1, LoneRequest DEF Orderly
<1>3. Effective = leaseCopy[r] BY <1>1, <1>2, EffectiveCopy
<1>4. \A q \in Request : leasePc'[q] # "fill" BY <1>2 DEF Fill, Types
<1>5. Effective' = dhcp' BY <1>4 DEF Effective
<1>6. dhcp' = leaseCopy[r] /\ dhcpBak' = dhcpBak BY DEF Fill
<1> QED BY <1>3, <1>5, <1>6 DEF Entries, Saved, Present, Parsed

LEMMA FailureStutters ==
    ASSUME Types, Orderly, NEW r \in Request, WriteFails(r), ~void'
    PROVE  UNCHANGED <<Entries, Saved>>
<1>1. ~void /\ leasePc[r] # "fill" /\ leasePc[r] # "idle" BY DEF WriteFails
<1>2. \A q \in Request : q # r => leasePc[q] = "idle" BY <1>1, LoneRequest DEF Orderly
<1>3. \A q \in Request : leasePc[q] # "fill" BY <1>1, <1>2
<1>4. \A q \in Request : leasePc'[q] # "fill" BY <1>2 DEF WriteFails, Types
<1>5. Effective = dhcp BY <1>3, EffectiveFile
<1>6. Effective' = dhcp' BY <1>4 DEF Effective
<1>7. dhcp' = dhcp /\ dhcpBak' = dhcpBak BY DEF WriteFails
<1> QED BY <1>5, <1>6, <1>7 DEF Entries, Saved, Present, Parsed

LEMMA HoldEffective ==
    ASSUME Idle, UNCHANGED leaseRequest
    PROVE  Entries = Present(dhcp) /\ Entries' = Present(dhcp')
<1>1. \A q \in Request : leasePc[q] # "fill" /\ leasePc'[q] # "fill" BY DEF Idle, leaseRequest
<1>2. Effective = dhcp BY <1>1, EffectiveFile
<1>3. Effective' = dhcp' BY <1>1 DEF Effective
<1> QED BY <1>2, <1>3 DEF Entries, Present, Parsed

LEMMA StepStore ==
    Types /\ UniqueEverywhere /\ Orderly /\ [Next]_vars => [Store!Next]_<<Entries, Saved, void>>
<1> SUFFICES ASSUME Types, UniqueEverywhere, Orderly, [Next]_vars
             PROVE  Store!Next \/ UNCHANGED <<Entries, Saved, void>>
  OBVIOUS
<1>0. Types' BY StepTypes
<1>1. CASE void'
  <2>1. void' = TRUE BY <1>1, <1>0 DEF Types
  <2>2. Store!Void BY <2>1 DEF Store!Void
  <2> QED BY <2>2 DEF Store!Next
<1>2. CASE ~void'
  <2>1. ASSUME ~void, UNCHANGED <<Entries, Saved>> PROVE UNCHANGED <<Entries, Saved, void>>
    BY <1>2, <1>0, <2>1 DEF Types
  <2>2. ASSUME NEW r \in Request, Add(r) PROVE UNCHANGED <<Entries, Saved, void>>
    BY <1>2, <2>1, <2>2, AddOne, BeginStutters
  <2>3. ASSUME NEW r \in Request, Remove(r) PROVE UNCHANGED <<Entries, Saved, void>>
    BY <1>2, <2>1, <2>3, RemoveOne, BeginStutters
  <2>4. ASSUME NEW r \in Request, Truncate(r) PROVE Store!Next \/ UNCHANGED <<Entries, Saved, void>>
    <3>1. void' = void /\ ~void /\ dhcpBak' = dhcpBak BY <1>2, <2>4 DEF Truncate
    <3>2. Saved' = Saved BY <3>1 DEF Saved
    <3>3. CASE Entries' = Entries BY <3>1, <3>2, <3>3
    <3>4. CASE Entries' # Entries
      <4>1. PICK e \in [mac : Mac, ip : Ip] :
              \/ /\ \A f \in Entries : f.mac # e.mac /\ f.ip # e.ip
                 /\ Entries' = Entries \cup {e}
              \/ Entries' = Entries \ {e}
        BY <2>4, <3>1, <3>4, TruncateIsChange
      <4>2. Store!Add(e) \/ Store!Remove(e)
        BY <3>1, <3>2, <4>1 DEF Store!Add, Store!Remove, Entries, Saved
      <4> QED BY <3>4, <4>2 DEF Store!Next, Store!Entry, Entries
    <3> QED BY <3>3, <3>4
  <2>5. ASSUME NEW r \in Request, Fill(r) PROVE UNCHANGED <<Entries, Saved, void>>
    <3>1. ~void BY <1>2, <2>5 DEF Fill
    <3> QED BY <2>1, <2>5, <3>1, FillStutters
  <2>6. ASSUME NEW r \in Request, WriteFails(r) PROVE UNCHANGED <<Entries, Saved, void>>
    <3>1. ~void BY <1>2, <2>6 DEF WriteFails
    <3> QED BY <1>2, <2>1, <2>6, <3>1, FailureStutters
  <2>7. ASSUME StageRead PROVE UNCHANGED <<Entries, Saved, void>>
    <3>1. ~void /\ Idle BY <1>2, <2>7 DEF StageRead
    <3>2. UNCHANGED <<dhcp, dhcpBak, leaseRequest>> BY <2>7 DEF StageRead
    <3>3. UNCHANGED <<Entries, Saved>> BY <3>1, <3>2, HoldEffective DEF Saved
    <3> QED BY <2>1, <3>1, <3>3
  <2>8. ASSUME StageWrite PROVE Store!Next
    <3>1. ~void /\ void' = void /\ trial = "read" BY <1>2, <2>8 DEF StageWrite
    <3>2. Idle /\ trialCopy.leases = dhcp.leases BY <3>1 DEF Orderly, ReadIsCurrent
    <3>3. dhcpBak' = {dhcp} /\ dhcp' = trialCopy /\ UNCHANGED leaseRequest BY <2>8 DEF StageWrite
    <3>4. Entries = Present(dhcp) /\ Entries' = Present(dhcp') BY <3>2, <3>3, HoldEffective
    <3>5. Entries' = Entries BY <3>2, <3>3, <3>4 DEF Present, Parsed
    <3>6. Saved' = {Entries} BY <3>3, <3>4 DEF Saved
    <3>7. Store!Save BY <3>1, <3>5, <3>6 DEF Store!Save, Entries, Saved
    <3> QED BY <3>7 DEF Store!Next
  <2>9. ASSUME Confirm PROVE Store!Next
    <3>1. void' = void /\ dhcpBak' = {} /\ UNCHANGED <<dhcp, leasePc, leaseCopy>>
      BY <2>9 DEF Confirm, leaseRequest
    <3>2. Entries' = Entries BY <3>1 DEF Entries, Effective
    <3>3. Saved' = {} BY <3>1 DEF Saved
    <3>4. Store!Discard BY <3>1, <3>2, <3>3 DEF Store!Discard, Entries, Saved
    <3> QED BY <3>4 DEF Store!Next
  <2>10. ASSUME Revert PROVE Store!Next
    <3>1. ~void /\ Idle BY <1>2, <2>10 DEF Revert
    <3>2. void' = void BY <1>0, <1>2, <3>1 DEF Types
    <3>3. dhcp' \in dhcpBak /\ dhcpBak' = {} /\ UNCHANGED leaseRequest BY <2>10 DEF Revert
    <3>4. Entries' = Present(dhcp') BY <3>1, <3>3, HoldEffective
    <3>5. Entries' \in Saved /\ Saved' = {} BY <3>3, <3>4 DEF Saved
    <3>6. Store!Restore BY <3>2, <3>5 DEF Store!Restore, Entries, Saved
    <3> QED BY <3>6 DEF Store!Next
  <2>11. ASSUME UNCHANGED vars PROVE UNCHANGED <<Entries, Saved, void>>
    <3>1. UNCHANGED <<dhcp, dhcpBak, leasePc, leaseCopy, void>> BY <2>11 DEF vars, leaseRequest
    <3> QED BY <3>1 DEF Entries, Effective, Saved
  <2>12. ASSUME StageRefused PROVE UNCHANGED vars BY <2>12 DEF StageRefused
  <2> QED BY <2>2, <2>3, <2>4, <2>5, <2>6, <2>7, <2>8, <2>9, <2>10, <2>11, <2>12 DEF Next
<1> QED BY <1>1, <1>2

\* The file of static leases implements the store of LeaseStore: the edit takes
\* effect when the request truncates the file, a hold saves and a rollback
\* restores.  Orderly is what makes it so: as long as nobody has come between
\* another's read and write, what is written differs by the one lease named.
THEOREM LeaseFileIsStore == LeaseSpec => ImplementsLeaseStore
<1>1. Init => Orderly /\ Store!Init BY InitOrderly, InitStore
<1>2. Types /\ Orderly /\ [Next]_vars => Orderly' BY StepOrderly
<1>3. Types /\ UniqueEverywhere /\ Orderly /\ [Next]_vars
        => [Store!Next]_<<Present(Effective), {Present(c) : c \in dhcpBak}, void>>
  BY StepStore DEF Entries, Saved
<1>4. Init => UniqueEverywhere BY InitUnique
<1>5. Types /\ UniqueEverywhere /\ [Next]_vars => UniqueEverywhere' BY StepUnique
<1> QED BY <1>1, <1>2, <1>3, <1>4, <1>5, LeaseTypes, PTL DEF LeaseSpec, ImplementsLeaseStore, Store!Spec

-----------------------------------------------------------------------------
(* The monitor mode.                                                       *)

MonitorSteps == {"idle", "to monitor", "record", "refresh", "to managed", "clear", "scanned"}

\* A request that is to change the adapter, to put it on record or to store a
\* scan has read one.
Holding ==
    /\ monPc \in [Request -> MonitorSteps] /\ held \in [Request -> SUBSET Adapter]
    /\ \A r \in Request : monPc[r] \in {"to monitor", "record", "scanned"} => held[r] # {}
    /\ plugged \in SUBSET Adapter /\ iface \in SUBSET Adapter

LEMMA HoldingInit == Mon!MonitorInit => Holding /\ Mon!ScanOnlyWhenOn
BY DEF Mon!MonitorInit, Holding, MonitorSteps, Mon!ScanOnlyWhenOn

LEMMA HoldingStep ==
    Holding /\ Mon!ScanOnlyWhenOn /\ [Mon!MonitorNext]_Mon!monitorVars
        => Holding' /\ Mon!ScanOnlyWhenOn'
<1> SUFFICES ASSUME Holding, Mon!ScanOnlyWhenOn, [Mon!MonitorNext]_Mon!monitorVars
             PROVE  Holding' /\ Mon!ScanOnlyWhenOn'
  OBVIOUS
<1> USE DEF Holding, Mon!ScanOnlyWhenOn, MonitorSteps
<1>1. CASE UNCHANGED Mon!monitorVars
  BY <1>1 DEF Mon!monitorVars, Mon!locked
<1>2. ASSUME NEW r \in Request, Mon!Enable(r) PROVE Holding' /\ Mon!ScanOnlyWhenOn'
  BY <1>2 DEF Mon!Enable, Mon!Step, Mon!Hold, Mon!locked
<1>3. ASSUME NEW r \in Request, Mon!ToMonitor(r) PROVE Holding' /\ Mon!ScanOnlyWhenOn'
  BY <1>3 DEF Mon!ToMonitor, Mon!Step, Mon!Hold, Mon!locked
<1>4. ASSUME NEW r \in Request, Mon!Record(r) PROVE Holding' /\ Mon!ScanOnlyWhenOn'
  BY <1>4 DEF Mon!Record, Mon!Step, Mon!Hold
<1>5. ASSUME NEW r \in Request, Mon!Disable(r) \/ Mon!ToManaged(r) \/ Mon!Clear(r)
      PROVE  Holding' /\ Mon!ScanOnlyWhenOn'
  BY <1>5 DEF Mon!Disable, Mon!ToManaged, Mon!Clear, Mon!Step, Mon!Hold, Mon!locked
<1>6. ASSUME NEW r \in Request, Mon!Get(r) \/ Mon!Refresh(r)
      PROVE  Holding' /\ Mon!ScanOnlyWhenOn'
  BY <1>6 DEF Mon!Get, Mon!Refresh, Mon!Step, Mon!Hold, Mon!locked
<1>7. ASSUME NEW r \in Request, Mon!StoreScan(r) PROVE Holding' /\ Mon!ScanOnlyWhenOn'
  BY <1>7 DEF Mon!StoreScan, Mon!Step, Mon!Hold
<1>8. CASE Mon!Plug
  BY <1>8 DEF Mon!Plug, Mon!locked
<1>9. QED
  BY <1>1, <1>2, <1>3, <1>4, <1>5, <1>6, <1>7, <1>8 DEF Mon!MonitorNext

\* However many requests enable, disable and scan at once: networks are listed
\* only while the monitor is on, and an adapter is on record exactly then.
THEOREM ScansOnlyWhileOn == Mon!MonitorSpec => []ScanOnlyWhenOn
<1>1. Mon!ScanOnlyWhenOn => ScanOnlyWhenOn
  BY DEF ScanOnlyWhenOn
<1>2. QED
  BY <1>1, HoldingInit, HoldingStep, PTL DEF Mon!MonitorSpec

-----------------------------------------------------------------------------
(* The bans.                                                               *)

Verifying == {r \in Request : attempt[r] = "verify"}

\* While a ban runs, the logins answered since and those past the check leave
\* out the one whose failure set it.
BanCounted ==
    /\ attempt \in [Request -> {"idle", "verify"}]
    /\ sinceBan \in Nat /\ sinceBan <= Cardinality(Request) - 1
    /\ banned # 0 => sinceBan + Cardinality(Verifying) <= Cardinality(Request) - 1

LEMMA VerifyingCounts ==
    ASSUME IsFiniteSet(Request), NEW r \in Request, r \in Verifying,
           NEW V, V = Verifying \ {r}
    PROVE  /\ Cardinality(Verifying) \in Nat /\ Cardinality(V) = Cardinality(Verifying) - 1
           /\ Cardinality(Request) \in Nat /\ Cardinality(V) <= Cardinality(Request) - 1
<1>1. Verifying \subseteq Request
  BY DEF Verifying
<1>2. IsFiniteSet(Verifying) /\ Cardinality(Verifying) <= Cardinality(Request)
      /\ Cardinality(Request) \in Nat /\ Cardinality(Verifying) \in Nat
  BY <1>1, FS_Subset, FS_CardinalityType
<1>3. Cardinality(V) = Cardinality(Verifying) - 1
  BY <1>2, FS_RemoveElement
<1>4. QED
  BY <1>2, <1>3

LEMMA BanCountedInit ==
    ASSUME IsFiniteSet(Request), Request # {}
    PROVE  Limits!Init => BanCounted
<1>1. Cardinality(Request) \in Nat /\ Cardinality(Request) # 0
  BY FS_CardinalityType, FS_EmptySet
<1>2. QED
  BY <1>1 DEF Limits!Init, BanCounted

LEMMA BanCountedStep ==
    ASSUME IsFiniteSet(Request), Request # {}
    PROVE  BanCounted /\ [Limits!Next]_Limits!vars => BanCounted'
<1> SUFFICES ASSUME BanCounted, [Limits!Next]_Limits!vars PROVE BanCounted'
  OBVIOUS
<1> USE DEF BanCounted
<1>1. CASE UNCHANGED <<attempt, sinceBan, banned>>
  BY <1>1 DEF Verifying
<1>2. CASE Limits!Tick
  <2>1. UNCHANGED attempt /\ sinceBan' = (IF banned' = 0 THEN 0 ELSE sinceBan)
        /\ (banned' # 0 => banned # 0)
    BY <1>2 DEF Limits!Tick
  <2>2. Verifying' = Verifying
    BY <2>1 DEF Verifying
  <2>3. Cardinality(Request) \in Nat /\ Cardinality(Request) # 0
    BY FS_CardinalityType, FS_EmptySet
  <2>4. QED
    BY <2>1, <2>2, <2>3
<1>3. ASSUME NEW r \in Request, Limits!Enter(r) PROVE BanCounted'
  BY <1>3 DEF Limits!Enter, Limits!bans
<1>4. ASSUME NEW r \in Request, Limits!Failed(r) \/ Limits!Succeeded(r) PROVE BanCounted'
  <2>1. r \in Verifying /\ attempt' = [attempt EXCEPT ![r] = "idle"]
    BY <1>4 DEF Limits!Failed, Limits!Succeeded, Verifying
  <2>2. Verifying' = Verifying \ {r}
    BY <2>1 DEF Verifying
  <2>3. /\ Cardinality(Verifying) \in Nat /\ Cardinality(Verifying') = Cardinality(Verifying) - 1
        /\ Cardinality(Request) \in Nat /\ Cardinality(Verifying') <= Cardinality(Request) - 1
    BY <2>1, <2>2, VerifyingCounts
  <2>4. Cardinality(Verifying') \in Nat
    <3>1. IsFiniteSet(Verifying')
      BY <2>2, FS_Subset DEF Verifying
    <3>2. QED
      BY <3>1, FS_CardinalityType
  <2>5. sinceBan' = 0 \/ (banned # 0 /\ sinceBan' = sinceBan + 1)
    BY <1>4 DEF Limits!Failed, Limits!Succeeded
  <2>6. attempt' \in [Request -> {"idle", "verify"}]
    BY <2>1
  <2>7. QED
    BY <2>3, <2>4, <2>5, <2>6
<1>5. CASE Limits!Ask \/ UNCHANGED Limits!vars
  BY <1>1, <1>5 DEF Limits!Ask, Limits!vars, Limits!bans
<1>6. QED
  BY <1>2, <1>3, <1>4, <1>5 DEF Limits!Next

\* While a ban runs, no more logins are answered than were past its check, for
\* any number of logins at once and any limits.
THEOREM BansHold == Limits!LimitSpec => []BanHolds
<1>1. BanCounted => BanHolds
  <2>1. Limits!Cardinality(Request) = Cardinality(Request)
    BY DEF Limits!Cardinality, Cardinality
  <2>2. QED
    BY <2>1 DEF BanCounted, BanHolds, Limits!BanHolds
<1>2. Limits!Init => BanCounted
  BY BanCountedInit, LimitsAssumption
<1>3. BanCounted /\ [Limits!Next]_Limits!vars => BanCounted'
  BY BanCountedStep, LimitsAssumption
<1>4. QED
  BY <1>1, <1>2, <1>3, PTL DEF Limits!LimitSpec

-----------------------------------------------------------------------------
(* The windows of the rate limiter and of the login counter.               *)

\* The sums that Recent runs through.
SumsTo(f, h, n) == f = [t \in 0..n |-> IF t = 0 THEN 0 ELSE f[t - 1] + h[t]]

LEMMA SumsExist == ASSUME NEW h, NEW m \in Nat PROVE \E f : SumsTo(f, h, m)
<1> DEFINE T == {n \in Nat : \E f : SumsTo(f, h, n)}
<1>1. 0 \in T
  <2> DEFINE f == [t \in 0..0 |-> 0]
  <2>1. SumsTo(f, h, 0)
    BY DEF SumsTo
  <2>2. QED
    BY <2>1
<1>2. ASSUME NEW n \in Nat, n \in T PROVE n + 1 \in T
  <2>1. PICK f : SumsTo(f, h, n)
    BY <1>2
  <2> DEFINE final == f[n] + h[n + 1]
             g == [t \in 0..n + 1 |-> IF t = n + 1 THEN final ELSE f[t]]
  <2>2. ASSUME NEW t \in 0..n + 1 PROVE g[t] = IF t = 0 THEN 0 ELSE g[t - 1] + h[t]
    <3>1. CASE t = n + 1
      <4>1. g[t] = final /\ g[t - 1] = f[n]
        BY <3>1
      <4> HIDE DEF g
      <4>2. QED
        BY <3>1, <4>1
    <3>2. CASE t \in 0..n
      <4>1. g[t] = f[t] /\ (t # 0 => g[t - 1] = f[t - 1])
        BY <3>2
      <4> HIDE DEF g
      <4>2. f[t] = IF t = 0 THEN 0 ELSE f[t - 1] + h[t]
        BY <2>1, <3>2 DEF SumsTo
      <4>3. QED
        BY <4>1, <4>2
    <3>3. QED
      BY <3>1, <3>2
  <2>3. g = [t \in 0..n + 1 |-> IF t = 0 THEN 0 ELSE g[t - 1] + h[t]]
    BY <2>2
  <2>4. SumsTo(g, h, n + 1)
    BY <2>3 DEF SumsTo
  <2>5. QED
    BY <2>4
<1>3. Nat \subseteq T
  <2> HIDE DEF T
  <2>1. QED
    BY <1>1, <1>2, NatSetInduction
<1>4. QED
  BY <1>3

LEMMA RecentIsSum ==
    ASSUME NEW h, NEW n \in Nat
    PROVE  \E f : SumsTo(f, h, n) /\ Limits!Recent(h, n) = f[n]
<1> DEFINE f == CHOOSE f : f = [t \in 0..n |-> IF t = 0 THEN 0 ELSE f[t - 1] + h[t]]
<1>1. \E g : SumsTo(g, h, n)
  BY SumsExist
<1>2. Limits!Recent(h, n) = f[n]
  BY Zenon DEF Limits!Recent
<1>3. SumsTo(f, h, n)
  BY <1>1, Zenon DEF SumsTo
<1> HIDE DEF f
<1>4. QED
  BY <1>2, <1>3

LEMMA RecentNone == ASSUME NEW h PROVE Limits!Recent(h, 0) = 0
BY RecentIsSum DEF SumsTo

LEMMA RecentNext ==
    ASSUME NEW h, NEW n \in Nat
    PROVE  Limits!Recent(h, n + 1) = Limits!Recent(h, n) + h[n + 1]
<1>1. PICK f : SumsTo(f, h, n) /\ Limits!Recent(h, n) = f[n]
  BY RecentIsSum
<1>2. PICK g : SumsTo(g, h, n + 1) /\ Limits!Recent(h, n + 1) = g[n + 1]
  BY RecentIsSum
<1> DEFINE T == {t \in Nat : t <= n => f[t] = g[t]}
<1>3. 0 \in T
  BY <1>1, <1>2 DEF SumsTo
<1>4. ASSUME NEW t \in Nat, t \in T PROVE t + 1 \in T
  <2> SUFFICES ASSUME t + 1 <= n PROVE f[t + 1] = g[t + 1]
    OBVIOUS
  <2>1. f[t] = g[t] /\ t + 1 \in 0..n /\ t + 1 \in 0..n + 1 /\ t + 1 # 0 /\ (t + 1) - 1 = t
    BY <1>4
  <2>2. f[t + 1] = f[t] + h[t + 1]
    BY <1>1, <2>1 DEF SumsTo
  <2>3. g[t + 1] = g[t] + h[t + 1]
    BY <1>2, <2>1 DEF SumsTo
  <2>4. QED
    BY <2>1, <2>2, <2>3
<1>5. f[n] = g[n]
  <2>1. Nat \subseteq T
    <3> HIDE DEF T
    <3>1. QED
      BY <1>3, <1>4, NatSetInduction
  <2>2. QED
    BY <2>1
<1>6. g[n + 1] = g[n] + h[n + 1]
  <2>1. n + 1 \in 0..n + 1 /\ n + 1 # 0 /\ (n + 1) - 1 = n
    OBVIOUS
  <2>2. QED
    BY <1>2, <2>1 DEF SumsTo
<1>7. QED
  BY <1>1, <1>2, <1>5, <1>6

History == [1..Window -> Nat]

LEMMA RecentType == ASSUME NEW h \in History, NEW n \in 0..Window PROVE Limits!Recent(h, n) \in Nat
<1> DEFINE T == {t \in Nat : t <= Window => Limits!Recent(h, t) \in Nat}
<1>1. 0 \in T
  BY RecentNone
<1>2. ASSUME NEW t \in Nat, t \in T PROVE t + 1 \in T
  <2> SUFFICES ASSUME t + 1 <= Window PROVE Limits!Recent(h, t + 1) \in Nat
    OBVIOUS
  <2>1. h[t + 1] \in Nat /\ Limits!Recent(h, t) \in Nat
    BY <1>2, LimitsAssumption DEF History
  <2>2. QED
    BY <2>1, RecentNext
<1>3. Nat \subseteq T
  <2> HIDE DEF T
  <2>1. QED
    BY <1>1, <1>2, NatSetInduction
<1>4. QED
  BY <1>3, LimitsAssumption

\* More ticks have seen more.
LEMMA RecentGrows ==
    ASSUME NEW h \in History, NEW n \in 0..Window, NEW m \in 0..n
    PROVE  Limits!Recent(h, m) <= Limits!Recent(h, n)
<1> DEFINE T == {t \in Nat : m + t <= Window => Limits!Recent(h, m) <= Limits!Recent(h, m + t)}
<1>0. Window \in Nat
  BY LimitsAssumption
<1>1. 0 \in T
  <2>1. m + 0 = m /\ Limits!Recent(h, m) \in Nat
    BY <1>0, RecentType
  <2>2. QED
    BY <2>1
<1>2. ASSUME NEW t \in Nat, t \in T PROVE t + 1 \in T
  <2> SUFFICES ASSUME m + t + 1 <= Window PROVE Limits!Recent(h, m) <= Limits!Recent(h, m + (t + 1))
    <3>1. m + (t + 1) = m + t + 1
      OBVIOUS
    <3>2. QED
      BY <3>1
  <2>1. Limits!Recent(h, m) <= Limits!Recent(h, m + t)
    BY <1>0, <1>2
  <2>2. Limits!Recent(h, m + t + 1) = Limits!Recent(h, m + t) + h[m + t + 1]
    BY RecentNext
  <2>3. h[m + t + 1] \in Nat /\ Limits!Recent(h, m + t) \in Nat /\ Limits!Recent(h, m) \in Nat
    <3>1. m + t \in 0..Window /\ m + t + 1 \in 1..Window /\ m \in 0..Window
      BY <1>0
    <3>2. QED
      BY <3>1, RecentType DEF History
  <2>4. m + (t + 1) = m + t + 1
    OBVIOUS
  <2>5. QED
    BY <2>1, <2>2, <2>3, <2>4
<1>3. n - m \in T
  <2>1. Nat \subseteq T
    <3> HIDE DEF T
    <3>1. QED
      BY <1>1, <1>2, NatSetInduction
  <2>2. QED
    BY <1>0, <2>1
<1>4. m + (n - m) = n
  BY <1>0
<1>5. QED
  BY <1>0, <1>3, <1>4

\* A tick moves every event one tick back.
LEMMA RecentShifted ==
    ASSUME NEW h \in History, NEW g, g = Limits!Shifted(h)
    PROVE  /\ g \in History /\ g[1] = 0
           /\ \A n \in 0..Window - 1 : Limits!Recent(g, n + 1) = Limits!Recent(h, n)
           /\ \A n \in 1..Window - 1 : g[n + 1] = h[n]
<1>0. Window \in Nat /\ Window > 0
  BY LimitsAssumption
<1>1. g \in History /\ g[1] = 0 /\ \A n \in 1..Window - 1 : g[n + 1] = h[n]
  BY <1>0 DEF History, Limits!Shifted
<1> DEFINE T == {t \in Nat : t <= Window - 1 => Limits!Recent(g, t + 1) = Limits!Recent(h, t)}
<1>2. 0 \in T
  <2>1. Limits!Recent(g, 0 + 1) = Limits!Recent(g, 0) + g[0 + 1]
    BY RecentNext
  <2>2. 0 + 1 = 1
    OBVIOUS
  <2>3. Limits!Recent(g, 0 + 1) = 0
    BY <1>1, <2>1, <2>2, RecentNone
  <2>4. QED
    BY <2>3, RecentNone
<1>3. ASSUME NEW t \in Nat, t \in T PROVE t + 1 \in T
  <2> SUFFICES ASSUME t + 1 <= Window - 1 PROVE Limits!Recent(g, (t + 1) + 1) = Limits!Recent(h, t + 1)
    OBVIOUS
  <2>1. Limits!Recent(g, t + 1) = Limits!Recent(h, t)
    BY <1>0, <1>3
  <2>2. Limits!Recent(g, (t + 1) + 1) = Limits!Recent(g, t + 1) + g[(t + 1) + 1]
    BY RecentNext
  <2>3. Limits!Recent(h, t + 1) = Limits!Recent(h, t) + h[t + 1]
    BY RecentNext
  <2>4. g[(t + 1) + 1] = h[t + 1]
    BY <1>0, <1>1
  <2>5. QED
    BY <2>1, <2>2, <2>3, <2>4
<1>4. Nat \subseteq T
  <2> HIDE DEF T
  <2>1. QED
    BY <1>2, <1>3, NatSetInduction
<1>5. \A n \in 0..Window - 1 : Limits!Recent(g, n + 1) = Limits!Recent(h, n)
  BY <1>0, <1>4
<1>6. QED
  BY <1>1, <1>5

More(h) == [h EXCEPT ![1] = @ + 1]

\* One more event in this tick is one more in any span up to now.
LEMMA RecentMore ==
    ASSUME NEW h \in History, NEW g, g = More(h)
    PROVE  /\ g \in History /\ g[1] = h[1] + 1 /\ \A n \in 2..Window : g[n] = h[n]
           /\ \A n \in 1..Window : Limits!Recent(g, n) = Limits!Recent(h, n) + 1
<1>0. Window \in Nat /\ Window > 0
  BY LimitsAssumption
<1>1. g \in History /\ g[1] = h[1] + 1 /\ \A n \in 2..Window : g[n] = h[n]
  BY <1>0 DEF History, More
<1>a. \A n \in Nat : Limits!Recent(g, n + 1) = Limits!Recent(g, n) + g[n + 1]
  BY RecentNext
<1> DEFINE T == {t \in Nat : t <= Window - 1 => Limits!Recent(g, t + 1) = Limits!Recent(h, t + 1) + 1}
<1>2. 0 \in T
  <2>1. Limits!Recent(g, 0 + 1) = Limits!Recent(g, 0) + g[0 + 1]
    BY RecentNext
  <2>2. Limits!Recent(h, 0 + 1) = Limits!Recent(h, 0) + h[0 + 1]
    BY RecentNext
  <2>3. 0 + 1 = 1 /\ h[1] \in Nat
    BY <1>0 DEF History
  <2>4. QED
    BY <1>1, <2>1, <2>2, <2>3, RecentNone
<1>3. ASSUME NEW t \in Nat, t \in T PROVE t + 1 \in T
  <2> SUFFICES ASSUME t + 1 <= Window - 1
               PROVE  Limits!Recent(g, (t + 1) + 1) = Limits!Recent(h, (t + 1) + 1) + 1
    OBVIOUS
  <2>1. Limits!Recent(g, t + 1) = Limits!Recent(h, t + 1) + 1
    BY <1>0, <1>3
  <2>2. Limits!Recent(g, (t + 1) + 1) = Limits!Recent(g, t + 1) + g[(t + 1) + 1]
    <3>1. t + 1 \in Nat
      OBVIOUS
    <3>2. QED
      BY <1>a, <3>1
  <2>3. Limits!Recent(h, (t + 1) + 1) = Limits!Recent(h, t + 1) + h[(t + 1) + 1]
    BY RecentNext
  <2>4. g[(t + 1) + 1] = h[(t + 1) + 1] /\ h[(t + 1) + 1] \in Nat
    BY <1>0, <1>1 DEF History
  <2>5. Limits!Recent(h, t + 1) \in Nat
    BY <1>0, RecentType
  <2>6. QED
    BY <2>1, <2>2, <2>3, <2>4, <2>5
<1>4. Nat \subseteq T
  <2> HIDE DEF T
  <2>1. QED
    BY <1>2, <1>3, NatSetInduction
<1>5. ASSUME NEW n \in 1..Window PROVE Limits!Recent(g, n) = Limits!Recent(h, n) + 1
  <2>1. n - 1 \in T
    <3>1. n - 1 \in Nat
      BY <1>0
    <3> HIDE DEF T
    <3>2. QED
      BY <1>4, <3>1
  <2>2. (n - 1) + 1 = n
    BY <1>0
  <2>3. QED
    BY <1>0, <2>1, <2>2
<1>6. QED
  BY <1>1, <1>5

LEMMA RecentOfNone ==
    /\ Limits!None \in History /\ \A t \in 1..Window : Limits!None[t] = 0
    /\ \A n \in 0..Window : Limits!Recent(Limits!None, n) = 0
<1> DEFINE h == Limits!None
           T == {t \in Nat : t <= Window => Limits!Recent(h, t) = 0}
<1>0. Window \in Nat
  BY LimitsAssumption
<1>1. h \in History /\ \A t \in 1..Window : h[t] = 0
  BY DEF Limits!None, History
<1> HIDE DEF h
<1>2. 0 \in T
  BY RecentNone
<1>3. ASSUME NEW t \in Nat, t \in T PROVE t + 1 \in T
  <2> SUFFICES ASSUME t + 1 <= Window PROVE Limits!Recent(h, t + 1) = 0
    OBVIOUS
  <2>1. Limits!Recent(h, t + 1) = Limits!Recent(h, t) + h[t + 1]
    BY RecentNext
  <2>2. h[t + 1] = 0 /\ Limits!Recent(h, t) = 0
    BY <1>0, <1>1, <1>3
  <2>3. QED
    BY <2>1, <2>2
<1>4. Nat \subseteq T
  <2> HIDE DEF T
  <2>1. QED
    BY <1>2, <1>3, NatSetInduction
<1>5. QED
  BY <1>0, <1>1, <1>4 DEF h

\* A counter reads n in a window open for a ticks, of which the first has an
\* event; of the last k ticks, those before the window have seen rest at most.
\* When no window is open this tick has seen nothing, and the last k rest at most.
Counting(h, a, n, k, rest) ==
    IF a < Window
    THEN /\ a + 1 <= k /\ h[a + 1] >= 1
         /\ Limits!Recent(h, a + 1) = n
         /\ Limits!Recent(h, k) <= n + rest
    ELSE h[1] = 0 /\ Limits!Recent(h, k) <= rest

LEMMA CountTick ==
    ASSUME NEW h \in History, NEW a \in 0..Window, NEW n \in Nat, NEW k \in 1..Window,
           NEW rest \in Nat, n <= rest + 1, Counting(h, a, n, k, rest),
           NEW g, g = Limits!Shifted(h),
           NEW j \in 1..Window, j = k + 1 \/ (k = Window /\ j = k)
    PROVE  Counting(g, Limits!Older(a), n, j, rest)
<1>0. Window \in Nat /\ Window > 0
  BY LimitsAssumption
<1>1. /\ g \in History /\ g[1] = 0
      /\ \A m \in 0..Window - 1 : Limits!Recent(g, m + 1) = Limits!Recent(h, m)
      /\ \A m \in 1..Window - 1 : g[m + 1] = h[m]
  BY RecentShifted
<1>2. Limits!Recent(g, j) <= Limits!Recent(h, k)
  <2>1. j - 1 \in 0..k /\ j - 1 \in 0..Window - 1 /\ (j - 1) + 1 = j /\ k \in 0..Window
    BY <1>0
  <2>2. Limits!Recent(g, j) = Limits!Recent(h, j - 1)
    BY <1>1, <2>1
  <2>3. Limits!Recent(h, j - 1) <= Limits!Recent(h, k)
    BY <2>1, RecentGrows
  <2>4. QED
    BY <2>2, <2>3
<1>3. Limits!Recent(g, j) \in Nat /\ Limits!Recent(h, k) \in Nat
  <2>1. j \in 0..Window /\ k \in 0..Window
    BY <1>0
  <2>2. QED
    BY <1>1, <2>1, RecentType
<1>4. CASE a = Window
  <2>1. h[1] = 0 /\ Limits!Recent(h, k) <= rest /\ Limits!Older(a) = Window
    BY <1>0, <1>4 DEF Counting, Limits!Older
  <2>2. QED
    BY <1>0, <1>1, <1>2, <1>3, <2>1 DEF Counting
<1>5. CASE a < Window /\ a + 1 < Window
  <2>1. /\ Limits!Older(a) = a + 1 /\ a + 1 <= k /\ h[a + 1] >= 1
        /\ Limits!Recent(h, a + 1) = n /\ Limits!Recent(h, k) <= n + rest
    BY <1>5 DEF Counting, Limits!Older
  <2>2. Limits!Recent(g, (a + 1) + 1) = n /\ g[(a + 1) + 1] >= 1 /\ (a + 1) + 1 <= j
    <3>1. a + 1 \in 0..Window - 1 /\ a + 1 \in 1..Window - 1
      BY <1>0, <1>5
    <3>2. (a + 1) + 1 <= j
      BY <1>0, <1>5, <2>1
    <3>3. QED
      BY <1>1, <2>1, <3>1, <3>2
  <2>3. Limits!Recent(g, j) <= n + rest
    BY <1>2, <1>3, <2>1
  <2>4. QED
    BY <1>5, <2>1, <2>2, <2>3 DEF Counting
<1>6. CASE a < Window /\ a + 1 = Window
  <2>1. /\ Limits!Older(a) = Window /\ k = Window /\ j = Window /\ h[Window] >= 1
        /\ Limits!Recent(h, Window) = n
    BY <1>0, <1>6 DEF Counting, Limits!Older
  <2>2. Limits!Recent(g, Window) = Limits!Recent(h, a)
    <3>1. a \in 0..Window - 1
      BY <1>0, <1>6
    <3>2. QED
      BY <1>1, <1>6, <3>1
  <2>3. Limits!Recent(h, Window) = Limits!Recent(h, a) + h[Window]
    <3>1. Limits!Recent(h, a + 1) = Limits!Recent(h, a) + h[a + 1]
      BY RecentNext
    <3>2. QED
      BY <1>6, <3>1
  <2>4. h[Window] \in Nat /\ Limits!Recent(h, a) \in Nat
    BY <1>0, RecentType DEF History
  <2>5. Limits!Recent(g, Window) <= rest
    BY <2>1, <2>2, <2>3, <2>4
  <2>6. QED
    BY <1>0, <1>1, <2>1, <2>5 DEF Counting
<1>7. QED
  BY <1>0, <1>4, <1>5, <1>6

LEMMA CountMore ==
    ASSUME NEW h \in History, NEW a \in 0..Window, NEW n \in Nat, NEW k \in 1..Window,
           NEW rest \in Nat, Counting(h, a, n, k, rest),
           NEW g, g = More(h)
    PROVE  /\ a < Window => Counting(g, a, n + 1, k, rest)
           /\ a = Window => Counting(g, 0, 1, k, rest)
<1>0. Window \in Nat /\ Window > 0
  BY LimitsAssumption
<1>1. /\ g \in History /\ g[1] = h[1] + 1 /\ (\A m \in 2..Window : g[m] = h[m])
      /\ \A m \in 1..Window : Limits!Recent(g, m) = Limits!Recent(h, m) + 1
  BY RecentMore
<1>2. Limits!Recent(h, k) \in Nat /\ h[1] \in Nat
  <2>1. k \in 0..Window /\ 1 \in 1..Window
    BY <1>0
  <2>2. QED
    BY <2>1, RecentType DEF History
<1>3. ASSUME a < Window PROVE Counting(g, a, n + 1, k, rest)
  <2>1. /\ a + 1 <= k /\ h[a + 1] >= 1
        /\ Limits!Recent(h, a + 1) = n /\ Limits!Recent(h, k) <= n + rest
    BY <1>3 DEF Counting
  <2>2. a + 1 \in 1..Window /\ (a + 1 = 1 \/ a + 1 \in 2..Window)
    BY <1>0, <1>3
  <2>3. Limits!Recent(g, a + 1) = n + 1 /\ Limits!Recent(g, k) <= (n + 1) + rest
    <3>1. Limits!Recent(g, a + 1) = Limits!Recent(h, a + 1) + 1
      BY <1>1, <2>2
    <3>2. Limits!Recent(g, k) = Limits!Recent(h, k) + 1
      BY <1>1
    <3>3. QED
      BY <1>2, <2>1, <3>1, <3>2
  <2>4. g[a + 1] >= 1
    BY <1>1, <1>2, <2>1, <2>2
  <2>5. QED
    BY <1>3, <2>1, <2>3, <2>4 DEF Counting
<1>4. ASSUME a = Window PROVE Counting(g, 0, 1, k, rest)
  <2>1. h[1] = 0 /\ Limits!Recent(h, k) <= rest
    BY <1>0, <1>4 DEF Counting
  <2>2. Limits!Recent(g, 1) = 1
    <3>1. Limits!Recent(g, 0 + 1) = Limits!Recent(g, 0) + g[0 + 1]
      BY RecentNext
    <3>2. 0 + 1 = 1
      OBVIOUS
    <3>3. QED
      BY <1>1, <2>1, <3>1, <3>2, RecentNone
  <2>3. Limits!Recent(g, k) <= 1 + rest
    <3>1. Limits!Recent(g, k) = Limits!Recent(h, k) + 1
      BY <1>1
    <3>2. QED
      BY <1>2, <2>1, <3>1
  <2>4. 0 + 1 = 1 /\ 0 < Window /\ 1 <= k /\ g[1] >= 1
    BY <1>0, <1>1, <2>1
  <2>5. QED
    BY <2>2, <2>3, <2>4 DEF Counting
<1>5. QED
  BY <1>3, <1>4

\* The rate limiter's counter, up to what it refuses.
Allowed == IF count <= MaxRequests THEN count ELSE MaxRequests

LimiterCounts ==
    /\ passed \in History /\ count \in 0..MaxRequests + 1 /\ age \in 0..Window
    /\ Counting(passed, age, Allowed, Window, MaxRequests - 1)

LEMMA WindowEnds == Window \in 1..Window /\ Window \in 0..Window /\ Window \in Nat /\ Window > 0
BY LimitsAssumption

LEMMA LimiterInit == Limits!Init => LimiterCounts
<1> SUFFICES ASSUME Limits!Init PROVE LimiterCounts
  OBVIOUS
<1>1. passed = Limits!None /\ count = 0 /\ age = Window
  BY DEF Limits!Init
<1>2. passed \in History /\ passed[1] = 0 /\ Limits!Recent(passed, Window) = 0
  BY <1>1, WindowEnds, RecentOfNone
<1>3. QED
  BY <1>1, <1>2, LimitsAssumption, WindowEnds DEF LimiterCounts, Counting

LEMMA LimiterStep == LimiterCounts /\ [Limits!Next]_Limits!vars => LimiterCounts'
<1> SUFFICES ASSUME LimiterCounts, [Limits!Next]_Limits!vars PROVE LimiterCounts'
  OBVIOUS
<1>0. /\ passed \in History /\ count \in 0..MaxRequests + 1 /\ age \in 0..Window
      /\ Counting(passed, age, Allowed, Window, MaxRequests - 1)
      /\ MaxRequests \in Nat /\ MaxRequests >= 1 /\ MaxRequests - 1 \in Nat
      /\ Allowed \in Nat /\ Allowed <= (MaxRequests - 1) + 1
  BY LimitsAssumption DEF LimiterCounts, Allowed
<1>1. CASE UNCHANGED <<passed, count, age>>
  BY <1>0, <1>1 DEF LimiterCounts, Allowed
<1>2. CASE Limits!Tick
  <2>1. passed' = Limits!Shifted(passed) /\ age' = Limits!Older(age) /\ count' = count
    BY <1>2 DEF Limits!Tick
  <2>2. Counting(passed', age', Allowed, Window, MaxRequests - 1)
    BY <1>0, <2>1, CountTick, WindowEnds
  <2>3. passed' \in History /\ age' \in 0..Window
    BY <1>0, <2>1, RecentShifted, WindowEnds DEF Limits!Older
  <2>4. Allowed' = Allowed
    BY <2>1 DEF Allowed
  <2>5. QED
    BY <1>0, <2>1, <2>2, <2>3, <2>4 DEF LimiterCounts
<1>3. CASE Limits!Ask
  <2> DEFINE n == Limits!Counted(count, age)
             more == More(passed)
  <2>1. /\ count' = IF n <= MaxRequests THEN n ELSE MaxRequests + 1
        /\ passed' = IF n <= MaxRequests THEN more ELSE passed
        /\ age' = IF age < Window THEN age ELSE 0
    BY <1>3 DEF Limits!Ask, More
  <2>2. more \in History
    BY <1>0, RecentMore
  <2>3. /\ age < Window => Counting(more, age, Allowed + 1, Window, MaxRequests - 1)
        /\ age = Window => Counting(more, 0, 1, Window, MaxRequests - 1)
    BY <1>0, CountMore, WindowEnds
  <2> HIDE DEF more
  <2>4. CASE age < Window /\ count < MaxRequests
    <3>1. n = count + 1 /\ n <= MaxRequests /\ Allowed = count
      BY <1>0, <2>4 DEF Limits!Counted, Allowed
    <3>2. count' = count + 1 /\ passed' = more /\ age' = age /\ Allowed' = Allowed + 1
      BY <1>0, <2>1, <2>4, <3>1 DEF Allowed
    <3>3. QED
      BY <1>0, <2>2, <2>3, <2>4, <3>2 DEF LimiterCounts
  <2>5. CASE age < Window /\ count >= MaxRequests
    <3>1. n = count + 1 /\ ~(n <= MaxRequests) /\ Allowed = MaxRequests
      BY <1>0, <2>5 DEF Limits!Counted, Allowed
    <3>2. count' = MaxRequests + 1 /\ passed' = passed /\ age' = age /\ Allowed' = Allowed
      BY <1>0, <2>1, <2>5, <3>1 DEF Allowed
    <3>3. QED
      BY <1>0, <3>2 DEF LimiterCounts
  <2>6. CASE age = Window
    <3>1. n = 1
      BY <2>6, WindowEnds DEF Limits!Counted
    <3>2. count' = 1 /\ passed' = more /\ age' = 0 /\ Allowed' = 1
      BY <1>0, <2>1, <2>6, <3>1, WindowEnds DEF Allowed
    <3>3. count' \in 0..MaxRequests + 1 /\ age' \in 0..Window
      BY <1>0, <3>2, WindowEnds
    <3>4. Counting(passed', age', Allowed', Window, MaxRequests - 1)
      BY <2>3, <2>6, <3>2
    <3>5. QED
      BY <2>2, <3>2, <3>3, <3>4 DEF LimiterCounts
  <2>7. QED
    BY <1>0, <2>4, <2>5, <2>6, WindowEnds
<1>4. ASSUME NEW r \in Request, Limits!Enter(r) \/ Limits!Failed(r) \/ Limits!Succeeded(r)
      PROVE  UNCHANGED <<passed, count, age>>
  BY <1>4 DEF Limits!Enter, Limits!Failed, Limits!Succeeded, Limits!limiter
<1>5. CASE UNCHANGED Limits!vars
  BY <1>1, <1>5 DEF Limits!vars
<1>6. QED
  BY <1>1, <1>2, <1>3, <1>4, <1>5 DEF Limits!Next

\* Since a ban was set, and since when its first window is over.
Since == Ban - banned

\* How many of the last ticks lie after the window in which the last ban was set.
Clean == IF banned = 0 \/ Since - Window + 1 > Window THEN Window ELSE Since - Window + 1

\* While a ban runs, the window it opened has the ban's age; what is counted later
\* is counted as if there had been no ban.  A ban comes after two windows' failures,
\* and what is answered since is counted apart.
BanWindows ==
    /\ guesses \in History /\ fails \in 0..MaxAttempts - 1 /\ failAge \in 0..Window
    /\ banned \in 0..Ban /\ sinceBan \in Nat
    /\ IF banned # 0 /\ Since < Window
       THEN failAge = Since
       ELSE Counting(guesses, failAge, fails, Clean, MaxAttempts - 2)
    /\ banned # 0 => Limits!Recent(guesses, Window) <= 2 * MaxAttempts - 2 + sinceBan

LEMMA BanConstants ==
    /\ Ban \in Nat /\ Ban >= 2 * Window - 1 /\ Ban > 0 /\ Window \in Nat /\ Window > 0
    /\ MaxAttempts \in Nat /\ MaxAttempts >= 2 /\ MaxAttempts - 2 \in Nat
BY LimitsAssumption

LEMMA BanWindowsInit == Limits!Init => BanWindows
<1> SUFFICES ASSUME Limits!Init PROVE BanWindows
  OBVIOUS
<1>1. guesses = Limits!None /\ fails = 0 /\ failAge = Window /\ banned = 0 /\ sinceBan = 0
  BY DEF Limits!Init
<1>2. guesses \in History /\ guesses[1] = 0 /\ Limits!Recent(guesses, Window) = 0
  BY <1>1, WindowEnds, RecentOfNone
<1>3. Clean = Window
  BY <1>1 DEF Clean
<1>4. Counting(guesses, failAge, fails, Clean, MaxAttempts - 2)
  BY <1>1, <1>2, <1>3, BanConstants DEF Counting
<1>5. QED
  BY <1>1, <1>2, <1>4, BanConstants DEF BanWindows

\* Without a ban two windows' failures are one short of a ban.
LEMMA UnbannedTotal ==
    ASSUME BanWindows, banned = 0
    PROVE  Limits!Recent(guesses, Window) <= 2 * MaxAttempts - 3
<1>1. Clean = Window /\ Counting(guesses, failAge, fails, Window, MaxAttempts - 2)
  BY DEF BanWindows, Clean
<1>2. Limits!Recent(guesses, Window) \in Nat
  BY RecentType, WindowEnds DEF BanWindows
<1>3. Limits!Recent(guesses, Window) <= fails + (MaxAttempts - 2) \/ Limits!Recent(guesses, Window) <= MaxAttempts - 2
  BY <1>1 DEF Counting
<1>4. fails \in 0..MaxAttempts - 1
  BY DEF BanWindows
<1>5. QED
  BY <1>2, <1>3, <1>4, BanConstants

LEMMA BanTick ==
    ASSUME BanWindows, Limits!Tick
    PROVE  BanWindows'
<1>1. /\ failAge' = Limits!Older(failAge) /\ guesses' = Limits!Shifted(guesses) /\ fails' = fails
      /\ banned' = (IF banned > 0 THEN banned - 1 ELSE 0)
      /\ sinceBan' = IF banned' = 0 THEN 0 ELSE sinceBan
  BY DEF Limits!Tick
<1>2. /\ guesses \in History /\ fails \in 0..MaxAttempts - 1 /\ failAge \in 0..Window
      /\ banned \in 0..Ban /\ sinceBan \in Nat
  BY DEF BanWindows
<1>3. /\ guesses' \in History /\ guesses'[1] = 0
      /\ \A n \in 0..Window - 1 : Limits!Recent(guesses', n + 1) = Limits!Recent(guesses, n)
  BY <1>1, <1>2, RecentShifted
<1>4. /\ guesses' \in History /\ fails' \in 0..MaxAttempts - 1 /\ failAge' \in 0..Window
      /\ banned' \in 0..Ban /\ sinceBan' \in Nat
  BY <1>1, <1>2, <1>3, BanConstants DEF Limits!Older
<1>5. ASSUME banned' # 0 PROVE Limits!Recent(guesses', Window) <= 2 * MaxAttempts - 2 + sinceBan'
  <2>1. banned # 0 /\ sinceBan' = sinceBan /\ Limits!Recent(guesses, Window) <= 2 * MaxAttempts - 2 + sinceBan
    BY <1>1, <1>2, <1>5 DEF BanWindows
  <2>2. Limits!Recent(guesses', Window) = Limits!Recent(guesses, Window - 1)
    <3>1. Window - 1 \in 0..Window - 1 /\ (Window - 1) + 1 = Window
      BY WindowEnds
    <3>2. QED
      BY <1>3, <3>1
  <2>3. Limits!Recent(guesses, Window - 1) <= Limits!Recent(guesses, Window)
    <3>1. Window - 1 \in 0..Window
      BY WindowEnds
    <3>2. QED
      BY <1>2, <3>1, RecentGrows, WindowEnds
  <2>4. Limits!Recent(guesses, Window - 1) \in Nat /\ Limits!Recent(guesses, Window) \in Nat
    <3>1. Window - 1 \in 0..Window
      BY WindowEnds
    <3>2. QED
      BY <1>2, <3>1, RecentType, WindowEnds
  <2>5. QED
    BY <1>2, <2>1, <2>2, <2>3, <2>4, BanConstants
<1>6. IF banned' # 0 /\ Since' < Window
      THEN failAge' = Since'
      ELSE Counting(guesses', failAge', fails', Clean', MaxAttempts - 2)
  <2>1. CASE banned # 0 /\ Since < Window
    <3>1. failAge = Since
      BY <2>1 DEF BanWindows
    <3>2. CASE banned' # 0 /\ Since' < Window
      BY <1>1, <1>2, <2>1, <3>1, <3>2, BanConstants DEF Since, Limits!Older
    <3>3. CASE ~(banned' # 0 /\ Since' < Window)
      <4>1. banned' = banned - 1 /\ Since' = Since + 1 /\ Since' >= Window
        BY <1>1, <1>2, <2>1, <3>3, BanConstants DEF Since
      <4>2. Since = Window - 1 /\ failAge = Window - 1
        BY <1>2, <2>1, <3>1, <4>1, BanConstants DEF Since
      <4>3. failAge' = Window
        BY <1>1, <4>2, BanConstants DEF Limits!Older
      <4>4. Clean' = 1
        BY <1>2, <4>1, <4>2, BanConstants DEF Clean, Since
      <4>5. Limits!Recent(guesses', 1) = 0
        <5>1. 0 \in 0..Window - 1 /\ 0 + 1 = 1
          BY BanConstants
        <5>2. Limits!Recent(guesses', 1) = Limits!Recent(guesses, 0)
          BY <1>3, <5>1
        <5>3. QED
          BY <5>2, RecentNone
      <4>6. Counting(guesses', failAge', fails', Clean', MaxAttempts - 2)
        BY <1>3, <4>3, <4>4, <4>5, BanConstants DEF Counting
      <4>7. QED
        BY <3>3, <4>6
    <3>4. QED
      BY <3>2, <3>3
  <2>2. CASE ~(banned # 0 /\ Since < Window)
    <3>1. Counting(guesses, failAge, fails, Clean, MaxAttempts - 2)
      BY <2>2 DEF BanWindows
    <3>2. ~(banned' # 0 /\ Since' < Window)
      BY <1>1, <1>2, <2>2, BanConstants DEF Since
    <3>3. /\ Clean \in 1..Window /\ Clean' \in 1..Window
          /\ Clean' = Clean + 1 \/ (Clean = Window /\ Clean' = Clean)
      <4>1. CASE banned = 0
        BY <1>1, <4>1, WindowEnds DEF Clean
      <4>2. CASE banned # 0
        <5>1. banned' = banned - 1 /\ Since' = Since + 1 /\ Since \in Nat /\ Since >= Window
          BY <1>1, <1>2, <2>2, <4>2, BanConstants DEF Since
        <5>2. banned' = 0 => Since' - Window + 1 >= Window
          BY <5>1, <1>2, BanConstants DEF Since
        <5>3. QED
          BY <4>2, <5>1, <5>2, WindowEnds DEF Clean
      <4>3. QED
        BY <4>1, <4>2
    <3>4. fails \in Nat /\ fails <= (MaxAttempts - 2) + 1
      BY <1>2, BanConstants
    <3> DEFINE k == Clean
               j == Clean'
    <3>5. k \in 1..Window /\ j \in 1..Window /\ (j = k + 1 \/ (k = Window /\ j = k))
          /\ Counting(guesses, failAge, fails, k, MaxAttempts - 2)
      BY <3>1, <3>3
    <3> HIDE DEF k, j
    <3>6. Counting(guesses', Limits!Older(failAge), fails, j, MaxAttempts - 2)
      BY <1>1, <1>2, <3>4, <3>5, BanConstants, CountTick
    <3>7. Counting(guesses', failAge', fails', Clean', MaxAttempts - 2)
      BY <1>1, <3>6 DEF j
    <3>8. QED
      BY <3>2, <3>7
  <2>3. QED
    BY <2>1, <2>2
<1>7. QED
  BY <1>4, <1>5, <1>6 DEF BanWindows

LEMMA BanFails ==
    ASSUME BanWindows, NEW r \in Request, Limits!Failed(r)
    PROVE  BanWindows'
<1> DEFINE n == Limits!Counted(fails, failAge)
<1>1. /\ IF n >= MaxAttempts
         THEN banned' = Ban /\ fails' = 0 /\ failAge' = 0
         ELSE fails' = n /\ banned' = banned /\ failAge' = IF failAge < Window THEN failAge ELSE 0
      /\ guesses' = More(guesses)
      /\ sinceBan' = IF banned = 0 THEN 0 ELSE sinceBan + 1
  BY DEF Limits!Failed, More
<1>2. /\ guesses \in History /\ fails \in 0..MaxAttempts - 1 /\ failAge \in 0..Window
      /\ banned \in 0..Ban /\ sinceBan \in Nat
  BY DEF BanWindows
<1>3. n \in Nat /\ n = IF failAge < Window THEN fails + 1 ELSE 1
  BY <1>2, BanConstants DEF Limits!Counted
<1> HIDE DEF n
<1>4. guesses' \in History /\ Limits!Recent(guesses', Window) = Limits!Recent(guesses, Window) + 1
  BY <1>1, <1>2, RecentMore, WindowEnds
<1>5. /\ fails' \in 0..MaxAttempts - 1 /\ failAge' \in 0..Window
      /\ banned' \in 0..Ban /\ sinceBan' \in Nat
  BY <1>1, <1>2, <1>3, BanConstants
<1>6. ASSUME banned' # 0 PROVE Limits!Recent(guesses', Window) <= 2 * MaxAttempts - 2 + sinceBan'
  <2>1. Limits!Recent(guesses, Window) \in Nat
    BY <1>2, RecentType, WindowEnds
  <2>2. CASE banned = 0
    BY <1>1, <1>4, <2>1, <2>2, UnbannedTotal, BanConstants
  <2>3. CASE banned # 0
    <3>1. Limits!Recent(guesses, Window) <= 2 * MaxAttempts - 2 + sinceBan
      BY <2>3 DEF BanWindows
    <3>2. QED
      BY <1>1, <1>2, <1>4, <2>1, <2>3, <3>1, BanConstants
  <2>4. QED
    BY <2>2, <2>3
<1>7. IF banned' # 0 /\ Since' < Window
      THEN failAge' = Since'
      ELSE Counting(guesses', failAge', fails', Clean', MaxAttempts - 2)
  <2>1. CASE n >= MaxAttempts
    BY <1>1, <2>1, BanConstants DEF Since
  <2>2. CASE ~(n >= MaxAttempts) /\ banned # 0 /\ Since < Window
    <3>1. failAge = Since /\ failAge < Window
      BY <2>2 DEF BanWindows
    <3>2. QED
      BY <1>1, <2>2, <3>1 DEF Since
  <2>3. CASE ~(n >= MaxAttempts) /\ ~(banned # 0 /\ Since < Window)
    <3>1. Counting(guesses, failAge, fails, Clean, MaxAttempts - 2)
      BY <2>3 DEF BanWindows
    <3>2. banned' = banned /\ fails' = n /\ failAge' = (IF failAge < Window THEN failAge ELSE 0)
      BY <1>1, <2>3
    <3>3. Clean' = Clean /\ ~(banned' # 0 /\ Since' < Window)
      BY <2>3, <3>2 DEF Clean, Since
    <3>4. Clean \in 1..Window
      BY <1>2, <2>3, BanConstants DEF Clean, Since
    <3> DEFINE k == Clean
    <3>5. k \in 1..Window /\ Counting(guesses, failAge, fails, k, MaxAttempts - 2)
      BY <3>1, <3>4
    <3> HIDE DEF k
    <3>6. /\ failAge < Window => Counting(guesses', failAge, fails + 1, k, MaxAttempts - 2)
          /\ failAge = Window => Counting(guesses', 0, 1, k, MaxAttempts - 2)
      <4>1. fails \in Nat
        BY <1>2
      <4>2. QED
        BY <1>1, <1>2, <3>5, <4>1, BanConstants, CountMore
    <3>7. Counting(guesses', failAge', fails', k, MaxAttempts - 2)
      BY <1>2, <1>3, <3>2, <3>6, BanConstants
    <3>8. k = Clean'
      BY <3>3 DEF k
    <3>9. QED
      BY <3>3, <3>7, <3>8
  <2>4. QED
    BY <2>1, <2>2, <2>3
<1>8. QED
  BY <1>4, <1>5, <1>6, <1>7 DEF BanWindows

LEMMA BanWindowsStep == BanWindows /\ [Limits!Next]_Limits!vars => BanWindows'
<1> SUFFICES ASSUME BanWindows, [Limits!Next]_Limits!vars PROVE BanWindows'
  OBVIOUS
<1>1. CASE UNCHANGED Limits!bans
  BY <1>1 DEF Limits!bans, BanWindows, Since, Clean
<1>2. CASE Limits!Tick
  BY <1>2, BanTick
<1>3. ASSUME NEW r \in Request, Limits!Failed(r) PROVE BanWindows'
  BY <1>3, BanFails
<1>4. ASSUME NEW r \in Request, Limits!Succeeded(r) PROVE BanWindows'
  <2>1. fails' = 0 /\ failAge' = Window /\ banned' = 0 /\ guesses' = Limits!None /\ sinceBan' = 0
    BY <1>4 DEF Limits!Succeeded
  <2>2. guesses' \in History /\ guesses'[1] = 0 /\ Limits!Recent(guesses', Window) = 0
    BY <2>1, WindowEnds, RecentOfNone
  <2>3. Clean' = Window
    BY <2>1 DEF Clean
  <2>4. Counting(guesses', failAge', fails', Clean', MaxAttempts - 2)
    BY <2>1, <2>2, <2>3, BanConstants DEF Counting
  <2>5. QED
    BY <2>1, <2>2, <2>4, BanConstants DEF BanWindows
<1>5. ASSUME NEW r \in Request, Limits!Enter(r) PROVE UNCHANGED Limits!bans
  BY <1>5 DEF Limits!Enter
<1>6. CASE Limits!Ask
  BY <1>1, <1>6 DEF Limits!Ask
<1>7. CASE UNCHANGED Limits!vars
  BY <1>1, <1>7 DEF Limits!vars, Limits!bans
<1>8. QED
  BY <1>1, <1>2, <1>3, <1>4, <1>5, <1>6, <1>7 DEF Limits!Next

\* In any span as long as a window the rate limiter lets through at most one less
\* than two windows' requests, and an address fails to log in at most as often as
\* two windows and the logins past the check of a ban allow, for any limits, any
\* windows and any number of logins at once.
THEOREM SpansStayBounded == Limits!LimitSpec => []SpansBounded
<1>1. LimiterCounts /\ BanWindows /\ BanCounted => SpansBounded
  <2> SUFFICES ASSUME LimiterCounts, BanWindows, BanCounted PROVE SpansBounded
    OBVIOUS
  <2>1. Limits!Recent(passed, Window) <= 2 * MaxRequests - 1
    <3>1. Limits!Recent(passed, Window) \in Nat
      BY RecentType, WindowEnds DEF LimiterCounts
    <3>2. Limits!Recent(passed, Window) <= Allowed + (MaxRequests - 1)
          \/ Limits!Recent(passed, Window) <= MaxRequests - 1
      BY DEF LimiterCounts, Counting
    <3>3. Allowed \in Nat /\ Allowed <= MaxRequests /\ MaxRequests \in Nat
      BY LimitsAssumption DEF LimiterCounts, Allowed
    <3>4. QED
      BY <3>1, <3>2, <3>3
  <2>2. Limits!Recent(guesses, Window) <= 2 * MaxAttempts - 2 + (Cardinality(Request) - 1)
    <3>1. Limits!Recent(guesses, Window) \in Nat
      BY RecentType, WindowEnds DEF BanWindows
    <3>2. /\ sinceBan \in Nat /\ sinceBan <= Cardinality(Request) - 1 /\ Cardinality(Request) \in Nat
      BY FS_CardinalityType, LimitsAssumption DEF BanCounted
    <3>3. CASE banned = 0
      BY <3>1, <3>2, <3>3, UnbannedTotal, BanConstants
    <3>4. CASE banned # 0
      BY <3>1, <3>2, <3>4, BanConstants DEF BanWindows
    <3>5. QED
      BY <3>3, <3>4
  <2>3. Limits!Cardinality(Request) = Cardinality(Request)
    BY DEF Limits!Cardinality, Cardinality
  <2>4. QED
    BY <2>1, <2>2, <2>3 DEF SpansBounded, Limits!SpansBounded
<1>2. Limits!Init => LimiterCounts /\ BanWindows /\ BanCounted
  BY LimiterInit, BanWindowsInit, BanCountedInit, LimitsAssumption
<1>3. LimiterCounts /\ BanWindows /\ BanCounted /\ [Limits!Next]_Limits!vars
          => LimiterCounts' /\ BanWindows' /\ BanCounted'
  BY LimiterStep, BanWindowsStep, BanCountedStep, LimitsAssumption
<1>4. QED
  BY <1>1, <1>2, <1>3, PTL DEF Limits!LimitSpec

-----------------------------------------------------------------------------
(* The lines of nanodns.conf.                                              *)

\* The texts that stand in nanodns.conf and in the requests for it.
ZoneText == {"domain", "lan", "upstream", "u1", "u2", "record", "a", "a odd", "b", "b odd",
             "cut", "block_file", "list", "block_response", "0.0.0.0", "NXDOMAIN", "on", "off"}

ZoneFile == File(ZoneText)
ZoneSettings == [upstreams : Seq(ZoneText), block : BOOLEAN, response : ZoneText]

LinesOf(c, k) == LinesIn(c, OfKey(ZoneText, k))
ValuesOf(ls) == [i \in DOMAIN ls |-> ls[i].value]

\* NanoDns edits files by the operators of ConfLines.
LEMMA ZoneLine == ASSUME NEW k, NEW v PROVE Dns!Line(k, v) = Line(k, v)
BY DEF Dns!Line, Line

LEMMA ZoneHas == ASSUME NEW c, NEW k PROVE Dns!Has(c, k) <=> Has(c, k)
BY DEF Dns!Has, Has

LEMMA ZoneSetLine == ASSUME NEW c, NEW k, NEW v PROVE Dns!SetLine(c, k, v) = SetLine(c, k, v)
BY ZoneHas, ZoneLine DEF Dns!SetLine, SetLine, Dns!FirstOf, FirstOf

LEMMA ZoneGet == ASSUME NEW c, NEW k, NEW v PROVE Dns!Get(c, k, v) = Get(c, k, v)
BY ZoneHas DEF Dns!Get, Get, Dns!FirstOf, FirstOf

LEMMA ZoneKept == ASSUME NEW c, NEW places PROVE Dns!Kept(c, places) = Kept(c, places)
BY DEF Dns!Kept, Kept

LEMMA ZoneRemoveKey == ASSUME NEW c, NEW k PROVE Dns!RemoveKey(c, k) = RemoveKey(c, k)
BY ZoneKept DEF Dns!RemoveKey, RemoveKey

LEMMA ZoneRemoveOnce == ASSUME NEW c, NEW k, NEW v PROVE Dns!RemoveOnce(c, k, v) = RemoveOnce(c, k, v)
BY DEF Dns!RemoveOnce, RemoveOnce

LEMMA ZoneOver == ASSUME NEW c, NEW w PROVE Dns!Over(c, w) = Over(c, w)
BY DEF Dns!Over, Over, Dns!Cut, Cut, Dns!Line, Line

LEMMA ZoneValues == ASSUME NEW c \in ZoneFile, NEW k PROVE Dns!Values(c, k) = ValuesOf(LinesOf(c, k))
<1>1. Dns!GetAll(c, k) = GetAll(c, k)
  BY ZoneKept DEF Dns!GetAll, GetAll
<1>2. GetAll(c, k) = LinesOf(c, k)
  BY GetAllIsFilter DEF ZoneFile, LinesOf
<1>3. QED
  BY <1>1, <1>2 DEF Dns!Values, ValuesOf

LEMMA ZoneTexts ==
    /\ "domain" \in ZoneText /\ "lan" \in ZoneText /\ "upstream" \in ZoneText
    /\ "u1" \in ZoneText /\ "u2" \in ZoneText /\ "record" \in ZoneText
    /\ "block_file" \in ZoneText /\ "list" \in ZoneText /\ "block_response" \in ZoneText
    /\ "cut" \in ZoneText /\ Dns!Usual \in ZoneText
    /\ "0.0.0.0" \in ZoneText /\ "NXDOMAIN" \in ZoneText /\ "on" \in ZoneText /\ "off" \in ZoneText
    /\ \A rec \in Dns!Record : rec \in ZoneText
BY DEF ZoneText, Dns!Record, Dns!Usual

LEMMA ValuesOfType == ASSUME NEW ls \in ZoneFile PROVE ValuesOf(ls) \in Seq(ZoneText)
<1>1. DOMAIN ls = 1..Len(ls) /\ Len(ls) \in Nat
  BY LenProperties DEF ZoneFile, File
<1>2. \A i \in DOMAIN ls : ls[i].value \in ZoneText
  BY LineAt DEF ZoneFile, Pair
<1>3. \A n \in Nat : \A f \in [1..n -> ZoneText] : f \in Seq(ZoneText)
  OBVIOUS
<1>4. ValuesOf(ls) \in [1..Len(ls) -> ZoneText]
  BY <1>1, <1>2 DEF ValuesOf
<1>5. QED
  BY <1>1, <1>3, <1>4

LEMMA ReadType == ASSUME NEW c \in ZoneFile PROVE Dns!Read(c) \in ZoneSettings
<1>1. LinesOf(c, "upstream") \in ZoneFile
  BY LinesInKeys DEF LinesOf, ZoneFile
<1>2. Dns!Values(c, "upstream") \in Seq(ZoneText)
  BY <1>1, ZoneValues, ValuesOfType
<1>3. Dns!Has(c, "block_file") \in BOOLEAN
  BY DEF Dns!Has
<1>4. Get(c, "block_response", Dns!Usual) \in ZoneText
  BY GetIsText, ZoneTexts DEF ZoneFile
<1>5. QED
  BY <1>2, <1>3, <1>4, ZoneGet DEF Dns!Read, ZoneSettings

\* Two files that have the same upstreams and blocking lines read the same.
LEMMA ReadOfSameLines ==
    ASSUME NEW c \in ZoneFile, NEW d \in ZoneFile,
           LinesOf(c, "upstream") = LinesOf(d, "upstream"),
           LinesOf(c, "block_file") = LinesOf(d, "block_file"),
           LinesOf(c, "block_response") = LinesOf(d, "block_response")
    PROVE  Dns!Read(c) = Dns!Read(d)
<1>1. Dns!Values(c, "upstream") = Dns!Values(d, "upstream")
  BY ZoneValues
<1>2. Has(c, "block_file") <=> Has(d, "block_file")
  BY GetOfSameLines DEF ZoneFile, LinesOf
<1>3. Get(c, "block_response", Dns!Usual) = Get(d, "block_response", Dns!Usual)
  BY GetOfSameLines DEF ZoneFile, LinesOf
<1>4. Dns!Has(c, "block_file") = Dns!Has(d, "block_file")
  BY <1>2, ZoneHas DEF Dns!Has
<1>5. QED
  BY <1>1, <1>3, <1>4, ZoneGet DEF Dns!Read

\* The lines of several values of one key.
LEMMA ZoneLines ==
    ASSUME NEW k \in ZoneText, NEW values \in Seq(ZoneText)
    PROVE  /\ Dns!Lines(k, values) \in ZoneFile
           /\ \A i \in DOMAIN Dns!Lines(k, values) : Dns!Lines(k, values)[i].key = k
           /\ ValuesOf(Dns!Lines(k, values)) = values
<1> DEFINE ls == Dns!Lines(k, values)
<1>1. DOMAIN values = 1..Len(values) /\ Len(values) \in Nat /\ values \in [1..Len(values) -> ZoneText]
  BY LenProperties
<1>2. ls = [i \in 1..Len(values) |-> Line(k, values[i])]
  BY <1>1, ZoneLine DEF Dns!Lines
<1>3. \A i \in 1..Len(values) : values[i] \in ZoneText
  BY <1>1
<1>4. \A i \in 1..Len(values) :
          /\ Line(k, values[i]) \in Pair(ZoneText)
          /\ Line(k, values[i]).key = k /\ Line(k, values[i]).value = values[i]
  BY <1>3 DEF Line, Pair
<1> HIDE DEF ls
<1>5. ls \in [1..Len(values) -> Pair(ZoneText)]
  BY <1>2, <1>4
<1>6. \A n \in Nat : \A f \in [1..n -> Pair(ZoneText)] : f \in Seq(Pair(ZoneText))
  OBVIOUS
<1>7. ls \in ZoneFile
  BY <1>1, <1>5, <1>6 DEF ZoneFile, File
<1>8. DOMAIN ls = 1..Len(values) /\ \A i \in 1..Len(values) : ls[i].key = k /\ ls[i].value = values[i]
  BY <1>2, <1>4
<1>9. ValuesOf(ls) = values
  BY <1>1, <1>8 DEF ValuesOf
<1>10. QED
  BY <1>7, <1>8, <1>9 DEF ls

\* What update_dns_settings makes of a file: the response is there, as sent, exactly
\* with blocking on, the records are those that were there and the upstreams those
\* sent.
LEMMA PutLines ==
    ASSUME NEW c \in ZoneFile, NEW s \in ZoneSettings
    PROVE  /\ Dns!Put(c, s) \in ZoneFile
           /\ Has(Dns!Put(c, s), "block_file") <=> s.block
           /\ Has(Dns!Put(c, s), "block_response") <=> s.block
           /\ \A i \in DOMAIN Dns!Put(c, s) :
                  Dns!Put(c, s)[i].key = "block_response" => Dns!Put(c, s)[i].value = s.response
           /\ LinesOf(Dns!Put(c, s), "record") = LinesOf(c, "record")
           /\ ValuesOf(LinesOf(Dns!Put(c, s), "upstream")) = s.upstreams
<1> DEFINE ups == Dns!Lines("upstream", s.upstreams)
           a == RemoveKey(SetLine(c, "domain", "lan"), "upstream")
           b == RemoveKey(RemoveKey(a \o ups, "block_file"), "block_response")
           on == Append(Append(<<>>, Line("block_file", "list")), Line("block_response", s.response))
           rest == IF s.block THEN on ELSE <<>>
<1>1. Dns!Put(c, s) = b \o rest
  BY ZoneSetLine, ZoneRemoveKey, ZoneLine DEF Dns!Put
<1>2. s.upstreams \in Seq(ZoneText) /\ s.block \in BOOLEAN /\ s.response \in ZoneText
  BY DEF ZoneSettings
<1>3. /\ ups \in ZoneFile /\ ValuesOf(ups) = s.upstreams
      /\ \A i \in DOMAIN ups : ups[i].key = "upstream"
  BY <1>2, ZoneLines, ZoneTexts
<1> HIDE DEF ups
<1>4. /\ LinesOf(ups, "upstream") = ups
      /\ LinesOf(ups, "record") = <<>>
  <2>1. \A i \in DOMAIN ups : ups[i] \in OfKey(ZoneText, "upstream") /\ ups[i] \notin OfKey(ZoneText, "record")
    BY <1>3, LineAt DEF OfKey, ZoneFile
  <2>2. QED
    BY <1>3, <2>1, LinesInAll, LinesInNone DEF LinesOf, ZoneFile, File
<1>5. a \in ZoneFile /\ ~Has(a, "upstream") /\ LinesOf(a, "record") = LinesOf(c, "record")
  <2>1. SetLine(c, "domain", "lan") \in ZoneFile
    BY ZoneTexts, SetLineKeys DEF ZoneFile
  <2>2. LinesOf(SetLine(c, "domain", "lan"), "record") = LinesOf(c, "record")
    <3>1. \A l \in OfKey(ZoneText, "record") : l.key # "domain"
      BY DEF OfKey
    <3>2. QED
      BY <3>1, ZoneTexts, SetLineElsewhere DEF ZoneFile, LinesOf
  <2>3. LinesOf(a, "record") = LinesOf(SetLine(c, "domain", "lan"), "record")
    <3>1. OfKey(ZoneText, "record") \in SUBSET Pair(ZoneText) /\ \A l \in OfKey(ZoneText, "record") : l.key # "upstream"
      BY DEF OfKey
    <3>2. QED
      BY <2>1, <3>1, RemoveKeyElsewhere DEF ZoneFile, LinesOf
  <2>4. QED
    BY <2>1, <2>2, <2>3, RemoveKeyKeys DEF ZoneFile
<1> HIDE DEF a
<1>6. a \o ups \in ZoneFile /\ a \in Seq(Pair(ZoneText)) /\ ups \in Seq(Pair(ZoneText))
  BY <1>3, <1>5, HasConcat DEF ZoneFile, File
<1>7. LinesOf(a \o ups, "record") = LinesOf(c, "record")
  <2>1. LinesOf(a \o ups, "record") = LinesOf(a, "record") \o LinesOf(ups, "record")
    BY <1>6, LinesInConcat DEF LinesOf
  <2>2. LinesOf(a, "record") \in Seq(Pair(ZoneText))
    BY <1>6, LinesInType DEF LinesOf
  <2>3. \A z \in Seq(Pair(ZoneText)) : z \o <<>> = z
    BY ConcatEmptySeq
  <2>4. QED
    BY <1>4, <1>5, <2>1, <2>2, <2>3
<1>8. LinesOf(a \o ups, "upstream") = ups
  <2>1. LinesOf(a \o ups, "upstream") = LinesOf(a, "upstream") \o LinesOf(ups, "upstream")
    BY <1>6, LinesInConcat DEF LinesOf
  <2>2. LinesOf(a, "upstream") = <<>>
    <3>1. \A i \in DOMAIN a : a[i] \notin OfKey(ZoneText, "upstream")
      BY <1>5 DEF Has, OfKey
    <3>2. QED
      BY <1>6, <3>1, LinesInNone DEF LinesOf
  <2>3. \A z \in Seq(Pair(ZoneText)) : <<>> \o z = z
    BY ConcatEmptySeq
  <2>4. QED
    BY <1>4, <1>6, <2>1, <2>2, <2>3
<1>9. /\ b \in ZoneFile /\ ~Has(b, "block_file") /\ ~Has(b, "block_response")
      /\ \A k \in {"record", "upstream"} : LinesOf(b, k) = LinesOf(a \o ups, k)
  <2> DEFINE d == a \o ups
             e == RemoveKey(d, "block_file")
  <2>1. d \in ZoneFile
    BY <1>6
  <2> HIDE DEF d
  <2>2. e \in ZoneFile /\ ~Has(e, "block_file")
    BY <2>1, RemoveKeyKeys DEF ZoneFile
  <2>3. b = RemoveKey(e, "block_response")
    BY DEF d
  <2>4. ASSUME NEW k \in {"record", "upstream"} PROVE LinesOf(b, k) = LinesOf(d, k)
    <3>1. OfKey(ZoneText, k) \in SUBSET Pair(ZoneText)
          /\ \A l \in OfKey(ZoneText, k) : l.key # "block_file" /\ l.key # "block_response"
      BY DEF OfKey
    <3>2. LinesOf(e, k) = LinesOf(d, k)
      BY <2>1, <3>1, RemoveKeyElsewhere DEF LinesOf, ZoneFile
    <3> HIDE DEF e, b
    <3>3. LinesOf(b, k) = LinesOf(e, k)
      BY <2>2, <2>3, <3>1, RemoveKeyElsewhere DEF LinesOf, ZoneFile
    <3>4. QED
      BY <3>2, <3>3
  <2> HIDE DEF e, b
  <2>5. b \in ZoneFile /\ ~Has(b, "block_file") /\ ~Has(b, "block_response")
    BY <2>2, <2>3, RemoveKeyKeys DEF ZoneFile
  <2>6. QED
    BY <2>4, <2>5 DEF d
<1> HIDE DEF b
<1>10. /\ on \in ZoneFile /\ Has(on, "block_file") /\ Has(on, "block_response")
       /\ \A k \in {"record", "upstream"} : ~Has(on, k)
       /\ \A i \in DOMAIN on : on[i].key = "block_response" => on[i].value = s.response
  <2> DEFINE l == Line("block_file", "list")
             m == Line("block_response", s.response)
  <2>1. l \in Pair(ZoneText) /\ l.key = "block_file" /\ m \in Pair(ZoneText) /\ m.key = "block_response"
    <3>1. "block_file" \in ZoneText /\ "list" \in ZoneText /\ "block_response" \in ZoneText
      BY ZoneTexts
    <3>2. l \in Pair(ZoneText) /\ l.key = "block_file"
      BY <3>1, LineIsPair
    <3>3. m \in Pair(ZoneText) /\ m.key = "block_response"
      <4>1. \A v \in ZoneText : Line("block_response", v) \in Pair(ZoneText)
                                 /\ Line("block_response", v).key = "block_response"
        BY <3>1, LineIsPair
      <4>2. QED
        BY <1>2, <4>1
    <3>4. QED
      BY <3>2, <3>3
  <2>6. m.value = s.response
    BY DEF Line
  <2> HIDE DEF l, m
  <2>2. <<>> \in File(ZoneText) /\ \A k : ~Has(<<>>, k)
    BY EmptySeq DEF File, Has
  <2>3. Append(<<>>, l) \in File(ZoneText) /\ \A k : Has(Append(<<>>, l), k) <=> k = "block_file"
    BY ZenonT(30), <2>1, <2>2, AppendLine, HasAppend
  <2>4. /\ Append(Append(<<>>, l), m) \in File(ZoneText)
        /\ \A k : Has(Append(Append(<<>>, l), m), k) <=> k \in {"block_file", "block_response"}
    BY ZenonT(30), <2>1, <2>3, AppendLine, HasAppend
  <2>7. \A i \in DOMAIN Append(Append(<<>>, l), m) :
            Append(Append(<<>>, l), m)[i].key = "block_response"
                => Append(Append(<<>>, l), m)[i].value = s.response
    BY <2>1, <2>6
  <2>5. QED
    BY <2>4, <2>7 DEF l, m, ZoneFile
<1> HIDE DEF on
<1>11. /\ rest \in ZoneFile /\ (Has(rest, "block_file") <=> s.block)
       /\ (Has(rest, "block_response") <=> s.block)
       /\ \A k \in {"record", "upstream"} : ~Has(rest, k)
       /\ \A i \in DOMAIN rest : rest[i].key = "block_response" => rest[i].value = s.response
  <2>1. <<>> \in ZoneFile /\ \A k : ~Has(<<>>, k)
    BY EmptySeq DEF ZoneFile, File, Has
  <2>2. QED
    BY <1>2, <1>10, <2>1
<1> HIDE DEF rest
<1>12. /\ b \o rest \in ZoneFile
       /\ Has(b \o rest, "block_file") <=> s.block
       /\ Has(b \o rest, "block_response") <=> s.block
  BY <1>9, <1>11, HasConcat DEF ZoneFile
<1>13. ASSUME NEW k \in {"record", "upstream"} PROVE LinesOf(b \o rest, k) = LinesOf(a \o ups, k)
  <2>1. b \in Seq(Pair(ZoneText)) /\ rest \in Seq(Pair(ZoneText))
    BY <1>9, <1>11 DEF ZoneFile, File
  <2>2. LinesOf(b \o rest, k) = LinesOf(b, k) \o LinesOf(rest, k)
    BY <2>1, LinesInConcat DEF LinesOf
  <2>3. LinesOf(rest, k) = <<>>
    <3>1. \A i \in DOMAIN rest : rest[i] \notin OfKey(ZoneText, k)
      BY <1>11 DEF Has, OfKey
    <3>2. QED
      BY <2>1, <3>1, LinesInNone DEF LinesOf
  <2>4. LinesOf(b, k) \in Seq(Pair(ZoneText))
    BY <2>1, LinesInType DEF LinesOf
  <2>5. \A z \in Seq(Pair(ZoneText)) : z \o <<>> = z
    BY ConcatEmptySeq
  <2>6. QED
    BY <1>9, <2>2, <2>3, <2>4, <2>5
<1>14. ASSUME NEW i \in DOMAIN (b \o rest), (b \o rest)[i].key = "block_response"
       PROVE  (b \o rest)[i].value = s.response
  <2>1. b \in Seq(Pair(ZoneText)) /\ rest \in Seq(Pair(ZoneText))
    BY <1>9, <1>11 DEF ZoneFile, File
  <2>2. Len(b) \in Nat /\ Len(rest) \in Nat /\ i \in 1..Len(b) + Len(rest)
        /\ (b \o rest)[i] = IF i <= Len(b) THEN b[i] ELSE rest[i - Len(b)]
    BY <1>14, <2>1
  <2>3. CASE i <= Len(b)
    BY <1>9, <1>14, <2>1, <2>2, <2>3 DEF Has
  <2>4. CASE i > Len(b)
    <3>1. i - Len(b) \in DOMAIN rest /\ (b \o rest)[i] = rest[i - Len(b)]
      BY <2>1, <2>2, <2>4
    <3>2. QED
      BY <1>11, <1>14, <3>1
  <2>5. QED
    BY <2>2, <2>3, <2>4
<1>15. QED
  BY <1>1, <1>3, <1>7, <1>8, <1>12, <1>13, <1>14

\* What is stored of settings: the response only with blocking on.
Stored(s) == [s EXCEPT !.response = IF s.block THEN s.response ELSE Dns!Usual]

LEMMA ReadOfPut ==
    ASSUME NEW c \in ZoneFile, NEW s \in ZoneSettings
    PROVE  Dns!Read(Dns!Put(c, s)) = Stored(s)
<1> DEFINE w == Dns!Put(c, s)
<1>1. /\ w \in ZoneFile /\ (Has(w, "block_file") <=> s.block) /\ (Has(w, "block_response") <=> s.block)
      /\ \A i \in DOMAIN w : w[i].key = "block_response" => w[i].value = s.response
      /\ ValuesOf(LinesOf(w, "upstream")) = s.upstreams
  BY PutLines
<1> HIDE DEF w
<1>2. Dns!Values(w, "upstream") = s.upstreams
  BY <1>1, ZoneValues
<1>3. s.block \in BOOLEAN /\ Dns!Has(w, "block_file") \in BOOLEAN /\ s = [upstreams |-> s.upstreams,
          block |-> s.block, response |-> s.response]
  BY DEF ZoneSettings, Dns!Has
<1>4. Dns!Has(w, "block_file") = s.block
  BY <1>1, <1>3, ZoneHas
<1>5. Get(w, "block_response", Dns!Usual) = IF s.block THEN s.response ELSE Dns!Usual
  <2>1. CASE s.block
    <3>1. FirstOf(w, "block_response") \in DOMAIN w /\ w[FirstOf(w, "block_response")].key = "block_response"
      BY <1>1, <2>1, FirstOfFound DEF ZoneFile
    <3>2. QED
      BY <1>1, <2>1, <3>1 DEF Get
  <2>2. CASE ~s.block
    BY <1>1, <2>2 DEF Get
  <2>3. QED
    BY <2>1, <2>2
<1>6. QED
  BY <1>2, <1>3, <1>4, <1>5, ZoneGet DEF Dns!Read, Stored, w

-----------------------------------------------------------------------------
(* What the requests for nanodns.conf write.                               *)

\* No two of the lines are records of one name and type.
Sole(ls) == \A i, j \in DOMAIN ls :
    ls[i].key = "record" /\ ls[j].key = "record"
        /\ Dns!Written(ls[i].value) = Dns!Written(ls[j].value) => i = j

SameRest(c, d) ==
    \/ Dns!Values(d, "record") = Dns!Values(c, "record")
    \/ Dns!Read(d) = Dns!Read(c)

LEMMA SoleOfLines == ASSUME NEW c \in ZoneFile PROVE Sole(c) <=> Sole(LinesOf(c, "record"))
<1> DEFINE ls == LinesOf(c, "record")
<1>1. PICK at \in [DOMAIN ls -> DOMAIN c] :
          /\ \A i \in DOMAIN ls : ls[i] = c[at[i]] /\ c[at[i]] \in OfKey(ZoneText, "record")
          /\ \A i, j \in DOMAIN ls : at[i] = at[j] => i = j
          /\ \A k \in DOMAIN c : c[k] \in OfKey(ZoneText, "record") => \E i \in DOMAIN ls : at[i] = k
  BY LinesInPlaces DEF LinesOf, ZoneFile, File
<1>2. \A k \in DOMAIN c : c[k].key = "record" => c[k] \in OfKey(ZoneText, "record")
  BY LineAt DEF OfKey, ZoneFile
<1> HIDE DEF ls
<1>3. ASSUME Sole(c) PROVE Sole(ls)
  BY <1>1, <1>3 DEF Sole
<1>4. ASSUME Sole(ls), NEW i \in DOMAIN c, NEW j \in DOMAIN c, c[i].key = "record", c[j].key = "record",
             Dns!Written(c[i].value) = Dns!Written(c[j].value)
      PROVE  i = j
  <2>1. PICK n \in DOMAIN ls, m \in DOMAIN ls : at[n] = i /\ at[m] = j
    BY <1>1, <1>2, <1>4
  <2>2. ls[n] = c[i] /\ ls[m] = c[j]
    BY <1>1, <2>1
  <2>3. n = m
    BY <1>4, <2>2 DEF Sole
  <2>4. QED
    BY <2>1, <2>3
<1>5. Sole(ls) => Sole(c)
  BY <1>4 DEF Sole
<1>6. QED
  BY <1>3, <1>5 DEF ls

LEMMA WithRecord ==
    ASSUME NEW c \in ZoneFile, NEW rec \in ZoneText, NEW w, w = Append(c, Line("record", rec))
    PROVE  /\ w \in ZoneFile /\ Dns!Read(w) = Dns!Read(c)
           /\ Sole(c) /\ Dns!Written(rec) = rec /\ Dns!New(c, rec) => Sole(w)
<1> DEFINE l == Line("record", rec)
<1>1. l \in Pair(ZoneText) /\ l.key = "record" /\ l.value = rec
  <2>1. "record" \in ZoneText
    BY ZoneTexts
  <2>2. QED
    BY <2>1, LineIsPair
<1>2. w = Append(c, l)
  OBVIOUS
<1> HIDE DEF l
<1>3. c \in File(ZoneText) /\ c \in Seq(Pair(ZoneText))
  BY DEF ZoneFile, File
<1>4. /\ w \in File(ZoneText) /\ DOMAIN w = 1..Len(c) + 1 /\ DOMAIN c = 1..Len(c) /\ Len(c) \in Nat
      /\ \A j \in 1..Len(c) : w[j] = c[j]
      /\ w[Len(c) + 1] = l
  BY <1>1, <1>2, <1>3, AppendLine
<1>6. ASSUME NEW k \in {"upstream", "block_file", "block_response"} PROVE LinesOf(w, k) = LinesOf(c, k)
  <2>1. l \notin OfKey(ZoneText, k)
    BY <1>1 DEF OfKey
  <2>2. QED
    BY <1>1, <1>2, <1>3, <2>1, LinesInAppend DEF LinesOf
<1>7. Dns!Read(w) = Dns!Read(c)
  <2>1. w \in ZoneFile
    BY <1>4 DEF ZoneFile
  <2>2. /\ LinesOf(w, "upstream") = LinesOf(c, "upstream")
        /\ LinesOf(w, "block_file") = LinesOf(c, "block_file")
        /\ LinesOf(w, "block_response") = LinesOf(c, "block_response")
    BY <1>6
  <2>3. QED
    BY <2>1, <2>2, ReadOfSameLines
<1>8. ASSUME Sole(c), Dns!Written(rec) = rec, Dns!New(c, rec),
             NEW i \in DOMAIN w, NEW j \in DOMAIN w, w[i].key = "record", w[j].key = "record",
             Dns!Written(w[i].value) = Dns!Written(w[j].value)
      PROVE  i = j
  <2>1. \A n \in 1..Len(c) : c[n].key = "record" => Dns!Written(c[n].value) # rec
    BY <1>4, <1>8 DEF Dns!New
  <2>2. (i = Len(c) + 1 \/ i \in 1..Len(c)) /\ (j = Len(c) + 1 \/ j \in 1..Len(c))
    BY <1>4
  <2>3. Dns!Written(w[Len(c) + 1].value) = rec
    BY <1>1, <1>4, <1>8
  <2>4. CASE i = Len(c) + 1 /\ j \in 1..Len(c)
    BY <1>4, <1>8, <2>1, <2>3, <2>4
  <2>5. CASE j = Len(c) + 1 /\ i \in 1..Len(c)
    BY <1>4, <1>8, <2>1, <2>3, <2>5
  <2>6. CASE i \in 1..Len(c) /\ j \in 1..Len(c)
    <3>1. w[i] = c[i] /\ w[j] = c[j] /\ i \in DOMAIN c /\ j \in DOMAIN c
      BY <1>4, <2>6
    <3>2. QED
      BY <1>8, <3>1 DEF Sole
  <2>7. QED
    BY <2>2, <2>4, <2>5, <2>6
<1>9. Sole(c) /\ Dns!Written(rec) = rec /\ Dns!New(c, rec) => Sole(w)
  BY <1>8 DEF Sole
<1>10. QED
  BY <1>4, <1>7, <1>9 DEF ZoneFile

LEMMA WithoutRecord ==
    ASSUME NEW c \in ZoneFile, NEW v, NEW w, w = RemoveOnce(c, "record", v)
    PROVE  /\ w \in ZoneFile /\ Dns!Read(w) = Dns!Read(c)
           /\ Sole(c) => Sole(w)
<1>1. CASE w = c
  BY <1>1
<1>2. ASSUME NEW i \in DOMAIN c, c[i].key = "record", w = Drop(c, i)
      PROVE  /\ w \in ZoneFile /\ Dns!Read(w) = Dns!Read(c)
             /\ Sole(c) => Sole(w)
  <2>1. c \in File(ZoneText) /\ w \in File(ZoneText)
    BY <1>2, DropPlaces DEF ZoneFile
  <2>2. ASSUME NEW k, k # "record" PROVE LinesOf(w, k) = LinesOf(c, k)
    BY <1>2, <2>1, <2>2, DropKeys DEF LinesOf
  <2>3. Dns!Read(w) = Dns!Read(c)
    <3>1. /\ LinesOf(w, "upstream") = LinesOf(c, "upstream")
          /\ LinesOf(w, "block_file") = LinesOf(c, "block_file")
          /\ LinesOf(w, "block_response") = LinesOf(c, "block_response")
      BY <2>2
    <3>2. QED
      BY <2>1, <3>1, ReadOfSameLines DEF ZoneFile
  <2>4. ASSUME Sole(c), NEW n \in DOMAIN w, NEW m \in DOMAIN w, w[n].key = "record", w[m].key = "record",
               Dns!Written(w[n].value) = Dns!Written(w[m].value)
        PROVE  n = m
    <3> DEFINE at(j) == IF j < i THEN j ELSE j + 1
    <3>1. /\ w[n] = c[at(n)] /\ w[m] = c[at(m)] /\ at(n) \in DOMAIN c /\ at(m) \in DOMAIN c
          /\ DOMAIN w = 1..Len(c) - 1
      BY <1>2, <2>1, DropPlaces
    <3>2. at(n) = at(m)
      <4> HIDE DEF at
      <4>1. QED
        BY <2>4, <3>1 DEF Sole
    <3>3. n \in Nat /\ m \in Nat /\ i \in Nat
      BY <2>1, <3>1, LenProperties DEF File
    <3>4. QED
      BY <3>2, <3>3
  <2>5. Sole(c) => Sole(w)
    BY <2>4 DEF Sole
  <2>6. QED
    BY <2>1, <2>3, <2>5 DEF ZoneFile
<1>3. QED
  BY <1>1, <1>2, RemoveOnceCases DEF ZoneFile

LEMMA WithSettings ==
    ASSUME NEW c \in ZoneFile, NEW s \in ZoneSettings, NEW w, w = Dns!Put(c, s)
    PROVE  /\ w \in ZoneFile /\ SameRest(c, w) /\ (Sole(c) <=> Sole(w))
           /\ Dns!Values(w, "upstream") = s.upstreams /\ Dns!Read(w) = Stored(s)
<1>1. /\ w \in ZoneFile
      /\ LinesOf(w, "record") = LinesOf(c, "record")
      /\ ValuesOf(LinesOf(w, "upstream")) = s.upstreams
  BY PutLines
<1>2. Dns!Values(w, "record") = Dns!Values(c, "record") /\ Dns!Values(w, "upstream") = s.upstreams
  BY <1>1, ZoneValues
<1>3. Sole(c) <=> Sole(w)
  BY <1>1, SoleOfLines
<1>4. QED
  BY <1>1, <1>2, <1>3, ReadOfPut DEF SameRest

\* What the ad blocker may have still to change, and what is left of it after one
\* change.
Words == {<<>>, <<"on">>, <<"off">>, <<"NXDOMAIN", "on">>, <<"NXDOMAIN", "off">>}
LeftOf(words) == IF words = <<>> THEN <<>> ELSE Tail(words)

\* The settings one change makes, and those the changes ahead make in turn.
Changed(s, word) ==
    CASE word = "on" -> [s EXCEPT !.block = TRUE]
      [] word = "off" -> [s EXCEPT !.block = FALSE]
      [] OTHER -> [s EXCEPT !.response = word]
Ahead(s, words) ==
    IF words = <<>> THEN s
    ELSE IF Len(words) = 1 THEN Stored(Changed(s, words[1]))
    ELSE Stored(Changed(Stored(Changed(s, words[1])), words[2]))

LEMMA WordsLeft ==
    ASSUME NEW words \in Words, words # <<>>
    PROVE  /\ Tail(words) \in Words /\ Head(words) \in {"on", "off", "NXDOMAIN"}
           /\ (Len(words) > 1 <=> Tail(words) # <<>>)
           /\ \A s : Ahead(s, words) = Ahead(Stored(Changed(s, Head(words))), Tail(words))
<1>1. ASSUME NEW a, NEW b
      PROVE  /\ Tail(<<a, b>>) = <<b>> /\ Head(<<a, b>>) = a /\ Len(<<a, b>>) = 2
             /\ Tail(<<b>>) = <<>> /\ Head(<<b>>) = b /\ Len(<<b>>) = 1
             /\ <<a, b>>[1] = a /\ <<a, b>>[2] = b /\ <<b>>[1] = b
             /\ <<a, b>> # <<>> /\ <<b>> # <<>>
  OBVIOUS
<1>2. ASSUME NEW b \in {"on", "off"}, words = <<b>>
      PROVE  /\ Tail(words) = <<>> /\ Head(words) = b /\ ~(Len(words) > 1)
             /\ \A s : Ahead(s, words) = Ahead(Stored(Changed(s, Head(words))), Tail(words))
  <2>1. Tail(words) = <<>> /\ Head(words) = b /\ Len(words) = 1 /\ words[1] = b
    BY <1>1, <1>2
  <2>2. QED
    BY <2>1 DEF Ahead
<1>3. ASSUME NEW b \in {"on", "off"}, words = <<"NXDOMAIN", b>>
      PROVE  /\ Tail(words) = <<b>> /\ Tail(words) # <<>> /\ Head(words) = "NXDOMAIN" /\ Len(words) > 1
             /\ \A s : Ahead(s, words) = Ahead(Stored(Changed(s, Head(words))), Tail(words))
  <2>1. Tail(words) = <<b>> /\ Head(words) = "NXDOMAIN" /\ Len(words) = 2
        /\ words[1] = "NXDOMAIN" /\ words[2] = b
    BY <1>1, <1>3
  <2>2. Len(<<b>>) = 1 /\ <<b>>[1] = b /\ <<b>> # <<>>
    BY <1>1
  <2>3. QED
    BY <2>1, <2>2 DEF Ahead
<1>4. QED
  BY <1>2, <1>3 DEF Words

LEMMA TwoInARow == ASSUME NEW a, NEW b PROVE <<a>> \o <<b>> = <<a, b>>
<1> DEFINE S == {a, b}
           w == Append(<<a>>, b)
           z == <<a, b>>
<1>1. <<a>> \in Seq(S) /\ b \in S
  OBVIOUS
<1>2. z \in Seq(S) /\ Len(z) = 2 /\ z[1] = a /\ z[2] = b
  OBVIOUS
<1>3. w \in Seq(S) /\ Len(w) = 2 /\ w[1] = a /\ w[2] = b
  BY <1>1, AppendProperties
<1>4. w = <<a>> \o <<b>>
  BY <1>1, AppendIsConcat
<1> HIDE DEF w, z
<1>5. \A i \in 1..2 : w[i] = z[i]
  BY <1>2, <1>3
<1>6. w = z
  BY <1>2, <1>3, <1>5, SeqEqual
<1>7. QED
  BY <1>4, <1>6 DEF z

\* What the ad blocker's changes come to is what was asked of it.
LEMMA SwitchedIsAhead ==
    ASSUME NEW c \in ZoneFile, NEW response \in {<<>>, <<"NXDOMAIN">>}, NEW switch \in {"on", "off"}
    PROVE  /\ response \o <<switch>> \in Words /\ response \o <<switch>> # <<>>
           /\ Ahead(Dns!Read(c), response \o <<switch>>) = Dns!Switched(Dns!Read(c), response, switch)
<1> DEFINE s == Dns!Read(c)
<1>1. s \in ZoneSettings
  BY ReadType
<1> HIDE DEF s
<1>2. s = [upstreams |-> s.upstreams, block |-> s.block, response |-> s.response] /\ s.block \in BOOLEAN
  BY <1>1 DEF ZoneSettings
<1>3. CASE response = <<>>
  <2> DEFINE words == <<switch>>
  <2>1. response \o <<switch>> = words /\ Len(words) = 1 /\ words[1] = switch /\ words # <<>>
    BY <1>3
  <2>2. words \in Words
    BY DEF Words
  <2> HIDE DEF words
  <2>3. Ahead(s, words) = Stored(Changed(s, switch))
    BY <2>1 DEF Ahead
  <2>4. Stored(Changed(s, switch)) = Dns!Switched(s, response, switch)
    BY <1>2, <1>3 DEF Stored, Changed, Dns!Switched
  <2>5. QED
    BY <2>1, <2>2, <2>3, <2>4 DEF s
<1>4. CASE response = <<"NXDOMAIN">>
  <2> DEFINE words == <<"NXDOMAIN", switch>>
  <2>1. response \o <<switch>> = words /\ Len(words) = 2 /\ words[1] = "NXDOMAIN" /\ words[2] = switch
        /\ words # <<>> /\ Head(response) = "NXDOMAIN" /\ response # <<>>
    <3>1. ASSUME NEW a, NEW b
          PROVE  /\ Len(<<a, b>>) = 2 /\ <<a, b>>[1] = a /\ <<a, b>>[2] = b /\ <<a, b>> # <<>>
                 /\ Head(<<a>>) = a /\ <<a>> # <<>>
      OBVIOUS
    <3>2. QED
      BY <1>4, <3>1, TwoInARow, Zenon
  <2>2. words \in Words
    BY DEF Words
  <2> HIDE DEF words
  <2>3. Ahead(s, words) = Stored(Changed(Stored(Changed(s, "NXDOMAIN")), switch))
    BY <2>1 DEF Ahead
  <2>4. Changed(s, "NXDOMAIN") = [s EXCEPT !.response = "NXDOMAIN"]
    BY DEF Changed
  <2>5. Stored(Changed(s, "NXDOMAIN"))
            = [upstreams |-> s.upstreams, block |-> s.block,
               response |-> IF s.block THEN "NXDOMAIN" ELSE Dns!Usual]
    BY <1>2, <2>4 DEF Stored
  <2>6. Stored(Changed(Stored(Changed(s, "NXDOMAIN")), switch)) = Dns!Switched(s, response, switch)
    BY <1>2, <2>1, <2>5 DEF Stored, Changed, Dns!Switched
  <2>7. QED
    BY <2>1, <2>2, <2>3, <2>6 DEF s
<1>5. QED
  BY <1>3, <1>4

-----------------------------------------------------------------------------
(* The requests for nanodns.conf.                                          *)

ZoneSteps == {"idle", "get", "put", "truncate", "fill"}

ZoneTypes ==
    /\ dns \in ZoneFile
    /\ dnsPc \in [Request -> ZoneSteps]
    /\ dnsCopy \in [Request -> ZoneFile]
    /\ todo \in [Request -> Words]
    /\ settings \in [Request -> ZoneSettings]
    /\ \A r \in Request : /\ dnsPc[r] \in {"get", "put"} => todo[r] # <<>>
                          /\ dnsPc[r] = "idle" => todo[r] = <<>>

\* The records of every text that may become the file are sole.
ZoneSound == oddSent \/ crossed \/ (Sole(dns) /\ \A r \in Request : Sole(dnsCopy[r]))

\* What a request that runs alone has in hand leads to the settings asked for.
Leads(r, s) ==
    /\ dnsPc[r] = "get" => Ahead(Dns!Read(dns), todo[r]) = s
    /\ dnsPc[r] = "put" => /\ settings[r].upstreams = Dns!Values(dns, "upstream")
                           /\ Ahead(Stored(settings[r]), Tail(todo[r])) = s
    /\ dnsPc[r] \in {"truncate", "fill"} => Ahead(Dns!Read(dnsCopy[r]), LeftOf(todo[r])) = s
    /\ dnsPc[r] = "fill" => dns = <<>>

OneBusy == \A q, r \in Request : dnsPc[q] # "idle" /\ dnsPc[r] # "idle" => q = r

ZoneAsked == \A s \in asked :
    /\ OneBusy
    /\ Dns!ConfIdle => Dns!Read(dns) = s
    /\ \A r \in Request : Leads(r, s)

ZoneInv == ZoneTypes /\ ZoneSound /\ ZoneAsked

LEMMA NothingFits ==
    /\ <<>> \in ZoneFile /\ Sole(<<>>)
    /\ <<>> \in Seq(ZoneText)
    /\ Dns!NoSettings \in ZoneSettings
<1>1. <<>> \in ZoneFile /\ <<>> \in Seq(ZoneText)
  BY EmptySeq DEF ZoneFile, File
<1>2. Sole(<<>>)
  BY DEF Sole
<1>3. Dns!NoSettings \in ZoneSettings
  BY <1>1, ZoneTexts DEF Dns!NoSettings, ZoneSettings
<1>4. QED
  BY <1>1, <1>2, <1>3

LEMMA ZoneInit == Dns!Init => ZoneInv
<1> SUFFICES ASSUME Dns!Init PROVE ZoneInv
  OBVIOUS
<1> DEFINE l == Line("domain", "lan")
           m == Line("upstream", "u1")
           n == Line("record", "a")
<1>1. /\ l \in Pair(ZoneText) /\ l.key = "domain"
      /\ m \in Pair(ZoneText) /\ m.key = "upstream"
      /\ n \in Pair(ZoneText) /\ n.key = "record"
  <2>1. "domain" \in ZoneText /\ "lan" \in ZoneText /\ "upstream" \in ZoneText /\ "u1" \in ZoneText
        /\ "record" \in ZoneText /\ "a" \in ZoneText
    BY DEF ZoneText
  <2>2. QED
    BY <2>1, LineIsPair
<1> HIDE DEF l, m, n
<1>2. dns = <<l, m, n>>
  BY ZoneLine DEF Dns!Init, l, m, n
<1>3. dns \in ZoneFile /\ DOMAIN dns = 1..3 /\ dns[1] = l /\ dns[2] = m /\ dns[3] = n
  BY <1>1, <1>2 DEF ZoneFile, File
<1>4. Sole(dns)
  <2>1. \A i \in DOMAIN dns : i = 1 \/ i = 2 \/ i = 3
    BY <1>3
  <2>2. QED
    BY <1>1, <1>3, <2>1 DEF Sole
<1>5. dnsPc = [r \in Request |-> "idle"] /\ dnsCopy = [r \in Request |-> <<>>]
      /\ todo = [r \in Request |-> <<>>] /\ settings = [r \in Request |-> Dns!NoSettings]
      /\ asked = {Dns!Read(dns)}
  BY DEF Dns!Init
<1>6. ZoneTypes
  BY <1>3, <1>5, NothingFits DEF ZoneTypes, ZoneSteps, Words
<1>7. ZoneSound
  BY <1>4, <1>5, NothingFits DEF ZoneSound
<1>8. ZoneAsked
  <2>1. OneBusy
    BY <1>5 DEF OneBusy
  <2>2. \A r \in Request : \A s : Leads(r, s)
    BY <1>5 DEF Leads
  <2>3. QED
    BY <1>5, <2>1, <2>2 DEF ZoneAsked
<1>9. QED
  BY <1>6, <1>7, <1>8 DEF ZoneInv

\* What is to be written is decided in one step with a look at the file: by a
\* request that arrives, or by the ad blocker's settings.
ToWrite(r, w) ==
    /\ dnsPc' = [dnsPc EXCEPT ![r] = "truncate"]
    /\ dnsCopy' = [dnsCopy EXCEPT ![r] = w]
    /\ settings' = [settings EXCEPT ![r] = Dns!NoSettings]
    /\ UNCHANGED <<dns, todo, crossed>>
    /\ ~oddSent' => ~oddSent /\ (Sole(dns) => Sole(w))
    /\ SameRest(dns, w)
    /\ \/ dnsPc[r] = "idle" /\ asked' = IF Dns!ConfIdle THEN {Dns!Read(w)} ELSE {}
       \/ dnsPc[r] = "put" /\ asked' = asked /\ w = Dns!Put(dns, settings[r])

LEMMA WritesOf ==
    ASSUME ZoneTypes, NEW r \in Request,
           Dns!AddRecord(r) \/ Dns!RemoveRecord(r) \/ Dns!PostSettings(r) \/ Dns!AdPut(r)
    PROVE  \E w \in ZoneFile : ToWrite(r, w)
<1>1. dns \in ZoneFile
  BY DEF ZoneTypes
<1>2. CASE Dns!AddRecord(r)
  <2>1. PICK rec \in Dns!Record :
            /\ Dns!New(dns, rec) /\ Dns!Arrive(r, Dns!Read(dns))
            /\ oddSent' = (oddSent \/ Dns!Odd(rec))
            /\ Dns!ToWrite(r, Append(dns, Dns!Line("record", rec)))
            /\ UNCHANGED todo
    BY <1>2 DEF Dns!AddRecord
  <2> DEFINE w == Append(dns, Line("record", rec))
  <2>2. rec \in ZoneText
    BY ZoneTexts
  <2>3. /\ w \in ZoneFile /\ Dns!Read(w) = Dns!Read(dns)
        /\ Sole(dns) /\ Dns!Written(rec) = rec => Sole(w)
    BY <1>1, <2>1, <2>2, WithRecord
  <2>4. ~oddSent' => ~oddSent /\ Dns!Written(rec) = rec
    BY <2>1 DEF Dns!Odd, Dns!Written, Dns!Record
  <2>5. Append(dns, Dns!Line("record", rec)) = w
    BY ZoneLine
  <2> HIDE DEF w
  <2>6. QED
    BY <2>1, <2>3, <2>4, <2>5 DEF ToWrite, Dns!ToWrite, Dns!Arrive, SameRest
<1>3. CASE Dns!RemoveRecord(r)
  <2>1. PICK i \in DOMAIN dns :
            /\ Dns!Arrive(r, Dns!Read(dns))
            /\ Dns!ToWrite(r, Dns!RemoveOnce(dns, "record", Dns!Written(dns[i].value)))
            /\ UNCHANGED <<todo, oddSent>>
    BY <1>3 DEF Dns!RemoveRecord
  <2> DEFINE w == RemoveOnce(dns, "record", Dns!Written(dns[i].value))
  <2>2. w \in ZoneFile /\ Dns!Read(w) = Dns!Read(dns) /\ (Sole(dns) => Sole(w))
    BY <1>1, WithoutRecord
  <2>3. Dns!RemoveOnce(dns, "record", Dns!Written(dns[i].value)) = w
    BY ZoneRemoveOnce
  <2> HIDE DEF w
  <2>4. QED
    BY <2>1, <2>2, <2>3 DEF ToWrite, Dns!ToWrite, Dns!Arrive, SameRest
<1>4. CASE Dns!PostSettings(r)
  <2>1. PICK s \in [upstreams : {<<"u1", "u2">>}, block : BOOLEAN, response : {Dns!Usual}] :
            /\ Dns!Arrive(r, [s EXCEPT !.response = IF s.block THEN s.response ELSE Dns!Usual])
            /\ Dns!ToWrite(r, Dns!Put(dns, s)) /\ UNCHANGED <<todo, oddSent>>
    BY <1>4 DEF Dns!PostSettings
  <2>2. s \in ZoneSettings
    <3>1. "u1" \in ZoneText /\ "u2" \in ZoneText /\ Dns!Usual \in ZoneText
      BY ZoneTexts
    <3>2. <<"u1", "u2">> \in Seq(ZoneText)
      BY <3>1
    <3>3. QED
      BY <3>1, <3>2 DEF ZoneSettings
  <2> DEFINE w == Dns!Put(dns, s)
  <2>3. w \in ZoneFile /\ Dns!Read(w) = Stored(s) /\ SameRest(dns, w) /\ (Sole(dns) <=> Sole(w))
    BY <1>1, <2>2, WithSettings
  <2>4. Dns!ToWrite(r, w)
    BY <2>1
  <2> HIDE DEF w
  <2>5. Dns!Arrive(r, Dns!Read(w))
    BY <2>1, <2>3 DEF Stored
  <2>6. QED
    BY <2>1, <2>3, <2>4, <2>5 DEF ToWrite, Dns!ToWrite, Dns!Arrive
<1>5. CASE Dns!AdPut(r)
  <2> DEFINE w == Dns!Put(dns, settings[r])
  <2>1. settings[r] \in ZoneSettings
    BY DEF ZoneTypes
  <2>2. w \in ZoneFile /\ SameRest(dns, w) /\ (Sole(dns) <=> Sole(w))
    BY <1>1, <2>1, WithSettings
  <2>3. Dns!ToWrite(r, w) /\ UNCHANGED <<dns, todo, asked, oddSent, crossed>> /\ dnsPc[r] = "put"
        /\ w = Dns!Put(dns, settings[r])
    BY <1>5 DEF Dns!AdPut
  <2> HIDE DEF w
  <2>4. QED
    BY <2>2, <2>3 DEF ToWrite, Dns!ToWrite
<1>6. QED
  BY <1>2, <1>3, <1>4, <1>5

\* A step of the one request that is busy leads on to what was asked for.
LEMMA ZoneMoves ==
    ASSUME ZoneTypes, NEW r \in Request, NEW to,
           dnsPc' = [dnsPc EXCEPT ![r] = to],
           asked' # {} => \A q \in Request : q # r => dnsPc[q] = "idle",
           to = "idle" => \A s \in asked' : Dns!Read(dns') = s,
           \A s \in asked' : Leads(r, s)'
    PROVE  ZoneAsked'
<1> SUFFICES ASSUME NEW s \in asked'
             PROVE  /\ OneBusy' /\ (Dns!ConfIdle' => Dns!Read(dns') = s)
                    /\ \A q \in Request : Leads(q, s)'
  BY DEF ZoneAsked
<1>1. dnsPc'[r] = to /\ \A q \in Request : q # r => dnsPc'[q] = "idle"
  BY DEF ZoneTypes
<1>2. OneBusy'
  BY <1>1 DEF OneBusy
<1>3. Dns!ConfIdle' => Dns!Read(dns') = s
  BY <1>1 DEF Dns!ConfIdle
<1>4. \A q \in Request : q # r => Leads(q, s)'
  BY <1>1 DEF Leads
<1>5. QED
  BY <1>2, <1>3, <1>4

\* While something is asked for, a busy request is the only one.
LEMMA AskedAlone ==
    ASSUME ZoneAsked, asked # {}, NEW r \in Request, dnsPc[r] # "idle"
    PROVE  \A q \in Request : q # r => dnsPc[q] = "idle"
BY DEF ZoneAsked, OneBusy

LEMMA ZoneWrites ==
    ASSUME ZoneInv, NEW r \in Request,
           Dns!AddRecord(r) \/ Dns!RemoveRecord(r) \/ Dns!PostSettings(r) \/ Dns!AdPut(r)
    PROVE  ZoneInv'
<1> USE DEF ZoneInv
<1>1. PICK w \in ZoneFile : ToWrite(r, w)
  BY WritesOf
<1>2. \A q \in Request : dnsCopy'[q] = IF q = r THEN w ELSE dnsCopy[q]
  BY <1>1 DEF ToWrite, ZoneTypes
<1>3. dnsPc' = [dnsPc EXCEPT ![r] = "truncate"]
  BY <1>1 DEF ToWrite
<1>4. ZoneTypes'
  <2>1. dnsPc' \in [Request -> ZoneSteps]
        /\ \A q \in Request : dnsPc'[q] = "truncate" \/ dnsPc'[q] = dnsPc[q]
    BY <1>3 DEF ZoneTypes, ZoneSteps
  <2>2. dnsCopy' \in [Request -> ZoneFile]
    BY <1>1 DEF ToWrite, ZoneTypes
  <2>3. settings' \in [Request -> ZoneSettings]
    BY <1>1, NothingFits DEF ToWrite, ZoneTypes
  <2>4. UNCHANGED <<dns, todo>>
    BY <1>1 DEF ToWrite
  <2>5. QED
    BY <2>1, <2>2, <2>3, <2>4 DEF ZoneTypes
<1>5. ZoneSound'
  BY <1>1, <1>2 DEF ZoneSound, ToWrite
<1>6. ZoneAsked'
  <2>1. dnsPc'[r] = "truncate" /\ dnsCopy'[r] = w /\ todo'[r] = todo[r]
    BY <1>1, <1>2 DEF ToWrite, ZoneTypes
  <2>2. CASE dnsPc[r] = "idle" /\ asked' = IF Dns!ConfIdle THEN {Dns!Read(w)} ELSE {}
    <3>1. todo[r] = <<>>
      BY <2>2 DEF ZoneTypes
    <3>2. Ahead(Dns!Read(dnsCopy'[r]), LeftOf(todo'[r])) = Dns!Read(w)
      BY <2>1, <3>1 DEF LeftOf, Ahead
    <3>3. \A s \in asked' : s = Dns!Read(w) /\ Dns!ConfIdle
      BY <2>2
    <3>4. \A s \in asked' : Leads(r, s)'
      BY <2>1, <3>2, <3>3 DEF Leads
    <3>5. asked' # {} => \A q \in Request : q # r => dnsPc[q] = "idle"
      BY <3>3 DEF Dns!ConfIdle
    <3>6. QED
      BY <1>3, <3>4, <3>5, ZoneMoves
  <2>3. CASE dnsPc[r] = "put" /\ asked' = asked /\ w = Dns!Put(dns, settings[r])
    <3>1. todo[r] # <<>> /\ dns \in ZoneFile /\ settings[r] \in ZoneSettings
      BY <2>3 DEF ZoneTypes
    <3>2. Dns!Read(w) = Stored(settings[r])
      BY <2>3, <3>1, WithSettings
    <3>3. ASSUME NEW s \in asked' PROVE Leads(r, s)'
      <4>1. Ahead(Stored(settings[r]), Tail(todo[r])) = s
        BY <2>3, <3>3 DEF ZoneAsked, Leads
      <4>2. LeftOf(todo'[r]) = Tail(todo[r])
        BY <2>1, <3>1 DEF LeftOf
      <4>3. Ahead(Dns!Read(dnsCopy'[r]), LeftOf(todo'[r])) = s
        BY <2>1, <3>2, <4>1, <4>2
      <4>4. QED
        BY <2>1, <4>3 DEF Leads
    <3>4. asked' # {} => \A q \in Request : q # r => dnsPc[q] = "idle"
      BY <2>3, AskedAlone
    <3>5. QED
      BY <1>3, <3>3, <3>4, ZoneMoves
  <2>4. QED
    BY <1>1, <2>2, <2>3 DEF ToWrite
<1>7. QED
  BY <1>4, <1>5, <1>6

LEMMA ZoneReads ==
    ASSUME ZoneInv, NEW r \in Request, Dns!Toggle(r) \/ Dns!AdGet(r)
    PROVE  ZoneInv'
<1> USE DEF ZoneInv
<1>1. CASE Dns!Toggle(r)
  <2>1. PICK response \in {<<>>, <<"NXDOMAIN">>}, switch \in {"on", "off"} :
            /\ Dns!Arrive(r, Dns!Switched(Dns!Read(dns), response, switch))
            /\ dnsPc' = [dnsPc EXCEPT ![r] = "get"]
            /\ todo' = [todo EXCEPT ![r] = response \o <<switch>>]
            /\ UNCHANGED <<dnsCopy, settings, oddSent>>
    BY <1>1 DEF Dns!Toggle
  <2> DEFINE words == response \o <<switch>>
  <2>2. /\ words \in Words /\ words # <<>>
        /\ Ahead(Dns!Read(dns), words) = Dns!Switched(Dns!Read(dns), response, switch)
    BY SwitchedIsAhead DEF ZoneTypes
  <2> HIDE DEF words
  <2>3. dnsPc' \in [Request -> ZoneSteps] /\ dnsPc'[r] = "get"
        /\ \A q \in Request : q # r => dnsPc'[q] = dnsPc[q]
    BY <2>1 DEF ZoneTypes, ZoneSteps
  <2>4. todo' \in [Request -> Words] /\ todo'[r] = words /\ \A q \in Request : q # r => todo'[q] = todo[q]
    BY <2>1, <2>2 DEF ZoneTypes, words
  <2>5. UNCHANGED <<dns, dnsCopy, settings, oddSent, crossed>>
    BY <2>1 DEF Dns!Arrive
  <2>6. ZoneTypes'
    BY <2>2, <2>3, <2>4, <2>5 DEF ZoneTypes
  <2>7. ZoneSound'
    BY <2>5 DEF ZoneSound
  <2>8. ZoneAsked'
    <3>1. asked' = IF Dns!ConfIdle THEN {Dns!Switched(Dns!Read(dns), response, switch)} ELSE {}
      BY <2>1 DEF Dns!Arrive
    <3>2. \A s \in asked' : s = Ahead(Dns!Read(dns), words) /\ Dns!ConfIdle
      BY <2>2, <3>1
    <3>3. ASSUME NEW s \in asked' PROVE Leads(r, s)'
      BY <2>3, <2>4, <2>5, <3>2 DEF Leads
    <3>4. asked' # {} => \A q \in Request : q # r => dnsPc[q] = "idle"
      BY <3>2 DEF Dns!ConfIdle
    <3>5. QED
      BY <2>1, <3>3, <3>4, ZoneMoves
  <2>9. QED
    BY <2>6, <2>7, <2>8
<1>2. CASE Dns!AdGet(r)
  <2> DEFINE s == Changed(Dns!Read(dns), Head(todo[r]))
  <2>1. /\ dnsPc[r] = "get" /\ dnsPc' = [dnsPc EXCEPT ![r] = "put"]
        /\ settings' = [settings EXCEPT ![r] = s]
        /\ UNCHANGED <<dns, dnsCopy, todo, asked, oddSent, crossed>>
    BY <1>2 DEF Dns!AdGet, Changed
  <2>2. Dns!Read(dns) \in ZoneSettings /\ Dns!Read(dns).upstreams = Dns!Values(dns, "upstream")
    <3>1. dns \in ZoneFile
      BY DEF ZoneTypes
    <3>2. QED
      BY <3>1, ReadType DEF Dns!Read
  <2>3. /\ todo[r] \in Words /\ todo[r] # <<>> /\ Head(todo[r]) \in {"on", "off", "NXDOMAIN"}
        /\ \A z : Ahead(z, todo[r]) = Ahead(Stored(Changed(z, Head(todo[r]))), Tail(todo[r]))
    <3>1. todo[r] \in Words /\ todo[r] # <<>>
      BY <2>1 DEF ZoneTypes
    <3>2. QED
      BY <3>1, WordsLeft
  <2>4. s \in ZoneSettings /\ s.upstreams = Dns!Values(dns, "upstream")
    <3>1. "NXDOMAIN" \in ZoneText
      BY ZoneTexts
    <3>2. QED
      BY <2>2, <2>3, <3>1 DEF ZoneSettings, Changed
  <2>5. Ahead(Dns!Read(dns), todo[r]) = Ahead(Stored(s), Tail(todo[r]))
    BY <2>3
  <2> HIDE DEF s
  <2>6. settings' \in [Request -> ZoneSettings] /\ settings'[r] = s
    BY <2>1, <2>4 DEF ZoneTypes
  <2>7. dnsPc' \in [Request -> ZoneSteps] /\ dnsPc'[r] = "put"
        /\ \A q \in Request : q # r => dnsPc'[q] = dnsPc[q]
    BY <2>1 DEF ZoneTypes, ZoneSteps
  <2>8. ZoneTypes'
    BY <2>1, <2>3, <2>6, <2>7 DEF ZoneTypes
  <2>9. ZoneSound'
    BY <2>1 DEF ZoneSound
  <2>10. ZoneAsked'
    <3>1. ASSUME NEW z \in asked' PROVE Leads(r, z)'
      <4>1. Ahead(Dns!Read(dns), todo[r]) = z
        BY <2>1, <3>1 DEF ZoneAsked, Leads
      <4>2. settings'[r].upstreams = Dns!Values(dns', "upstream") /\ Ahead(Stored(settings'[r]), Tail(todo'[r])) = z
        BY <2>1, <2>4, <2>5, <2>6, <4>1
      <4>3. QED
        BY <2>7, <4>2 DEF Leads
    <3>2. asked' # {} => \A q \in Request : q # r => dnsPc[q] = "idle"
      BY <2>1, AskedAlone
    <3>3. QED
      BY <2>1, <3>1, <3>2, ZoneMoves
  <2>11. QED
    BY <2>8, <2>9, <2>10
<1>3. QED
  BY <1>1, <1>2

\* The file is truncated, or a request ends there.
LEMMA ZoneStops ==
    ASSUME ZoneInv, NEW r \in Request, Dns!Truncate(r) \/ Dns!ConfFails(r)
    PROVE  ZoneInv'
<1> USE DEF ZoneInv
<1>1. CASE Dns!Truncate(r)
  <2>1. dnsPc[r] = "truncate" /\ dnsPc' = [dnsPc EXCEPT ![r] = "fill"] /\ dns' = <<>>
        /\ UNCHANGED <<dnsCopy, todo, settings, asked, oddSent, crossed>>
    BY <1>1 DEF Dns!Truncate
  <2>2. dnsPc' \in [Request -> ZoneSteps] /\ dnsPc'[r] = "fill"
        /\ \A q \in Request : q # r => dnsPc'[q] = dnsPc[q]
    BY <2>1 DEF ZoneTypes, ZoneSteps
  <2>3. ZoneTypes'
    BY <2>1, <2>2, NothingFits DEF ZoneTypes
  <2>4. ZoneSound'
    BY <2>1, NothingFits DEF ZoneSound
  <2>5. ASSUME NEW s \in asked' PROVE Leads(r, s)'
    <3>1. Ahead(Dns!Read(dnsCopy[r]), LeftOf(todo[r])) = s
      BY <2>1, <2>5 DEF ZoneAsked, Leads
    <3>2. QED
      BY <2>1, <2>2, <3>1 DEF Leads
  <2>6. asked' # {} => \A q \in Request : q # r => dnsPc[q] = "idle"
    BY <2>1, AskedAlone
  <2>7. ZoneAsked'
    BY <2>1, <2>5, <2>6, ZoneMoves
  <2>8. QED
    BY <2>3, <2>4, <2>7
<1>2. CASE Dns!ConfFails(r)
  <2>1. /\ dnsPc' = [dnsPc EXCEPT ![r] = "idle"] /\ dnsCopy' = [dnsCopy EXCEPT ![r] = <<>>]
        /\ todo' = [todo EXCEPT ![r] = <<>>] /\ settings' = [settings EXCEPT ![r] = Dns!NoSettings]
        /\ asked' = {} /\ UNCHANGED <<dns, oddSent, crossed>>
    BY <1>2 DEF Dns!ConfFails
  <2>2. dnsPc' \in [Request -> ZoneSteps] /\ dnsPc'[r] = "idle"
        /\ \A q \in Request : q # r => dnsPc'[q] = dnsPc[q]
    BY <2>1 DEF ZoneTypes, ZoneSteps
  <2>3. todo' \in [Request -> Words] /\ todo'[r] = <<>> /\ \A q \in Request : q # r => todo'[q] = todo[q]
    BY <2>1 DEF ZoneTypes, Words
  <2>4. ZoneTypes'
    BY <2>1, <2>2, <2>3, NothingFits DEF ZoneTypes
  <2>5. \A q \in Request : dnsCopy'[q] \in {dnsCopy[q], <<>>}
    BY <2>1 DEF ZoneTypes
  <2>6. ZoneSound'
    BY <2>1, <2>5, NothingFits DEF ZoneSound
  <2>7. ZoneAsked'
    BY <2>1 DEF ZoneAsked
  <2>8. QED
    BY <2>4, <2>6, <2>7
<1>3. QED
  BY <1>1, <1>2

LEMMA ZoneFills ==
    ASSUME ZoneInv, NEW r \in Request, Dns!Fill(r)
    PROVE  ZoneInv'
<1> USE DEF ZoneInv
<1> DEFINE to == IF Len(todo[r]) > 1 THEN "get" ELSE "idle"
<1>1. /\ dnsPc[r] = "fill" /\ dnsPc' = [dnsPc EXCEPT ![r] = to]
      /\ dns' \in Over(dns, dnsCopy[r]) /\ crossed' = (crossed \/ dns # <<>>)
      /\ dnsCopy' = [dnsCopy EXCEPT ![r] = <<>>]
      /\ todo' = [todo EXCEPT ![r] = LeftOf(todo[r])]
      /\ UNCHANGED <<settings, asked, oddSent>>
  BY ZoneOver DEF Dns!Fill, LeftOf, ZoneTypes
<1>2. LeftOf(todo[r]) \in Words /\ (to = "get" => LeftOf(todo[r]) # <<>>) /\ (to = "idle" => LeftOf(todo[r]) = <<>>)
  <2>1. todo[r] \in Words
    BY DEF ZoneTypes
  <2>2. CASE todo[r] = <<>>
    <3>1. Len(<<>>) = 0
      OBVIOUS
    <3>2. QED
      BY <2>2, <3>1 DEF LeftOf, Words
  <2>3. CASE todo[r] # <<>>
    BY <2>1, <2>3, WordsLeft DEF LeftOf
  <2>4. QED
    BY <2>2, <2>3
<1>3. to \in {"get", "idle"}
  OBVIOUS
<1> HIDE DEF to
<1>4. dnsPc' \in [Request -> ZoneSteps] /\ dnsPc'[r] = to
      /\ \A q \in Request : q # r => dnsPc'[q] = dnsPc[q]
  BY <1>1, <1>3 DEF ZoneTypes, ZoneSteps
<1>5. todo' \in [Request -> Words] /\ todo'[r] = LeftOf(todo[r]) /\ \A q \in Request : q # r => todo'[q] = todo[q]
  BY <1>1, <1>2 DEF ZoneTypes
<1>6. dns' \in ZoneFile
  <2>1. dns \in File(ZoneText) /\ dnsCopy[r] \in File(ZoneText) /\ "cut" \in ZoneText
    BY ZoneTexts DEF ZoneTypes, ZoneFile
  <2>2. QED
    BY <1>1, <2>1, OverIsFile DEF ZoneFile
<1>7. ZoneTypes'
  <2>1. dnsCopy' \in [Request -> ZoneFile] /\ settings' \in [Request -> ZoneSettings]
    BY <1>1, NothingFits DEF ZoneTypes
  <2>2. \A q \in Request : /\ dnsPc'[q] \in {"get", "put"} => todo'[q] # <<>>
                           /\ dnsPc'[q] = "idle" => todo'[q] = <<>>
    BY <1>2, <1>3, <1>4, <1>5 DEF ZoneTypes
  <2>3. QED
    BY <1>4, <1>5, <1>6, <2>1, <2>2 DEF ZoneTypes
<1>8. dns = <<>> => dns' = dnsCopy[r]
  BY <1>1, OverEmpty
<1>9. ZoneSound'
  <2>1. \A q \in Request : dnsCopy'[q] \in {dnsCopy[q], <<>>}
    BY <1>1 DEF ZoneTypes
  <2>2. QED
    BY <1>1, <1>8, <2>1, NothingFits DEF ZoneSound
<1>10. ASSUME NEW s \in asked' PROVE (to = "idle" => Dns!Read(dns') = s) /\ Leads(r, s)'
  <2>1. Ahead(Dns!Read(dnsCopy[r]), LeftOf(todo[r])) = s /\ dns = <<>>
    BY <1>1, <1>10 DEF ZoneAsked, Leads
  <2>2. dns' = dnsCopy[r]
    BY <1>8, <2>1
  <2>3. Ahead(Dns!Read(dns'), todo'[r]) = s
    BY <1>5, <2>1, <2>2
  <2>4. CASE to = "get"
    BY <1>4, <2>3, <2>4 DEF Leads
  <2>5. CASE to = "idle"
    <3>1. todo'[r] = <<>>
      BY <1>2, <1>5, <2>5
    <3>2. Dns!Read(dns') = s
      BY <2>3, <3>1 DEF Ahead
    <3>3. QED
      BY <1>4, <2>5, <3>2 DEF Leads
  <2>6. QED
    BY <1>3, <2>4, <2>5
<1>11. asked' # {} => \A q \in Request : q # r => dnsPc[q] = "idle"
  BY <1>1, AskedAlone
<1>12. ZoneAsked'
  BY <1>1, <1>10, <1>11, ZoneMoves
<1>13. QED
  BY <1>7, <1>9, <1>12

LEMMA ZoneStep == ZoneInv /\ [Dns!Next]_Dns!vars => ZoneInv'
<1> SUFFICES ASSUME ZoneInv, [Dns!Next]_Dns!vars PROVE ZoneInv'
  OBVIOUS
<1>1. ASSUME UNCHANGED Dns!confVars PROVE ZoneInv'
  BY <1>1 DEF Dns!confVars, ZoneInv, ZoneTypes, ZoneSound, ZoneAsked, OneBusy, Leads, Dns!ConfIdle
<1>2. ASSUME NEW r \in Request,
             Dns!AddRecord(r) \/ Dns!RemoveRecord(r) \/ Dns!PostSettings(r) \/ Dns!AdPut(r)
      PROVE  ZoneInv'
  BY <1>2, ZoneWrites
<1>3. ASSUME NEW r \in Request, Dns!Toggle(r) \/ Dns!AdGet(r) PROVE ZoneInv'
  BY <1>3, ZoneReads
<1>4. ASSUME NEW r \in Request, Dns!Truncate(r) \/ Dns!Fill(r) \/ Dns!ConfFails(r) PROVE ZoneInv'
  BY <1>4, ZoneStops, ZoneFills
<1>5. ASSUME NEW r \in Request,
             Dns!ReadForAdd(r) \/ Dns!AppendDomain(r) \/ Dns!ReadForRemove(r) \/ Dns!TruncateList(r)
      PROVE  UNCHANGED Dns!confVars
  BY <1>5 DEF Dns!ReadForAdd, Dns!AppendDomain, Dns!ReadForRemove, Dns!TruncateList
<1>6. ASSUME Dns!StartUpdate \/ Dns!Download \/ Dns!WriteDomain PROVE UNCHANGED Dns!confVars
  BY <1>6 DEF Dns!StartUpdate, Dns!Download, Dns!WriteDomain
<1>7. ASSUME UNCHANGED Dns!vars PROVE UNCHANGED Dns!confVars
  BY <1>7 DEF Dns!vars
<1>8. QED
  BY <1>1, <1>2, <1>3, <1>4, <1>5, <1>6, <1>7 DEF Dns!Next

LEMMA ZoneAlways == Dns!DnsSpec => []ZoneInv
BY ZoneInit, ZoneStep, PTL DEF Dns!DnsSpec

\* The settings are those that the last request which ran alone and succeeded
\* asked for, whatever the requests before it that failed or crossed had left of
\* the file.  What a request has in hand at each of its steps, and the ad blocker
\* still ahead of it, must lead there: Leads is what the invariant adds.
THEOREM SettingsAreAsAsked == Dns!DnsSpec => []SettingsAsAsked
<1>1. ZoneInv => SettingsAsAsked
  BY DEF ZoneInv, ZoneAsked, SettingsAsAsked, Dns!SettingsAsAsked
<1>2. QED
  BY <1>1, ZoneAlways, PTL

\* Until a record is sent written oddly or two writes cross, no name has two
\* records of one type, however the requests overlap or fail.
THEOREM NamesStayUnique == Dns!DnsSpec => []RecordsUnique
<1>1. ZoneInv => RecordsUnique
  BY DEF ZoneInv, ZoneSound, Sole, RecordsUnique, Dns!RecordsUnique
<1>2. QED
  BY <1>1, ZoneAlways, PTL

\* A request that runs alone writes the file as it found it but for what it is
\* about.
LEMMA ZoneWriteKeeps ==
    ASSUME ZoneInv, Dns!Next, NEW r \in Request,
           asked' # {}, dnsPc[r] \notin {"truncate", "fill"}, dnsPc'[r] = "truncate"
    PROVE  Dns!KeepsRest(r)
<1> USE DEF ZoneInv
<1>1. Dns!AddRecord(r) \/ Dns!RemoveRecord(r) \/ Dns!PostSettings(r) \/ Dns!AdPut(r)
  <2>1. ASSUME NEW q \in Request, NEW to, dnsPc' = [dnsPc EXCEPT ![q] = to] PROVE q = r /\ to = "truncate"
    BY <2>1 DEF ZoneTypes
  <2>2. ASSUME dnsPc' = dnsPc PROVE FALSE
    BY <2>2
  <2>3. ASSUME NEW q \in Request, Dns!Toggle(q) \/ Dns!AdGet(q) \/ Dns!Truncate(q) \/ Dns!Fill(q)
                                      \/ Dns!ConfFails(q)
        PROVE  FALSE
    <3>1. \E to \in {"get", "put", "fill", "idle"} : dnsPc' = [dnsPc EXCEPT ![q] = to]
      BY <2>3 DEF Dns!Toggle, Dns!AdGet, Dns!Truncate, Dns!Fill, Dns!ConfFails
    <3>2. QED
      BY <2>1, <3>1
  <2>4. ASSUME NEW q \in Request,
               Dns!AddRecord(q) \/ Dns!RemoveRecord(q) \/ Dns!PostSettings(q) \/ Dns!AdPut(q)
        PROVE  q = r
    <3>1. dnsPc' = [dnsPc EXCEPT ![q] = "truncate"]
      BY <2>4 DEF Dns!AddRecord, Dns!RemoveRecord, Dns!PostSettings, Dns!AdPut, Dns!ToWrite
    <3>2. QED
      BY <2>1, <3>1
  <2>5. ASSUME NEW q \in Request,
               Dns!ReadForAdd(q) \/ Dns!AppendDomain(q) \/ Dns!ReadForRemove(q) \/ Dns!TruncateList(q)
        PROVE  FALSE
    BY <2>2, <2>5 DEF Dns!ReadForAdd, Dns!AppendDomain, Dns!ReadForRemove, Dns!TruncateList, Dns!confVars
  <2>6. ASSUME Dns!StartUpdate \/ Dns!Download \/ Dns!WriteDomain PROVE FALSE
    BY <2>2, <2>6 DEF Dns!StartUpdate, Dns!Download, Dns!WriteDomain, Dns!confVars
  <2>7. QED
    BY <2>3, <2>4, <2>5, <2>6 DEF Dns!Next
<1>2. PICK w \in ZoneFile : ToWrite(r, w)
  BY <1>1, WritesOf
<1>3. dnsCopy'[r] = w
  BY <1>2 DEF ToWrite, ZoneTypes
<1>4. ASSUME dnsPc[r] = "put" PROVE Dns!Values(w, "upstream") = Dns!Values(dns, "upstream")
  <2>1. w = Dns!Put(dns, settings[r]) /\ asked' = asked
    BY <1>2, <1>4 DEF ToWrite
  <2>2. dns \in ZoneFile /\ settings[r] \in ZoneSettings
    BY DEF ZoneTypes
  <2>3. Dns!Values(w, "upstream") = settings[r].upstreams
    BY <2>1, <2>2, WithSettings
  <2>4. PICK s \in asked : Leads(r, s)
    BY <2>1 DEF ZoneAsked
  <2>5. QED
    BY <1>4, <2>3, <2>4 DEF Leads
<1>5. SameRest(dns, w)
  BY <1>2 DEF ToWrite
<1>6. QED
  BY <1>3, <1>4, <1>5 DEF Dns!KeepsRest, SameRest

\* What a request that runs alone writes differs from what was there in what it is
\* about.
THEOREM LoneWritesKeepTheRest == Dns!DnsSpec => LoneWritesKeepRest
<1> DEFINE A == \A r \in Request :
            asked' # {} /\ dnsPc[r] \notin {"truncate", "fill"} /\ dnsPc'[r] = "truncate" => Dns!KeepsRest(r)
<1>1. ZoneInv /\ [Dns!Next]_Dns!vars => [A]_Dns!vars
  BY ZoneWriteKeeps
<1>2. QED
  BY <1>1, ZoneAlways, PTL DEF Dns!DnsSpec, LoneWritesKeepRest, Dns!LoneWritesKeepRest

-----------------------------------------------------------------------------
(* The list of blocked domains.                                            *)

Blockable == Domain \cup UNION Downloads

Distinct(s) == \A i, j \in DOMAIN s : s[i] = s[j] => i = j
Disjoint(s, t) == \A i \in DOMAIN s, j \in DOMAIN t : s[i] # t[j]

ListTypes ==
    /\ blocklist \in Seq(Blockable)
    /\ listPc \in [Request -> {"idle", "append", "truncate"}]
    /\ listCopy \in [Request -> Seq(Blockable)]
    /\ fetched \subseteq Blockable

\* One custom rule at a time, or the writing of a download, is at the list, and
\* none of the lines that are still to be written is there.
ListAlone ==
    /\ Distinct(blocklist)
    /\ \A q, r \in Request : listPc[q] # "idle" /\ listPc[r] # "idle" => q = r
    /\ update = "writing" =>
           /\ \A r \in Request : listPc[r] = "idle"
           /\ \A i \in DOMAIN blocklist : blocklist[i] \notin fetched
    /\ \A r \in Request : listPc[r] # "idle" => Distinct(listCopy[r])
    /\ \A r \in Request : listPc[r] = "append" => Disjoint(blocklist, listCopy[r])

ListInv == ListTypes /\ (listMixed \/ ListAlone)

LEMMA NoLines == <<>> \in Seq(Blockable) /\ Distinct(<<>>) /\ \A s : Disjoint(<<>>, s)
BY EmptySeq DEF Distinct, Disjoint

LEMMA OneLine ==
    ASSUME NEW d \in Blockable
    PROVE  <<d>> \in Seq(Blockable) /\ Distinct(<<d>>) /\ DOMAIN <<d>> = {1} /\ <<d>>[1] = d
BY DEF Distinct

LEMMA DistinctTogether ==
    ASSUME NEW S, NEW s \in Seq(S), NEW t \in Seq(S), Distinct(s), Distinct(t), Disjoint(s, t)
    PROVE  Distinct(s \o t)
<1> DEFINE u == s \o t
<1>1. /\ DOMAIN s = 1..Len(s) /\ DOMAIN t = 1..Len(t) /\ Len(s) \in Nat /\ Len(t) \in Nat
      /\ DOMAIN u = 1..Len(s) + Len(t)
      /\ \A i \in 1..Len(s) + Len(t) : u[i] = IF i <= Len(s) THEN s[i] ELSE t[i - Len(s)]
  BY ConcatProperties, LenProperties
<1> HIDE DEF u
<1>2. ASSUME NEW i \in DOMAIN u, NEW j \in DOMAIN u, u[i] = u[j] PROVE i = j
  <2>1. CASE i <= Len(s) /\ j <= Len(s)
    <3>1. i \in DOMAIN s /\ j \in DOMAIN s /\ s[i] = s[j]
      BY <1>1, <1>2, <2>1
    <3>2. QED
      BY <3>1 DEF Distinct
  <2>2. CASE i > Len(s) /\ j > Len(s)
    <3>1. i - Len(s) \in DOMAIN t /\ j - Len(s) \in DOMAIN t /\ t[i - Len(s)] = t[j - Len(s)]
      BY <1>1, <1>2, <2>2
    <3>2. i - Len(s) = j - Len(s)
      BY <3>1 DEF Distinct
    <3>3. QED
      BY <1>1, <3>2
  <2>3. CASE i <= Len(s) /\ j > Len(s)
    <3>1. i \in DOMAIN s /\ j - Len(s) \in DOMAIN t /\ s[i] = t[j - Len(s)]
      BY <1>1, <1>2, <2>3
    <3>2. QED
      BY <3>1 DEF Disjoint
  <2>4. CASE i > Len(s) /\ j <= Len(s)
    <3>1. j \in DOMAIN s /\ i - Len(s) \in DOMAIN t /\ s[j] = t[i - Len(s)]
      BY <1>1, <1>2, <2>4
    <3>2. QED
      BY <3>1 DEF Disjoint
  <2>5. QED
    BY <1>1, <2>1, <2>2, <2>3, <2>4
<1>3. QED
  BY <1>2 DEF Distinct, u

LEMMA DistinctWithout ==
    ASSUME NEW s \in Seq(Blockable), NEW d, NEW t,
           t = Dns!Kept(s, {i \in DOMAIN s : s[i] # d})
    PROVE  t \in Seq(Blockable) /\ (Distinct(s) => Distinct(t))
<1> DEFINE L == Blockable \ {d}
           places == {i \in DOMAIN s : s[i] # d}
<1>1. places = {i \in DOMAIN s : s[i] \in L}
  <2>1. \A i \in DOMAIN s : s[i] \in Blockable
    BY ElementOfSeq, LenProperties
  <2>2. QED
    BY <2>1
<1>2. t = LinesIn(s, L)
  <2>1. t = Kept(s, places)
    BY ZoneKept
  <2>2. LinesIn(s, L) = Kept(s, {i \in DOMAIN s : s[i] \in L})
    BY DEF LinesIn
  <2>3. QED
    BY <1>1, <2>1, <2>2
<1>3. t \in Seq(Blockable)
  BY <1>2, LinesInType
<1>4. PICK at \in [DOMAIN t -> DOMAIN s] :
          /\ \A i \in DOMAIN t : t[i] = s[at[i]]
          /\ \A i, j \in DOMAIN t : at[i] = at[j] => i = j
  <2> HIDE DEF L
  <2>1. \E at \in [DOMAIN LinesIn(s, L) -> DOMAIN s] :
            /\ \A i \in DOMAIN LinesIn(s, L) : LinesIn(s, L)[i] = s[at[i]] /\ s[at[i]] \in L
            /\ \A i, j \in DOMAIN LinesIn(s, L) : at[i] = at[j] => i = j
    BY LinesInPlaces, Zenon
  <2>2. QED
    BY <1>2, <2>1
<1>5. Distinct(s) => Distinct(t)
  BY <1>4 DEF Distinct
<1>6. QED
  BY <1>3, <1>5

LEMMA ListInit == Dns!Init => ListInv
<1> SUFFICES ASSUME Dns!Init PROVE ListInv
  OBVIOUS
<1>1. /\ blocklist = <<>> /\ fetched = {} /\ update = "none"
      /\ listPc = [r \in Request |-> "idle"] /\ listCopy = [r \in Request |-> <<>>]
  BY DEF Dns!Init
<1>2. ListTypes
  BY <1>1, NoLines DEF ListTypes
<1>3. ListAlone
  BY <1>1, NoLines DEF ListAlone
<1>4. QED
  BY <1>2, <1>3 DEF ListInv

\* A custom rule arrives with the lines it is to append, or to write instead.
LEMMA RuleArrives ==
    ASSUME ListInv, NEW r \in Request, NEW to \in {"append", "truncate"}, NEW lines \in Seq(Blockable),
           listPc' = [listPc EXCEPT ![r] = to],
           listCopy' = [listCopy EXCEPT ![r] = lines],
           listMixed' = (listMixed \/ ~Dns!ListIdle),
           UNCHANGED <<blocklist, update, fetched>>,
           Distinct(blocklist) => Distinct(lines),
           to = "append" => Disjoint(blocklist, lines)
    PROVE  ListInv'
<1>1. ListTypes'
  BY DEF ListInv, ListTypes
<1>2. ASSUME ~listMixed' PROVE ListAlone'
  <2>1. ListAlone /\ update # "writing" /\ \A q \in Request : listPc[q] = "idle"
    BY <1>2 DEF ListInv, Dns!ListIdle
  <2>2. /\ listPc'[r] = to /\ listCopy'[r] = lines
        /\ \A q \in Request : listPc'[q] # "idle" => q = r
    BY <2>1 DEF ListInv, ListTypes
  <2>3. Distinct(blocklist') /\ Distinct(lines)
    BY <2>1 DEF ListAlone
  <2>4. update' # "writing"
    BY <2>1
  <2>5. ASSUME NEW q \in Request, listPc'[q] # "idle" PROVE Distinct(listCopy'[q])
    BY <2>2, <2>3, <2>5
  <2>6. ASSUME NEW q \in Request, listPc'[q] = "append" PROVE Disjoint(blocklist', listCopy'[q])
    <3>1. q = r /\ to = "append"
      BY <2>2, <2>6
    <3>2. QED
      BY <2>2, <3>1
  <2>7. QED
    BY <2>2, <2>3, <2>4, <2>5, <2>6 DEF ListAlone
<1>3. QED
  BY <1>1, <1>2 DEF ListInv

LEMMA RuleSteps ==
    ASSUME ListInv, NEW r \in Request,
           Dns!ReadForAdd(r) \/ Dns!ReadForRemove(r) \/ Dns!AppendDomain(r) \/ Dns!TruncateList(r)
    PROVE  ListInv'
<1>0. ListTypes /\ (listMixed \/ ListAlone)
  BY DEF ListInv
<1>1. CASE Dns!ReadForAdd(r)
  <2>1. PICK d \in Domain :
            /\ \A i \in DOMAIN blocklist : blocklist[i] # d
            /\ listPc' = [listPc EXCEPT ![r] = "append"]
            /\ listCopy' = [listCopy EXCEPT ![r] = <<d>>]
            /\ listMixed' = (listMixed \/ ~Dns!ListIdle)
            /\ UNCHANGED <<blocklist, update, fetched>>
    BY <1>1 DEF Dns!ReadForAdd
  <2> DEFINE lines == <<d>>
  <2>2. /\ lines \in Seq(Blockable) /\ Distinct(lines)
        /\ DOMAIN lines = {1} /\ lines[1] = d
    BY OneLine DEF Blockable
  <2>3. listCopy' = [listCopy EXCEPT ![r] = lines]
    BY <2>1
  <2> HIDE DEF lines
  <2>4. Disjoint(blocklist, lines)
    BY <2>1, <2>2 DEF Disjoint
  <2>5. QED
    BY <2>1, <2>2, <2>3, <2>4, RuleArrives
<1>2. CASE Dns!ReadForRemove(r)
  <2>1. PICK d \in Domain :
            /\ listPc' = [listPc EXCEPT ![r] = "truncate"]
            /\ listCopy' = [listCopy EXCEPT ![r] =
                   Dns!Kept(blocklist, {i \in DOMAIN blocklist : blocklist[i] # d})]
            /\ listMixed' = (listMixed \/ ~Dns!ListIdle)
            /\ UNCHANGED <<blocklist, update, fetched>>
    BY <1>2 DEF Dns!ReadForRemove
  <2> DEFINE lines == Dns!Kept(blocklist, {i \in DOMAIN blocklist : blocklist[i] # d})
  <2>2. lines \in Seq(Blockable) /\ (Distinct(blocklist) => Distinct(lines))
    BY <1>0, DistinctWithout DEF ListTypes
  <2>3. listCopy' = [listCopy EXCEPT ![r] = lines]
    BY <2>1
  <2> HIDE DEF lines
  <2>4. QED
    BY <2>1, <2>2, <2>3, RuleArrives
<1>3. CASE Dns!AppendDomain(r)
  <2>1. /\ listPc[r] = "append" /\ listPc' = [listPc EXCEPT ![r] = "idle"]
        /\ blocklist' = blocklist \o listCopy[r]
        /\ listCopy' = [listCopy EXCEPT ![r] = <<>>]
        /\ UNCHANGED <<update, fetched, listMixed>>
    BY <1>3 DEF Dns!AppendDomain
  <2>2. ListTypes'
    <3>1. listCopy[r] \in Seq(Blockable) /\ blocklist \in Seq(Blockable)
      BY <1>0 DEF ListTypes
    <3>2. blocklist' \in Seq(Blockable)
      BY <2>1, <3>1, ConcatProperties
    <3>3. QED
      BY <1>0, <2>1, <3>2, NoLines DEF ListTypes
  <2>3. ASSUME ListAlone PROVE ListAlone'
    <3>1. \A q \in Request : listPc'[q] = "idle"
      BY <1>0, <2>1, <2>3 DEF ListAlone, ListTypes
    <3>2. Distinct(blocklist) /\ Distinct(listCopy[r]) /\ Disjoint(blocklist, listCopy[r])
      BY <2>1, <2>3 DEF ListAlone
    <3>3. Distinct(blocklist')
      <4>1. blocklist \in Seq(Blockable) /\ listCopy[r] \in Seq(Blockable)
        BY <1>0 DEF ListTypes
      <4>2. QED
        BY <2>1, <3>2, <4>1, DistinctTogether
    <3>4. update' # "writing"
      BY <2>1, <2>3 DEF ListAlone
    <3>5. QED
      BY <3>1, <3>3, <3>4 DEF ListAlone
  <2>4. QED
    BY <1>0, <2>1, <2>2, <2>3 DEF ListInv
<1>4. CASE Dns!TruncateList(r)
  <2>1. /\ listPc[r] = "truncate" /\ listPc' = [listPc EXCEPT ![r] = "append"]
        /\ blocklist' = <<>>
        /\ UNCHANGED <<listCopy, update, fetched, listMixed>>
    BY <1>4 DEF Dns!TruncateList
  <2>2. ListTypes'
    BY <1>0, <2>1, NoLines DEF ListTypes
  <2>3. ASSUME ListAlone PROVE ListAlone'
    <3>1. \A q \in Request : listPc'[q] # "idle" => listPc[q] # "idle"
      BY <1>0, <2>1 DEF ListTypes
    <3>2. update' # "writing"
      BY <2>1, <2>3 DEF ListAlone
    <3>3. \A q \in Request : listPc'[q] # "idle" => Distinct(listCopy'[q])
      BY <2>1, <2>3, <3>1 DEF ListAlone
    <3>4. \A s : Disjoint(blocklist', s)
      BY <2>1, NoLines
    <3>5. Distinct(blocklist')
      BY <2>1, NoLines
    <3>6. \A p, q \in Request : listPc'[p] # "idle" /\ listPc'[q] # "idle" => p = q
      BY <2>3, <3>1 DEF ListAlone
    <3>7. QED
      BY <3>2, <3>3, <3>4, <3>5, <3>6 DEF ListAlone
  <2>4. QED
    BY <1>0, <2>1, <2>2, <2>3 DEF ListInv
<1>5. QED
  BY <1>1, <1>2, <1>3, <1>4

LEMMA DownloadSteps ==
    ASSUME ListInv, Dns!StartUpdate \/ Dns!Download \/ Dns!WriteDomain
    PROVE  ListInv'
<1>0. ListTypes /\ (listMixed \/ ListAlone)
  BY DEF ListInv
<1>1. ASSUME UNCHANGED <<blocklist, listPc, listCopy, fetched, listMixed>>, update' # "writing"
      PROVE  ListInv'
  BY <1>0, <1>1 DEF ListInv, ListTypes, ListAlone
<1>2. CASE Dns!StartUpdate
  BY <1>1, <1>2 DEF Dns!StartUpdate
<1>3. CASE Dns!Download /\ update' = "none"
  BY <1>1, <1>3 DEF Dns!Download
<1>4. CASE Dns!Download /\ update' # "none"
  <2>1. /\ update' = "writing" /\ fetched' \in Downloads /\ blocklist' = <<>>
        /\ listMixed' = (listMixed \/ ~Dns!ListIdle)
        /\ UNCHANGED <<listPc, listCopy>>
    BY <1>4 DEF Dns!Download
  <2>2. ListTypes'
    BY <1>0, <2>1, NoLines DEF ListTypes, Blockable
  <2>3. ASSUME ~listMixed' PROVE ListAlone'
    <3>1. \A q \in Request : listPc'[q] = "idle"
      BY <2>1, <2>3 DEF Dns!ListIdle
    <3>2. Distinct(blocklist') /\ DOMAIN blocklist' = {}
      BY <2>1, NoLines
    <3>3. QED
      BY <3>1, <3>2 DEF ListAlone
  <2>4. QED
    BY <2>2, <2>3 DEF ListInv
<1>5. CASE Dns!WriteDomain /\ fetched = {}
  BY <1>1, <1>5 DEF Dns!WriteDomain
<1>6. CASE Dns!WriteDomain /\ fetched # {}
  <2>1. PICK d \in fetched :
            /\ update = "writing" /\ blocklist' = Append(blocklist, d) /\ fetched' = fetched \ {d}
            /\ UNCHANGED <<update, listPc, listCopy, listMixed>>
    BY <1>6 DEF Dns!WriteDomain
  <2>2. d \in Blockable /\ blocklist \in Seq(Blockable)
    BY <1>0 DEF ListTypes
  <2>3. /\ blocklist' \in Seq(Blockable) /\ DOMAIN blocklist = 1..Len(blocklist) /\ Len(blocklist) \in Nat
        /\ DOMAIN blocklist' = 1..Len(blocklist) + 1
        /\ \A i \in 1..Len(blocklist) : blocklist'[i] = blocklist[i]
        /\ blocklist'[Len(blocklist) + 1] = d
    BY <2>1, <2>2, AppendProperties, LenProperties
  <2>4. ListTypes'
    BY <1>0, <2>1, <2>3 DEF ListTypes
  <2>5. ASSUME ListAlone PROVE ListAlone'
    <3>1. \A i \in DOMAIN blocklist : blocklist[i] \notin fetched /\ blocklist[i] # d
      BY <2>1, <2>5 DEF ListAlone
    <3>2. Distinct(blocklist')
      <4>1. Distinct(blocklist)
        BY <2>5 DEF ListAlone
      <4>2. ASSUME NEW i \in DOMAIN blocklist', NEW j \in DOMAIN blocklist', blocklist'[i] = blocklist'[j]
            PROVE  i = j
        <5>1. (i = Len(blocklist) + 1 \/ i \in DOMAIN blocklist)
              /\ (j = Len(blocklist) + 1 \/ j \in DOMAIN blocklist)
          BY <2>3
        <5>2. QED
          BY <2>3, <3>1, <4>1, <4>2, <5>1 DEF Distinct
      <4>3. QED
        BY <4>2 DEF Distinct
    <3>3. \A i \in DOMAIN blocklist' : blocklist'[i] \notin fetched'
      <4>1. \A i \in DOMAIN blocklist' : i = Len(blocklist) + 1 \/ i \in DOMAIN blocklist
        BY <2>3
      <4>2. QED
        BY <2>1, <2>3, <3>1, <4>1
    <3>4. \A q \in Request : listPc'[q] = "idle"
      BY <2>1, <2>5 DEF ListAlone
    <3>5. QED
      BY <3>2, <3>3, <3>4 DEF ListAlone
  <2>6. QED
    BY <1>0, <2>1, <2>4, <2>5 DEF ListInv
<1>7. QED
  BY <1>2, <1>3, <1>4, <1>5, <1>6

LEMMA ListStep == ListInv /\ [Dns!Next]_Dns!vars => ListInv'
<1> SUFFICES ASSUME ListInv, [Dns!Next]_Dns!vars PROVE ListInv'
  OBVIOUS
<1>1. ASSUME UNCHANGED <<blocklist, listPc, listCopy, fetched, listMixed>>,
             update' = update \/ update' = "running"
      PROVE  ListInv'
  BY <1>1 DEF ListInv, ListTypes, ListAlone
<1>2. ASSUME NEW r \in Request,
             Dns!AddRecord(r) \/ Dns!RemoveRecord(r) \/ Dns!PostSettings(r) \/ Dns!Toggle(r)
      PROVE  ListInv'
  BY <1>1, <1>2 DEF Dns!AddRecord, Dns!RemoveRecord, Dns!PostSettings, Dns!Toggle, Dns!Arrive,
                    Dns!listVars
<1>3. ASSUME NEW r \in Request,
             Dns!AdGet(r) \/ Dns!AdPut(r) \/ Dns!Truncate(r) \/ Dns!ConfFails(r)
      PROVE  ListInv'
  BY <1>1, <1>3 DEF Dns!AdGet, Dns!AdPut, Dns!Truncate, Dns!ConfFails, Dns!listVars
<1>4. ASSUME NEW r \in Request, Dns!Fill(r) PROVE ListInv'
  BY <1>1, <1>4 DEF Dns!Fill
<1>5. ASSUME NEW r \in Request,
             Dns!ReadForAdd(r) \/ Dns!ReadForRemove(r) \/ Dns!AppendDomain(r) \/ Dns!TruncateList(r)
      PROVE  ListInv'
  BY <1>5, RuleSteps
<1>6. ASSUME Dns!StartUpdate \/ Dns!Download \/ Dns!WriteDomain PROVE ListInv'
  BY <1>6, DownloadSteps
<1>7. ASSUME UNCHANGED Dns!vars PROVE ListInv'
  BY <1>1, <1>7 DEF Dns!vars, Dns!listVars
<1>8. QED
  BY <1>2, <1>3, <1>4, <1>5, <1>6, <1>7 DEF Dns!Next

\* A domain is in the list once, until a custom rule overlaps another or the
\* writing of a download.
THEOREM BlockedOnce == Dns!DnsSpec => []DomainsOnce
<1>1. ListInv => DomainsOnce
  BY DEF ListInv, ListAlone, Distinct, DomainsOnce, Dns!DomainsOnce
<1>2. QED
  BY <1>1, ListInit, ListStep, PTL DEF Dns!DnsSpec

-----------------------------------------------------------------------------
(* The e-paper panel.                                                      *)

Pixel == Int \X Int \X BOOLEAN
Buffer == [0..Panel!BUF - 1 -> SUBSET Panel!White]

\* A pixel's place: its byte in the buffer, and its bit there.
ByteOf(px, py) == py * Panel!ROW + px \div Bits
BitOf(px) == Bits - 1 - (px % Bits)

Columns == 0..W - 1
Rows == 0..H - 1

LEMMA RowBytes ==
    /\ Panel!ROW \in Nat /\ Panel!ROW > 0 /\ W = Panel!ROW * Bits
    /\ Panel!BUF = Panel!ROW * H /\ Panel!BUF \in Nat
BY PanelAssumption DEF Panel!ROW, Panel!BUF

LEMMA ByteInBuffer ==
    ASSUME NEW cx \in 0..Panel!ROW - 1, NEW cy \in Rows
    PROVE  cy * Panel!ROW + cx \in 0..Panel!BUF - 1
<1>1. ASSUME NEW r \in Nat, NEW c \in 0..r - 1 PROVE cy * r + c \in 0..(r * H - 1)
  BY PanelAssumption DEF Rows
<1>2. QED
  BY <1>1, RowBytes

LEMMA ByteOnce ==
    ASSUME NEW cx \in 0..Panel!ROW - 1, NEW cy \in Nat, NEW dx \in 0..Panel!ROW - 1, NEW dy \in Nat,
           cy * Panel!ROW + cx = dy * Panel!ROW + dx
    PROVE  cx = dx /\ cy = dy
<1>1. ASSUME NEW r \in Nat, cx \in 0..r - 1, dx \in 0..r - 1, cy * r + cx = dy * r + dx
      PROVE  cx = dx /\ cy = dy
  BY <1>1
<1>2. QED
  BY <1>1, RowBytes

LEMMA ColumnParts ==
    ASSUME NEW px \in Columns
    PROVE  /\ px \div Bits \in 0..Panel!ROW - 1 /\ px % Bits \in 0..Bits - 1
           /\ px = (px \div Bits) * Bits + (px % Bits)
           /\ BitOf(px) \in Panel!White
BY PanelAssumption DEF Columns, Panel!ROW, BitOf, Panel!White

LEMMA ByteOfPixel ==
    ASSUME NEW px \in Columns, NEW py \in Rows
    PROVE  ByteOf(px, py) \in 0..Panel!BUF - 1
BY ColumnParts, ByteInBuffer DEF ByteOf

\* No two pixels share a bit.
LEMMA PlaceOnce ==
    ASSUME NEW px \in Columns, NEW py \in Rows, NEW qx \in Columns, NEW qy \in Rows,
           ByteOf(px, py) = ByteOf(qx, qy), BitOf(px) = BitOf(qx)
    PROVE  px = qx /\ py = qy
<1>1. py \in Nat /\ qy \in Nat
  BY PanelAssumption DEF Rows
<1>2. px \div Bits = qx \div Bits /\ py = qy
  BY <1>1, ColumnParts, ByteOnce DEF ByteOf
<1>3. px % Bits = qx % Bits
  <2>1. px % Bits \in Int /\ qx % Bits \in Int /\ Bits \in Int
    BY ColumnParts, PanelAssumption
  <2>2. QED
    BY <2>1 DEF BitOf
<1>4. QED
  BY <1>2, <1>3, ColumnParts

\* A pixel changes its own bit only.
LEMMA PaintBit ==
    ASSUME NEW b \in Buffer, NEW pixel \in Pixel, NEW c, c = Panel!Paint(b, pixel)
    PROVE  /\ c \in Buffer
           /\ \A px \in Columns, py \in Rows :
                  BitOf(px) \in c[ByteOf(px, py)] <=>
                      IF pixel[1] = px /\ pixel[2] = py THEN ~pixel[3] ELSE BitOf(px) \in b[ByteOf(px, py)]
<1> DEFINE qx == pixel[1]
           qy == pixel[2]
           inside == qx \in Columns /\ qy \in Rows
<1>1. qx \in Int /\ qy \in Int /\ pixel[3] \in BOOLEAN
  BY DEF Pixel
<1>2. inside <=> ~(qx < 0 \/ qy < 0 \/ qx >= W \/ qy >= H)
  BY <1>1, PanelAssumption DEF Columns, Rows
<1>3. c = IF ~inside THEN b
          ELSE [b EXCEPT ![ByteOf(qx, qy)] =
                    IF pixel[3] THEN b[ByteOf(qx, qy)] \ {BitOf(qx)} ELSE b[ByteOf(qx, qy)] \cup {BitOf(qx)}]
  BY <1>2 DEF Panel!Paint, ByteOf, BitOf
<1> HIDE DEF inside, qx, qy
<1>4. CASE ~inside
  <2>1. \A px \in Columns, py \in Rows : ~(pixel[1] = px /\ pixel[2] = py)
    BY <1>4 DEF inside, qx, qy
  <2>2. QED
    BY <1>3, <1>4, <2>1
<1>5. CASE inside
  <2>1. qx \in Columns /\ qy \in Rows
    BY <1>5 DEF inside
  <2> DEFINE n == ByteOf(qx, qy)
             bit == BitOf(qx)
             new == IF pixel[3] THEN b[n] \ {bit} ELSE b[n] \cup {bit}
  <2>2. n \in 0..Panel!BUF - 1 /\ bit \in Panel!White
    BY <2>1, ByteOfPixel, ColumnParts
  <2>3. c = [b EXCEPT ![n] = new]
    BY <1>3, <1>5
  <2>4. new \subseteq Panel!White /\ (bit \in new <=> ~pixel[3])
        /\ \A e : e # bit => (e \in new <=> e \in b[n])
    BY <1>1, <2>2 DEF Buffer
  <2>5. \A px \in Columns, py \in Rows : ByteOf(px, py) = n /\ BitOf(px) = bit <=> qx = px /\ qy = py
    BY <2>1, PlaceOnce
  <2>6. \A px \in Columns, py \in Rows : ByteOf(px, py) \in 0..Panel!BUF - 1
    BY ByteOfPixel
  <2> HIDE DEF n, bit, new
  <2>7. c \in Buffer /\ \A m \in 0..Panel!BUF - 1 : c[m] = IF m = n THEN new ELSE b[m]
    BY <2>2, <2>3, <2>4 DEF Buffer
  <2>8. ASSUME NEW px \in Columns, NEW py \in Rows
        PROVE  BitOf(px) \in c[ByteOf(px, py)] <=>
                   IF qx = px /\ qy = py THEN ~pixel[3] ELSE BitOf(px) \in b[ByteOf(px, py)]
    <3> DEFINE m == ByteOf(px, py)
               e == BitOf(px)
    <3>1. c[m] = IF m = n THEN new ELSE b[m]
      BY <2>6, <2>7
    <3>2. m = n /\ e = bit <=> qx = px /\ qy = py
      BY <2>5
    <3> HIDE DEF m, e
    <3>3. e \in c[m] <=> IF qx = px /\ qy = py THEN ~pixel[3] ELSE e \in b[m]
      BY <2>4, <3>1, <3>2
    <3>4. QED
      BY <3>3 DEF m, e
  <2>9. QED
    BY <2>7, <2>8 DEF qx, qy
<1>6. QED
  BY <1>4, <1>5

\* A set of the first n numbers that is not empty has a greatest.
LEMMA GreatestNatural ==
    ASSUME NEW n \in Nat, NEW S \in SUBSET (1..n), S # {}
    PROVE  \E m \in S : \A k \in S : k <= m
<1> DEFINE T == {t \in 0..n : n - t \in S}
<1>1. T \in SUBSET Nat
  OBVIOUS
<1>2. ASSUME NEW k \in S PROVE n - k \in T
  <2>1. k \in 1..n
    OBVIOUS
  <2>2. n - k \in 0..n /\ n - (n - k) = k
    BY <2>1
  <2>3. QED
    BY <2>2
<1>3. T # {}
  BY <1>2
<1>4. PICK least \in T : \A t \in T : least <= t
  <2> HIDE DEF T
  <2>1. QED
    BY <1>1, <1>3, LeastNatural
<1>5. n - least \in S /\ least \in Nat
  OBVIOUS
<1>6. ASSUME NEW k \in S PROVE k <= n - least
  <2>1. least <= n - k
    <3>1. n - k \in T
      BY <1>2
    <3> HIDE DEF T
    <3>2. QED
      BY <1>4, <3>1
  <2>2. k \in Nat
    OBVIOUS
  <2>3. QED
    BY <1>5, <2>1, <2>2
<1>7. QED
  BY <1>5, <1>6

\* The colour that the first n pixels of a drawing give a pixel last.
HitsOf(s, n, px, py) == {i \in 1..n : s[i][1] = px /\ s[i][2] = py}
BlackAfter(s, n, px, py) ==
    HitsOf(s, n, px, py) # {}
        /\ s[CHOOSE i \in HitsOf(s, n, px, py) : \A j \in HitsOf(s, n, px, py) : j <= i][3]

LEMMA BlackNext ==
    ASSUME NEW s, NEW n \in Nat, NEW px, NEW py
    PROVE  BlackAfter(s, n + 1, px, py) <=>
               IF s[n + 1][1] = px /\ s[n + 1][2] = py THEN s[n + 1][3] ELSE BlackAfter(s, n, px, py)
<1> DEFINE old == HitsOf(s, n, px, py)
           new == HitsOf(s, n + 1, px, py)
<1>1. CASE s[n + 1][1] = px /\ s[n + 1][2] = py
  <2>1. n + 1 \in new /\ \A j \in new : j <= n + 1 /\ j \in Int
    BY <1>1 DEF HitsOf
  <2> HIDE DEF new
  <2>2. \A i \in new : (\A j \in new : j <= i) <=> i = n + 1
    BY <2>1
  <2>3. (CHOOSE i \in new : \A j \in new : j <= i) = n + 1
    BY <2>1, <2>2
  <2>4. BlackAfter(s, n + 1, px, py) <=> s[n + 1][3]
    BY <2>1, <2>3 DEF BlackAfter, new
  <2>5. QED
    BY <1>1, <2>4
<1>2. CASE ~(s[n + 1][1] = px /\ s[n + 1][2] = py)
  <2>1. \A i \in 1..n + 1 : i = n + 1 \/ i \in 1..n
    OBVIOUS
  <2>2. new = old
    BY <1>2, <2>1 DEF HitsOf
  <2>3. QED
    BY <1>2, <2>2 DEF BlackAfter
<1>3. QED
  BY <1>1, <1>2

\* The buffers that Painted runs through.
PaintsTo(f, b, s, m) ==
    f = [n \in 0..m |-> IF n = 0 THEN b ELSE Panel!Paint(f[n - 1], s[n])]

LEMMA PaintsExist == ASSUME NEW b, NEW s, NEW m \in Nat PROVE \E f : PaintsTo(f, b, s, m)
<1> DEFINE T == {n \in Nat : \E f : PaintsTo(f, b, s, n)}
<1>1. 0 \in T
  <2> DEFINE f == [n \in 0..0 |-> b]
  <2>1. PaintsTo(f, b, s, 0)
    BY DEF PaintsTo
  <2>2. QED
    BY <2>1
<1>2. ASSUME NEW k \in Nat, k \in T PROVE k + 1 \in T
  <2>1. PICK f : PaintsTo(f, b, s, k)
    BY <1>2
  <2> DEFINE final == Panel!Paint(f[k], s[k + 1])
             g == [n \in 0..k + 1 |-> IF n = k + 1 THEN final ELSE f[n]]
  <2>2. ASSUME NEW n \in 0..k + 1 PROVE g[n] = IF n = 0 THEN b ELSE Panel!Paint(g[n - 1], s[n])
    <3>1. CASE n = k + 1
      <4>1. g[n] = final /\ g[n - 1] = f[k]
        BY <3>1
      <4> HIDE DEF g
      <4>2. QED
        BY <3>1, <4>1
    <3>2. CASE n \in 0..k
      <4>1. g[n] = f[n] /\ (n # 0 => g[n - 1] = f[n - 1])
        BY <3>2
      <4> HIDE DEF g
      <4>2. f[n] = IF n = 0 THEN b ELSE Panel!Paint(f[n - 1], s[n])
        BY <2>1, <3>2 DEF PaintsTo
      <4>3. QED
        BY <4>1, <4>2
    <3>3. QED
      BY <3>1, <3>2
  <2>3. g = [n \in 0..k + 1 |-> IF n = 0 THEN b ELSE Panel!Paint(g[n - 1], s[n])]
    BY <2>2
  <2>4. PaintsTo(g, b, s, k + 1)
    BY <2>3 DEF PaintsTo
  <2>5. QED
    BY <2>4
<1>3. Nat \subseteq T
  <2> HIDE DEF T
  <2>1. QED
    BY <1>1, <1>2, NatSetInduction
<1>4. QED
  BY <1>3

\* What is painted on a white buffer is white but where it was last black.
LEMMA PaintedBits ==
    ASSUME NEW s \in Seq(Pixel), NEW b, b = Panel!Painted(Panel!Clear, s)
    PROVE  /\ b \in Buffer
           /\ \A px \in Columns, py \in Rows :
                  BitOf(px) \in b[ByteOf(px, py)] <=> ~BlackAfter(s, Len(s), px, py)
<1> DEFINE m == Len(s)
           f == CHOOSE f : f = [n \in 0..m |->
                    IF n = 0 THEN Panel!Clear ELSE Panel!Paint(f[n - 1], s[n])]
<1>0. m \in Nat /\ \A n \in 1..m : s[n] \in Pixel
  BY LenProperties, ElementOfSeq
<1>1. \E g : PaintsTo(g, Panel!Clear, s, m)
  BY <1>0, PaintsExist
<1>2. b = f[m]
  BY Zenon DEF Panel!Painted
<1>3. PaintsTo(f, Panel!Clear, s, m)
  BY <1>1, Zenon DEF PaintsTo
<1> HIDE DEF f, m
<1>4. f[0] = Panel!Clear /\ \A n \in Nat : n + 1 <= m => f[n + 1] = Panel!Paint(f[n], s[n + 1])
  <2>1. f[0] = Panel!Clear
    BY <1>0, <1>3 DEF PaintsTo
  <2>2. ASSUME NEW n \in Nat, n + 1 <= m PROVE f[n + 1] = Panel!Paint(f[n], s[n + 1])
    <3>1. n + 1 \in 0..m /\ n + 1 # 0 /\ (n + 1) - 1 = n
      BY <1>0, <2>2
    <3>2. f[n + 1] = IF n + 1 = 0 THEN Panel!Clear ELSE Panel!Paint(f[(n + 1) - 1], s[n + 1])
      BY <1>3, <3>1 DEF PaintsTo
    <3>3. QED
      BY <3>1, <3>2
  <2>3. QED
    BY <2>1, <2>2
<1> DEFINE Right(n) ==
        /\ f[n] \in Buffer
        /\ \A px \in Columns, py \in Rows :
               BitOf(px) \in f[n][ByteOf(px, py)] <=> ~BlackAfter(s, n, px, py)
           T == {n \in Nat : n <= m => Right(n)}
<1>5. 0 \in T
  <2>1. f[0] \in Buffer /\ \A i \in 0..Panel!BUF - 1 : f[0][i] = Panel!White
    BY <1>4 DEF Panel!Clear, Buffer
  <2>2. ASSUME NEW px \in Columns, NEW py \in Rows
        PROVE  BitOf(px) \in f[0][ByteOf(px, py)] /\ ~BlackAfter(s, 0, px, py)
    BY <2>1, ByteOfPixel, ColumnParts DEF BlackAfter, HitsOf
  <2>3. QED
    BY <2>1, <2>2
<1>6. ASSUME NEW n \in Nat, n \in T PROVE n + 1 \in T
  <2> SUFFICES ASSUME n + 1 <= m PROVE Right(n + 1)
    OBVIOUS
  <2>1. Right(n)
    BY <1>0, <1>6
  <2>2. s[n + 1] \in Pixel /\ f[n + 1] = Panel!Paint(f[n], s[n + 1]) /\ f[n] \in Buffer
    BY <1>0, <1>4, <2>1
  <2> DEFINE pixel == s[n + 1]
             c == f[n + 1]
             d == f[n]
  <2>3. pixel \in Pixel /\ c = Panel!Paint(d, pixel) /\ d \in Buffer
    BY <2>2
  <2> HIDE DEF pixel, c, d
  <2>4. /\ c \in Buffer
        /\ \A px \in Columns, py \in Rows :
               BitOf(px) \in c[ByteOf(px, py)] <=>
                   IF pixel[1] = px /\ pixel[2] = py THEN ~pixel[3] ELSE BitOf(px) \in d[ByteOf(px, py)]
    BY <2>3, PaintBit
  <2>5. ASSUME NEW px \in Columns, NEW py \in Rows
        PROVE  BitOf(px) \in c[ByteOf(px, py)] <=> ~BlackAfter(s, n + 1, px, py)
    <3>1. BitOf(px) \in d[ByteOf(px, py)] <=> ~BlackAfter(s, n, px, py)
      BY <2>1 DEF d
    <3>2. BlackAfter(s, n + 1, px, py) <=>
              IF pixel[1] = px /\ pixel[2] = py THEN pixel[3] ELSE BlackAfter(s, n, px, py)
      BY BlackNext DEF pixel
    <3>3. pixel[3] \in BOOLEAN
      BY <2>3 DEF Pixel
    <3>4. QED
      BY <2>4, <3>1, <3>2, <3>3
  <2>6. QED
    BY <2>4, <2>5 DEF c
<1>7. m \in T
  <2>1. Nat \subseteq T
    <3> HIDE DEF T
    <3>1. QED
      BY <1>5, <1>6, NatSetInduction
  <2>2. QED
    BY <1>0, <2>1
<1>8. QED
  BY <1>0, <1>2, <1>7 DEF m

Cells == (0..Panel!PanelX) \X (0..Panel!PanelY)

\* The panel's memory, or what it shows, is the buffer up to a byte.
Holds(cells, b, upTo) ==
    \A cx \in 0..Panel!ROW - 1, cy \in Rows :
        cy * Panel!ROW + cx < upTo => cells[<<cx, cy>>] = b[cy * Panel!ROW + cx]

\* The counters stand where the next byte of the buffer belongs.
AtByte(n) == x \in 0..Panel!ROW - 1 /\ y \in Rows /\ n = y * Panel!ROW + x

ScreenInv ==
    /\ link \in {"closed", "console", "ready", "set x", "set y", "write", "wait"}
    /\ frame \in Seq(Pixel)
    /\ ram \in [Cells -> SUBSET Panel!White]
    /\ link \notin {"closed", "console"} => xEnd = Panel!ROW - 1 /\ yEnd = H - 1
    /\ link # "ready" => outcome = "none"
    /\ link \in {"set x", "set y", "write", "wait"} \/ outcome = "ok"
           => buf = Panel!Painted(Panel!Clear, frame)
    /\ link = "set y" => x = 0
    /\ link = "write" => /\ sent \in 0..Panel!BUF
                         /\ sent < Panel!BUF => AtByte(sent)
                         /\ Holds(ram, buf, sent)
    /\ link = "wait" \/ outcome = "ok" => Holds(image, buf, Panel!BUF)

LEMMA ScreenInit == Panel!EpaperInit => ScreenInv
<1> SUFFICES ASSUME Panel!EpaperInit PROVE ScreenInv
  OBVIOUS
<1>1. link = "closed" /\ outcome = "none" /\ frame = <<>> /\ ram = [at \in Cells |-> {}]
  BY DEF Panel!EpaperInit, Cells
<1>2. frame \in Seq(Pixel)
  BY <1>1, EmptySeq
<1>3. QED
  BY <1>1, <1>2 DEF ScreenInv

\* A byte goes where it belongs, and the counters on to the next.
LEMMA ByteWritten ==
    ASSUME ScreenInv, Panel!Write
    PROVE  ScreenInv'
<1>1. /\ link = "write" /\ sent < Panel!BUF /\ sent' = sent + 1
      /\ ram' = [ram EXCEPT ![<<x, y>>] = buf[sent]]
      /\ x' = IF x = xEnd THEN 0 ELSE x + 1
      /\ y' = IF x < xEnd THEN y ELSE IF y = yEnd THEN 0 ELSE y + 1
      /\ UNCHANGED <<buf, link, xEnd, yEnd, image, frame, outcome>>
  BY DEF Panel!Write
<1>2. /\ ram \in [Cells -> SUBSET Panel!White] /\ frame \in Seq(Pixel)
      /\ xEnd = Panel!ROW - 1 /\ yEnd = H - 1 /\ outcome = "none"
      /\ buf = Panel!Painted(Panel!Clear, frame)
      /\ sent \in 0..Panel!BUF /\ AtByte(sent) /\ Holds(ram, buf, sent)
  BY <1>1 DEF ScreenInv
<1>3. x \in 0..Panel!ROW - 1 /\ y \in Rows /\ sent = y * Panel!ROW + x /\ H \in Nat /\ H > 0
  BY <1>2, PanelAssumption DEF AtByte
<1>4. <<x, y>> \in Cells /\ \A cx \in 0..Panel!ROW - 1, cy \in Rows : <<cx, cy>> \in Cells
  BY <1>3, RowBytes DEF Cells, Rows, Panel!PanelX, Panel!PanelY
<1>5. buf \in Buffer
  BY <1>2, PaintedBits
<1>6. ram' \in [Cells -> SUBSET Panel!White]
  <2>1. buf[sent] \subseteq Panel!White
    <3>1. sent \in 0..Panel!BUF - 1
      BY <1>1, <1>2, RowBytes
    <3>2. QED
      BY <1>5, <3>1 DEF Buffer
  <2>2. QED
    BY <1>1, <1>2, <1>4, <2>1
<1>7. sent' \in 0..Panel!BUF
  BY <1>1, <1>2, RowBytes
<1>8. ASSUME sent' < Panel!BUF PROVE AtByte(sent)'
  <2> DEFINE r == Panel!ROW
  <2>1. r \in Nat /\ r > 0 /\ Panel!BUF = r * H
    BY RowBytes
  <2>2. x \in 0..r - 1 /\ y \in 0..H - 1 /\ sent = y * r + x /\ xEnd = r - 1 /\ yEnd = H - 1
    BY <1>2, <1>3 DEF Rows
  <2>3. sent + 1 < r * H
    BY <1>1, <1>8, <2>1
  <2> HIDE DEF r
  <2>4. CASE x # r - 1
    <3>1. x' = x + 1 /\ y' = y
      BY <1>1, <2>1, <2>2, <2>4
    <3>2. x' \in 0..r - 1 /\ y' \in 0..H - 1 /\ sent + 1 = y' * r + x'
      BY <1>3, <2>1, <2>2, <2>4, <3>1
    <3>3. QED
      BY <1>1, <3>2 DEF AtByte, Rows, r
  <2>5. CASE x = r - 1
    <3>1. sent + 1 = (y + 1) * r
      BY <1>3, <2>1, <2>2, <2>5
    <3>2. y # H - 1
      BY <1>3, <2>1, <2>2, <2>3, <3>1
    <3>3. x' = 0 /\ y' = y + 1
      BY <1>1, <2>1, <2>2, <2>5, <3>2
    <3>4. x' \in 0..r - 1 /\ y' \in 0..H - 1 /\ sent + 1 = y' * r + x'
      BY <1>3, <2>1, <2>2, <3>1, <3>2, <3>3
    <3>5. QED
      BY <1>1, <3>4 DEF AtByte, Rows, r
  <2>6. QED
    BY <2>4, <2>5
<1>9. Holds(ram', buf', sent')
  <2> SUFFICES ASSUME NEW cx \in 0..Panel!ROW - 1, NEW cy \in Rows,
                      cy * Panel!ROW + cx < sent'
               PROVE  ram'[<<cx, cy>>] = buf'[cy * Panel!ROW + cx]
    BY DEF Holds
  <2> DEFINE n == cy * Panel!ROW + cx
  <2>1. n \in Nat /\ sent \in Nat /\ n < sent + 1
    BY <1>1, <1>2, ByteInBuffer, RowBytes
  <2> HIDE DEF n
  <2>2. CASE n = sent
    <3>1. cx = x /\ cy = y
      <4>1. cy \in Nat /\ y \in Nat /\ cy * Panel!ROW + cx = y * Panel!ROW + x
        BY <1>3, <2>2 DEF Rows, n
      <4>2. QED
        BY <1>3, <4>1, ByteOnce
    <3>2. QED
      BY <1>1, <1>2, <1>4, <2>2, <3>1 DEF n
  <2>3. CASE n < sent
    <3>1. <<cx, cy>> # <<x, y>>
      <4>1. cx = x /\ cy = y => n = sent
        BY <1>3 DEF n
      <4>2. QED
        BY <2>1, <2>3, <4>1
    <3>2. ram'[<<cx, cy>>] = ram[<<cx, cy>>]
      BY <1>1, <1>2, <1>4, <3>1
    <3>3. ram[<<cx, cy>>] = buf[n]
      BY <1>2, <2>3 DEF Holds, n
    <3>4. QED
      BY <1>1, <3>2, <3>3 DEF n
  <2>4. QED
    BY <2>1, <2>2, <2>3
<1>10. QED
  BY <1>1, <1>2, <1>6, <1>7, <1>8, <1>9 DEF ScreenInv

LEMMA ScreenStep == ScreenInv /\ [Panel!EpaperNext]_Panel!epaperVars => ScreenInv'
<1> SUFFICES ASSUME ScreenInv, [Panel!EpaperNext]_Panel!epaperVars PROVE ScreenInv'
  OBVIOUS
<1>1. CASE Panel!Open
  BY <1>1 DEF ScreenInv, Panel!Open, Panel!To, Holds, AtByte
<1>2. CASE Panel!OpenFails
  BY <1>2 DEF ScreenInv, Panel!OpenFails, Panel!To, Panel!panel, Holds, AtByte
<1>3. CASE Panel!Render
  <2>1. PICK pixels \in Frames :
            /\ link = "ready" /\ link' = "set x"
            /\ buf' = Panel!Painted(Panel!Clear, pixels)
            /\ frame' = pixels /\ outcome' = "none"
            /\ UNCHANGED <<sent, Panel!panel>>
    BY <1>3 DEF Panel!Render, Panel!To
  <2>2. frame' \in Seq(Pixel) /\ buf' = Panel!Painted(Panel!Clear, frame')
    BY <2>1, PanelAssumption DEF Pixel
  <2>3. QED
    BY <2>1, <2>2 DEF ScreenInv, Panel!panel
<1>4. CASE Panel!SetX
  BY <1>4 DEF ScreenInv, Panel!SetX, Panel!To
<1>5. CASE Panel!SetY
  <2>1. /\ link = "set y" /\ link' = "write" /\ y' = 0 /\ sent' = 0 /\ x' = 0
        /\ UNCHANGED <<buf, ram, xEnd, yEnd, x, image, frame, outcome>>
    BY <1>5 DEF ScreenInv, Panel!SetY, Panel!To
  <2>2. AtByte(sent)'
    <3>1. 0 * Panel!ROW + 0 = 0 /\ 0 \in 0..Panel!ROW - 1 /\ 0 \in Rows
      BY RowBytes, PanelAssumption DEF Rows
    <3>2. QED
      BY <2>1, <3>1 DEF AtByte
  <2>3. Holds(ram', buf', sent')
    <3>1. \A cx \in 0..Panel!ROW - 1, cy \in Rows : ~(cy * Panel!ROW + cx < 0)
      BY ByteInBuffer
    <3>2. QED
      BY <2>1, <3>1 DEF Holds
  <2>4. sent' \in 0..Panel!BUF
    <3>1. Panel!BUF \in Nat
      BY RowBytes
    <3>2. 0 \in 0..Panel!BUF
      BY <3>1
    <3>3. sent' = 0
      BY <2>1
    <3>4. QED
      BY <3>2, <3>3
  <2>5. QED
    BY <2>1, <2>2, <2>3, <2>4 DEF ScreenInv
<1>6. CASE Panel!Write
  BY <1>6, ByteWritten
<1>7. CASE Panel!Activate
  BY <1>7 DEF ScreenInv, Panel!Activate, Panel!To, Holds
<1>8. CASE Panel!Wait
  BY <1>8 DEF ScreenInv, Panel!Wait, Panel!To, Panel!panel, Holds
<1>9. CASE Panel!WireFails
  BY <1>9 DEF ScreenInv, Panel!WireFails, Panel!panel
<1>10. CASE UNCHANGED Panel!epaperVars
  BY <1>10 DEF ScreenInv, Panel!epaperVars, Panel!panel, Holds, AtByte
<1>11. QED
  BY <1>1, <1>2, <1>3, <1>4, <1>5, <1>6, <1>7, <1>8, <1>9, <1>10 DEF Panel!EpaperNext

\* A render that succeeds leaves the whole frame on the panel, each pixel in its
\* place, for frames and panels of any size and whatever renders failed before.
THEOREM FramesAreShown == Panel!EpaperSpec => []FrameShown
<1>1. ScreenInv => FrameShown
  <2> SUFFICES ASSUME ScreenInv, outcome = "ok", NEW px \in Columns, NEW py \in Rows
               PROVE  Panel!WhiteAt(px, py) <=> ~Panel!Blackened(px, py)
    BY DEF FrameShown, Panel!FrameShown, Columns, Rows
  <2>1. frame \in Seq(Pixel) /\ buf = Panel!Painted(Panel!Clear, frame) /\ Holds(image, buf, Panel!BUF)
    BY DEF ScreenInv
  <2>2. BitOf(px) \in buf[ByteOf(px, py)] <=> ~BlackAfter(frame, Len(frame), px, py)
    BY <2>1, PaintedBits
  <2>3. image[<<px \div Bits, py>>] = buf[ByteOf(px, py)]
    <3>1. px \div Bits \in 0..Panel!ROW - 1 /\ ByteOf(px, py) < Panel!BUF
      BY ColumnParts, ByteOfPixel, RowBytes
    <3>2. QED
      BY <2>1, <3>1 DEF Holds, ByteOf
  <2>4. Panel!WhiteAt(px, py) <=> BitOf(px) \in image[<<px \div Bits, py>>]
    BY DEF Panel!WhiteAt, BitOf
  <2>5. Panel!Blackened(px, py) <=> BlackAfter(frame, Len(frame), px, py)
    <3>1. DOMAIN frame = 1..Len(frame)
      BY <2>1, LenProperties
    <3>2. {i \in DOMAIN frame : frame[i][1] = px /\ frame[i][2] = py} = HitsOf(frame, Len(frame), px, py)
      BY <3>1 DEF HitsOf
    <3>3. QED
      BY <3>2 DEF Panel!Blackened, BlackAfter
  <2>6. QED
    BY <2>2, <2>3, <2>4, <2>5
<1>2. Panel!EpaperInit => ScreenInv
  BY ScreenInit
<1>3. ScreenInv /\ [Panel!EpaperNext]_Panel!epaperVars => ScreenInv'
  BY ScreenStep
<1>4. QED
  BY <1>1, <1>2, <1>3, PTL DEF Panel!EpaperSpec

-----------------------------------------------------------------------------
(* The readers of listings.                                                *)

\* What the readers have in hand belongs to the last heading,
\* which is open; what they have finished belongs to headings that are closed,
\* and the lines still to come do not change it.

Places == 1..Len(text)
PeerIn == [at : Nat, endpoint : Nat, allowed : Seq(Nat)]
IfaceIn == [at : Nat, port : Nat, peers : Seq(PeerIn)]

Unended(n, headings) == \A m \in n + 1 .. Len(text) : text[m] \notin headings

\* Below a heading that is closed nothing more is read.
EndedPeer(p) == p.at \in Places /\ ~Unended(p.at, Reader!Headings) /\ Reader!PeerInPlace(p)
EndedIface(i) ==
    /\ i.at \in Places /\ ~Unended(i.at, {"interface"})
    /\ Reader!IfaceInPlace(i) /\ \A k \in DOMAIN i.peers : EndedPeer(i.peers[k])
InHandPeer(p) == p.at \in Places /\ text[p.at] = "peer" /\ Unended(p.at, Reader!Headings) /\ Reader!PeerInPlace(p)

ReaderTypes ==
    /\ text \in Seq(Reader!Kinds)
    /\ result \in Seq(IfaceIn) /\ peers \in Seq(PeerIn) /\ conf \in IfaceIn
    /\ showIface = {} \/ \E i \in IfaceIn : showIface = {i}
    /\ showPeer = {} \/ \E p \in PeerIn : showPeer = {p}
    /\ confPeer = {} \/ \E p \in PeerIn : confPeer = {p}
    /\ section \in {"none", "interface", "peer"}

\* The interface in hand, with the peer in hand or without one.
IfaceInHand(i) ==
    /\ i.at \in Places /\ text[i.at] = "interface" /\ Unended(i.at, {"interface"})
    /\ Reader!IsLast(i.port, Reader!Under(i.at, "port", Reader!Headings))
    /\ \A k \in DOMAIN i.peers : EndedPeer(i.peers[k])
    /\ IF showPeer = {}
       THEN /\ Unended(i.at, Reader!Headings)
            /\ Reader!Lists(Reader!At(i.peers), Reader!Under(i.at, "peer", {"interface"}))
       ELSE \A p \in showPeer :
            /\ InHandPeer(p) /\ p.at > i.at
            /\ \E rest \in SUBSET (1..p.at - 1) :
                /\ Reader!Under(i.at, "peer", {"interface"}) = rest \cup {p.at}
                /\ Reader!Lists(Reader!At(i.peers), rest)

FinishedEnded == \A k \in DOMAIN result : EndedIface(result[k])

FinishedBefore(i) ==
    \E rest \in SUBSET (1..i.at - 1) :
        /\ Reader!All("interface") = rest \cup {i.at}
        /\ Reader!Lists(Reader!At(result), rest)

ShowInv ==
    /\ FinishedEnded
    /\ showIface = {} => result = <<>> /\ Reader!All("interface") = {}
    /\ \A i \in showIface : IfaceInHand(i) /\ FinishedBefore(i)

PeersEnded == \A k \in DOMAIN peers : EndedPeer(peers[k])

PeersBefore(p) ==
    \E rest \in SUBSET (1..p.at - 1) :
        /\ Reader!All("peer") = rest \cup {p.at}
        /\ Reader!Lists(Reader!At(peers), rest)

InSection == \E i \in Reader!All("interface") : Unended(i, Reader!Headings)

ConfInv ==
    /\ PeersEnded
    /\ section = "peer" <=> confPeer # {}
    /\ confPeer = {} => Reader!Lists(Reader!At(peers), Reader!All("peer"))
    /\ \A p \in confPeer : InHandPeer(p) /\ PeersBefore(p)
    /\ section = "interface" <=> InSection
    /\ Reader!IsLast(conf.port, Reader!InInterface)

ReaderInv == ReaderTypes /\ ShowInv /\ ConfInv

\* A line more.
Longer(kind) == kind \in Reader!Kinds /\ text \in Seq(Reader!Kinds) /\ text' = Append(text, kind)

LEMMA LineAdded ==
    ASSUME NEW kind, Longer(kind)
    PROVE  /\ Len(text) \in Nat /\ Len(text') = Len(text) + 1 /\ text' \in Seq(Reader!Kinds)
           /\ text'[Len(text) + 1] = kind /\ \A m \in Places : text'[m] = text[m]
BY AppendProperties, LenProperties DEF Longer, Places

\* Below a heading that is closed a new line changes nothing.
LEMMA EndedUnder ==
    ASSUME NEW kind, Longer(kind), NEW n \in Places, NEW headings, ~Unended(n, headings), NEW k
    PROVE  Reader!Under(n, k, headings)' = Reader!Under(n, k, headings) /\ ~Unended(n, headings)'
<1> DEFINE N == Len(text) + 1
<1>1. /\ Len(text) \in Nat /\ Len(text') = N /\ text'[N] = kind
      /\ \A m \in 1..Len(text) : text'[m] = text[m]
  BY LineAdded DEF Places
<1>2. PICK m \in n + 1 .. Len(text) : text[m] \in headings
  BY DEF Unended
<1>3. ASSUME NEW j \in n + 1 .. N
      PROVE  (\A l \in n + 1 .. j : text'[l] \notin headings) <=>
             (j # N /\ \A l \in n + 1 .. j : text[l] \notin headings)
  <2>1. CASE j = N
    BY <1>1, <1>2, <2>1 DEF Places
  <2>2. CASE j # N
    BY <1>1, <2>2 DEF Places
  <2>3. QED
    BY <2>1, <2>2
<1>4. Reader!Under(n, k, headings)' = {j \in n + 1 .. N : text'[j] = k /\ \A l \in n + 1 .. j : text'[l] \notin headings}
  BY <1>1 DEF Reader!Under
<1>5. \A j \in n + 1 .. N : j # N => j \in n + 1 .. Len(text) /\ text'[j] = text[j]
  BY <1>1 DEF Places
<1>6. Reader!Under(n, k, headings)' = Reader!Under(n, k, headings)
  BY SMTT(30), <1>1, <1>3, <1>4, <1>5 DEF Reader!Under, Places
<1>7. ~Unended(n, headings)'
  BY <1>1, <1>2 DEF Unended, Places
<1>8. QED
  BY <1>6, <1>7

\* Below one that is open it belongs to what was read.
LEMMA OpenUnder ==
    ASSUME NEW kind, Longer(kind), NEW n \in Places, NEW headings, Unended(n, headings), NEW k
    PROVE  /\ k = kind /\ kind \notin headings =>
                Reader!Under(n, k, headings)' = Reader!Under(n, k, headings) \cup {Len(text) + 1}
           /\ k # kind \/ kind \in headings =>
                Reader!Under(n, k, headings)' = Reader!Under(n, k, headings)
           /\ Unended(n, headings)' <=> kind \notin headings
<1> DEFINE N == Len(text) + 1
<1>1. /\ Len(text) \in Nat /\ Len(text') = N /\ text'[N] = kind
      /\ \A m \in 1..Len(text) : text'[m] = text[m]
  BY LineAdded DEF Places
<1>2. \A l \in n + 1 .. Len(text) : text[l] \notin headings /\ text'[l] = text[l]
  BY <1>1 DEF Unended, Places
<1>3. n + 1 .. N = (n + 1 .. Len(text)) \cup {N}
  BY <1>1 DEF Places
<1>4. Unended(n, headings)' <=> kind \notin headings
  BY <1>1, <1>2, <1>3 DEF Unended
<1>5. Reader!Under(n, k, headings)' = {j \in n + 1 .. N : text'[j] = k /\ \A l \in n + 1 .. j : text'[l] \notin headings}
  BY <1>1 DEF Reader!Under
<1>6. Reader!Under(n, k, headings) = {j \in n + 1 .. Len(text) : text'[j] = k}
  BY <1>1, <1>2 DEF Reader!Under, Places
<1>7. \A j \in n + 1 .. N : (\A l \in n + 1 .. j : text'[l] \notin headings) <=> (j = N => kind \notin headings)
  BY <1>1, <1>2, <1>3 DEF Places
<1>8. \A j : j \in Reader!Under(n, k, headings)' <=>
          j \in Reader!Under(n, k, headings) \/ (j = N /\ k = kind /\ kind \notin headings)
  <2>1. N \notin n + 1 .. Len(text)
    BY <1>1
  <2>2. QED
    BY <1>1, <1>3, <1>5, <1>6, <1>7, <2>1
<1>9. QED
  BY <1>4, <1>8

\* A heading that has just been read has nothing below it.
LEMMA NewUnder ==
    ASSUME NEW kind, Longer(kind), NEW n, n = Len(text) + 1, NEW headings, NEW k
    PROVE  Reader!Under(n, k, headings)' = {} /\ Unended(n, headings)'
<1>1. n + 1 .. Len(text') = {}
  BY LineAdded
<1>2. QED
  BY <1>1 DEF Reader!Under, Unended

LEMMA AllLonger ==
    ASSUME NEW kind, Longer(kind), NEW k
    PROVE  Reader!All(k)' = IF k = kind THEN Reader!All(k) \cup {Len(text) + 1} ELSE Reader!All(k)
<1>1. /\ Len(text) \in Nat /\ Len(text') = Len(text) + 1 /\ text'[Len(text) + 1] = kind
      /\ \A m \in 1..Len(text) : text'[m] = text[m]
  BY LineAdded DEF Places
<1>2. 1..Len(text') = (1..Len(text)) \cup {Len(text) + 1}
  BY <1>1
<1>3. QED
  BY <1>1, <1>2 DEF Reader!All

LEMMA UnderPlaces ==
    ASSUME text \in Seq(Reader!Kinds), NEW n \in Nat, NEW k, NEW headings
    PROVE  Reader!Under(n, k, headings) \subseteq Places
BY LenProperties DEF Reader!Under, Places

-----------------------------------------------------------------------------
\* A list that gets its next place, and one of what stands at places.
LEMMA ListsNext ==
    ASSUME NEW list \in Seq(Nat), NEW places, Reader!Lists(list, places),
           NEW n \in Nat, \A k \in places : k < n
    PROVE  Reader!Lists(Append(list, n), places \cup {n})
<1> DEFINE l == Append(list, n)  len == Len(list)
<1>1. /\ len \in Nat /\ DOMAIN list = 1..len /\ DOMAIN l = 1..len + 1
      /\ l[len + 1] = n /\ \A i \in 1..len : l[i] = list[i] /\ list[i] \in Nat
  BY AppendProperties, LenProperties, ElementOfSeq
<1>2. places = {list[i] : i \in 1..len}
  BY <1>1 DEF Reader!Lists
<1> HIDE DEF l, len
<1>3. ASSUME NEW i \in 1..len + 1, NEW j \in 1..len + 1, i < j PROVE l[i] < l[j]
  <2>1. i \in 1..len /\ l[i] = list[i] /\ list[i] \in places
    BY <1>1, <1>2, <1>3
  <2>2. CASE j = len + 1
    BY <1>1, <2>1, <2>2
  <2>3. CASE j \in 1..len
    BY <1>1, <1>3, <2>1, <2>3 DEF Reader!Lists
  <2>4. QED
    BY <1>1, <2>2, <2>3
<1>4. {l[i] : i \in 1..len + 1} = places \cup {n}
  <2>1. 1..len + 1 = (1..len) \cup {len + 1}
    BY <1>1
  <2>2. QED
    BY <1>1, <1>2, <2>1
<1>5. QED
  BY <1>1, <1>3, <1>4 DEF Reader!Lists, l

LEMMA ListsNone ==
    ASSUME NEW list, list = <<>>
    PROVE  Reader!Lists(list, {}) /\ Reader!Lists(Reader!At(list), {})
BY DEF Reader!Lists, Reader!At

LEMMA ListsNextAt ==
    ASSUME NEW S, \A e \in S : e.at \in Nat, NEW list \in Seq(S), NEW e \in S,
           NEW places, Reader!Lists(Reader!At(list), places), \A k \in places : k < e.at
    PROVE  Reader!Lists(Reader!At(Append(list, e)), places \cup {e.at})
<1> DEFINE at == Reader!At(list)  l == Append(list, e)  len == Len(list)
<1>1. /\ len \in Nat /\ DOMAIN list = 1..len /\ DOMAIN l = 1..len + 1
      /\ l[len + 1] = e /\ \A i \in 1..len : l[i] = list[i] /\ list[i] \in S
  BY AppendProperties, LenProperties, ElementOfSeq
<1>2. /\ at = [i \in 1..len |-> list[i].at] /\ at \in Seq(Nat) /\ Len(at) = len
      /\ \A i \in 1..len : at[i] = list[i].at
  <2>1. at = [i \in 1..len |-> list[i].at]
    BY <1>1 DEF Reader!At
  <2>2. at \in [1..len -> Nat]
    BY <1>1, <2>1
  <2>3. QED
    BY <1>1, <2>1, <2>2, IsASeq, LenProperties
<1>3. Reader!At(l) = [i \in 1..len + 1 |-> l[i].at]
  BY <1>1 DEF Reader!At
<1>4. Append(at, e.at) = [i \in 1..len + 1 |-> IF i = len + 1 THEN e.at ELSE at[i]]
  BY <1>1, <1>2
<1>5. Reader!At(l) = Append(at, e.at)
  <2> HIDE DEF at, l, len
  <2>1. \A i \in 1..len + 1 : l[i].at = IF i = len + 1 THEN e.at ELSE at[i]
    BY <1>1, <1>2
  <2>2. QED
    BY <1>3, <1>4, <2>1
<1>6. QED
  BY ZenonT(30), <1>2, <1>5, ListsNext

\* Option::take.
LEMMA Pushed ==
    ASSUME NEW list
    PROVE  /\ Reader!Push(list, {}) = list
           /\ \A e : Reader!Push(list, {e}) = Append(list, e)
<1>1. ASSUME NEW e PROVE Reader!Push(list, {e}) = Append(list, e)
  <2>1. (CHOOSE only \in {e} : TRUE) = e
    OBVIOUS
  <2>2. {e} # {}
    OBVIOUS
  <2>3. QED
    BY <2>1, <2>2 DEF Reader!Push
<1>2. Reader!Push(list, {}) = list
  BY DEF Reader!Push
<1>3. QED
  BY <1>1, <1>2

LEMMA LastNext ==
    ASSUME NEW n \in Nat, NEW places, \A k \in places : k \in Nat /\ k < n
    PROVE  Reader!IsLast(n, places \cup {n})
BY DEF Reader!IsLast

-----------------------------------------------------------------------------
\* A peer or an interface that is finished stays as it is.
LEMMA EndedPeerStays ==
    ASSUME NEW kind, Longer(kind), NEW p, EndedPeer(p)
    PROVE  EndedPeer(p)'
<1>1. p.at \in Places /\ ~Unended(p.at, Reader!Headings) /\ Reader!PeerInPlace(p)
  BY DEF EndedPeer
<1>2. \A k : Reader!Under(p.at, k, Reader!Headings)' = Reader!Under(p.at, k, Reader!Headings)
  BY <1>1, EndedUnder
<1>3. ~Unended(p.at, Reader!Headings)'
  BY <1>1, EndedUnder
<1>4. Reader!PeerInPlace(p)'
  BY <1>1, <1>2 DEF Reader!PeerInPlace, Reader!IsLast, Reader!Lists
<1>5. (p.at \in Places)'
  BY <1>1, LineAdded DEF Places
<1>6. QED
  BY <1>3, <1>4, <1>5 DEF EndedPeer, Reader!Headings

LEMMA EndedIfaceStays ==
    ASSUME NEW kind, Longer(kind), NEW i, EndedIface(i)
    PROVE  EndedIface(i)'
<1>1. i.at \in Places /\ ~Unended(i.at, {"interface"}) /\ Reader!IfaceInPlace(i)
  BY DEF EndedIface
<1>2. ~Unended(i.at, Reader!Headings)
  BY <1>1 DEF Unended, Reader!Headings
<1>3. Reader!Under(i.at, "port", Reader!Headings)' = Reader!Under(i.at, "port", Reader!Headings)
  BY <1>1, <1>2, EndedUnder
<1>4. /\ Reader!Under(i.at, "peer", {"interface"})' = Reader!Under(i.at, "peer", {"interface"})
      /\ ~Unended(i.at, {"interface"})'
  BY <1>1, EndedUnder
<1>5. \A k \in DOMAIN i.peers : EndedPeer(i.peers[k])'
  BY EndedPeerStays DEF EndedIface
<1>6. \A k \in DOMAIN i.peers : Reader!PeerInPlace(i.peers[k])'
  BY <1>5 DEF EndedPeer
<1>7. Reader!IfaceInPlace(i)'
  BY <1>1, <1>3, <1>4, <1>6 DEF Reader!IfaceInPlace, Reader!PeersAt, Reader!IsLast, Reader!Lists
<1>8. (i.at \in Places)'
  BY <1>1, LineAdded DEF Places
<1>9. QED
  BY <1>4, <1>5, <1>7, <1>8 DEF EndedIface

\* A heading ends the peer in hand.
LEMMA PeerEnds ==
    ASSUME NEW kind, Longer(kind), kind \in Reader!Headings, NEW p, InHandPeer(p)
    PROVE  EndedPeer(p)'
<1>1. p.at \in Places /\ Unended(p.at, Reader!Headings) /\ Reader!PeerInPlace(p)
  BY DEF InHandPeer
<1>2. \A k : Reader!Under(p.at, k, Reader!Headings)' = Reader!Under(p.at, k, Reader!Headings)
  BY <1>1, OpenUnder
<1>3. ~Unended(p.at, Reader!Headings)'
  BY <1>1, OpenUnder
<1>4. Reader!PeerInPlace(p)'
  BY <1>1, <1>2 DEF Reader!PeerInPlace, Reader!IsLast, Reader!Lists
<1>5. (p.at \in Places)'
  BY <1>1, LineAdded DEF Places
<1>6. QED
  BY <1>3, <1>4, <1>5 DEF EndedPeer, Reader!Headings

LEMMA KeyOfPeer ==
    ASSUME NEW kind, NEW n \in Nat, NEW p \in PeerIn, NEW q, q = Reader!WithKey(p, kind, n)
    PROVE  /\ q \in PeerIn /\ q.at = p.at
           /\ q.endpoint = IF kind = "endpoint" THEN n ELSE p.endpoint
           /\ q.allowed = IF kind = "allowed" THEN Append(p.allowed, n) ELSE p.allowed
<1>1. p.allowed \in Seq(Nat) /\ Append(p.allowed, n) \in Seq(Nat)
  BY AppendProperties DEF PeerIn
<1>2. CASE kind = "endpoint"
  BY <1>2 DEF PeerIn, Reader!WithKey
<1>3. CASE kind = "allowed"
  BY <1>1, <1>3 DEF PeerIn, Reader!WithKey
<1>4. CASE kind \notin {"endpoint", "allowed"}
  BY <1>4 DEF Reader!WithKey
<1>5. QED
  BY <1>2, <1>3, <1>4

\* A key goes to the peer in hand.
LEMMA PeerGetsKey ==
    ASSUME NEW kind, Longer(kind), kind \notin Reader!Headings, NEW p \in PeerIn, InHandPeer(p),
           NEW q, q = Reader!WithKey(p, kind, Len(text) + 1)
    PROVE  q \in PeerIn /\ q.at = p.at /\ InHandPeer(q)'
<1> DEFINE N == Len(text) + 1
           under(k) == Reader!Under(p.at, k, Reader!Headings)
<1>1. p.at \in Places /\ text[p.at] = "peer" /\ Unended(p.at, Reader!Headings) /\ Reader!PeerInPlace(p)
  BY DEF InHandPeer
<1>2. N \in Nat /\ Len(text) \in Nat /\ Len(text') = N /\ \A m \in Places : text'[m] = text[m]
  BY LineAdded
<1>3. ASSUME NEW k
      PROVE  Reader!Under(p.at, k, Reader!Headings)' = IF k = kind THEN under(k) \cup {N} ELSE under(k)
  <2>1. CASE k = kind
    <3>1. Reader!Under(p.at, k, Reader!Headings)' = under(k) \cup {N}
      BY <1>1, <2>1, OpenUnder
    <3>2. QED
      BY <2>1, <3>1
  <2>2. CASE k # kind
    <3>1. Reader!Under(p.at, k, Reader!Headings)' = under(k)
      BY <1>1, <2>2, OpenUnder
    <3>2. QED
      BY <2>2, <3>1
  <2>3. QED
    BY <2>1, <2>2
<1>4. Unended(p.at, Reader!Headings)'
  BY <1>1, OpenUnder
<1>5. \A k : \A m \in under(k) : m \in Nat /\ m < N
  BY <1>1, <1>2, UnderPlaces DEF Longer, Places
<1>6. p.allowed \in Seq(Nat) /\ p.endpoint \in Nat
  BY DEF PeerIn
<1>7. /\ q \in PeerIn /\ q.at = p.at
      /\ q.endpoint = IF kind = "endpoint" THEN N ELSE p.endpoint
      /\ q.allowed = IF kind = "allowed" THEN Append(p.allowed, N) ELSE p.allowed
  BY <1>2, KeyOfPeer
<1> HIDE DEF N, under
<1>8. Reader!IsLast(q.endpoint, Reader!Under(p.at, "endpoint", Reader!Headings)')
  <2>1. Reader!IsLast(p.endpoint, under("endpoint"))
    BY <1>1 DEF Reader!PeerInPlace, under
  <2>2. QED
    BY <1>2, <1>3, <1>5, <1>7, <2>1, LastNext
<1>9. Reader!Lists(q.allowed, Reader!Under(p.at, "allowed", Reader!Headings)')
  <2>1. Reader!Lists(p.allowed, under("allowed"))
    BY <1>1 DEF Reader!PeerInPlace, under
  <2>2. CASE kind = "allowed"
    <3>1. Reader!Lists(Append(p.allowed, N), under("allowed") \cup {N})
      BY <1>2, <1>5, <1>6, <2>1, ListsNext
    <3>2. QED
      BY <1>3, <1>7, <2>2, <3>1
  <2>3. CASE kind # "allowed"
    BY <1>3, <1>7, <2>1, <2>3
  <2>4. QED
    BY <2>2, <2>3
<1>10. Reader!PeerInPlace(q)'
  BY <1>7, <1>8, <1>9 DEF Reader!PeerInPlace, Reader!IsLast, Reader!Lists
<1>11. (q.at \in Places)' /\ text'[q.at] = "peer"
  BY <1>1, <1>2, <1>7 DEF Places, N
<1>12. QED
  BY <1>4, <1>7, <1>10, <1>11 DEF InHandPeer, Reader!Headings

LEMMA PeerBegins ==
    ASSUME Longer("peer"), NEW p, p = Reader!NewPeer(Len(text) + 1)
    PROVE  p \in PeerIn /\ p.at = Len(text) + 1 /\ InHandPeer(p)'
<1>1. /\ Len(text) \in Nat /\ Len(text') = Len(text) + 1 /\ text'[Len(text) + 1] = "peer"
  BY LineAdded
<1>2. p \in PeerIn /\ p.at = Len(text) + 1 /\ p.endpoint = 0 /\ p.allowed = <<>>
  BY <1>1 DEF PeerIn, Reader!NewPeer
<1>3. \A k : Reader!Under(p.at, k, Reader!Headings)' = {}
  BY <1>2, NewUnder
<1>4. Unended(p.at, Reader!Headings)'
  BY <1>2, NewUnder
<1>5. Reader!PeerInPlace(p)'
  BY <1>2, <1>3 DEF Reader!PeerInPlace, Reader!IsLast, Reader!Lists
<1>6. (p.at \in Places)' /\ text'[p.at] = "peer"
  BY <1>1, <1>2 DEF Places
<1>7. QED
  BY <1>2, <1>4, <1>5, <1>6 DEF InHandPeer, Reader!Headings

-----------------------------------------------------------------------------
\* The interface in hand with the peer in hand at the end of its list.
LEMMA HousedOne ==
    ASSUME ReaderTypes, ShowInv, NEW i \in IfaceIn, showIface = {i}
    PROVE  \E h \in IfaceIn :
              /\ Reader!Housed = {h}
              /\ h.at = i.at /\ h.port = i.port
              /\ Reader!Lists(Reader!At(h.peers), Reader!Under(i.at, "peer", {"interface"}))
              /\ \A k \in DOMAIN h.peers : EndedPeer(h.peers[k]) \/ InHandPeer(h.peers[k])
<1> DEFINE h == [i EXCEPT !.peers = Reader!Push(@, showPeer)]
<1>1. IfaceInHand(i) /\ i.peers \in Seq(PeerIn)
  BY DEF ShowInv, IfaceIn
<1>2. Reader!Housed = {h}
  BY DEF Reader!Housed
<1>3. CASE showPeer = {}
  <2>1. h.peers = i.peers /\ h \in IfaceIn /\ h.at = i.at /\ h.port = i.port
    BY <1>1, <1>3, Pushed DEF IfaceIn
  <2>2. QED
    BY <1>1, <1>2, <1>3, <2>1 DEF IfaceInHand
<1>4. ASSUME NEW p \in PeerIn, showPeer = {p}
      PROVE  /\ h \in IfaceIn /\ h.at = i.at /\ h.port = i.port
             /\ Reader!Lists(Reader!At(h.peers), Reader!Under(i.at, "peer", {"interface"}))
             /\ \A k \in DOMAIN h.peers : EndedPeer(h.peers[k]) \/ InHandPeer(h.peers[k])
  <2>1. h.peers = Append(i.peers, p)
    <3>1. Reader!Push(i.peers, {p}) = Append(i.peers, p)
      BY Pushed
    <3>2. QED
      BY <1>4, <3>1 DEF IfaceIn
  <2>2. /\ Append(i.peers, p) \in Seq(PeerIn)
        /\ DOMAIN Append(i.peers, p) = 1..Len(i.peers) + 1 /\ DOMAIN i.peers = 1..Len(i.peers)
        /\ Append(i.peers, p)[Len(i.peers) + 1] = p
        /\ \A k \in 1..Len(i.peers) : Append(i.peers, p)[k] = i.peers[k]
        /\ Len(i.peers) \in Nat
    BY <1>1, AppendProperties, LenProperties
  <2>3. h \in IfaceIn /\ h.at = i.at /\ h.port = i.port
    BY <2>1, <2>2 DEF IfaceIn
  <2>4. InHandPeer(p)
    BY <1>1, <1>4 DEF IfaceInHand
  <2>5. PICK rest \in SUBSET (1..p.at - 1) :
            /\ Reader!Under(i.at, "peer", {"interface"}) = rest \cup {p.at}
            /\ Reader!Lists(Reader!At(i.peers), rest)
    BY <1>1, <1>4 DEF IfaceInHand
  <2>6. Reader!Lists(Reader!At(Append(i.peers, p)), rest \cup {p.at})
    <3>1. \A e \in PeerIn : e.at \in Nat
      BY DEF PeerIn
    <3>2. \A k \in rest : k < p.at
      BY <3>1
    <3>3. QED
      BY <1>1, <2>5, <3>1, <3>2, ListsNextAt
  <2>7. ASSUME NEW k \in DOMAIN h.peers PROVE EndedPeer(h.peers[k]) \/ InHandPeer(h.peers[k])
    <3>1. k \in 1..Len(i.peers) \/ k = Len(i.peers) + 1
      BY <2>1, <2>2
    <3>2. CASE k \in 1..Len(i.peers)
      BY <1>1, <2>1, <2>2, <3>2 DEF IfaceInHand
    <3>3. CASE k = Len(i.peers) + 1
      BY <2>1, <2>2, <2>4, <3>3
    <3>4. QED
      BY <3>1, <3>2, <3>3
  <2>8. QED
    BY <2>1, <2>3, <2>5, <2>6, <2>7
<1>5. QED
  <2>1. CASE showPeer = {}
    BY <1>3, <2>1
  <2>2. CASE \E p \in PeerIn : showPeer = {p}
    BY <1>2, <1>4, <2>2
  <2>3. QED
    BY <2>1, <2>2 DEF ReaderTypes

LEMMA FinishedStay ==
    ASSUME NEW kind, Longer(kind), kind # "interface", UNCHANGED result, FinishedEnded
    PROVE  FinishedEnded' /\ \A i, j : FinishedBefore(i) /\ j.at = i.at => FinishedBefore(j)'
<1>1. PICK done : done = result
  OBVIOUS
<1>2. ASSUME NEW k \in DOMAIN result' PROVE EndedIface(result[k])'
  <2>1. EndedIface(done[k])'
    BY <1>1, <1>2, EndedIfaceStays DEF FinishedEnded
  <2>2. QED
    BY <1>1, <2>1
<1>3. Reader!All("interface")' = Reader!All("interface")
  BY AllLonger
<1>4. ASSUME NEW i, NEW j, FinishedBefore(i), j.at = i.at PROVE FinishedBefore(j)'
  BY <1>3, <1>4 DEF FinishedBefore, Reader!Lists, Reader!At
<1>5. QED
  BY <1>2, <1>4 DEF FinishedEnded

\* awg show, line by line.
LEMMA ShowNext ==
    ASSUME ReaderTypes, ShowInv, NEW kind, Longer(kind), Reader!ReadShow(kind, Len(text) + 1)
    PROVE  /\ result' \in Seq(IfaceIn)
           /\ showIface' = {} \/ \E i \in IfaceIn : showIface' = {i}
           /\ showPeer' = {} \/ \E p \in PeerIn : showPeer' = {p}
           /\ ShowInv'
<1> DEFINE N == Len(text) + 1
<1>1. /\ Len(text) \in Nat /\ Len(text') = N /\ text'[N] = kind
      /\ \A m \in 1..Len(text) : text'[m] = text[m]
  BY LineAdded DEF Places
<1>0. PICK done : done = result
  OBVIOUS
<1>2. (\A k \in DOMAIN done : EndedIface(done[k])') /\ FinishedEnded
  BY <1>0, EndedIfaceStays DEF ShowInv, FinishedEnded
<1>3. result \in Seq(IfaceIn)
  BY DEF ReaderTypes
<1>4. CASE kind = "interface"
  <2>1. PICK n : n = Reader!NewIface(N)
    OBVIOUS
  <2>2. result' = Reader!Push(result, Reader!Housed) /\ showIface' = {n} /\ showPeer' = {}
    BY <1>4, <2>1 DEF Reader!ReadShow
  <2>3. n \in IfaceIn /\ n.at = N /\ n.port = 0 /\ n.peers = <<>>
    BY <1>1, <2>1 DEF IfaceIn, Reader!NewIface
  <2>4. IfaceInHand(n)'
    <3>1. (n.at \in Places)' /\ text'[n.at] = "interface"
      BY <1>1, <1>4, <2>3 DEF Places
    <3>2. /\ Unended(n.at, {"interface"})' /\ Unended(n.at, Reader!Headings)'
          /\ Reader!Under(n.at, "port", Reader!Headings)' = {}
          /\ Reader!Under(n.at, "peer", {"interface"})' = {}
      BY <2>3, NewUnder
    <3>3. Reader!Lists(Reader!At(n.peers), {})
      BY <2>3, ListsNone
    <3>4. QED
      BY <2>2, <2>3, <3>1, <3>2, <3>3 DEF IfaceInHand, Reader!IsLast, Reader!Lists, Reader!At, Reader!Headings
  <2>5. Reader!All("interface")' = Reader!All("interface") \cup {N}
    BY <1>4, AllLonger
  <2>6. Reader!All("interface") \in SUBSET (1..n.at - 1)
    BY <1>1, <2>3 DEF Reader!All
  <2>7. CASE showIface = {}
    <3>1. result' = <<>> /\ Reader!All("interface") = {}
      BY <2>2, <2>7, Pushed DEF ShowInv, Reader!Housed
    <3>2. Reader!Lists(Reader!At(result'), Reader!All("interface"))
      BY <3>1, ListsNone
    <3>3. FinishedBefore(n)'
      BY <2>3, <2>5, <2>6, <3>2 DEF FinishedBefore, Reader!Lists, Reader!At
    <3>4. FinishedEnded'
      BY <3>1 DEF FinishedEnded
    <3>5. ShowInv'
      BY <2>2, <2>4, <3>3, <3>4 DEF ShowInv
    <3>6. result' \in Seq(IfaceIn)
      BY <3>1
    <3>7. QED
      BY <2>2, <2>3, <3>5, <3>6
  <2>8. ASSUME NEW i \in IfaceIn, showIface = {i}
        PROVE  /\ result' \in Seq(IfaceIn)
               /\ FinishedEnded'
               /\ Reader!Lists(Reader!At(result'), Reader!All("interface"))
    <3>1. PICK h \in IfaceIn :
              /\ Reader!Housed = {h}
              /\ h.at = i.at /\ h.port = i.port
              /\ Reader!Lists(Reader!At(h.peers), Reader!Under(i.at, "peer", {"interface"}))
              /\ \A k \in DOMAIN h.peers : EndedPeer(h.peers[k]) \/ InHandPeer(h.peers[k])
      BY <2>8, HousedOne
    <3>2. IfaceInHand(i)
      BY <2>8 DEF ShowInv
    <3>3. EndedIface(h)'
      <4>1. h.at \in Places /\ Unended(h.at, {"interface"})
        BY <3>1, <3>2 DEF IfaceInHand
      <4>2. ~Unended(h.at, {"interface"})' /\ (h.at \in Places)'
        <5>1. ~Unended(h.at, {"interface"})'
          BY <1>4, <4>1, OpenUnder
        <5>2. (h.at \in Places)'
          BY <1>1, <4>1 DEF Places
        <5>3. QED
          BY <5>1, <5>2
      <4>3. Reader!Under(h.at, "peer", {"interface"})' = Reader!Under(h.at, "peer", {"interface"})
        BY <1>4, <4>1, OpenUnder
      <4>4. Reader!Under(h.at, "port", Reader!Headings)' = Reader!Under(h.at, "port", Reader!Headings)
        <5>1. CASE Unended(h.at, Reader!Headings)
          BY <1>4, <4>1, <5>1, OpenUnder
        <5>2. CASE ~Unended(h.at, Reader!Headings)
          BY <4>1, <5>2, EndedUnder
        <5>3. QED
          BY <5>1, <5>2
      <4>5. \A k \in DOMAIN h.peers : EndedPeer(h.peers[k])'
        <5>1. kind \in Reader!Headings
          BY <1>4 DEF Reader!Headings
        <5>2. QED
          BY <3>1, <5>1, PeerEnds, EndedPeerStays
      <4>6. \A k \in DOMAIN h.peers : Reader!PeerInPlace(h.peers[k])'
        BY <4>5 DEF EndedPeer
      <4>7. Reader!IfaceInPlace(h)'
        BY <3>1, <3>2, <4>3, <4>4, <4>6
        DEF IfaceInHand, Reader!IfaceInPlace, Reader!PeersAt, Reader!IsLast, Reader!Lists
      <4>8. QED
        BY <4>2, <4>5, <4>7 DEF EndedIface
    <3>4. result' = Append(result, h)
      BY <2>2, <3>1, Pushed
    <3>5. /\ result' \in Seq(IfaceIn)
          /\ DOMAIN result' = 1..Len(result) + 1 /\ DOMAIN result = 1..Len(result)
          /\ result'[Len(result) + 1] = h /\ Len(result) \in Nat
          /\ \A k \in 1..Len(result) : result'[k] = result[k]
      BY <1>3, <3>4, AppendProperties, LenProperties
    <3>6. ASSUME NEW k \in DOMAIN result' PROVE EndedIface(result[k])'
      <4>1. k \in 1..Len(result) \/ k = Len(result) + 1
        BY <3>5
      <4>2. PICK e : e = result'[k]
        OBVIOUS
      <4>3. e = h \/ (k \in DOMAIN done /\ e = done[k])
        BY <1>0, <3>5, <4>1, <4>2
      <4>4. EndedIface(e)'
        BY <1>2, <3>3, <4>3
      <4>5. QED
        BY <4>2, <4>4
    <3>7. PICK rest \in SUBSET (1..i.at - 1) :
              Reader!All("interface") = rest \cup {i.at} /\ Reader!Lists(Reader!At(result), rest)
      BY <2>8 DEF ShowInv, FinishedBefore
    <3>8. Reader!Lists(Reader!At(Append(result, h)), rest \cup {h.at})
      <4>1. \A e \in IfaceIn : e.at \in Nat
        BY DEF IfaceIn
      <4>2. \A k \in rest : k < h.at
        BY <3>1, <4>1
      <4>3. QED
        BY <1>3, <3>7, <4>1, <4>2, ListsNextAt
    <3>9. QED
      BY <3>1, <3>4, <3>5, <3>6, <3>7, <3>8 DEF FinishedEnded
  <2>9. ASSUME NEW i \in IfaceIn, showIface = {i}
        PROVE  result' \in Seq(IfaceIn) /\ ShowInv'
    <3>1. /\ result' \in Seq(IfaceIn)
          /\ FinishedEnded'
          /\ Reader!Lists(Reader!At(result'), Reader!All("interface"))
      BY <2>8, <2>9
    <3>2. FinishedBefore(n)'
      BY <2>3, <2>5, <2>6, <3>1 DEF FinishedBefore, Reader!Lists, Reader!At
    <3>3. QED
      BY <2>2, <2>4, <3>1, <3>2 DEF ShowInv
  <2>10. QED
    BY <2>2, <2>3, <2>7, <2>9 DEF ReaderTypes
<1>5. CASE kind = "peer"
  <2>1. PICK p : p = Reader!NewPeer(N)
    OBVIOUS
  <2>2. result' = result /\ showIface' = Reader!Housed /\ showPeer' = {p}
    BY <1>5, <2>1 DEF Reader!ReadShow
  <2>3. p \in PeerIn /\ p.at = N /\ InHandPeer(p)'
    BY <1>5, <2>1, PeerBegins
  <2>4. Reader!All("interface")' = Reader!All("interface")
    BY <1>5, AllLonger
  <2>8. FinishedEnded' /\ \A i, j : FinishedBefore(i) /\ j.at = i.at => FinishedBefore(j)'
    BY <1>2, <1>5, <2>2, FinishedStay
  <2>5. CASE showIface = {}
    <3>1. showIface' = {}
      BY <2>2, <2>5 DEF Reader!Housed
    <3>2. ShowInv'
      BY <2>2, <2>4, <2>5, <2>8, <3>1 DEF ShowInv
    <3>3. QED
      BY <1>3, <2>2, <2>3, <3>1, <3>2
  <2>6. ASSUME NEW i \in IfaceIn, showIface = {i}
        PROVE  (\E j \in IfaceIn : showIface' = {j}) /\ ShowInv'
    <3>1. PICK h \in IfaceIn :
              /\ Reader!Housed = {h}
              /\ h.at = i.at /\ h.port = i.port
              /\ Reader!Lists(Reader!At(h.peers), Reader!Under(i.at, "peer", {"interface"}))
              /\ \A k \in DOMAIN h.peers : EndedPeer(h.peers[k]) \/ InHandPeer(h.peers[k])
      BY <2>6, HousedOne
    <3>2. IfaceInHand(i)
      BY <2>6 DEF ShowInv
    <3>3. h.at \in Places /\ text[h.at] = "interface" /\ Unended(h.at, {"interface"})
      BY <3>1, <3>2 DEF IfaceInHand
    <3>4. Unended(h.at, {"interface"})' /\ (h.at \in Places)' /\ text'[h.at] = "interface" /\ h.at < N
      <4>1. Unended(h.at, {"interface"})'
        BY <1>5, <3>3, OpenUnder
      <4>2. (h.at \in Places)' /\ text'[h.at] = "interface" /\ h.at < N
        BY <1>1, <3>3 DEF Places
      <4>3. QED
        BY <4>1, <4>2
    <3>5. Reader!Under(h.at, "peer", {"interface"})' = Reader!Under(h.at, "peer", {"interface"}) \cup {N}
      BY <1>5, <3>3, OpenUnder
    <3>6. Reader!Under(h.at, "port", Reader!Headings)' = Reader!Under(h.at, "port", Reader!Headings)
      <4>1. CASE Unended(h.at, Reader!Headings)
        BY <1>5, <3>3, <4>1, OpenUnder
      <4>2. CASE ~Unended(h.at, Reader!Headings)
        BY <3>3, <4>2, EndedUnder
      <4>3. QED
        BY <4>1, <4>2
    <3>7. \A k \in DOMAIN h.peers : EndedPeer(h.peers[k])'
      <4>1. kind \in Reader!Headings
        BY <1>5 DEF Reader!Headings
      <4>2. QED
        BY <3>1, <4>1, PeerEnds, EndedPeerStays
    <3>8. Reader!Under(h.at, "peer", {"interface"}) \in SUBSET (1..p.at - 1)
      <4>1. h.at \in Nat
        BY DEF IfaceIn
      <4>2. QED
        BY <1>1, <2>3, <4>1, UnderPlaces DEF Longer, Places
    <3>9. IfaceInHand(h)'
      <4>1. Reader!IsLast(h.port, Reader!Under(h.at, "port", Reader!Headings))'
        BY <3>1, <3>2, <3>6 DEF IfaceInHand, Reader!IsLast
      <4>2. \E rest \in SUBSET (1..p.at - 1) :
              /\ Reader!Under(h.at, "peer", {"interface"})' = rest \cup {p.at}
              /\ Reader!Lists(Reader!At(h.peers), rest)
        BY <2>3, <3>1, <3>5, <3>8
      <4>3. QED
        BY <2>2, <2>3, <3>4, <3>7, <4>1, <4>2
        DEF IfaceInHand, Reader!Headings, Reader!Lists, Reader!At
    <3>10. FinishedBefore(h)'
      BY <2>6, <2>8, <3>1 DEF ShowInv
    <3>11. showIface' = {h}
      BY <2>2, <3>1
    <3>12. ShowInv'
      BY <2>8, <3>9, <3>10, <3>11 DEF ShowInv
    <3>13. QED
      BY <3>11, <3>12
  <2>7. QED
    BY <1>3, <2>2, <2>3, <2>5, <2>6 DEF ReaderTypes, Reader!Housed
<1>6. CASE kind \notin Reader!Headings
  <2>1. /\ result' = result
        /\ showPeer' = {Reader!WithKey(p, kind, N) : p \in showPeer}
        /\ showIface' = IF showPeer = {} THEN {Reader!WithIfaceKey(i, kind, N) : i \in showIface} ELSE showIface
    BY <1>6 DEF Reader!ReadShow, Reader!Headings
  <2>2. kind # "interface" /\ kind # "peer"
    BY <1>6 DEF Reader!Headings
  <2>3. Reader!All("interface")' = Reader!All("interface")
    BY <2>2, AllLonger
  <2>7. FinishedEnded' /\ \A i, j : FinishedBefore(i) /\ j.at = i.at => FinishedBefore(j)'
    BY <1>2, <2>1, <2>2, FinishedStay
  <2>4. CASE showPeer = {}
    <3>1. showPeer' = {}
      BY <2>1, <2>4
    <3>2. CASE showIface = {}
      <4>1. showIface' = {}
        BY <2>1, <3>2
      <4>2. ShowInv'
        BY <2>1, <2>3, <2>7, <3>2, <4>1 DEF ShowInv
      <4>3. QED
        BY <1>3, <2>1, <3>1, <4>1, <4>2
    <3>3. ASSUME NEW i \in IfaceIn, showIface = {i}
          PROVE  (\E j \in IfaceIn : showIface' = {j}) /\ ShowInv'
      <4>1. PICK j : j = Reader!WithIfaceKey(i, kind, N)
        OBVIOUS
      <4>2. showIface' = {j}
        BY <2>1, <2>4, <3>3, <4>1
      <4>3. /\ j \in IfaceIn /\ j.at = i.at /\ j.peers = i.peers
            /\ j.port = IF kind = "port" THEN N ELSE i.port
        BY <1>1, <4>1 DEF IfaceIn, Reader!WithIfaceKey
      <4>4. IfaceInHand(i)
        BY <3>3 DEF ShowInv
      <4>5. /\ i.at \in Places /\ text[i.at] = "interface"
            /\ Unended(i.at, {"interface"}) /\ Unended(i.at, Reader!Headings)
            /\ Reader!Lists(Reader!At(i.peers), Reader!Under(i.at, "peer", {"interface"}))
        BY <2>4, <4>4 DEF IfaceInHand
      <4>6. /\ (i.at \in Places)' /\ text'[i.at] = "interface"
            /\ Unended(i.at, {"interface"})' /\ Unended(i.at, Reader!Headings)'
        <5>1. Unended(i.at, {"interface"})' /\ Unended(i.at, Reader!Headings)'
          BY <1>6, <2>2, <4>5, OpenUnder
        <5>2. (i.at \in Places)' /\ text'[i.at] = "interface"
          BY <1>1, <4>5 DEF Places
        <5>3. QED
          BY <5>1, <5>2
      <4>7. Reader!Under(i.at, "peer", {"interface"})' = Reader!Under(i.at, "peer", {"interface"})
        BY <2>2, <4>5, OpenUnder
      <4>8. Reader!IsLast(j.port, Reader!Under(i.at, "port", Reader!Headings)')
        <5>1. Reader!IsLast(i.port, Reader!Under(i.at, "port", Reader!Headings))
          BY <4>4 DEF IfaceInHand
        <5>2. CASE kind = "port"
          <6>1. Reader!Under(i.at, "port", Reader!Headings)' = Reader!Under(i.at, "port", Reader!Headings) \cup {N}
            BY <1>6, <4>5, <5>2, OpenUnder
          <6>2. i.at \in Nat
            BY DEF IfaceIn
          <6>3. \A m \in Reader!Under(i.at, "port", Reader!Headings) : m \in Nat /\ m < N
            BY <1>1, <6>2, UnderPlaces DEF Longer, Places
          <6>4. Reader!IsLast(N, Reader!Under(i.at, "port", Reader!Headings) \cup {N})
            <7>1. PICK below : below = Reader!Under(i.at, "port", Reader!Headings)
              OBVIOUS
            <7>2. N \in Nat
              BY <1>1
            <7>3. Reader!IsLast(N, below \cup {N})
              BY <6>3, <7>1, <7>2, LastNext
            <7>4. QED
              BY <7>1, <7>3
          <6>5. QED
            BY <4>3, <5>2, <6>1, <6>4
        <5>3. CASE kind # "port"
          <6>1. Reader!Under(i.at, "port", Reader!Headings)' = Reader!Under(i.at, "port", Reader!Headings)
            BY <4>5, <5>3, OpenUnder
          <6>2. QED
            BY <4>3, <5>1, <5>3, <6>1
        <5>4. QED
          BY <5>2, <5>3
      <4>9. \A k \in DOMAIN i.peers : EndedPeer(i.peers[k])'
        BY <4>4, EndedPeerStays DEF IfaceInHand
      <4>10. IfaceInHand(j)'
        <5>1. /\ (j.at \in Places)' /\ text'[j.at] = "interface"
              /\ Unended(j.at, {"interface"})' /\ Unended(j.at, Reader!Headings)'
          BY <4>3, <4>6
        <5>2. Reader!IsLast(j.port, Reader!Under(j.at, "port", Reader!Headings)')
          BY <4>3, <4>8
        <5>3. Reader!Lists(Reader!At(j.peers), Reader!Under(j.at, "peer", {"interface"})')
          BY <4>3, <4>5, <4>7
        <5>4. \A k \in DOMAIN j.peers : EndedPeer(j.peers[k])'
          BY <4>3, <4>9
        <5>5. QED
          BY <3>1, <5>1, <5>2, <5>3, <5>4
          DEF IfaceInHand, Reader!Headings, Reader!Lists, Reader!At, Reader!IsLast
      <4>11. FinishedBefore(j)'
        BY <2>7, <3>3, <4>3 DEF ShowInv
      <4>12. ShowInv'
        BY <2>7, <4>2, <4>10, <4>11 DEF ShowInv
      <4>13. QED
        BY <4>2, <4>3, <4>12
    <3>4. QED
      BY <1>3, <2>1, <3>1, <3>2, <3>3 DEF ReaderTypes
  <2>5. ASSUME NEW p \in PeerIn, showPeer = {p}
        PROVE  /\ showIface' = showIface
               /\ \E q \in PeerIn : showPeer' = {q}
               /\ ShowInv'
    <3>1. PICK q : q = Reader!WithKey(p, kind, N)
      OBVIOUS
    <3>2. showIface' = showIface /\ showPeer' = {q}
      BY <2>1, <2>5, <3>1
    <3>3. q \in PeerIn
      BY <1>1, <3>1, KeyOfPeer
    <3>4. CASE showIface = {}
      <4>1. ShowInv'
        BY <2>1, <2>3, <2>7, <3>2, <3>4 DEF ShowInv
      <4>2. QED
        BY <3>2, <3>3, <4>1
    <3>5. ASSUME NEW i \in IfaceIn, showIface = {i} PROVE ShowInv'
      <4>1. IfaceInHand(i)
        BY <3>5 DEF ShowInv
      <4>2. InHandPeer(p) /\ p.at > i.at
        BY <2>5, <4>1 DEF IfaceInHand
      <4>3. q.at = p.at /\ InHandPeer(q)'
        BY <1>6, <3>1, <4>2, PeerGetsKey
      <4>4. PICK rest \in SUBSET (1..p.at - 1) :
                /\ Reader!Under(i.at, "peer", {"interface"}) = rest \cup {p.at}
                /\ Reader!Lists(Reader!At(i.peers), rest)
        BY <2>5, <4>1 DEF IfaceInHand
      <4>5. i.at \in Places /\ text[i.at] = "interface" /\ Unended(i.at, {"interface"})
        BY <4>1 DEF IfaceInHand
      <4>6. (i.at \in Places)' /\ text'[i.at] = "interface" /\ Unended(i.at, {"interface"})'
        <5>1. Unended(i.at, {"interface"})'
          BY <2>2, <4>5, OpenUnder
        <5>2. (i.at \in Places)' /\ text'[i.at] = "interface"
          BY <1>1, <4>5 DEF Places
        <5>3. QED
          BY <5>1, <5>2
      <4>7. Reader!Under(i.at, "peer", {"interface"})' = Reader!Under(i.at, "peer", {"interface"})
        BY <2>2, <4>5, OpenUnder
      <4>8. ~Unended(i.at, Reader!Headings)
        <5>1. p.at \in i.at + 1 .. Len(text) /\ text[p.at] \in Reader!Headings
          BY <1>1, <4>2, <4>5 DEF InHandPeer, Places, Reader!Headings
        <5>2. QED
          BY <5>1 DEF Unended
      <4>9. Reader!Under(i.at, "port", Reader!Headings)' = Reader!Under(i.at, "port", Reader!Headings)
        BY <4>5, <4>8, EndedUnder
      <4>10. \A k \in DOMAIN i.peers : EndedPeer(i.peers[k])'
        BY <4>1, EndedPeerStays DEF IfaceInHand
      <4>11. Reader!IsLast(i.port, Reader!Under(i.at, "port", Reader!Headings)')
        BY <4>1, <4>9 DEF IfaceInHand
      <4>12. IfaceInHand(i)'
        BY <3>2, <4>2, <4>3, <4>4, <4>6, <4>7, <4>10, <4>11
        DEF IfaceInHand, Reader!Headings, Reader!Lists, Reader!At, Reader!IsLast
      <4>13. QED
        BY <2>7, <3>2, <3>5, <4>12 DEF ShowInv
    <3>6. QED
      BY <3>2, <3>3, <3>4, <3>5 DEF ReaderTypes
  <2>6. QED
    BY <1>3, <2>1, <2>4, <2>5 DEF ReaderTypes
<1>7. QED
  BY <1>4, <1>5, <1>6 DEF Longer, Reader!Kinds, Reader!Headings

-----------------------------------------------------------------------------
\* All interface sections of a configuration are one.
LEMMA SectionNext ==
    ASSUME NEW kind, Longer(kind)
    PROVE  /\ InSection' <=> kind = "interface" \/ (kind # "peer" /\ InSection)
           /\ kind = "port" /\ InSection => Reader!InInterface' = Reader!InInterface \cup {Len(text) + 1}
           /\ kind # "port" \/ ~InSection => Reader!InInterface' = Reader!InInterface
<1> DEFINE N == Len(text) + 1
<1>1. PICK heads : heads = Reader!All("interface")
  OBVIOUS
<1>2. \A i \in heads : i \in Places
  BY <1>1 DEF Reader!All, Places
<1>3. /\ kind = "interface" => Reader!All("interface")' = heads \cup {N}
      /\ kind # "interface" => Reader!All("interface")' = heads
  BY <1>1, AllLonger
<1>4. ASSUME NEW i \in heads
      PROVE  /\ Unended(i, Reader!Headings)' <=> kind \notin Reader!Headings /\ Unended(i, Reader!Headings)
             /\ kind = "port" /\ Unended(i, Reader!Headings) =>
                   Reader!Under(i, "port", Reader!Headings)' = Reader!Under(i, "port", Reader!Headings) \cup {N}
             /\ kind # "port" \/ ~Unended(i, Reader!Headings) =>
                   Reader!Under(i, "port", Reader!Headings)' = Reader!Under(i, "port", Reader!Headings)
  <2>1. CASE Unended(i, Reader!Headings)
    <3>1. kind = "port" => kind \notin Reader!Headings
      BY DEF Reader!Headings
    <3>2. QED
      BY <1>2, <2>1, <3>1, OpenUnder
  <2>2. CASE ~Unended(i, Reader!Headings)
    BY <1>2, <2>2, EndedUnder
  <2>3. QED
    BY <2>1, <2>2
<1>5. ASSUME NEW n, n = N
      PROVE  Reader!Under(n, "port", Reader!Headings)' = {} /\ Unended(n, Reader!Headings)'
  BY <1>5, NewUnder
<1>6. kind \in Reader!Headings <=> kind \in {"interface", "peer"}
  BY DEF Reader!Headings
<1>7. InSection' <=> kind = "interface" \/ (kind # "peer" /\ InSection)
  <2>1. InSection' <=> \E i \in Reader!All("interface")' : Unended(i, Reader!Headings)'
    BY DEF InSection, Reader!Headings
  <2>2. InSection <=> \E i \in heads : Unended(i, Reader!Headings)
    BY <1>1 DEF InSection
  <2>3. QED
    BY <1>3, <1>4, <1>5, <1>6, <2>1, <2>2
<1>8. ASSUME NEW m
      PROVE  m \in Reader!InInterface' <=> \E i \in heads : m \in Reader!Under(i, "port", Reader!Headings)'
  <2>1. m \in Reader!InInterface' <=>
            \E i \in Reader!All("interface")' : m \in Reader!Under(i, "port", Reader!Headings)'
    BY DEF Reader!InInterface, Reader!Headings
  <2>2. QED
    BY <1>3, <1>5, <2>1
<1>9. \A m : m \in Reader!InInterface <=> \E i \in heads : m \in Reader!Under(i, "port", Reader!Headings)
  BY <1>1 DEF Reader!InInterface
<1>10. InSection <=> \E i \in heads : Unended(i, Reader!Headings)
  BY <1>1 DEF InSection
<1>11. ASSUME kind = "port", InSection PROVE Reader!InInterface' = Reader!InInterface \cup {N}
  <2>1. \A m : m \in Reader!InInterface' <=> m \in Reader!InInterface \cup {N}
    BY <1>4, <1>8, <1>9, <1>10, <1>11
  <2>2. QED
    BY <2>1
<1>12. ASSUME kind # "port" \/ ~InSection PROVE Reader!InInterface' = Reader!InInterface
  <2>1. \A m : m \in Reader!InInterface' <=> m \in Reader!InInterface
    BY <1>4, <1>8, <1>9, <1>10, <1>12
  <2>2. QED
    BY <2>1
<1>13. QED
  BY <1>7, <1>11, <1>12

\* The peers with the one in hand.
LEMMA PushedPeers ==
    ASSUME ReaderTypes, ConfInv
    PROVE  LET all == Reader!Push(peers, confPeer)
           IN  /\ all \in Seq(PeerIn)
               /\ Reader!Lists(Reader!At(all), Reader!All("peer"))
               /\ \A k \in DOMAIN all : EndedPeer(all[k]) \/ InHandPeer(all[k])
<1>1. peers \in Seq(PeerIn)
  BY DEF ReaderTypes
<1>2. CASE confPeer = {}
  <2>1. Reader!Push(peers, confPeer) = peers
    BY <1>2, Pushed
  <2>2. QED
    BY <1>1, <1>2, <2>1 DEF ConfInv, PeersEnded
<1>3. ASSUME NEW p \in PeerIn, confPeer = {p}
      PROVE  LET all == Reader!Push(peers, confPeer)
             IN  /\ all \in Seq(PeerIn)
                 /\ Reader!Lists(Reader!At(all), Reader!All("peer"))
                 /\ \A k \in DOMAIN all : EndedPeer(all[k]) \/ InHandPeer(all[k])
  <2>1. Reader!Push(peers, confPeer) = Append(peers, p)
    BY <1>3, Pushed
  <2>2. /\ Append(peers, p) \in Seq(PeerIn)
        /\ DOMAIN Append(peers, p) = 1..Len(peers) + 1 /\ DOMAIN peers = 1..Len(peers)
        /\ Append(peers, p)[Len(peers) + 1] = p
        /\ \A k \in 1..Len(peers) : Append(peers, p)[k] = peers[k]
        /\ Len(peers) \in Nat
    BY <1>1, AppendProperties, LenProperties
  <2>3. InHandPeer(p) /\ PeersBefore(p)
    BY <1>3 DEF ConfInv
  <2>4. Reader!Lists(Reader!At(Append(peers, p)), Reader!All("peer"))
    <3>1. PICK rest \in SUBSET (1..p.at - 1) :
              Reader!All("peer") = rest \cup {p.at} /\ Reader!Lists(Reader!At(peers), rest)
      BY <2>3 DEF PeersBefore
    <3>2. \A e \in PeerIn : e.at \in Nat
      BY DEF PeerIn
    <3>3. \A k \in rest : k < p.at
      BY <3>2
    <3>4. Reader!Lists(Reader!At(Append(peers, p)), rest \cup {p.at})
      BY <1>1, <3>1, <3>2, <3>3, ListsNextAt
    <3>5. QED
      BY <3>1, <3>4
  <2>5. ASSUME NEW k \in 1..Len(peers) + 1
        PROVE  EndedPeer(Append(peers, p)[k]) \/ InHandPeer(Append(peers, p)[k])
    <3>1. CASE k = Len(peers) + 1
      BY <2>2, <2>3, <3>1
    <3>2. CASE k \in 1..Len(peers)
      BY <2>2, <3>2 DEF ConfInv, PeersEnded
    <3>3. QED
      BY <2>2, <3>1, <3>2
  <2>6. QED
    BY <2>1, <2>2, <2>4, <2>5
<1>4. QED
  BY <1>2, <1>3 DEF ReaderTypes

\* A configuration, line by line.
LEMMA ConfNext ==
    ASSUME ReaderTypes, ConfInv, NEW kind, Longer(kind), Reader!ReadConf(kind, Len(text) + 1)
    PROVE  /\ peers' \in Seq(PeerIn) /\ conf' \in IfaceIn
           /\ confPeer' = {} \/ \E p \in PeerIn : confPeer' = {p}
           /\ section' \in {"none", "interface", "peer"}
           /\ ConfInv'
<1> DEFINE N == Len(text) + 1
<1>1. /\ Len(text) \in Nat /\ Len(text') = N /\ text'[N] = kind
      /\ \A m \in 1..Len(text) : text'[m] = text[m]
  BY LineAdded DEF Places
<1>2. peers \in Seq(PeerIn) /\ conf \in IfaceIn
  BY DEF ReaderTypes
<1>3. CASE kind \in Reader!Headings
  <2>1. /\ peers' = Reader!Push(peers, confPeer) /\ section' = kind /\ conf' = conf
        /\ confPeer' = IF kind = "peer" THEN {Reader!NewPeer(N)} ELSE {}
    BY <1>3 DEF Reader!ReadConf, Reader!Headings
  <2>2. PICK all : all = Reader!Push(peers, confPeer)
    OBVIOUS
  <2>3. /\ all \in Seq(PeerIn)
        /\ Reader!Lists(Reader!At(all), Reader!All("peer"))
        /\ \A k \in DOMAIN all : EndedPeer(all[k]) \/ InHandPeer(all[k])
    BY <2>2, PushedPeers
  <2>4. peers' = all
    BY <2>1, <2>2
  <2>5. PeersEnded'
    <3>1. \A k \in DOMAIN all : EndedPeer(all[k])'
      BY <1>3, <2>3, EndedPeerStays, PeerEnds
    <3>2. QED
      BY <2>4, <3>1 DEF PeersEnded
  <2>6. kind \in {"interface", "peer"} /\ kind # "port"
    BY <1>3 DEF Reader!Headings
  <2>7. Reader!IsLast(conf.port, Reader!InInterface)'
    <3>1. Reader!InInterface' = Reader!InInterface
      BY <2>6, SectionNext
    <3>2. Reader!IsLast(conf.port, Reader!InInterface)
      BY DEF ConfInv
    <3>3. QED
      BY <2>1, <3>1, <3>2 DEF Reader!IsLast
  <2>8. (section = "interface" <=> InSection)'
    BY <2>1, <2>6, SectionNext
  <2>9. CASE kind = "peer"
    <3>1. PICK p : p = Reader!NewPeer(N)
      OBVIOUS
    <3>2. confPeer' = {p}
      BY <2>1, <2>9, <3>1
    <3>3. p \in PeerIn /\ p.at = N /\ InHandPeer(p)'
      BY <2>9, <3>1, PeerBegins
    <3>4. Reader!All("peer")' = Reader!All("peer") \cup {N}
      BY <2>9, AllLonger
    <3>5. Reader!All("peer") \in SUBSET (1..p.at - 1)
      BY <1>1, <3>3 DEF Reader!All
    <3>6. PeersBefore(p)'
      BY ZenonT(30), <2>3, <2>4, <3>3, <3>4, <3>5 DEF PeersBefore, Reader!Lists, Reader!At
    <3>7. ConfInv'
      BY <2>1, <2>5, <2>7, <2>8, <2>9, <3>2, <3>3, <3>6 DEF ConfInv
    <3>8. QED
      BY <1>2, <2>1, <2>3, <2>4, <2>6, <3>2, <3>3, <3>7
  <2>10. CASE kind = "interface"
    <3>1. confPeer' = {}
      BY <2>1, <2>10
    <3>2. Reader!All("peer")' = Reader!All("peer")
      BY <2>10, AllLonger
    <3>3. Reader!Lists(Reader!At(peers), Reader!All("peer"))'
      BY <2>3, <2>4, <3>2 DEF Reader!Lists, Reader!At
    <3>4. ConfInv'
      BY <2>1, <2>5, <2>7, <2>8, <2>10, <3>1, <3>3 DEF ConfInv
    <3>5. QED
      BY <1>2, <2>1, <2>3, <2>4, <2>6, <3>1, <3>4
  <2>11. QED
    BY <2>6, <2>9, <2>10
<1>4. CASE kind \notin Reader!Headings
  <2>1. /\ peers' = peers /\ section' = section
        /\ confPeer' = IF section = "peer" THEN {Reader!WithKey(p, kind, N) : p \in confPeer} ELSE confPeer
        /\ conf' = IF section = "interface" THEN Reader!WithIfaceKey(conf, kind, N) ELSE conf
    BY <1>4 DEF Reader!ReadConf, Reader!Headings
  <2>2. kind # "interface" /\ kind # "peer"
    BY <1>4 DEF Reader!Headings
  <2>3. Reader!All("peer")' = Reader!All("peer")
    BY <2>2, AllLonger
  <2>4. PeersEnded'
    <3>1. PICK done : done = peers
      OBVIOUS
    <3>2. \A k \in DOMAIN done : EndedPeer(done[k])'
      BY <3>1, EndedPeerStays DEF ConfInv, PeersEnded
    <3>3. QED
      BY <2>1, <3>1, <3>2 DEF PeersEnded
  <2>5. (section = "interface" <=> InSection)'
    BY <2>1, <2>2, SectionNext DEF ConfInv
  <2>6. /\ conf' \in IfaceIn
        /\ conf'.port = IF section = "interface" /\ kind = "port" THEN N ELSE conf.port
    BY <1>1, <1>2, <2>1 DEF IfaceIn, Reader!WithIfaceKey
  <2>7. Reader!IsLast(conf.port, Reader!InInterface)'
    <3>1. PICK before : before = Reader!InInterface
      OBVIOUS
    <3>2. Reader!IsLast(conf.port, before) /\ (section = "interface" <=> InSection)
      BY <3>1 DEF ConfInv
    <3>3. \A m \in before : m \in Nat /\ m < N
      <4>1. \A i \in Reader!All("interface") : i \in Nat
        BY DEF Reader!All
      <4>2. \A i \in Reader!All("interface") : Reader!Under(i, "port", Reader!Headings) \subseteq Places
        BY <4>1, UnderPlaces DEF Longer
      <4>3. before \subseteq Places
        BY <3>1, <4>2 DEF Reader!InInterface
      <4>4. QED
        BY <1>1, <4>3 DEF Places
    <3>4. Reader!IsLast(conf'.port, Reader!InInterface')
      <4>1. CASE section = "interface" /\ kind = "port"
        <5>1. Reader!InInterface' = before \cup {N} /\ conf'.port = N
          BY <2>6, <3>1, <3>2, <4>1, SectionNext
        <5>2. N \in Nat
          BY <1>1
        <5>3. Reader!IsLast(N, before \cup {N})
          BY <3>3, <5>2, LastNext
        <5>4. QED
          BY <5>1, <5>3
      <4>2. CASE ~(section = "interface" /\ kind = "port")
        <5>1. Reader!InInterface' = before /\ conf'.port = conf.port
          BY <2>6, <3>1, <3>2, <4>2, SectionNext
        <5>2. QED
          BY <3>2, <5>1
      <4>3. QED
        BY <4>1, <4>2
    <3>5. QED
      BY <3>4 DEF Reader!IsLast
  <2>8. CASE confPeer = {}
    <3>1. confPeer' = {}
      BY <2>1, <2>8
    <3>2. Reader!Lists(Reader!At(peers), Reader!All("peer"))'
      BY <2>1, <2>3, <2>8 DEF ConfInv, Reader!Lists, Reader!At
    <3>3. ConfInv'
      BY <2>1, <2>4, <2>5, <2>7, <2>8, <3>1, <3>2 DEF ConfInv
    <3>4. QED
      BY <1>2, <2>1, <2>6, <3>1, <3>3 DEF ReaderTypes
  <2>9. ASSUME NEW p \in PeerIn, confPeer = {p}
        PROVE  (\E q \in PeerIn : confPeer' = {q}) /\ ConfInv'
    <3>1. PICK q : q = Reader!WithKey(p, kind, N)
      OBVIOUS
    <3>2. section = "peer" /\ confPeer' = {q}
      BY <2>1, <2>9, <3>1 DEF ConfInv
    <3>3. InHandPeer(p) /\ PeersBefore(p)
      BY <2>9 DEF ConfInv
    <3>4. q \in PeerIn /\ q.at = p.at /\ InHandPeer(q)'
      BY <1>4, <3>1, <3>3, PeerGetsKey
    <3>5. PeersBefore(q)'
      <4>1. PICK rest \in SUBSET (1..p.at - 1) :
                Reader!All("peer") = rest \cup {p.at} /\ Reader!Lists(Reader!At(peers), rest)
        BY <3>3 DEF PeersBefore
      <4>2. Reader!Lists(Reader!At(peers), rest)'
        BY <2>1, <4>1 DEF Reader!Lists, Reader!At
      <4>3. Reader!All("peer")' = rest \cup {q.at} /\ rest \in SUBSET (1..q.at - 1)
        BY <2>3, <3>4, <4>1
      <4>4. QED
        BY <4>2, <4>3 DEF PeersBefore
    <3>6. ConfInv'
      BY <2>1, <2>4, <2>5, <2>7, <3>2, <3>4, <3>5 DEF ConfInv
    <3>7. QED
      BY <3>2, <3>4, <3>6
  <2>10. QED
    BY <1>2, <2>1, <2>6, <2>8, <2>9 DEF ReaderTypes
<1>5. QED
  BY <1>3, <1>4

LEMMA ReaderNext == ReaderInv /\ [Reader!ReadLine]_Reader!listingVars => ReaderInv'
<1> SUFFICES ASSUME ReaderInv, [Reader!ReadLine]_Reader!listingVars PROVE ReaderInv'
  OBVIOUS
<1>1. ASSUME NEW kind \in Reader!Kinds, text' = Append(text, kind),
             Reader!ReadShow(kind, Len(text) + 1), Reader!ReadConf(kind, Len(text) + 1)
      PROVE  ReaderInv'
  <2>1. Longer(kind)
    BY <1>1 DEF Longer, ReaderInv, ReaderTypes
  <2>2. text' \in Seq(Reader!Kinds)
    BY <2>1, LineAdded
  <2>3. /\ result' \in Seq(IfaceIn)
        /\ showIface' = {} \/ \E i \in IfaceIn : showIface' = {i}
        /\ showPeer' = {} \/ \E p \in PeerIn : showPeer' = {p}
        /\ ShowInv'
    BY <1>1, <2>1, ShowNext DEF ReaderInv
  <2>4. /\ peers' \in Seq(PeerIn) /\ conf' \in IfaceIn
        /\ confPeer' = {} \/ \E p \in PeerIn : confPeer' = {p}
        /\ section' \in {"none", "interface", "peer"}
        /\ ConfInv'
    BY <1>1, <2>1, ConfNext DEF ReaderInv
  <2>5. ReaderTypes'
    BY <2>2, <2>3, <2>4 DEF ReaderTypes, Reader!Kinds
  <2>6. QED
    BY <2>3, <2>4, <2>5 DEF ReaderInv
<1>2. CASE UNCHANGED Reader!listingVars
  <2>1. UNCHANGED <<text, result, showIface, showPeer, section, conf, peers, confPeer>>
    BY <1>2 DEF Reader!listingVars, Reader!show, Reader!parsed
  <2>2. ReaderTypes'
    BY <2>1 DEF ReaderInv, ReaderTypes, Reader!Kinds
  <2>3. /\ \A n, k, headings : Reader!Under(n, k, headings)' = Reader!Under(n, k, headings)
        /\ \A n, headings : Unended(n, headings)' <=> Unended(n, headings)
        /\ \A k : Reader!All(k)' = Reader!All(k)
        /\ Places' = Places
    BY <2>1 DEF Reader!Under, Unended, Reader!All, Places
  <2>4. \A p : (EndedPeer(p) => EndedPeer(p)') /\ (InHandPeer(p) => InHandPeer(p)')
    <3>1. \A p : Reader!PeerInPlace(p)' <=> Reader!PeerInPlace(p)
      BY <2>3 DEF Reader!PeerInPlace, Reader!IsLast, Reader!Lists, Reader!Headings
    <3>2. QED
      BY <2>1, <2>3, <3>1 DEF EndedPeer, InHandPeer, Reader!Headings
  <2>6. ShowInv'
    <3>1. ASSUME NEW i, EndedIface(i) PROVE EndedIface(i)'
      <4>1. \A k \in DOMAIN i.peers : EndedPeer(i.peers[k])'
        BY <2>4, <3>1 DEF EndedIface
      <4>2. Reader!IfaceInPlace(i)'
        <5>1. \A k \in DOMAIN i.peers : Reader!PeerInPlace(i.peers[k])'
          BY <4>1 DEF EndedPeer
        <5>2. QED
          BY <2>3, <3>1, <5>1
          DEF EndedIface, Reader!IfaceInPlace, Reader!PeersAt, Reader!IsLast, Reader!Lists, Reader!Headings
      <4>3. QED
        BY <2>3, <3>1, <4>1, <4>2 DEF EndedIface
    <3>2. FinishedEnded'
      <4>1. PICK done : done = result
        OBVIOUS
      <4>2. \A k \in DOMAIN done : EndedIface(done[k])'
        BY <3>1, <4>1 DEF ReaderInv, ShowInv, FinishedEnded
      <4>3. QED
        BY <2>1, <4>1, <4>2 DEF FinishedEnded
    <3>3. ASSUME NEW i, i \in showIface PROVE IfaceInHand(i)' /\ FinishedBefore(i)'
      <4>1. IfaceInHand(i) /\ FinishedBefore(i)
        BY <3>3 DEF ReaderInv, ShowInv
      <4>2. FinishedBefore(i)'
        BY <2>1, <2>3, <4>1 DEF FinishedBefore, Reader!Lists, Reader!At
      <4>3. \A k \in DOMAIN i.peers : EndedPeer(i.peers[k])'
        BY <2>4, <4>1 DEF IfaceInHand
      <4>5. IfaceInHand(i)'
        BY <2>1, <2>3, <2>4, <4>1, <4>3
        DEF IfaceInHand, Reader!IsLast, Reader!Lists, Reader!At, Reader!Headings
      <4>6. QED
        BY <4>2, <4>5
    <3>4. QED
      BY <2>1, <2>3, <3>2, <3>3 DEF ReaderInv, ShowInv
  <2>7. ConfInv'
    <3>1. PeersEnded'
      <4>1. PICK done : done = peers
        OBVIOUS
      <4>2. \A k \in DOMAIN done : EndedPeer(done[k])'
        BY <2>4, <4>1 DEF ReaderInv, ConfInv, PeersEnded
      <4>3. QED
        BY <2>1, <4>1, <4>2 DEF PeersEnded
    <3>2. ASSUME NEW p, p \in confPeer PROVE InHandPeer(p)' /\ PeersBefore(p)'
      <4>1. InHandPeer(p) /\ PeersBefore(p)
        BY <3>2 DEF ReaderInv, ConfInv
      <4>2. PeersBefore(p)'
        BY <2>1, <2>3, <4>1 DEF PeersBefore, Reader!Lists, Reader!At
      <4>3. QED
        BY <2>4, <4>1, <4>2
    <3>3. (InSection' <=> InSection) /\ Reader!InInterface' = Reader!InInterface
      BY <2>3 DEF InSection, Reader!InInterface, Reader!Headings
    <3>4. Reader!Lists(Reader!At(peers), Reader!All("peer"))' <=> Reader!Lists(Reader!At(peers), Reader!All("peer"))
      BY <2>1, <2>3 DEF Reader!Lists, Reader!At
    <3>5. Reader!IsLast(conf.port, Reader!InInterface)'
      BY <2>1, <3>3 DEF ReaderInv, ConfInv, Reader!IsLast
    <3>6. QED
      BY <2>1, <3>1, <3>2, <3>3, <3>4, <3>5 DEF ReaderInv, ConfInv
  <2>8. QED
    BY <2>2, <2>6, <2>7 DEF ReaderInv
<1>3. QED
  BY <1>1, <1>2 DEF Reader!ReadLine

LEMMA ReaderInit == Reader!ListingInit => ReaderInv
<1> SUFFICES ASSUME Reader!ListingInit PROVE ReaderInv
  OBVIOUS
<1>1. /\ text = <<>> /\ result = <<>> /\ showIface = {} /\ showPeer = {} /\ section = "none"
      /\ peers = <<>> /\ confPeer = {} /\ conf = [at |-> 0, port |-> 0, peers |-> <<>>]
  BY DEF Reader!ListingInit, Reader!NewIface
<1>2. Len(text) = 0 /\ 1..Len(text) = {}
  BY <1>1
<1>3. ReaderTypes
  BY <1>1 DEF ReaderTypes, IfaceIn, PeerIn
<1>4. \A k : Reader!All(k) = {}
  BY <1>2 DEF Reader!All
<1>5. ShowInv
  BY <1>1, <1>4 DEF ShowInv, FinishedEnded
<1>6. ~InSection /\ Reader!InInterface = {}
  BY <1>4 DEF InSection, Reader!InInterface
<1>7. ConfInv
  <2>1. Reader!Lists(Reader!At(peers), {})
    BY <1>1, ListsNone
  <2>2. Reader!IsLast(conf.port, Reader!InInterface)
    BY <1>1, <1>6 DEF Reader!IsLast
  <2>3. PeersEnded
    BY <1>1 DEF PeersEnded
  <2>4. section # "peer" /\ section # "interface"
    BY <1>1
  <2>5. QED
    BY <1>1, <1>4, <1>6, <2>1, <2>2, <2>3, <2>4 DEF ConfInv
<1>8. QED
  BY <1>3, <1>5, <1>7 DEF ReaderInv

\* Wherever a listing ends, every peer read is listed once, under the interface
\* it follows and with the keys between its heading and the next, by both readers
\* and for texts of any length (parse_awg_show, parse_conf).
THEOREM PeersComeInPlace == Reader!ListingSpec => []PeersInPlace
<1>1. ReaderInv => PeersInPlace
  <2> SUFFICES ASSUME ReaderInv PROVE Reader!PeersInPlace
    BY DEF PeersInPlace
  <2>1. ReaderTypes /\ ShowInv /\ ConfInv
    BY DEF ReaderInv
  <2>2. \A p : EndedPeer(p) \/ InHandPeer(p) => Reader!PeerInPlace(p)
    BY DEF EndedPeer, InHandPeer
  <2>3. Reader!PeersAt(Reader!Push(peers, confPeer), Reader!All("peer"))
    BY <2>1, <2>2, PushedPeers DEF Reader!PeersAt
  <2>4. Reader!IsLast(conf.port, Reader!InInterface)
    BY <2>1 DEF ConfInv
  <2>5. PICK shown : shown = Reader!Push(result, Reader!Housed)
    OBVIOUS
  <2>6. Reader!Lists(Reader!At(shown), Reader!All("interface")) /\ \A k \in DOMAIN shown : Reader!IfaceInPlace(shown[k])
    <3>1. CASE showIface = {}
      <4>1. shown = <<>> /\ Reader!All("interface") = {}
        BY <2>1, <2>5, <3>1, Pushed DEF ShowInv, Reader!Housed
      <4>2. DOMAIN shown = {}
        BY <4>1
      <4>3. Reader!Lists(Reader!At(shown), {})
        BY <4>1, ListsNone
      <4>4. QED
        BY <4>1, <4>2, <4>3
    <3>2. ASSUME NEW i \in IfaceIn, showIface = {i}
          PROVE  /\ Reader!Lists(Reader!At(shown), Reader!All("interface"))
                 /\ \A k \in DOMAIN shown : Reader!IfaceInPlace(shown[k])
      <4>1. PICK h \in IfaceIn :
                /\ Reader!Housed = {h}
                /\ h.at = i.at /\ h.port = i.port
                /\ Reader!Lists(Reader!At(h.peers), Reader!Under(i.at, "peer", {"interface"}))
                /\ \A k \in DOMAIN h.peers : EndedPeer(h.peers[k]) \/ InHandPeer(h.peers[k])
        BY <2>1, <3>2, HousedOne
      <4>2. IfaceInHand(i) /\ FinishedBefore(i) /\ FinishedEnded
        BY <2>1, <3>2 DEF ShowInv
      <4>3. Reader!IfaceInPlace(h)
        BY <2>2, <4>1, <4>2 DEF IfaceInHand, Reader!IfaceInPlace, Reader!PeersAt
      <4>4. shown = Append(result, h) /\ result \in Seq(IfaceIn)
        BY <2>1, <2>5, <4>1, Pushed DEF ReaderTypes
      <4>5. /\ DOMAIN shown = 1..Len(result) + 1 /\ DOMAIN result = 1..Len(result)
            /\ shown[Len(result) + 1] = h /\ Len(result) \in Nat
            /\ \A k \in 1..Len(result) : shown[k] = result[k]
        BY <4>4, AppendProperties, LenProperties
      <4>6. PICK rest \in SUBSET (1..i.at - 1) :
                Reader!All("interface") = rest \cup {i.at} /\ Reader!Lists(Reader!At(result), rest)
        BY <4>2 DEF FinishedBefore
      <4>7. \A e \in IfaceIn : e.at \in Nat
        BY DEF IfaceIn
      <4>8. \A k \in rest : k < h.at
        BY <4>1, <4>7
      <4>9. Reader!Lists(Reader!At(Append(result, h)), rest \cup {h.at})
        BY <4>4, <4>6, <4>7, <4>8, ListsNextAt
      <4>10. ASSUME NEW k \in DOMAIN shown PROVE Reader!IfaceInPlace(shown[k])
        <5>1. CASE k = Len(result) + 1
          BY <4>3, <4>5, <5>1
        <5>2. CASE k \in 1..Len(result)
          BY <4>2, <4>5, <5>2 DEF FinishedEnded, EndedIface
        <5>3. QED
          BY <4>5, <5>1, <5>2
      <4>11. QED
        BY <4>1, <4>4, <4>6, <4>9, <4>10
    <3>3. QED
      BY <2>1, <3>1, <3>2 DEF ReaderTypes
  <2>7. QED
    BY <2>3, <2>4, <2>5, <2>6 DEF Reader!PeersInPlace, Reader!FinishShow, Reader!FinishConf
<1>2. QED
  BY <1>1, ReaderInit, ReaderNext, PTL DEF Reader!ListingSpec

-----------------------------------------------------------------------------
(* The uplink and the tunnels: what VpnProofs proves, in this setting.     *)

Tunnels == INSTANCE VpnProofs

\* While the last WAN request is the post of a static configuration that ran alone
\* and was answered with success, and until a pppd left from before connects, the
\* default route is the saved one's, by its interface (apply_static).
THEOREM UplinkAsSaved == Tunnels!VpnSpec => []WanInForce
<1>1. WanInForce <=> Tunnels!WanInForce
  BY DEF WanInForce, Vpn!WanInForce, Tunnels!WanInForce, Vpn!Route, Tunnels!Route
<1>2. QED
  BY <1>1, Tunnels!SavedWanInForce, PTL

\* While the last VPN request is an up that ran alone and was answered with
\* success, its tunnel carries the traffic (tunnel_up).
THEOREM TrafficByTunnel == Tunnels!VpnSpec => []TrafficInTunnel
<1>1. TrafficInTunnel <=> Tunnels!TrafficInTunnel
  BY DEF TrafficInTunnel, Vpn!TrafficInTunnel, Tunnels!TrafficInTunnel, Vpn!Rules, Tunnels!Rules
<1>2. QED
  BY <1>1, Tunnels!TunnelCarriesTraffic, PTL

\* Once no tunnel has its interface the rules and the routes by the uplink are gone,
\* and after a down the name servers are back, unless the way back was lost
\* (tunnel_down, teardown_policy_routing, restore_dns).
THEOREM NoTunnelNoTrace == Tunnels!VpnSpec => []NothingLeft
<1>1. NothingLeft <=> Tunnels!NothingLeft
  BY DEF NothingLeft, Vpn!NothingLeft, Tunnels!NothingLeft, Vpn!Idle, Tunnels!Idle,
         Vpn!Process, Tunnels!Process
<1>2. QED
  BY <1>1, Tunnels!TunnelsLeaveNothing, PTL

\* The autostart names a tunnel there is (set_autostart, delete_tunnel).
THEOREM AutostartHasConf == Tunnels!VpnSpec => []AutostartNamesTunnel
<1>1. AutostartNamesTunnel <=> Tunnels!AutostartNamesTunnel
  BY DEF AutostartNamesTunnel, Vpn!AutostartNamesTunnel, Tunnels!AutostartNamesTunnel,
         Vpn!Idle, Tunnels!Idle, Vpn!Process, Tunnels!Process
<1>2. QED
  BY <1>1, Tunnels!AutostartIsThere, PTL
=============================================================================
