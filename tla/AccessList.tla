----------------------------- MODULE AccessList -----------------------------
(***************************************************************************)
(* The MAC access list: acl.rs, the ACL handlers of api.rs and the editing *)
(* of hostapd.conf (hostapd.rs) they share with the Wi-Fi edits, whose     *)
(* hold and auto-revert are here as three steps (SafeEdit has them all).   *)
(*                                                                         *)
(* What may be missing is a set of at most one element: {} is no file, no  *)
(* access list that can be parsed, or a hostapd that is down.              *)
(***************************************************************************)
EXTENDS ConfLines, FiniteSets

CONSTANTS
    Mac,                 \* clients
    Request,             \* ACL requests that may be in progress at once
    Lists,               \* the lists of MACs an administrator may post
    MaxEdits,            \* bound: ACL requests over a behaviour
    MaxOverlap,          \* bound: the first of them, which may overlap anything
    MayFail              \* a step of a request may fail

Modes == {"disabled", "whitelist", "blacklist"}
AclState == [mode : Modes, macs : SUBSET Mac]

ASSUME MacAssumption == IsFiniteSet(Mac) /\ Mac # {}
ASSUME ListsAssumption == Lists \subseteq SUBSET Mac
ASSUME EditsAssumption == MaxEdits \in Nat /\ MaxOverlap \in Nat
ASSUME FailAssumption == MayFail \in BOOLEAN

VARIABLES
    stored,              \* acl.json
    accept, deny,        \* hostapd.accept and hostapd.deny
    conf,                \* hostapd.conf, the lines of the ACL and the SSID
    bak,                 \* hostapd.conf.bak
    loaded,              \* the clients the running hostapd lets in
    pc, want, copy,      \* per request: next step, list to apply, conf in hand
    hold,                \* the Wi-Fi edit: none, has read, has its .bak, on trial
    draft,               \* the conf the Wi-Fi edit is to write
    touched,             \* history: whether an ACL request has run in the hold
                         \* or while it was staged
    since,               \* history: what ran last, and whether it ran alone
    refused,             \* history: the client the lone request in progress blocks
    crossed,             \* history: a write of the conf went over another's
    edits

files == <<stored, accept, deny>>
request == <<pc, want, copy>>
wifi == <<bak, hold, draft>>
history == <<touched, since, refused, crossed, edits>>
vars == <<files, conf, loaded, request, wifi, history>>

Default == [mode |-> "disabled", macs |-> {}]

\* A file that is absent, unreadable or garbled is the default.
Load == IF stored = {} THEN Default ELSE CHOOSE s \in stored : TRUE

Idle == \A r \in Request : pc[r] = "idle"

\* Neither a request nor a Wi-Fi edit is between a read and its write.
Quiet == Idle /\ hold \in {"none", "trial"}

-----------------------------------------------------------------------------
\* Whom a list lets in.
Intended(acl) ==
    CASE acl.mode = "disabled" -> Mac
      [] acl.mode = "whitelist" -> acl.macs
      [] acl.mode = "blacklist" -> Mac \ acl.macs

\* hostapd reads the last of several lines of a key and does not start on a
\* conf that is cut short, has an item it does not know (what is left of a
\* line) or names a file it cannot read.
Last(c, k) == LET ls == GetAll(c, k) IN ls[Len(ls)].value
Named(c, k, file) == IF Has(c, k) THEN UNION file ELSE {}
Started(c, acc, den) ==
    IF \/ ~Has(c, "ssid") \/ Has(c, "cut")
       \/ Has(c, "accept_mac_file") /\ acc = {}
       \/ Has(c, "deny_mac_file") /\ den = {}
    THEN {}
    ELSE {LET open == ~Has(c, "macaddr_acl") \/ Last(c, "macaddr_acl") = "0"
          IN  Named(c, "accept_mac_file", acc)
                \cup IF open THEN Mac \ Named(c, "deny_mac_file", den) ELSE {}}

\* The slip of a switch to the blacklist that leaves the accept list named.
EditedKeepingAccept(c, mode) ==
    LET m == SetLine(c, "macaddr_acl", IF mode = "whitelist" THEN "1" ELSE "0")
        a == IF mode = "whitelist" THEN SetLine(m, "accept_mac_file", "accept") ELSE m
    IN  IF mode = "blacklist" THEN SetLine(a, "deny_mac_file", "deny")
        ELSE RemoveKey(a, "deny_mac_file")

\* The conf for a mode.
Edited(c, mode) ==
    LET m == SetLine(c, "macaddr_acl", IF mode = "whitelist" THEN "1" ELSE "0")
        a == IF mode = "whitelist" THEN SetLine(m, "accept_mac_file", "accept")
             ELSE RemoveKey(m, "accept_mac_file")
    IN  IF mode = "blacklist" THEN SetLine(a, "deny_mac_file", "deny")
        ELSE RemoveKey(a, "deny_mac_file")

-----------------------------------------------------------------------------
Init ==
    /\ stored = {} /\ accept = {} /\ deny = {}
    /\ conf = <<Line("ssid", "old")>>
    /\ bak = {}
    /\ loaded = {Mac}
    /\ pc = [r \in Request |-> "idle"]
    /\ want = [r \in Request |-> Default]
    /\ copy = [r \in Request |-> <<>>]
    /\ hold = "none" /\ draft = <<>>
    /\ touched = "no" /\ since = "ok" /\ refused = {} /\ crossed = FALSE /\ edits = 0

\* A request has the list it is to apply.
Begin(r, acl, blocked) ==
    /\ pc[r] = "idle" /\ edits < MaxEdits
    /\ edits < MaxOverlap \/ Quiet
    /\ edits' = edits + 1
    /\ pc' = [pc EXCEPT ![r] = "truncate"]
    /\ want' = [want EXCEPT ![r] = acl]
    /\ touched' = IF hold = "none" THEN "no"
                  ELSE IF hold = "trial" /\ touched # "staging" THEN "trial" ELSE "staging"
    /\ since' = IF Quiet THEN "alone" ELSE "unsure"
    /\ refused' = IF Quiet THEN blocked ELSE {}
    /\ UNCHANGED <<files, conf, loaded, copy, wifi, crossed>>

Post(r) == \E mode \in Modes, macs \in Lists : Begin(r, [mode |-> mode, macs |-> macs], {})

Block(r) == \E m \in Mac :
    Begin(r, [mode |-> IF Load.mode = "disabled" THEN "blacklist" ELSE Load.mode,
              macs |-> Load.macs \cup {m}], {m})

Unblock(r) == \E m \in Mac : Begin(r, [mode |-> Load.mode, macs |-> Load.macs \ {m}], {})

At(r, from, to) == pc[r] = from /\ pc' = [pc EXCEPT ![r] = to]

\* save: fs::write truncates, then writes.  Over the text of another write the
\* file may be left garbled.
Truncate(r) ==
    /\ At(r, "truncate", "store")
    /\ stored' = {}
    /\ UNCHANGED <<accept, deny, conf, loaded, want, copy, wifi, history>>

Store(r) ==
    /\ At(r, "store", "files")
    /\ stored' = {want[r]} \/ (stored # {} /\ stored' = {})
    /\ UNCHANGED <<accept, deny, conf, loaded, want, copy, wifi, history>>

\* apply: the file of MACs the mode has is truncated ...
TruncateFile(r) ==
    /\ At(r, "files", "macs")
    /\ accept' = IF want[r].mode = "whitelist" THEN {{}} ELSE accept
    /\ deny' = IF want[r].mode = "blacklist" THEN {{}} ELSE deny
    /\ UNCHANGED <<stored, conf, loaded, want, copy, wifi, history>>

\* ... and filled, unless it was deleted meanwhile, some MACs of another write
\* perhaps behind its own; the file it has not is deleted.
Filled(file, macs) == IF file = {} THEN {{}} ELSE {{macs \cup tail} : tail \in SUBSET UNION file}

WriteFiles(r) ==
    /\ At(r, "macs", "read")
    /\ accept' \in IF want[r].mode = "whitelist" THEN Filled(accept, want[r].macs) ELSE {{}}
    /\ deny' \in IF want[r].mode = "blacklist" THEN Filled(deny, want[r].macs) ELSE {{}}
    /\ UNCHANGED <<stored, conf, loaded, want, copy, wifi, history>>

\* apply: hostapd.conf is read and edited in memory.
ReadConf(r) ==
    /\ At(r, "read", "write")
    /\ copy' = [copy EXCEPT ![r] = Edited(conf, want[r].mode)]
    /\ UNCHANGED <<files, conf, loaded, want, wifi, history>>

\* ... and written, truncated first.
TruncateConf(r) ==
    /\ At(r, "write", "fill")
    /\ conf' = <<>>
    /\ UNCHANGED <<files, loaded, want, copy, wifi, history>>

WriteConf(r) ==
    /\ At(r, "fill", "restart")
    /\ conf' \in Over(conf, copy[r])
    /\ copy' = [copy EXCEPT ![r] = <<>>]
    /\ crossed' = (crossed \/ conf # <<>>)
    /\ UNCHANGED <<files, loaded, want, wifi, touched, since, refused, edits>>

Restart(r) ==
    /\ At(r, "restart", "idle")
    /\ loaded' = Started(conf, accept, deny)
    /\ want' = [want EXCEPT ![r] = Default]
    /\ since' = IF since = "alone" THEN "ok" ELSE since
    /\ refused' = {}
    /\ UNCHANGED <<files, conf, copy, wifi, touched, crossed, edits>>

\* A file operation fails, or the restart is refused: the request ends there.
Fail(r) ==
    /\ MayFail /\ pc[r] # "idle"
    /\ pc' = [pc EXCEPT ![r] = "idle"]
    /\ want' = [want EXCEPT ![r] = Default]
    /\ copy' = [copy EXCEPT ![r] = <<>>]
    /\ since' = "unsure" /\ refused' = {}
    /\ UNCHANGED <<files, conf, loaded, wifi, touched, crossed, edits>>

\* Anybody may restart hostapd, at any moment: the service page, a boot.
RestartService ==
    /\ loaded' = Started(conf, accept, deny)
    /\ UNCHANGED <<files, conf, request, wifi, history>>

-----------------------------------------------------------------------------
\* A Wi-Fi edit on hold.  It reads the conf, copies it to its .bak, and writes
\* what it had read with another SSID.
StageRead ==
    /\ hold = "none"
    /\ hold' = "read"
    /\ draft' = SetLine(conf, "ssid", "new")
    /\ touched' = IF Idle THEN "no" ELSE "staging"
    /\ since' = IF Idle THEN since ELSE "unsure"
    /\ refused' = IF Idle THEN refused ELSE {}
    /\ UNCHANGED <<files, conf, bak, loaded, request, crossed, edits>>

StageBackup ==
    /\ hold = "read" /\ hold' = "backed"
    /\ bak' = {conf}
    /\ UNCHANGED <<files, conf, loaded, request, draft, history>>

StageWrite ==
    /\ hold = "backed" /\ hold' = "trial"
    /\ conf' = draft
    /\ draft' = <<>>
    /\ loaded' = Started(draft, accept, deny)
    /\ UNCHANGED <<files, request, bak, history>>

Confirm ==
    /\ hold = "trial" /\ hold' = "none"
    /\ bak' = {}
    /\ touched' = "no"
    /\ UNCHANGED <<files, conf, loaded, request, draft, since, refused, crossed, edits>>

Revert ==
    /\ hold = "trial" /\ hold' = "none"
    /\ conf' = CHOOSE c \in bak : TRUE
    /\ bak' = {}
    /\ loaded' = Started(conf', accept, deny)
    /\ touched' = "no"
    /\ since' = IF touched = "no" THEN since
                ELSE IF since = "ok" /\ touched = "trial" THEN "reverted" ELSE "unsure"
    /\ refused' = IF touched = "no" THEN refused ELSE {}
    /\ UNCHANGED <<files, request, draft, crossed, edits>>

-----------------------------------------------------------------------------
Serve(r) ==
    \/ Post(r) \/ Block(r) \/ Unblock(r)
    \/ Truncate(r) \/ Store(r) \/ TruncateFile(r) \/ WriteFiles(r) \/ ReadConf(r)
    \/ TruncateConf(r) \/ WriteConf(r) \/ Restart(r) \/ Fail(r)

Next ==
    \/ \E r \in Request : Serve(r)
    \/ RestartService
    \/ StageRead \/ StageBackup \/ StageWrite \/ Confirm \/ Revert

Spec == Init /\ [][Next]_vars

-----------------------------------------------------------------------------
\* When the last ACL request ran alone and was answered with success, hostapd
\* lets in whom the saved list lets in, whatever earlier requests that failed or
\* overlapped had left of the files, whatever Wi-Fi edits and service restarts
\* come after it, and also after an auto-revert with no ACL request in its hold;
\* but for a conf that a failed write has cut short, or on which two writes have
\* crossed and left part of a line or the mode twice: no edit repairs these.
Sound(c) ==
    /\ Has(c, "ssid") /\ ~Has(c, "cut")
    /\ \A i, j \in DOMAIN c : c[i].key = "macaddr_acl" /\ c[j].key = "macaddr_acl" => i = j

ListInForce == since = "ok" /\ Sound(conf) => loaded = {Intended(Load)}

\* While an ACL request runs alone, the conf keeps the lines that are not the
\* list's: an edit of the list cannot undo or mix up the Wi-Fi settings.  A conf
\* that is truncated counts as what is about to be written.
AclKeys == {"macaddr_acl", "accept_mac_file", "deny_mac_file"}
Others(c) == Kept(c, {i \in DOMAIN c : c[i].key \notin AclKeys})
Effective == IF \E r \in Request : pc[r] = "fill"
             THEN copy[CHOOSE r \in Request : pc[r] = "fill"] ELSE conf
OtherLinesKept == [][since = "alone" /\ since' = "alone" => Others(Effective)' = Others(Effective)]_vars

\* The conf never names both lists, and no key is in it twice, in whatever way
\* requests fail and overlap, stale texts are written back and auto-reverts
\* come in between: an edit replaces the lines of the one before.  Only where
\* one fs::write goes over the text of another are lines left behind.
LinesOnce ==
    ~crossed =>
        /\ \A i, j \in DOMAIN conf : conf[i].key = conf[j].key => i = j
        /\ ~(Has(conf, "accept_mac_file") /\ Has(conf, "deny_mac_file"))

\* README "Safe edits": the auto-revert restores the conf and restarts the
\* service, so that the administrator is not locked out.  Here no ACL request
\* ran while the Wi-Fi change was staged, so its .bak is a whole conf.
RevertBringsBack == since = "reverted" => loaded # {}

\* acl_block adds the client to the blacklist: one whose block was answered
\* with success is not let in.
BlockIsRefused ==
    [][since = "alone" /\ since' = "ok" => \A admitted \in loaded' : admitted \cap refused = {}]_vars
=============================================================================
