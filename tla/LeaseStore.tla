----------------------------- MODULE LeaseStore -----------------------------
(***************************************************************************)
(* What the static leases promise to whoever edits them: a store in which  *)
(* a MAC and an address occur once, that a DHCP edit on hold saves and a   *)
(* rollback restores.  The promise is void once requests have overlapped,  *)
(* a write was cut short or a MAC was sent padded.                         *)
(***************************************************************************)
CONSTANTS Mac, Ip

VARIABLES entries, saved, void

Entry == [mac : Mac, ip : Ip]

Init == entries \in SUBSET Entry /\ saved = {} /\ void = FALSE

Add(e) ==
    /\ \A f \in entries : f.mac # e.mac /\ f.ip # e.ip
    /\ entries' = entries \cup {e}
    /\ UNCHANGED <<saved, void>>

Remove(e) ==
    /\ entries' = entries \ {e}
    /\ UNCHANGED <<saved, void>>

\* Each {} or the entries of one moment.
Save == saved' = {entries} /\ UNCHANGED <<entries, void>>
Discard == saved' = {} /\ UNCHANGED <<entries, void>>
Restore == entries' \in saved /\ saved' = {} /\ UNCHANGED void

Void == void' = TRUE

Next ==
    \/ entries' # entries /\ \E e \in Entry : Add(e) \/ Remove(e)
    \/ Save \/ Discard \/ Restore
    \/ Void

Spec == Init /\ [][Next]_<<entries, saved, void>>
=============================================================================
