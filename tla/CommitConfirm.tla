--------------------------- MODULE CommitConfirm ---------------------------
(***************************************************************************)
(* What a safe edit promises (README, "Safe edits"; the docs of            *)
(* update_wifi, stage_wifi, update_dhcp and stage_dhcp): a change of a     *)
(* configuration is on trial until it is committed, which makes it the     *)
(* configuration to go back to, or abandoned, which changes nothing.  No   *)
(* file, backup, service or timer appears here; module SafeEdit has them.  *)
(***************************************************************************)
CONSTANTS
    Keys,                \* the edited areas
    Configs              \* the contents a configuration file may have

VARIABLES
    base,                \* base[k]: the configuration committed last
    trial,               \* trial[k]: the one on trial, {} if there is none
    damaged              \* damaged[k]: a trial was cut short, for a human to mend

vars == <<base, trial, damaged>>

Try(k, c) ==
    /\ trial[k] = {}
    /\ ~damaged[k]
    /\ trial' = [trial EXCEPT ![k] = {c}]
    /\ UNCHANGED <<base, damaged>>

Commit(k, c) ==
    /\ trial[k] = {c}
    /\ base' = [base EXCEPT ![k] = c]
    /\ trial' = [trial EXCEPT ![k] = {}]
    /\ UNCHANGED damaged

Abandon(k) ==
    /\ trial[k] # {}
    /\ trial' = [trial EXCEPT ![k] = {}]
    /\ UNCHANGED <<base, damaged>>

\* The process dies or a disk error cuts in.  What was committed is kept.
CutShort(S) ==
    /\ \A k \in S : trial[k] # {}
    /\ trial' = [k \in Keys |-> IF k \in S THEN {} ELSE trial[k]]
    /\ damaged' = [k \in Keys |-> damaged[k] \/ k \in S]
    /\ UNCHANGED base

Init ==
    /\ base \in [Keys -> Configs]
    /\ trial = [k \in Keys |-> {}]
    /\ damaged = [k \in Keys |-> FALSE]

Next ==
    \/ \E k \in Keys : Abandon(k) \/ \E c \in Configs : Try(k, c) \/ Commit(k, c)
    \/ \E S \in SUBSET Keys : CutShort(S)

Spec == Init /\ [][Next]_vars
=============================================================================
