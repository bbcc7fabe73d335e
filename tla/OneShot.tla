------------------------------ MODULE OneShot ------------------------------
(***************************************************************************)
(* What a pending automatic rollback promises to the code that arms it     *)
(* (AutoRevert, tinywifi-core/src/safety.rs): the rollback action runs at  *)
(* most once, never after the rollback was cancelled, and never once the   *)
(* guard is gone; the answer of `confirm` tells which of the two happened. *)
(* There are no threads, mutexes or wake-ups here: module AutoRevert has   *)
(* them, and is shown to implement this module.                            *)
(***************************************************************************)
CONSTANT Timers          \* the guards the program may create

VARIABLES
    phase,               \* phase[t]: what became of the rollback t
    verdict,             \* verdict[t]: what confirm answered
    gone                 \* the guards whose drop has returned

vars == <<phase, verdict, gone>>

Phases == {"unarmed", "armed", "cancelled", "firing", "fired"}
Verdicts == {"none", "cancelled", "late"}

TypeOK ==
    /\ phase \in [Timers -> Phases]
    /\ verdict \in [Timers -> Verdicts]
    /\ gone \subseteq Timers

Init ==
    /\ phase = [t \in Timers |-> "unarmed"]
    /\ verdict = [t \in Timers |-> "none"]
    /\ gone = {}

Become(t, from, to) ==
    /\ phase[t] = from
    /\ phase' = [phase EXCEPT ![t] = to]
    /\ UNCHANGED <<verdict, gone>>

Arm(t) == Become(t, "unarmed", "armed")

Cancel(t) == Become(t, "armed", "cancelled")

Fire(t) == Become(t, "armed", "firing")

Finish(t) == Become(t, "firing", "fired")

\* The answer is "cancelled" exactly when the action will never run.
Answer(t) ==
    /\ phase[t] \in {"cancelled", "firing", "fired"}
    /\ verdict[t] = "none"
    /\ verdict' = [verdict EXCEPT ![t] = IF phase[t] = "cancelled" THEN "cancelled" ELSE "late"]
    /\ UNCHANGED <<phase, gone>>

\* A guard goes away only when its action is over, or will never run.
Release(t) ==
    /\ phase[t] \in {"cancelled", "fired"}
    /\ gone' = gone \cup {t}
    /\ UNCHANGED <<phase, verdict>>

Next == \E t \in Timers :
    Arm(t) \/ Cancel(t) \/ Fire(t) \/ Finish(t) \/ Answer(t) \/ Release(t)

Spec == Init /\ [][Next]_vars
=============================================================================
