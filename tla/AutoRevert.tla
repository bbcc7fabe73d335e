----------------------------- MODULE AutoRevert -----------------------------
(***************************************************************************)
(* The pending automatic rollback of tinywifi-core/src/safety.rs: a guard  *)
(* held by the program and a worker thread that waits on a condition       *)
(* variable, with the flag `cancelled` under a mutex and the flag `fired`  *)
(* outside it.  Every critical section of that mutex is one action; what   *)
(* happens between two of them (the deadline passing, the waiting thread   *)
(* being notified, the mutex being taken again after the wait, `fired`     *)
(* being read after the unlock) is an action of its own.  A wait ends by   *)
(* its deadline or by a notification and in no other way.                  *)
(***************************************************************************)
CONSTANT Timers          \* the guards the program may create

VARIABLES
    worker,              \* worker[t]: where the background thread of t is
    cancelled,           \* cancelled[t]: the flag under the mutex
    fired,               \* fired[t]: the atomic flag set before the action
    guard,               \* guard[t]: where the owner of the guard is
    verdict              \* verdict[t]: what confirm returned, if it did

vars == <<worker, cancelled, fired, guard, verdict>>

WorkerStates == {"unborn", "looking", "waiting", "elapsed", "acting", "done"}
GuardStates ==
    {"unarmed", "held", "cancelling", "asking", "told", "dropping", "joining", "gone"}
Verdicts == {"none", "cancelled", "late"}

TypeOK ==
    /\ worker \in [Timers -> WorkerStates]
    /\ cancelled \in [Timers -> BOOLEAN]
    /\ fired \in [Timers -> BOOLEAN]
    /\ guard \in [Timers -> GuardStates]
    /\ verdict \in [Timers -> Verdicts]

Init ==
    /\ worker = [t \in Timers |-> "unborn"]
    /\ cancelled = [t \in Timers |-> FALSE]
    /\ fired = [t \in Timers |-> FALSE]
    /\ guard = [t \in Timers |-> "unarmed"]
    /\ verdict = [t \in Timers |-> "none"]

-----------------------------------------------------------------------------
(* The owner of the guard.                                                 *)

\* AutoRevert::arm: the thread is spawned and the guard handed back.
Arm(t) ==
    /\ guard[t] = "unarmed"
    /\ guard' = [guard EXCEPT ![t] = "held"]
    /\ worker' = [worker EXCEPT ![t] = "looking"]
    /\ UNCHANGED <<cancelled, fired, verdict>>

\* The owner, in state `from` of its call, sets the flag under the mutex.
SetFlag(t, from, to) ==
    /\ guard[t] \in from
    /\ guard' = [guard EXCEPT ![t] = to]
    /\ cancelled' = [cancelled EXCEPT ![t] = TRUE]
    /\ UNCHANGED <<worker, fired, verdict>>

\* notify_all, after the unlock: a waiting worker looks at the flag again.
Notify(t, from, to) ==
    /\ guard[t] = from
    /\ guard' = [guard EXCEPT ![t] = to]
    /\ worker' = [worker EXCEPT ![t] = IF @ = "waiting" THEN "looking" ELSE @]
    /\ UNCHANGED <<cancelled, fired, verdict>>

\* AutoRevert::confirm, its critical section and its notification.
Confirm(t) == SetFlag(t, {"held"}, "cancelling")

ConfirmNotify(t) == Notify(t, "cancelling", "asking")

\* A slip: the answer is read from the flag confirm itself has just set.
ConfirmReturnBlind(t) ==
    /\ guard[t] = "asking"
    /\ guard' = [guard EXCEPT ![t] = "told"]
    /\ verdict' = [verdict EXCEPT ![t] = "cancelled"]
    /\ UNCHANGED <<worker, cancelled, fired>>

\* AutoRevert::confirm, last: `fired` is read and answered.
ConfirmReturn(t) ==
    /\ guard[t] = "asking"
    /\ guard' = [guard EXCEPT ![t] = "told"]
    /\ verdict' = [verdict EXCEPT ![t] = IF fired[t] THEN "late" ELSE "cancelled"]
    /\ UNCHANGED <<worker, cancelled, fired>>

\* Drop, its critical section, its notification and its join.
Drop(t) == SetFlag(t, {"held", "told"}, "dropping")

\* A slip: the flag is set but the worker is not notified.
DropUnnotified(t) ==
    /\ guard[t] = "dropping"
    /\ guard' = [guard EXCEPT ![t] = "joining"]
    /\ UNCHANGED <<worker, cancelled, fired, verdict>>

DropNotify(t) == Notify(t, "dropping", "joining")

JoinReturns(t) ==
    /\ guard[t] = "joining"
    /\ worker[t] = "done"
    /\ guard' = [guard EXCEPT ![t] = "gone"]
    /\ UNCHANGED <<worker, cancelled, fired, verdict>>

-----------------------------------------------------------------------------
(* The worker thread.                                                      *)

WorkerMoves(t, from, to) ==
    /\ worker[t] = from
    /\ worker' = [worker EXCEPT ![t] = to]
    /\ UNCHANGED <<cancelled, fired, guard, verdict>>

\* wait_while_for looks at the flag before it first waits and whenever it was
\* notified; with the flag set it is over, and has not timed out.
StartWaiting(t) == ~cancelled[t] /\ WorkerMoves(t, "looking", "waiting")

NothingToWaitFor(t) == cancelled[t] /\ WorkerMoves(t, "looking", "done")

\* A slip: a wait without a deadline, which only a notification ends.
ElapseOnlyNotified(t) == cancelled[t] /\ WorkerMoves(t, "waiting", "elapsed")

\* The timeout passes: the wait is over, and the mutex is yet to be taken.
Elapse(t) == WorkerMoves(t, "waiting", "elapsed")

\* The mutex is taken again, and somebody cancelled in between.
DecideCancelled(t) == cancelled[t] /\ WorkerMoves(t, "elapsed", "done")

\* A slip: the flag is not looked at again after the timeout.
DecideToFireUnchecked(t) ==
    /\ worker[t] = "elapsed"
    /\ fired' = [fired EXCEPT ![t] = TRUE]
    /\ worker' = [worker EXCEPT ![t] = "acting"]
    /\ UNCHANGED <<cancelled, guard, verdict>>

\* A slip: the worker marks the guard, which is its owner's to move.
DecideToFireMarks(t) ==
    /\ worker[t] = "elapsed"
    /\ ~cancelled[t]
    /\ fired' = [fired EXCEPT ![t] = TRUE]
    /\ worker' = [worker EXCEPT ![t] = "acting"]
    /\ guard' = [guard EXCEPT ![t] = "fired"]
    /\ UNCHANGED <<cancelled, verdict>>

\* The mutex is taken again with nothing cancelled: `fired` is set under it.
DecideToFire(t) ==
    /\ worker[t] = "elapsed"
    /\ ~cancelled[t]
    /\ fired' = [fired EXCEPT ![t] = TRUE]
    /\ worker' = [worker EXCEPT ![t] = "acting"]
    /\ UNCHANGED <<cancelled, guard, verdict>>

ActionReturns(t) == WorkerMoves(t, "acting", "done")

-----------------------------------------------------------------------------
\* What the worker does by itself, the passing of its deadline apart.
WorkerRuns(t) ==
    \/ StartWaiting(t) \/ NothingToWaitFor(t)
    \/ DecideCancelled(t) \/ DecideToFire(t) \/ ActionReturns(t)

OwnerStep(t) ==
    \/ Arm(t) \/ Confirm(t) \/ ConfirmNotify(t) \/ ConfirmReturn(t)
    \/ Drop(t) \/ DropNotify(t) \/ JoinReturns(t)

Next == \E t \in Timers : WorkerRuns(t) \/ Elapse(t) \/ OwnerStep(t)

(* The operating system runs the worker and the action it was given ends;  *)
(* a call in progress proceeds.  Nothing makes anybody arm, confirm or     *)
(* drop, and that the deadline passes is not assumed here.                 *)
Fairness == \A t \in Timers :
    /\ WF_vars(WorkerRuns(t))
    /\ WF_vars(ConfirmNotify(t))
    /\ WF_vars(ConfirmReturn(t))
    /\ WF_vars(DropNotify(t))
    /\ WF_vars(JoinReturns(t))

Spec == Init /\ [][Next]_vars

FairSpec == Spec /\ Fairness

-----------------------------------------------------------------------------
(* A `true` from confirm is final: the caller goes on to delete the backup *)
(* (confirm_pending), so the rollback must not run, now or later, and the  *)
(* flag it would have to get past is set.  The race is between the worker, *)
(* awake after its timeout but without the mutex, and the confirm.         *)
VerdictIsFinal == \A t \in Timers :
    verdict[t] = "cancelled" => ~fired[t] /\ worker[t] # "acting"

(* Dropping a guard returns, whatever the worker was doing, and even if    *)
(* the deadline of its wait never came: the join waits for no more than    *)
(* the end of an action that has begun, because Drop notifies the worker   *)
(* (Drop: "Signal the worker to stop waiting").                            *)
DropReturns == \A t \in Timers : guard[t] = "dropping" ~> guard[t] = "gone"

(* A rollback nobody cancels is carried out once its deadline comes: an    *)
(* administrator who is cut off gets the old settings back.                *)
UncancelledFires ==
    (\A t \in Timers : WF_vars(Elapse(t)))
        => \A t \in Timers :
            guard[t] = "held" ~> (cancelled[t] \/ (fired[t] /\ worker[t] = "done"))

(* The guard, its thread and its two flags implement the promise of        *)
(* module OneShot.                                                         *)
PhaseOf(t) ==
    IF worker[t] = "unborn" THEN "unarmed"
    ELSE IF fired[t] THEN (IF worker[t] = "done" THEN "fired" ELSE "firing")
    ELSE IF cancelled[t] THEN "cancelled" ELSE "armed"

Promise == INSTANCE OneShot WITH
    phase <- [t \in Timers |-> PhaseOf(t)],
    gone <- {t \in Timers : guard[t] = "gone"}

ImplementsOneShot == Promise!Spec
=============================================================================
