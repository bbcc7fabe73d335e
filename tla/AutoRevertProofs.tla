-------------------------- MODULE AutoRevertProofs --------------------------
(***************************************************************************)
(* AutoRevert keeps its promise for any number of guards: the proofs of    *)
(* VerdictIsFinal and of the refinement of OneShot.                        *)
(***************************************************************************)
EXTENDS AutoRevert, TLAPS

(* The worker sets `fired` when it starts to act and at no other moment,   *)
(* and only a worker that found the flag clear does; a guard that is being *)
(* confirmed or dropped has set the flag; an answer agrees with `fired`;   *)
(* a guard that is gone has joined its worker.                             *)
Inv == \A t \in Timers :
    /\ worker[t] = "unborn" <=> guard[t] = "unarmed"
    /\ worker[t] \in {"unborn", "looking", "waiting", "elapsed"} => ~fired[t]
    /\ worker[t] = "acting" => fired[t]
    /\ worker[t] = "done" => cancelled[t] \/ fired[t]
    /\ worker[t] = "unborn" => ~cancelled[t] /\ verdict[t] = "none"
    /\ guard[t] \in {"cancelling", "asking", "told", "dropping", "joining", "gone"} => cancelled[t]
    /\ guard[t] \in {"held", "cancelling", "asking"} => verdict[t] = "none"
    /\ verdict[t] = "cancelled" => ~fired[t]
    /\ verdict[t] # "none" => cancelled[t]
    /\ verdict[t] = "late" => fired[t]
    /\ guard[t] = "gone" => worker[t] = "done"

Safe == TypeOK /\ Inv

\* Before a guard is armed nothing has run and nothing is cancelled.
LEMMA InitSafe == Init => Safe
BY DEF Init, Safe, TypeOK, Inv, WorkerStates, GuardStates, Verdicts

\* The owner's arm, confirm and drop keep Safe.
LEMMA OwnerKeepsSafe ==
  ASSUME Safe, NEW t \in Timers, OwnerStep(t)
  PROVE  Safe'
<1> USE DEF Safe, TypeOK, Inv, WorkerStates, GuardStates, Verdicts
<1>1. CASE Arm(t)
  BY <1>1 DEF Arm
<1>2. CASE Confirm(t)
  BY <1>2 DEF Confirm, SetFlag
<1>3. CASE ConfirmNotify(t)
  BY <1>3 DEF ConfirmNotify, Notify
<1>4. CASE ConfirmReturn(t)
  BY <1>4 DEF ConfirmReturn
<1>5. CASE Drop(t)
  BY <1>5 DEF Drop, SetFlag
<1>6. CASE DropNotify(t)
  BY <1>6 DEF DropNotify, Notify
<1>7. CASE JoinReturns(t)
  BY <1>7 DEF JoinReturns
<1> QED
  BY <1>1, <1>2, <1>3, <1>4, <1>5, <1>6, <1>7 DEF OwnerStep

\* Every step of the worker thread keeps Safe.
LEMMA WorkerKeepsSafe ==
  ASSUME Safe, NEW t \in Timers, WorkerRuns(t) \/ Elapse(t)
  PROVE  Safe'
<1> USE DEF Safe, TypeOK, Inv, WorkerStates, GuardStates, Verdicts, WorkerMoves
<1>1. CASE StartWaiting(t)
  BY <1>1 DEF StartWaiting
<1>2. CASE NothingToWaitFor(t)
  BY <1>2 DEF NothingToWaitFor
<1>3. CASE Elapse(t)
  BY <1>3 DEF Elapse
<1>4. CASE DecideCancelled(t)
  BY <1>4 DEF DecideCancelled
<1>5. CASE DecideToFire(t)
  BY <1>5 DEF DecideToFire
<1>6. CASE ActionReturns(t)
  BY <1>6 DEF ActionReturns
<1> QED
  BY <1>1, <1>2, <1>3, <1>4, <1>5, <1>6 DEF WorkerRuns

\* Every step keeps Safe.
LEMMA NextKeepsSafe == Safe /\ [Next]_vars => Safe'
<1> SUFFICES ASSUME Safe, [Next]_vars PROVE Safe'
  OBVIOUS
<1>1. CASE Next
  BY <1>1, OwnerKeepsSafe, WorkerKeepsSafe DEF Next
<1>2. CASE UNCHANGED vars
  BY <1>2 DEF vars, Safe, TypeOK, Inv
<1> QED
  BY <1>1, <1>2

\* Safe holds of every behaviour.
LEMMA AlwaysSafe == Spec => []Safe
BY InitSafe, NextKeepsSafe, PTL DEF Spec

(* The type invariant of the guard, its worker and their flags.            *)
THEOREM AutoRevertTypes == Spec => []TypeOK
<1>1. Safe => TypeOK
  BY DEF Safe
<1> QED
  BY <1>1, AlwaysSafe, PTL

(* confirm's `true` excludes the rollback for good, whichever way it races *)
(* with the worker's timeout.                                              *)
THEOREM ConfirmIsFinal == Spec => []VerdictIsFinal
<1>1. Safe => VerdictIsFinal
  BY DEF Safe, Inv, VerdictIsFinal
<1> QED
  BY <1>1, AlwaysSafe, PTL

-----------------------------------------------------------------------------
(* The refinement.  The phase of a rollback changes in four steps of the   *)
(* implementation: the spawn, the first setting of the flag, the decision  *)
(* to fire and the end of the action.  All the others are invisible, or    *)
(* are the answer and the end of the guard.                                *)

\* Initially the guard is the promise's unarmed one.
LEMMA InitImplements == Init => Promise!Init
BY DEF Init, Promise!Init, PhaseOf

\* Each step of the owner is a step of the promise, or none.
LEMMA OwnerImplements ==
  ASSUME Safe, NEW t \in Timers, OwnerStep(t)
  PROVE  [Promise!Next]_(Promise!vars)
<1> USE DEF Safe, TypeOK, Inv, WorkerStates, GuardStates, Verdicts, PhaseOf
<1>1. CASE Arm(t)
  <2>1. Promise!Arm(t)
    BY ZenonT(30), <1>1 DEF Arm, Promise!Arm, Promise!Become
  <2> QED
    BY <2>1 DEF Promise!Next
<1>2. CASE Confirm(t)
  <2>1. CASE PhaseOf(t) = "armed"
    <3>1. Promise!Cancel(t)
      BY <1>2, <2>1 DEF Confirm, SetFlag, Promise!Cancel, Promise!Become
    <3> QED
      BY <3>1 DEF Promise!Next
  <2>2. CASE PhaseOf(t) # "armed"
    BY <1>2, <2>2 DEF Confirm, SetFlag, Promise!vars
  <2> QED
    BY <2>1, <2>2
<1>3. CASE ConfirmReturn(t)
  <2>1. Promise!Answer(t)
    BY <1>3 DEF ConfirmReturn, Promise!Answer
  <2> QED
    BY <2>1 DEF Promise!Next
<1>4. CASE Drop(t)
  <2>1. CASE PhaseOf(t) = "armed"
    <3>1. Promise!Cancel(t)
      BY <1>4, <2>1 DEF Drop, SetFlag, Promise!Cancel, Promise!Become
    <3> QED
      BY <3>1 DEF Promise!Next
  <2>2. CASE PhaseOf(t) # "armed"
    BY <1>4, <2>2 DEF Drop, SetFlag, Promise!vars
  <2> QED
    BY <2>1, <2>2
<1>5. CASE JoinReturns(t)
  <2>1. Promise!Release(t)
    BY <1>5 DEF JoinReturns, Promise!Release
  <2> QED
    BY <2>1 DEF Promise!Next
<1>6. CASE ConfirmNotify(t) \/ DropNotify(t)
  BY <1>6 DEF ConfirmNotify, DropNotify, Notify, Promise!vars
<1> QED
  BY <1>1, <1>2, <1>3, <1>4, <1>5, <1>6 DEF OwnerStep

\* Each step of the worker is a step of the promise, or none.
LEMMA WorkerImplements ==
  ASSUME Safe, NEW t \in Timers, WorkerRuns(t) \/ Elapse(t)
  PROVE  [Promise!Next]_(Promise!vars)
<1> USE DEF Safe, TypeOK, Inv, WorkerStates, GuardStates, Verdicts, PhaseOf, WorkerMoves
<1>1. CASE DecideToFire(t)
  <2>1. Promise!Fire(t)
    BY <1>1 DEF DecideToFire, Promise!Fire, Promise!Become
  <2> QED
    BY <2>1 DEF Promise!Next
<1>2. CASE ActionReturns(t)
  <2>1. Promise!Finish(t)
    BY <1>2 DEF ActionReturns, Promise!Finish, Promise!Become
  <2> QED
    BY <2>1 DEF Promise!Next
<1>3. CASE StartWaiting(t) \/ NothingToWaitFor(t) \/ Elapse(t) \/ DecideCancelled(t)
  BY <1>3 DEF StartWaiting, NothingToWaitFor, Elapse, DecideCancelled, Promise!vars
<1> QED
  BY <1>1, <1>2, <1>3 DEF WorkerRuns

(* AutoRevert implements OneShot: the two threads, the mutex and the       *)
(* condition variable add nothing to what the caller may see.              *)
THEOREM RefinesOneShot == Spec => ImplementsOneShot
<1>1. Safe /\ [Next]_vars => [Promise!Next]_(Promise!vars)
  <2> SUFFICES ASSUME Safe, [Next]_vars PROVE [Promise!Next]_(Promise!vars)
    OBVIOUS
  <2>1. CASE Next
    BY <2>1, OwnerImplements, WorkerImplements DEF Next
  <2>2. CASE UNCHANGED vars
    BY <2>2 DEF vars, Promise!vars, PhaseOf
  <2> QED
    BY <2>1, <2>2
<1> QED
  BY <1>1, InitImplements, AlwaysSafe, PTL DEF Spec, ImplementsOneShot, Promise!Spec
=============================================================================
