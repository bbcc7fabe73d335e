--------------------------- MODULE SafeEditProofs ---------------------------
(***************************************************************************)
(* Proofs about module SafeEdit, for any sets of areas, requests, timers   *)
(* and settings: the types; that no armed timer is out of reach of a       *)
(* confirm, whatever the administrators do; and, when they make one change *)
(* of an area at a time and no restore fails, that the configuration       *)
(* acknowledged last is never lost and is the one a rollback puts back,    *)
(* that it is in force when nothing is unresolved, and that files,         *)
(* services and timers implement commit-confirm.                           *)
(***************************************************************************)
EXTENDS SafeEdit, TLAPS

-----------------------------------------------------------------------------
(* Types.                                                                  *)

PcTypes ==
    /\ pc \in [Actors -> HandlerSteps \cup TimerSteps]
    /\ \A h \in Handlers : pc[h] \in HandlerSteps
    /\ \A t \in Timers : pc[t] \in TimerSteps

(* A step that moves one actor to a place of its own kind keeps the types  *)
(* of the places.                                                          *)
LEMMA PlaceKept ==
    ASSUME PcTypes, NEW a \in Actors, NEW to,
           a \in Handlers => to \in HandlerSteps,
           a \in Timers => to \in TimerSteps,
           pc' = [pc EXCEPT ![a] = to]
    PROVE  PcTypes'
BY DEF PcTypes, Actors

(* So does one that moves a request and a timer.                           *)
LEMMA PlacesKept ==
    ASSUME PcTypes, NEW h \in Handlers, NEW t \in Timers,
           NEW to \in HandlerSteps, NEW next \in TimerSteps,
           pc' = [pc EXCEPT ![h] = to, ![t] = next]
    PROVE  PcTypes'
<1>1. h \in Actors /\ t \in Actors /\ h \notin Timers /\ t \notin Handlers
  BY ActorsAssumption DEF Actors
<1>2. pc' \in [Actors -> HandlerSteps \cup TimerSteps]
  BY <1>1 DEF PcTypes
<1>3. pc'[h] = to /\ pc'[t] = next /\ \A a \in Actors \ {h, t} : pc'[a] = pc[a]
  BY <1>1 DEF PcTypes
<1>. QED
  BY <1>1, <1>2, <1>3 DEF PcTypes, Actors

(* What an edit writes is a configuration.                                 *)
LEMMA ConfigKinds ==
    /\ Empty \in Config
    /\ InitConfig \in Config
    /\ \A c, d \in Config : Merged(c, d) \in Config
    /\ \A s \in Settings : [set |-> {s}, rest |-> TRUE] \in Config
BY SettingsAssumption DEF Config, Empty, InitConfig, Merged

(* The restart of a rollback touches the service of its area only, and     *)
(* leaves it on the file, or stale.                                        *)
LEMMA RelaunchDoes ==
    ASSUME TypeOK, NEW k \in Keys, Relaunch(k)
    PROVE  /\ svc' \in [Keys -> SUBSET Config] /\ stale' \in [Keys -> BOOLEAN]
           /\ \A j \in Keys \ {k} : svc'[j] = svc[j] /\ stale'[j] = stale[j]
           /\ stale'[k] \/ (svc'[k] \subseteq {conf[k]} /\ (Starts(conf[k]) => svc'[k] # {}))
<1>1. CASE Relaunched(k)
  BY <1>1 DEF Relaunched, TypeOK
<1>2. CASE NotRelaunched(k)
  <2>1. PICK left \in {svc[k], {}} : svc' = [svc EXCEPT ![k] = left]
    BY <1>2 DEF NotRelaunched, Unmanaged
  <2>2. stale' = [stale EXCEPT ![k] = svc'[k] # {conf[k]}]
    BY <1>2 DEF NotRelaunched
  <2>3. svc' \in [Keys -> SUBSET Config] /\ svc'[k] = left
    BY <2>1 DEF TypeOK
  <2>4. stale' \in [Keys -> BOOLEAN] /\ (stale'[k] <=> svc'[k] # {conf[k]})
    BY <2>2 DEF TypeOK
  <2>5. \A j \in Keys \ {k} : svc'[j] = svc[j] /\ stale'[j] = stale[j]
    BY <2>1, <2>2 DEF TypeOK
  <2>6. CASE stale'[k]
    BY <2>3, <2>4, <2>5, <2>6
  <2>7. CASE ~stale'[k]
    BY <2>3, <2>4, <2>5, <2>7
  <2>. QED
    BY <2>6, <2>7
<1>. QED
  BY <1>1, <1>2 DEF Relaunch

(* The initial state is well typed.                                        *)
LEMMA InitTypes == Init => TypeOK
<1>. SUFFICES ASSUME Init PROVE TypeOK
  OBVIOUS
<1>1. PcTypes
  BY ActorsAssumption DEF Init, PcTypes, Actors, HandlerSteps, TimerSteps
<1>. QED
  BY <1>1, ConfigKinds DEF Init, TypeOK, PcTypes

(* A handler's step inside apply_wifi or apply_dhcp keeps the types.       *)
LEMMA ApplyTypes ==
    ASSUME TypeOK, NEW h \in Handlers,
           \/ \E k \in Keys : \E m \in Kinds, s \in Settings : Begin(h, k, m, s)
           \/ Refuse(h) \/ Load(h) \/ BackupOpen(h) \/ BackupFill(h) \/ BackupFails(h)
           \/ WriteOpen(h) \/ WriteFill(h) \/ WriteFails(h)
           \/ RestartOk(h) \/ RestartErr(h) \/ RestartRefused(h)
           \/ Verified(h) \/ NotVerified(h) \/ CommitNow(h)
    PROVE  TypeOK'
<1>. USE DEF TypeOK, files, locals, holds, history
<1>a. h \in Actors /\ h \notin Timers
  BY ActorsAssumption DEF Actors
<1>b. PcTypes
  BY DEF PcTypes
<1>1. ASSUME NEW k \in Keys, NEW m \in Kinds, NEW s \in Settings, Begin(h, k, m, s) PROVE TypeOK'
  <2>1. PcTypes'
    BY <1>a, <1>b, <1>1, PlaceKept DEF Begin, Goto, HandlerSteps
  <2>2. draft' \in [Actors -> Config]
    BY <1>a, <1>1, ConfigKinds DEF Begin
  <2>3. m \in {"now", "hold"} /\ edits' \in Nat
    BY <1>1, BoundsAssumption DEF Begin
  <2>. QED
    BY <1>a, <1>1, <2>1, <2>2, <2>3 DEF Begin, PcTypes
<1>2. ASSUME Refuse(h) PROVE TypeOK'
  BY <1>a, <1>b, <1>2, PlaceKept, ConfigKinds DEF Refuse, Answer, Goto, PcTypes, HandlerSteps
<1>3. ASSUME Load(h) PROVE TypeOK'
  BY <1>a, <1>b, <1>3, PlaceKept, ConfigKinds DEF Load, Goto, PcTypes, HandlerSteps
<1>4. ASSUME BackupOpen(h) PROVE TypeOK'
  BY <1>a, <1>b, <1>4, PlaceKept, ConfigKinds DEF BackupOpen, Goto, PcTypes, HandlerSteps
<1>5. ASSUME BackupFill(h) PROVE TypeOK'
  BY <1>a, <1>b, <1>5, PlaceKept, ConfigKinds DEF BackupFill, Goto, PcTypes, HandlerSteps
<1>6. ASSUME BackupFails(h) PROVE TypeOK'
  BY <1>a, <1>b, <1>6, PlaceKept, ConfigKinds DEF BackupFails, Answer, Goto, PcTypes, HandlerSteps
<1>7. ASSUME WriteOpen(h) PROVE TypeOK'
  BY <1>a, <1>b, <1>7, PlaceKept, ConfigKinds DEF WriteOpen, Goto, PcTypes, HandlerSteps
<1>8. ASSUME WriteFill(h) PROVE TypeOK'
  BY <1>a, <1>b, <1>8, PlaceKept, ConfigKinds DEF WriteFill, Goto, PcTypes, HandlerSteps
<1>9. ASSUME WriteFails(h) PROVE TypeOK'
  BY <1>a, <1>b, <1>9, PlaceKept, ConfigKinds DEF WriteFails, Answer, Goto, PcTypes, HandlerSteps
<1>10. ASSUME RestartOk(h) PROVE TypeOK'
  BY <1>a, <1>b, <1>10, PlaceKept, ConfigKinds DEF RestartOk, Goto, PcTypes, HandlerSteps
<1>11. ASSUME RestartErr(h) PROVE TypeOK'
  BY <1>a, <1>b, <1>11, PlaceKept, ConfigKinds DEF RestartErr, Goto, PcTypes, HandlerSteps
<1>12. ASSUME Verified(h) PROVE TypeOK'
  BY <1>a, <1>b, <1>12, PlaceKept, ConfigKinds DEF Verified, Goto, PcTypes, HandlerSteps
<1>13. ASSUME NotVerified(h) PROVE TypeOK'
  BY <1>a, <1>b, <1>13, PlaceKept, ConfigKinds DEF NotVerified, Goto, PcTypes, HandlerSteps
<1>14. ASSUME CommitNow(h) PROVE TypeOK'
  BY <1>a, <1>b, <1>14, PlaceKept, ConfigKinds DEF CommitNow, Answer, Goto, PcTypes, HandlerSteps
<1>15. ASSUME RestartRefused(h) PROVE TypeOK'
  BY <1>a, <1>b, <1>15, PlaceKept DEF RestartRefused, Goto, Unmanaged, PcTypes, HandlerSteps
<1>. QED
  BY <1>1, <1>2, <1>3, <1>4, <1>5, <1>6, <1>7, <1>8, <1>9, <1>10, <1>11, <1>12, <1>13, <1>14, <1>15

(* A step of revert keeps the types, whoever takes it.                     *)
LEMMA RevertTypes ==
    ASSUME TypeOK, NEW a \in Actors,
           RestoreMissing(a) \/ RestoreOpen(a) \/ RestoreFill(a) \/ RestoreFails(a)
    PROVE  TypeOK'
<1>. USE DEF TypeOK, files, locals, holds, history
<1>a. a \in Handlers \/ a \in Timers
  BY DEF Actors
<1>b. PcTypes
  BY DEF PcTypes
<1>1. ASSUME RestoreMissing(a) PROVE TypeOK'
  BY <1>a, <1>b, <1>1, PlaceKept, ConfigKinds DEF RestoreMissing, Goto, PcTypes, HandlerSteps, TimerSteps
<1>2. ASSUME RestoreOpen(a) PROVE TypeOK'
  BY <1>a, <1>b, <1>2, PlaceKept, ConfigKinds DEF RestoreOpen, Goto, PcTypes, HandlerSteps, TimerSteps
<1>3. ASSUME RestoreFill(a) PROVE TypeOK'
  BY <1>a, <1>b, <1>3, PlaceKept, ConfigKinds DEF RestoreFill, Goto, PcTypes, HandlerSteps, TimerSteps
<1>4. ASSUME RestoreFails(a) PROVE TypeOK'
  BY <1>a, <1>b, <1>4, PlaceKept, ConfigKinds DEF RestoreFails, Goto, PcTypes, HandlerSteps, TimerSteps
<1>. QED
  BY <1>1, <1>2, <1>3, <1>4

(* A timer's own step keeps the types.                                     *)
LEMMA TimerTypes ==
    ASSUME TypeOK, NEW t \in Timers,
           TimerFires(t) \/ TimerRestarts(t) \/ TimerDiscards(t)
    PROVE  TypeOK'
<1>. USE DEF TypeOK, files, locals, holds, history
<1>a. t \in Actors /\ t \notin Handlers
  BY ActorsAssumption DEF Actors
<1>b. PcTypes
  BY DEF PcTypes
<1>1. ASSUME TimerFires(t) PROVE TypeOK'
  BY <1>a, <1>b, <1>1, PlaceKept, ConfigKinds DEF TimerFires, Goto, PcTypes, HandlerSteps, TimerSteps
<1>2. ASSUME TimerRestarts(t) PROVE TypeOK'
  <2>1. svc' \in [Keys -> SUBSET Config] /\ stale' \in [Keys -> BOOLEAN]
    BY <1>a, <1>2, RelaunchDoes DEF TimerRestarts
  <2>. QED
    BY <1>a, <1>b, <1>2, <2>1, PlaceKept DEF TimerRestarts, Goto, PcTypes, HandlerSteps, TimerSteps
<1>3. ASSUME TimerDiscards(t) PROVE TypeOK'
  BY <1>a, <1>b, <1>3, PlaceKept, ConfigKinds DEF TimerDiscards, Goto, PcTypes, HandlerSteps, TimerSteps
<1>. QED
  BY <1>1, <1>2, <1>3

(* A step of arm_revert or confirm_pending, or the end of an edit that     *)
(* rolled back, keeps the types.                                           *)
LEMMA GuardTypes ==
    ASSUME TypeOK, NEW h \in Handlers,
           \/ \E k \in Keys : Confirm(h, k)
           \/ RolledBack(h) \/ InsertFirst(h) \/ InsertOver(h) \/ Join(h)
           \/ TakeNone(h) \/ TakeGuard(h) \/ CancelTooLate(h) \/ Accept(h) \/ AlreadyReverted(h)
           \/ \E t \in Timers : Arm(h, t) \/ CancelInTime(h, t)
    PROVE  TypeOK'
<1>. USE DEF TypeOK, files, locals, holds, history
<1>a. h \in Actors /\ h \notin Timers
  BY ActorsAssumption DEF Actors
<1>b. PcTypes
  BY DEF PcTypes
<1>1. ASSUME RolledBack(h) PROVE TypeOK'
  <2>1. svc' \in [Keys -> SUBSET Config] /\ stale' \in [Keys -> BOOLEAN]
    BY <1>a, <1>1, RelaunchDoes DEF RolledBack
  <2>. QED
    BY <1>a, <1>b, <1>1, <2>1, PlaceKept, ConfigKinds DEF RolledBack, Answer, Goto, PcTypes, HandlerSteps, TimerSteps
<1>2. ASSUME InsertFirst(h) PROVE TypeOK'
  BY <1>a, <1>b, <1>2, PlaceKept, ConfigKinds DEF InsertFirst, Answer, Goto, PcTypes, HandlerSteps, TimerSteps
<1>3. ASSUME InsertOver(h) PROVE TypeOK'
  BY <1>a, <1>b, <1>3, PlaceKept, ConfigKinds DEF InsertOver, Actors, PcTypes, HandlerSteps, TimerSteps
<1>4. ASSUME Join(h) PROVE TypeOK'
  BY <1>a, <1>b, <1>4, PlaceKept, ConfigKinds DEF Join, Answer, Goto, PcTypes, HandlerSteps, TimerSteps
<1>5. ASSUME TakeNone(h) PROVE TypeOK'
  BY <1>a, <1>b, <1>5, PlaceKept, ConfigKinds DEF TakeNone, Answer, Goto, PcTypes, HandlerSteps, TimerSteps
<1>6. ASSUME TakeGuard(h) PROVE TypeOK'
  BY <1>a, <1>b, <1>6, PlaceKept, ConfigKinds DEF TakeGuard, Goto, PcTypes, HandlerSteps, TimerSteps
<1>7. ASSUME CancelTooLate(h) PROVE TypeOK'
  BY <1>a, <1>b, <1>7, PlaceKept, ConfigKinds DEF CancelTooLate, Goto, PcTypes, HandlerSteps, TimerSteps
<1>8. ASSUME Accept(h) PROVE TypeOK'
  BY <1>a, <1>b, <1>8, PlaceKept, ConfigKinds DEF Accept, Answer, Goto, PcTypes, HandlerSteps, TimerSteps
<1>9. ASSUME AlreadyReverted(h) PROVE TypeOK'
  BY <1>a, <1>b, <1>9, PlaceKept, ConfigKinds DEF AlreadyReverted, Answer, Goto, PcTypes, HandlerSteps, TimerSteps
<1>10. ASSUME NEW t \in Timers, Arm(h, t) PROVE TypeOK'
  <2>1. t \in Actors /\ t \notin Handlers
    BY ActorsAssumption DEF Actors
  <2>2. "insert" \in HandlerSteps /\ "armed" \in TimerSteps
    BY DEF HandlerSteps, TimerSteps
  <2>3. pc' = [pc EXCEPT ![h] = "insert", ![t] = "armed"]
    BY <1>10 DEF Arm
  <2>4. PcTypes'
    BY <1>b, <2>2, <2>3, PlacesKept
  <2>. QED
    BY <1>a, <1>10, <2>1, <2>4 DEF Arm, PcTypes
<1>11. ASSUME NEW t \in Timers, CancelInTime(h, t) PROVE TypeOK'
  <2>1. t \in Actors /\ t \notin Handlers
    BY ActorsAssumption DEF Actors
  <2>2. "accept" \in HandlerSteps /\ "cancelled" \in TimerSteps
    BY DEF HandlerSteps, TimerSteps
  <2>3. pc' = [pc EXCEPT ![h] = "accept", ![t] = "cancelled"]
    BY <1>11 DEF CancelInTime
  <2>4. PcTypes'
    BY <1>b, <2>2, <2>3, PlacesKept
  <2>. QED
    BY <1>a, <1>11, <2>1, <2>4 DEF CancelInTime, PcTypes
<1>12. ASSUME NEW k \in Keys, Confirm(h, k) PROVE TypeOK'
  BY <1>a, <1>b, <1>12, PlaceKept, ConfigKinds DEF Confirm, Goto, PcTypes, HandlerSteps, TimerSteps
<1>. QED
  BY <1>1, <1>2, <1>3, <1>4, <1>5, <1>6, <1>7, <1>8, <1>9, <1>10, <1>11, <1>12

(* A service that ends, and the end of the program, keep the types.        *)
LEMMA OutsideTypes ==
    ASSUME TypeOK, Exit \/ \E k \in Keys : ServiceExits(k)
    PROVE  TypeOK'
<1>. USE DEF TypeOK, files, locals, holds, history
<1>1. CASE Exit
  <2>1. \A h \in Handlers : h \in Actors /\ pc'[h] = "idle"
    BY <1>1 DEF Exit, Actors
  <2>2. \A t \in Timers : t \in Actors /\ t \notin Handlers /\ pc'[t] \in {"off", "dead"}
    BY <1>1, ActorsAssumption DEF Exit, Actors
  <2>3. pc' \in [Actors -> HandlerSteps \cup TimerSteps]
    BY <1>1 DEF Exit, HandlerSteps, TimerSteps
  <2>4. draft' \in [Actors -> Config] /\ copied' \in [Actors -> Config]
    BY <1>1, ConfigKinds DEF Exit
  <2>5. lost' \in [Keys -> BOOLEAN]
    BY <1>1 DEF Exit
  <2>6. pending' \in [Keys -> SUBSET Timers] /\ guards' \in [Handlers -> SUBSET Timers]
    BY <1>1 DEF Exit
  <2>7. kind' \in [Handlers -> {"now", "hold"}] /\ plock' \subseteq Handlers
    BY <1>1 DEF Exit
  <2>8. \A a \in Actors : (a \in Handlers => pc'[a] \in HandlerSteps) /\ (a \in Timers => pc'[a] \in TimerSteps)
    BY <2>1, <2>2 DEF HandlerSteps, TimerSteps
  <2>. QED
    BY <1>1, <2>1, <2>2, <2>3, <2>4, <2>5, <2>6, <2>7, <2>8 DEF Exit
<1>2. ASSUME NEW k \in Keys, ServiceExits(k) PROVE TypeOK'
  BY <1>2 DEF ServiceExits
<1>. QED
  BY <1>1, <1>2

(* Every step keeps the types.                                             *)
LEMMA NextTypes == TypeOK /\ [Next]_vars => TypeOK'
<1>. SUFFICES ASSUME TypeOK, [Next]_vars PROVE TypeOK'
  OBVIOUS
<1>1. ASSUME NEW h \in Handlers, Requests(h) \/ HandlerStep(h) PROVE TypeOK'
  <2>. h \in Actors
    BY DEF Actors
  <2>. QED
    BY <1>1, ApplyTypes, RevertTypes, GuardTypes DEF Requests, HandlerStep
<1>2. ASSUME NEW t \in Timers, TimerStep(t) PROVE TypeOK'
  <2>. t \in Actors
    BY DEF Actors
  <2>. QED
    BY <1>2, RevertTypes, TimerTypes DEF TimerStep
<1>3. CASE UNCHANGED vars
  BY <1>3 DEF vars, files, locals, holds, history, TypeOK
<1>. QED
  BY <1>1, <1>2, <1>3, OutsideTypes DEF Next

(* Every state of every behaviour is well typed: in particular the lock of *)
(* `pending` is only ever held by requests, and a guard handed on is one   *)
(* of an armed timer.                                                      *)
THEOREM SafeEditTypes == Spec => []TypeOK
BY InitTypes, NextTypes, PTL DEF Spec

-----------------------------------------------------------------------------
(* One change of an area at a time.                                        *)

(* The administrators' discipline, and no failure of a restore.            *)
Serial == OneAtATime /\ "restore_io" \notin Faults

(* The places at which a request or a timer has its area to itself: those  *)
(* where the .bak holds the acknowledged configuration, where the file     *)
(* does, where the file holds the one on trial, and where a copy of the    *)
(* acknowledged one is in progress.                                        *)
WithBackup == {"write", "writing", "restart", "verify", "discard", "restore", "restoring",
    "rerestart", "arm", "armed", "clean", "accept"}
WithGood == {"load", "backup", "backing", "write", "rerestart", "clean"}
WithTrial == {"restart", "verify", "discard", "arm", "armed", "accept"}
Copying == {"backing", "restoring"}
Owning == WithBackup \cup WithGood

Owns(a, k) == pc[a] \in Owning /\ key[a] = k

Alone == \A k \in Keys : \A a, b \in Actors : Owns(a, k) /\ Owns(b, k) => a = b

Stage(a) ==
    /\ pc[a] \in WithGood => conf[key[a]] = good[key[a]]
    /\ pc[a] \in WithTrial => conf[key[a]] = draft[a]
    /\ pc[a] \in WithBackup => bak[key[a]] = {good[key[a]]}
    /\ pc[a] \in Copying => copied[a] = good[key[a]]
    /\ pc[a] \in Owning => ~lost[key[a]]

(* An area nobody owns.                                                    *)
Safe(k) == conf[k] = good[k] \/ (lost[k] /\ bak[k] = {good[k]})
Rested(k) == (\A a \in Actors : ~Owns(a, k)) => Safe(k)

(* The places of an edit.                                                  *)
Editing == {"load", "backup", "backing", "write", "writing", "restart", "verify", "discard",
    "restore", "restoring", "rerestart", "arm", "insert"}
OneEditor == \A g, h \in Handlers :
    pc[g] \in Editing /\ pc[h] \in Editing /\ key[g] = key[h] => g = h

(* A guard in the map, or about to be put there or confirmed, is that of   *)
(* a timer of the same area; one that is about to be replaced cannot fire. *)
Filed ==
    /\ \A k \in Keys : \A t \in pending[k] : key[t] = k /\ pc[t] # "off"
    /\ \A h \in Handlers : pc[h] \in {"insert", "cancel"} =>
          \A t \in guards[h] : key[t] = key[h] /\ pc[t] # "off"
    /\ \A h \in Handlers : pc[h] = "insert" =>
          \A t \in pending[key[h]] : pc[t] # "armed"

Owned ==
    /\ Alone
    /\ \A a \in Actors : Stage(a)
    /\ \A k \in Keys : Rested(k)

Guarded == Owned /\ OneEditor /\ Filed

(* A step of the owner of an area, which touches nothing but its area and  *)
(* keeps the area or leaves it in order, disturbs no other owner.          *)
LEMMA OwnerMoves ==
    ASSUME TypeOK, Owned, NEW a \in Actors, NEW to,
           pc[a] \in Owning,
           pc' = [pc EXCEPT ![a] = to],
           key' = key,
           \A b \in Actors \ {a} : draft'[b] = draft[b] /\ copied'[b] = copied[b],
           \A k \in Keys \ {key[a]} :
               conf'[k] = conf[k] /\ bak'[k] = bak[k] /\ good'[k] = good[k] /\ lost'[k] = lost[k],
           Stage(a)',
           to \notin Owning => Safe(key[a])'
    PROVE  Owned'
<1>1. pc'[a] = to /\ \A b \in Actors \ {a} : pc'[b] = pc[b]
  BY DEF TypeOK
<1>2. key[a] \in Keys /\ \A b \in Actors : key[b] \in Keys
  BY DEF TypeOK
<1>3. \A b \in Actors \ {a} : key[b] = key[a] => pc[b] \notin Owning
  BY <1>2 DEF Owned, Alone, Owns
<1>4. Alone'
  BY <1>1, <1>2, <1>3 DEF Owned, Alone, Owns
<1>5. ASSUME NEW b \in Actors, b # a PROVE Stage(b)'
  <2>1. Stage(b)
    BY DEF Owned
  <2>2. CASE key[b] = key[a]
    <3>1. pc'[b] \notin Owning
      BY <1>1, <1>3, <1>5, <2>2
    <3>. QED
      BY <3>1 DEF Stage, Owning, WithBackup, WithGood, WithTrial, Copying
  <2>3. CASE key[b] # key[a]
    BY <1>1, <1>2, <1>5, <2>1, <2>3 DEF Stage
  <2>. QED
    BY <2>2, <2>3
<1>6. ASSUME NEW k \in Keys PROVE Rested(k)'
  <2>1. CASE k = key[a]
    BY <1>1, <2>1 DEF Rested, Owns
  <2>2. CASE k # key[a]
    <3>1. Rested(k)
      BY DEF Owned
    <3>2. ASSUME NEW b \in Actors PROVE Owns(b, k)' <=> Owns(b, k)
      BY <1>1, <2>2 DEF Owns
    <3>. QED
      BY <2>2, <3>1, <3>2 DEF Rested, Safe
  <2>. QED
    BY <2>1, <2>2
<1>. QED
  BY <1>4, <1>5, <1>6 DEF Owned

(* A step of somebody who owns no area, before or after it, disturbs no    *)
(* owner.                                                                  *)
LEMMA BystanderMoves ==
    ASSUME TypeOK, Owned, NEW a \in Actors, NEW to,
           pc[a] \notin Owning, to \notin Owning,
           pc' = [pc EXCEPT ![a] = to],
           \A b \in Actors \ {a} :
               draft'[b] = draft[b] /\ copied'[b] = copied[b] /\ key'[b] = key[b],
           UNCHANGED <<conf, bak, good, lost>>
    PROVE  Owned'
<1>1. pc'[a] = to /\ \A b \in Actors \ {a} : pc'[b] = pc[b]
  BY DEF TypeOK
<1>2. ASSUME NEW b \in Actors, NEW k \in Keys PROVE Owns(b, k)' <=> Owns(b, k)
  BY <1>1 DEF Owns
<1>3. Alone'
  BY <1>2 DEF Owned, Alone
<1>4. ASSUME NEW b \in Actors PROVE Stage(b)'
  <2>1. CASE b = a
    BY <1>1, <2>1 DEF Stage, Owning, WithBackup, WithGood, WithTrial, Copying
  <2>2. CASE b # a
    <3>1. Stage(b)
      BY DEF Owned
    <3>. QED
      BY <1>1, <2>2, <3>1 DEF Stage
  <2>. QED
    BY <2>1, <2>2
<1>5. ASSUME NEW k \in Keys PROVE Rested(k)'
  <2>1. Rested(k)
    BY DEF Owned
  <2>. QED
    BY <1>2, <2>1 DEF Rested, Safe
<1>. QED
  BY <1>3, <1>4, <1>5 DEF Owned

(* A step that arms nobody, and inserts and confirms nothing, keeps the    *)
(* map in order.                                                           *)
LEMMA FiledKept ==
    ASSUME TypeOK, OneEditor, Filed, NEW a \in Actors, NEW to,
           to \notin {"insert", "cancel", "off", "armed"},
           a \in Handlers /\ to \in Editing => pc[a] \in Editing,
           pc' = [pc EXCEPT ![a] = to],
           key' = key,
           \A k \in Keys : pending'[k] \subseteq pending[k],
           \A h \in Handlers \ {a} : guards'[h] = guards[h]
    PROVE  OneEditor' /\ Filed'
<1>1. pc'[a] = to /\ \A b \in Actors \ {a} : pc'[b] = pc[b]
  BY DEF TypeOK
<1>2. \A h \in Handlers : h \in Actors /\ key[h] \in Keys
  BY DEF TypeOK, Actors
<1>3. \A t \in Timers : t \in Actors
  BY DEF Actors
<1>4. \A h \in Handlers : guards[h] \subseteq Timers
  BY DEF TypeOK
<1>5. \A k \in Keys : pending[k] \subseteq Timers
  BY DEF TypeOK
<1>6. OneEditor'
  BY <1>1, <1>2 DEF OneEditor
<1>7. Filed'
  BY <1>1, <1>2, <1>3, <1>4, <1>5 DEF Filed
<1>. QED
  BY <1>6, <1>7

(* The steps of an edit, or of a confirm that came in time, after which the*)
(* request holds its area as before, or leaves it in order.                *)
LEMMA ApplySerial ==
    ASSUME TypeOK, Guarded, NEW h \in Handlers,
           \/ Refuse(h) \/ Load(h) \/ BackupOpen(h) \/ BackupFill(h) \/ BackupFails(h)
           \/ WriteOpen(h) \/ WriteFill(h) \/ WriteFails(h)
           \/ RestartOk(h) \/ RestartErr(h) \/ RestartRefused(h) \/ NotVerified(h) \/ CommitNow(h)
           \/ RolledBack(h) \/ Accept(h)
    PROVE  Guarded'
<1>. USE DEF files, locals, holds, history
<1>a. h \in Actors /\ h \in Handlers /\ h \notin Timers
  BY ActorsAssumption DEF Actors
<1>b. Owned /\ OneEditor /\ Filed /\ Stage(h)
  BY <1>a DEF Guarded, Owned
<1>1. ASSUME Refuse(h) PROVE Guarded'
  <2>1. Stage(h)' /\ ("idle" \notin Owning => Safe(key[h])')
    BY <1>a, <1>b, <1>1 DEF Refuse, Answer, Goto, Stage, Safe, TypeOK, Owning, WithBackup, WithGood, WithTrial, Copying, Editing
  <2>2. Owned'
    BY <1>a, <1>b, <1>1, <2>1, OwnerMoves DEF Refuse, Answer, Goto, TypeOK, Owning, WithBackup, WithGood, WithTrial, Copying, Editing
  <2>3. OneEditor' /\ Filed'
    BY <1>a, <1>b, <1>1, FiledKept DEF Refuse, Answer, Goto, TypeOK, Owning, WithBackup, WithGood, WithTrial, Copying, Editing
  <2>. QED
    BY <2>2, <2>3 DEF Guarded
<1>2. ASSUME Load(h) PROVE Guarded'
  <2>1. Stage(h)' /\ ("backup" \notin Owning => Safe(key[h])')
    BY <1>a, <1>b, <1>2 DEF Load, Goto, Stage, Safe, TypeOK, Owning, WithBackup, WithGood, WithTrial, Copying, Editing
  <2>2. Owned'
    BY <1>a, <1>b, <1>2, <2>1, OwnerMoves DEF Load, Goto, TypeOK, Owning, WithBackup, WithGood, WithTrial, Copying, Editing
  <2>3. OneEditor' /\ Filed'
    BY <1>a, <1>b, <1>2, FiledKept DEF Load, Goto, TypeOK, Owning, WithBackup, WithGood, WithTrial, Copying, Editing
  <2>. QED
    BY <2>2, <2>3 DEF Guarded
<1>3. ASSUME BackupOpen(h) PROVE Guarded'
  <2>1. Stage(h)' /\ ("backing" \notin Owning => Safe(key[h])')
    BY <1>a, <1>b, <1>3 DEF BackupOpen, Goto, Stage, Safe, TypeOK, Owning, WithBackup, WithGood, WithTrial, Copying, Editing
  <2>2. Owned'
    BY <1>a, <1>b, <1>3, <2>1, OwnerMoves DEF BackupOpen, Goto, TypeOK, Owning, WithBackup, WithGood, WithTrial, Copying, Editing
  <2>3. OneEditor' /\ Filed'
    BY <1>a, <1>b, <1>3, FiledKept DEF BackupOpen, Goto, TypeOK, Owning, WithBackup, WithGood, WithTrial, Copying, Editing
  <2>. QED
    BY <2>2, <2>3 DEF Guarded
<1>4. ASSUME BackupFill(h) PROVE Guarded'
  <2>1. Stage(h)' /\ ("write" \notin Owning => Safe(key[h])')
    BY <1>a, <1>b, <1>4 DEF BackupFill, Goto, Stage, Safe, TypeOK, Owning, WithBackup, WithGood, WithTrial, Copying, Editing
  <2>2. Owned'
    BY <1>a, <1>b, <1>4, <2>1, OwnerMoves DEF BackupFill, Goto, TypeOK, Owning, WithBackup, WithGood, WithTrial, Copying, Editing
  <2>3. OneEditor' /\ Filed'
    BY <1>a, <1>b, <1>4, FiledKept DEF BackupFill, Goto, TypeOK, Owning, WithBackup, WithGood, WithTrial, Copying, Editing
  <2>. QED
    BY <2>2, <2>3 DEF Guarded
<1>5. ASSUME BackupFails(h) PROVE Guarded'
  <2>1. Stage(h)' /\ ("idle" \notin Owning => Safe(key[h])')
    BY <1>a, <1>b, <1>5 DEF BackupFails, Answer, Goto, Stage, Safe, TypeOK, Owning, WithBackup, WithGood, WithTrial, Copying, Editing
  <2>2. Owned'
    BY <1>a, <1>b, <1>5, <2>1, OwnerMoves DEF BackupFails, Answer, Goto, TypeOK, Owning, WithBackup, WithGood, WithTrial, Copying, Editing
  <2>3. OneEditor' /\ Filed'
    BY <1>a, <1>b, <1>5, FiledKept DEF BackupFails, Answer, Goto, TypeOK, Owning, WithBackup, WithGood, WithTrial, Copying, Editing
  <2>. QED
    BY <2>2, <2>3 DEF Guarded
<1>6. ASSUME WriteOpen(h) PROVE Guarded'
  <2>1. Stage(h)' /\ ("writing" \notin Owning => Safe(key[h])')
    BY <1>a, <1>b, <1>6 DEF WriteOpen, Goto, Stage, Safe, TypeOK, Owning, WithBackup, WithGood, WithTrial, Copying, Editing
  <2>2. Owned'
    BY <1>a, <1>b, <1>6, <2>1, OwnerMoves DEF WriteOpen, Goto, TypeOK, Owning, WithBackup, WithGood, WithTrial, Copying, Editing
  <2>3. OneEditor' /\ Filed'
    BY <1>a, <1>b, <1>6, FiledKept DEF WriteOpen, Goto, TypeOK, Owning, WithBackup, WithGood, WithTrial, Copying, Editing
  <2>. QED
    BY <2>2, <2>3 DEF Guarded
<1>7. ASSUME WriteFill(h) PROVE Guarded'
  <2>1. Stage(h)' /\ ("restart" \notin Owning => Safe(key[h])')
    BY <1>a, <1>b, <1>7 DEF WriteFill, Goto, Stage, Safe, TypeOK, Owning, WithBackup, WithGood, WithTrial, Copying, Editing
  <2>2. Owned'
    BY <1>a, <1>b, <1>7, <2>1, OwnerMoves DEF WriteFill, Goto, TypeOK, Owning, WithBackup, WithGood, WithTrial, Copying, Editing
  <2>3. OneEditor' /\ Filed'
    BY <1>a, <1>b, <1>7, FiledKept DEF WriteFill, Goto, TypeOK, Owning, WithBackup, WithGood, WithTrial, Copying, Editing
  <2>. QED
    BY <2>2, <2>3 DEF Guarded
<1>8. ASSUME WriteFails(h) PROVE Guarded'
  <2>1. Stage(h)' /\ ("idle" \notin Owning => Safe(key[h])')
    BY ZenonT(30), <1>a, <1>b, <1>8 DEF WriteFails, Answer, Goto, Stage, Safe, TypeOK, Owning, WithBackup, WithGood, WithTrial, Copying, Editing
  <2>2. Owned'
    BY <1>a, <1>b, <1>8, <2>1, OwnerMoves DEF WriteFails, Answer, Goto, TypeOK, Owning, WithBackup, WithGood, WithTrial, Copying, Editing
  <2>3. OneEditor' /\ Filed'
    BY <1>a, <1>b, <1>8, FiledKept DEF WriteFails, Answer, Goto, TypeOK, Owning, WithBackup, WithGood, WithTrial, Copying, Editing
  <2>. QED
    BY <2>2, <2>3 DEF Guarded
<1>9. ASSUME RestartOk(h) PROVE Guarded'
  <2>1. Stage(h)' /\ ("verify" \notin Owning => Safe(key[h])')
    BY <1>a, <1>b, <1>9 DEF RestartOk, Goto, Stage, Safe, TypeOK, Owning, WithBackup, WithGood, WithTrial, Copying, Editing
  <2>2. Owned'
    BY <1>a, <1>b, <1>9, <2>1, OwnerMoves DEF RestartOk, Goto, TypeOK, Owning, WithBackup, WithGood, WithTrial, Copying, Editing
  <2>3. OneEditor' /\ Filed'
    BY <1>a, <1>b, <1>9, FiledKept DEF RestartOk, Goto, TypeOK, Owning, WithBackup, WithGood, WithTrial, Copying, Editing
  <2>. QED
    BY <2>2, <2>3 DEF Guarded
<1>10. ASSUME RestartErr(h) PROVE Guarded'
  <2>1. Stage(h)' /\ ("restore" \notin Owning => Safe(key[h])')
    BY <1>a, <1>b, <1>10 DEF RestartErr, Goto, Stage, Safe, TypeOK, Owning, WithBackup, WithGood, WithTrial, Copying, Editing
  <2>2. Owned'
    BY <1>a, <1>b, <1>10, <2>1, OwnerMoves DEF RestartErr, Goto, TypeOK, Owning, WithBackup, WithGood, WithTrial, Copying, Editing
  <2>3. OneEditor' /\ Filed'
    BY <1>a, <1>b, <1>10, FiledKept DEF RestartErr, Goto, TypeOK, Owning, WithBackup, WithGood, WithTrial, Copying, Editing
  <2>. QED
    BY <2>2, <2>3 DEF Guarded
<1>11. ASSUME NotVerified(h) PROVE Guarded'
  <2>1. Stage(h)' /\ ("restore" \notin Owning => Safe(key[h])')
    BY <1>a, <1>b, <1>11 DEF NotVerified, Goto, Stage, Safe, TypeOK, Owning, WithBackup, WithGood, WithTrial, Copying, Editing
  <2>2. Owned'
    BY <1>a, <1>b, <1>11, <2>1, OwnerMoves DEF NotVerified, Goto, TypeOK, Owning, WithBackup, WithGood, WithTrial, Copying, Editing
  <2>3. OneEditor' /\ Filed'
    BY <1>a, <1>b, <1>11, FiledKept DEF NotVerified, Goto, TypeOK, Owning, WithBackup, WithGood, WithTrial, Copying, Editing
  <2>. QED
    BY <2>2, <2>3 DEF Guarded
<1>12. ASSUME CommitNow(h) PROVE Guarded'
  <2>1. Stage(h)' /\ ("idle" \notin Owning => Safe(key[h])')
    BY <1>a, <1>b, <1>12 DEF CommitNow, Answer, Goto, Stage, Safe, TypeOK, Owning, WithBackup, WithGood, WithTrial, Copying, Editing
  <2>2. Owned'
    BY <1>a, <1>b, <1>12, <2>1, OwnerMoves DEF CommitNow, Answer, Goto, TypeOK, Owning, WithBackup, WithGood, WithTrial, Copying, Editing
  <2>3. OneEditor' /\ Filed'
    BY <1>a, <1>b, <1>12, FiledKept DEF CommitNow, Answer, Goto, TypeOK, Owning, WithBackup, WithGood, WithTrial, Copying, Editing
  <2>. QED
    BY <2>2, <2>3 DEF Guarded
<1>13. ASSUME RolledBack(h) PROVE Guarded'
  <2>1. /\ pc[h] = "rerestart" /\ pc' = [pc EXCEPT ![h] = "idle"]
        /\ UNCHANGED <<conf, bak, key, guards, pending, good, lost>>
    BY <1>13 DEF RolledBack, Answer, Goto
  <2>2. Stage(h)' /\ ("idle" \notin Owning => Safe(key[h])')
    BY <1>a, <1>b, <2>1 DEF Stage, Safe, TypeOK, Owning, WithBackup, WithGood, WithTrial, Copying
  <2>3. Owned'
    BY <1>a, <1>b, <1>13, <2>1, <2>2, OwnerMoves DEF RolledBack, Answer, TypeOK, Owning, WithBackup, WithGood
  <2>4. OneEditor' /\ Filed'
    BY <1>a, <1>b, <2>1, FiledKept DEF TypeOK, Editing
  <2>. QED
    BY <2>3, <2>4 DEF Guarded
<1>14. ASSUME Accept(h) PROVE Guarded'
  <2>1. Stage(h)' /\ ("idle" \notin Owning => Safe(key[h])')
    BY <1>a, <1>b, <1>14 DEF Accept, Answer, Goto, Stage, Safe, TypeOK, Owning, WithBackup, WithGood, WithTrial, Copying, Editing
  <2>2. Owned'
    BY <1>a, <1>b, <1>14, <2>1, OwnerMoves DEF Accept, Answer, Goto, TypeOK, Owning, WithBackup, WithGood, WithTrial, Copying, Editing
  <2>3. OneEditor' /\ Filed'
    BY <1>a, <1>b, <1>14, FiledKept DEF Accept, Answer, Goto, TypeOK, Owning, WithBackup, WithGood, WithTrial, Copying, Editing
  <2>. QED
    BY <2>2, <2>3 DEF Guarded
<1>15. ASSUME RestartRefused(h) PROVE Guarded'
  <2>1. Stage(h)' /\ ("restore" \notin Owning => Safe(key[h])')
    BY <1>a, <1>b, <1>15 DEF RestartRefused, Goto, Unmanaged, Stage, Safe, TypeOK, Owning, WithBackup, WithGood, WithTrial, Copying, Editing
  <2>2. Owned'
    BY <1>a, <1>b, <1>15, <2>1, OwnerMoves DEF RestartRefused, Goto, Unmanaged, TypeOK, Owning, WithBackup, WithGood, WithTrial, Copying, Editing
  <2>3. OneEditor' /\ Filed'
    BY <1>a, <1>b, <1>15, FiledKept DEF RestartRefused, Goto, Unmanaged, TypeOK, Owning, WithBackup, WithGood, WithTrial, Copying, Editing
  <2>. QED
    BY <2>2, <2>3 DEF Guarded
<1>. QED
  BY <1>1, <1>2, <1>3, <1>4, <1>5, <1>6, <1>7, <1>8, <1>9, <1>10, <1>11, <1>12, <1>13, <1>14, <1>15

(* The steps of revert that do not fail.                                   *)
LEMMA RevertSerial ==
    ASSUME TypeOK, Guarded, NEW a \in Actors,
           RestoreMissing(a) \/ RestoreOpen(a) \/ RestoreFill(a)
    PROVE  Guarded'
<1>. USE DEF files, locals, holds, history
<1>a. a \in Actors
  OBVIOUS
<1>b. Owned /\ OneEditor /\ Filed /\ Stage(a)
  BY <1>a DEF Guarded, Owned
<1>1. ASSUME RestoreMissing(a) PROVE Guarded'
  <2>1. Stage(a)' /\ ("rerestart" \notin Owning => Safe(key[a])')
    BY <1>a, <1>b, <1>1 DEF RestoreMissing, Goto, Stage, Safe, TypeOK, Owning, WithBackup, WithGood, WithTrial, Copying, Editing
  <2>2. Owned'
    BY <1>a, <1>b, <1>1, <2>1, OwnerMoves DEF RestoreMissing, Goto, TypeOK, Owning, WithBackup, WithGood, WithTrial, Copying, Editing
  <2>3. OneEditor' /\ Filed'
    BY <1>a, <1>b, <1>1, FiledKept DEF RestoreMissing, Goto, TypeOK, Owning, WithBackup, WithGood, WithTrial, Copying, Editing
  <2>. QED
    BY <2>2, <2>3 DEF Guarded
<1>2. ASSUME RestoreOpen(a) PROVE Guarded'
  <2>1. Stage(a)' /\ ("restoring" \notin Owning => Safe(key[a])')
    BY <1>a, <1>b, <1>2 DEF RestoreOpen, Goto, Stage, Safe, TypeOK, Owning, WithBackup, WithGood, WithTrial, Copying, Editing
  <2>2. Owned'
    BY <1>a, <1>b, <1>2, <2>1, OwnerMoves DEF RestoreOpen, Goto, TypeOK, Owning, WithBackup, WithGood, WithTrial, Copying, Editing
  <2>3. OneEditor' /\ Filed'
    BY <1>a, <1>b, <1>2, FiledKept DEF RestoreOpen, Goto, TypeOK, Owning, WithBackup, WithGood, WithTrial, Copying, Editing
  <2>. QED
    BY <2>2, <2>3 DEF Guarded
<1>3. ASSUME RestoreFill(a) PROVE Guarded'
  <2>1. Stage(a)' /\ ("rerestart" \notin Owning => Safe(key[a])')
    BY <1>a, <1>b, <1>3 DEF RestoreFill, Goto, Stage, Safe, TypeOK, Owning, WithBackup, WithGood, WithTrial, Copying, Editing
  <2>2. Owned'
    BY <1>a, <1>b, <1>3, <2>1, OwnerMoves DEF RestoreFill, Goto, TypeOK, Owning, WithBackup, WithGood, WithTrial, Copying, Editing
  <2>3. OneEditor' /\ Filed'
    BY <1>a, <1>b, <1>3, FiledKept DEF RestoreFill, Goto, TypeOK, Owning, WithBackup, WithGood, WithTrial, Copying, Editing
  <2>. QED
    BY <2>2, <2>3 DEF Guarded
<1>. QED
  BY <1>1, <1>2, <1>3

(* A timer's own steps.                                                    *)
LEMMA TimerSerial ==
    ASSUME TypeOK, Guarded, NEW t \in Timers,
           TimerFires(t) \/ TimerRestarts(t) \/ TimerDiscards(t)
    PROVE  Guarded'
<1>. USE DEF files, locals, holds, history
<1>a. t \in Actors /\ t \notin Handlers
  BY ActorsAssumption DEF Actors
<1>b. Owned /\ OneEditor /\ Filed /\ Stage(t)
  BY <1>a DEF Guarded, Owned
<1>1. ASSUME TimerFires(t) PROVE Guarded'
  <2>1. Stage(t)' /\ ("restore" \notin Owning => Safe(key[t])')
    BY <1>a, <1>b, <1>1 DEF TimerFires, Goto, Stage, Safe, TypeOK, Owning, WithBackup, WithGood, WithTrial, Copying, Editing
  <2>2. Owned'
    BY <1>a, <1>b, <1>1, <2>1, OwnerMoves DEF TimerFires, Goto, TypeOK, Owning, WithBackup, WithGood, WithTrial, Copying, Editing
  <2>3. OneEditor' /\ Filed'
    BY <1>a, <1>b, <1>1, FiledKept DEF TimerFires, Goto, TypeOK, Owning, WithBackup, WithGood, WithTrial, Copying, Editing
  <2>. QED
    BY <2>2, <2>3 DEF Guarded
<1>2. ASSUME TimerRestarts(t) PROVE Guarded'
  <2>1. /\ pc[t] = "rerestart" /\ pc' = [pc EXCEPT ![t] = "clean"]
        /\ UNCHANGED <<conf, bak, key, guards, pending, good, lost>>
    BY <1>2 DEF TimerRestarts, Goto
  <2>2. Stage(t)' /\ ("clean" \notin Owning => Safe(key[t])')
    BY <1>a, <1>b, <2>1 DEF Stage, Safe, TypeOK, Owning, WithBackup, WithGood, WithTrial, Copying
  <2>3. Owned'
    BY <1>a, <1>b, <1>2, <2>1, <2>2, OwnerMoves DEF TimerRestarts, TypeOK, Owning, WithBackup, WithGood
  <2>4. OneEditor' /\ Filed'
    BY <1>a, <1>b, <2>1, FiledKept DEF TypeOK, Editing
  <2>. QED
    BY <2>3, <2>4 DEF Guarded
<1>3. ASSUME TimerDiscards(t) PROVE Guarded'
  <2>1. Stage(t)' /\ ("over" \notin Owning => Safe(key[t])')
    BY <1>a, <1>b, <1>3 DEF TimerDiscards, Goto, Stage, Safe, TypeOK, Owning, WithBackup, WithGood, WithTrial, Copying, Editing
  <2>2. Owned'
    BY <1>a, <1>b, <1>3, <2>1, OwnerMoves DEF TimerDiscards, Goto, TypeOK, Owning, WithBackup, WithGood, WithTrial, Copying, Editing
  <2>3. OneEditor' /\ Filed'
    BY <1>a, <1>b, <1>3, FiledKept DEF TimerDiscards, Goto, TypeOK, Owning, WithBackup, WithGood, WithTrial, Copying, Editing
  <2>. QED
    BY <2>2, <2>3 DEF Guarded
<1>. QED
  BY <1>1, <1>2, <1>3

(* The steps of a request that owns no area.                               *)
LEMMA AsideSerial ==
    ASSUME TypeOK, Guarded, NEW h \in Handlers,
           Join(h) \/ TakeNone(h) \/ CancelTooLate(h) \/ AlreadyReverted(h)
    PROVE  Guarded'
<1>. USE DEF files, locals, holds, history
<1>a. h \in Actors /\ h \in Handlers /\ h \notin Timers
  BY ActorsAssumption DEF Actors
<1>b. Owned /\ OneEditor /\ Filed
  BY DEF Guarded
<1>1. ASSUME Join(h) PROVE Guarded'
  <2>1. Owned'
    BY <1>a, <1>b, <1>1, BystanderMoves DEF Join, TypeOK, Answer, Goto, Owning, WithBackup, WithGood, WithTrial, Copying, Editing
  <2>2. OneEditor' /\ Filed'
    BY <1>a, <1>b, <1>1, FiledKept DEF Join, TypeOK, Answer, Goto, Owning, WithBackup, WithGood, WithTrial, Copying, Editing
  <2>. QED
    BY <2>1, <2>2 DEF Guarded
<1>2. ASSUME TakeNone(h) PROVE Guarded'
  <2>1. Owned'
    BY <1>a, <1>b, <1>2, BystanderMoves DEF TakeNone, TypeOK, Answer, Goto, Owning, WithBackup, WithGood, WithTrial, Copying, Editing
  <2>2. OneEditor' /\ Filed'
    BY <1>a, <1>b, <1>2, FiledKept DEF TakeNone, TypeOK, Answer, Goto, Owning, WithBackup, WithGood, WithTrial, Copying, Editing
  <2>. QED
    BY <2>1, <2>2 DEF Guarded
<1>3. ASSUME CancelTooLate(h) PROVE Guarded'
  <2>1. Owned'
    BY <1>a, <1>b, <1>3, BystanderMoves DEF CancelTooLate, TypeOK, Goto, Owning, WithBackup, WithGood, WithTrial, Copying, Editing
  <2>2. OneEditor' /\ Filed'
    BY <1>a, <1>b, <1>3, FiledKept DEF CancelTooLate, TypeOK, Goto, Owning, WithBackup, WithGood, WithTrial, Copying, Editing
  <2>. QED
    BY <2>1, <2>2 DEF Guarded
<1>4. ASSUME AlreadyReverted(h) PROVE Guarded'
  <2>1. Owned'
    BY <1>a, <1>b, <1>4, BystanderMoves DEF AlreadyReverted, TypeOK, Answer, Goto, Owning, WithBackup, WithGood, WithTrial, Copying, Editing
  <2>2. OneEditor' /\ Filed'
    BY <1>a, <1>b, <1>4, FiledKept DEF AlreadyReverted, TypeOK, Answer, Goto, Owning, WithBackup, WithGood, WithTrial, Copying, Editing
  <2>. QED
    BY <2>1, <2>2 DEF Guarded
<1>. QED
  BY <1>1, <1>2, <1>3, <1>4

(* A verified edit is committed, or held.                                  *)
LEMMA VerifiedSerial ==
    ASSUME TypeOK, Guarded, NEW h \in Handlers, Verified(h)
    PROVE  Guarded'
<1>. USE DEF files, locals, holds, history
<1>a. h \in Actors /\ h \in Handlers /\ h \notin Timers
  BY ActorsAssumption DEF Actors
<1>b. Owned /\ OneEditor /\ Filed /\ Stage(h)
  BY <1>a DEF Guarded, Owned
<1>1. ASSUME NEW to \in {"discard", "arm"}, pc' = [pc EXCEPT ![h] = to] PROVE Guarded'
  <2>1. Stage(h)' /\ to \in Owning
    BY <1>a, <1>b, <1>1 DEF Verified, Goto, Stage, TypeOK, Owning, WithBackup, WithGood, WithTrial, Copying, Editing
  <2>2. Owned'
    BY <1>a, <1>b, <1>1, <2>1, OwnerMoves DEF Verified, Goto, TypeOK, Owning, WithBackup, WithGood, WithTrial, Copying, Editing
  <2>3. OneEditor' /\ Filed'
    BY <1>a, <1>b, <1>1, FiledKept DEF Verified, Goto, TypeOK, Owning, WithBackup, WithGood, WithTrial, Copying, Editing
  <2>. QED
    BY <2>2, <2>3 DEF Guarded
<1>. QED
  BY <1>1 DEF Verified, Goto

(* A request for a change finds the area at rest, and becomes its owner.   *)
LEMMA BeginSerial ==
    ASSUME TypeOK, Guarded, OneAtATime,
           NEW h \in Handlers, NEW k \in Keys, NEW m \in Kinds, NEW s \in Settings,
           Begin(h, k, m, s)
    PROVE  Guarded'
<1>. USE DEF files, locals, holds, history
<1>a. h \in Actors /\ \A t \in Timers : t # h /\ t \in Actors
  BY ActorsAssumption DEF Actors
<1>1. Quiet(k) /\ pc[h] = "idle"
  BY DEF Begin, Goto
<1>2. pc'[h] = "load" /\ key'[h] = k
  BY <1>a DEF Begin, Goto, TypeOK
<1>3. \A b \in Actors \ {h} : pc'[b] = pc[b] /\ key'[b] = key[b] /\ draft'[b] = draft[b]
  BY DEF Begin, Goto, TypeOK
<1>4. UNCHANGED <<conf, bak, copied, guards, pending, good, lost>>
  BY DEF Begin
<1>5. \A b \in Actors : ~Owns(b, k)
  <2>1. ASSUME NEW b \in Handlers, key[b] = k PROVE pc[b] = "idle"
    BY <1>1, <2>1 DEF Quiet
  <2>2. ASSUME NEW b \in Timers, key[b] = k PROVE pc[b] \notin Trying
    BY <1>1, <2>2 DEF Quiet, Busy, Actors
  <2>3. \A b \in Timers : pc[b] \in Owning => pc[b] \in Trying
    BY DEF TypeOK, TimerSteps, Trying, Owning, WithBackup, WithGood
  <2>. QED
    BY <2>1, <2>2, <2>3 DEF Actors, Owns, Owning, WithBackup, WithGood
<1>6. conf[k] = good[k] /\ ~lost[k]
  BY <1>1, <1>5 DEF Guarded, Owned, Rested, Safe, Quiet
<1>7. ~(pc[h] \in Owning)
  BY <1>1 DEF Owning, WithBackup, WithGood
<1>8. Alone'
  BY <1>2, <1>3, <1>5 DEF Guarded, Owned, Alone, Owns
<1>9. ASSUME NEW b \in Actors PROVE Stage(b)'
  <2>1. CASE b = h
    BY <1>2, <1>4, <1>6, <2>1 DEF Stage, WithBackup, WithGood, WithTrial, Copying
  <2>2. CASE b # h
    BY <1>3, <1>4, <2>2 DEF Guarded, Owned, Stage
  <2>. QED
    BY <2>1, <2>2
<1>10. ASSUME NEW j \in Keys PROVE Rested(j)'
  <2>1. (\A b \in Actors : ~Owns(b, j)') => \A b \in Actors : ~Owns(b, j)
    BY <1>3, <1>7 DEF Owns
  <2>2. Rested(j)
    BY DEF Guarded, Owned
  <2>. QED
    BY <1>4, <2>1, <2>2 DEF Rested, Safe
<1>11. OneEditor'
  <2>1. \A g \in Handlers : g \in Actors /\ (key[g] = k => pc[g] \notin Editing)
    BY <1>1 DEF Quiet, Editing, Actors
  <2>. QED
    BY <1>2, <1>3, <2>1 DEF Guarded, OneEditor
<1>12. Filed'
  <2>1. \A t \in Timers : pc'[t] = pc[t] /\ key'[t] = key[t]
    BY <1>a, <1>3
  <2>2. \A g \in Handlers \ {h} : pc'[g] = pc[g] /\ key'[g] = key[g]
    BY <1>3 DEF Actors
  <2>3. \A g \in Handlers : guards[g] \subseteq Timers /\ key[g] \in Keys
    BY DEF TypeOK, Actors
  <2>4. \A j \in Keys : pending[j] \subseteq Timers
    BY DEF TypeOK
  <2>. QED
    BY <1>2, <1>4, <2>1, <2>2, <2>3, <2>4 DEF Guarded, Filed
<1>. QED
  BY <1>8, <1>9, <1>10, <1>11, <1>12 DEF Guarded, Owned

(* What the proofs about the map need to know of types.                    *)
LEMMA MapTypes ==
    ASSUME TypeOK
    PROVE  /\ \A h \in Handlers : h \in Actors /\ h \notin Timers /\ key[h] \in Keys
           /\ \A t \in Timers : t \in Actors /\ t \notin Handlers /\ key[t] \in Keys
           /\ \A h \in Handlers : guards[h] \subseteq Timers
           /\ \A k \in Keys : pending[k] \subseteq Timers
BY ActorsAssumption DEF TypeOK, Actors

(* A confirm arrives and takes the guard out of the map.                   *)
LEMMA ConfirmSerial ==
    ASSUME TypeOK, Guarded, NEW h \in Handlers,
           TakeGuard(h) \/ \E k \in Keys : Confirm(h, k)
    PROVE  Guarded'
<1>. USE MapTypes DEF files, locals, holds, history
<1>a. h \in Actors /\ Owned /\ OneEditor /\ Filed
  BY DEF Guarded
<1>1. ASSUME NEW k \in Keys, Confirm(h, k) PROVE Guarded'
  <2>1. pc'[h] = "take" /\ \A b \in Actors \ {h} : pc'[b] = pc[b] /\ key'[b] = key[b]
    BY <1>a, <1>1 DEF Confirm, Goto, TypeOK
  <2>2. Owned'
    BY <1>a, <1>1, <2>1, BystanderMoves DEF Confirm, Goto, TypeOK, Owning, WithBackup, WithGood
  <2>3. OneEditor'
    BY <1>a, <2>1 DEF OneEditor, Editing
  <2>4. Filed'
    BY <1>a, <1>1, <2>1 DEF Confirm, Filed
  <2>. QED
    BY <2>2, <2>3, <2>4 DEF Guarded
<1>2. ASSUME TakeGuard(h) PROVE Guarded'
  <2>1. pc'[h] = "cancel" /\ \A b \in Actors \ {h} : pc'[b] = pc[b]
    BY <1>a, <1>2 DEF TakeGuard, Goto, TypeOK
  <2>2. Owned'
    BY <1>a, <1>2, <2>1, BystanderMoves DEF TakeGuard, Goto, TypeOK, Owning, WithBackup, WithGood
  <2>3. OneEditor'
    BY <1>a, <1>2, <2>1 DEF OneEditor, Editing, TakeGuard
  <2>4. pending'[key[h]] = {} /\ \A k \in Keys \ {key[h]} : pending'[k] = pending[k]
    BY <1>2 DEF TakeGuard, TypeOK
  <2>5. guards'[h] = pending[key[h]] /\ \A g \in Handlers \ {h} : guards'[g] = guards[g]
    BY <1>2 DEF TakeGuard, TypeOK
  <2>6. key' = key /\ \A t \in Timers : pc'[t] = pc[t]
    BY <1>2, <2>1 DEF TakeGuard
  <2>7. \A g \in Handlers \ {h} : pc'[g] = pc[g]
    BY <2>1
  <2>. QED
    BY <1>a, <2>1, <2>2, <2>3, <2>4, <2>5, <2>6, <2>7 DEF Guarded, Filed
<1>. QED
  BY <1>1, <1>2

(* A hold: the area passes from the request to the timer.                  *)
LEMMA ArmSerial ==
    ASSUME TypeOK, Guarded, NEW h \in Handlers, NEW t \in Timers, Arm(h, t)
    PROVE  Guarded'
<1>. USE MapTypes DEF files, locals, holds, history
<1>a. Owned /\ OneEditor /\ Filed /\ Stage(h) /\ h # t
  BY DEF Guarded, Owned
<1>1. pc[h] = "arm" /\ pc[t] = "off" /\ pc'[h] = "insert" /\ pc'[t] = "armed"
  BY DEF Arm, TypeOK
<1>2. \A b \in Actors \ {h, t} : pc'[b] = pc[b]
  BY DEF Arm, TypeOK
<1>3. key'[t] = key[h] /\ draft'[t] = draft[h]
  BY DEF Arm, TypeOK
<1>4. \A b \in Actors \ {t} : key'[b] = key[b] /\ draft'[b] = draft[b]
  BY DEF Arm, TypeOK
<1>5. guards'[h] = {t} /\ \A g \in Handlers \ {h} : guards'[g] = guards[g]
  BY DEF Arm, TypeOK
<1>6. UNCHANGED <<conf, bak, copied, pending, good, lost>>
  BY DEF Arm
<1>7. Owns(h, key[h]) /\ \A b \in Actors \ {h} : ~Owns(b, key[h])
  BY <1>a, <1>1 DEF Owned, Alone, Owns, Owning, WithBackup
<1>8. "insert" \notin Owning /\ "off" \notin Owning /\ "armed" \in Owning
  BY DEF Owning, WithBackup, WithGood
<1>9. \A k \in Keys : \A b \in Actors \ {t} : Owns(b, k)' => b # h /\ Owns(b, k)
  BY <1>1, <1>2, <1>4, <1>8 DEF Owns
<1>10. Alone'
  BY <1>a, <1>3, <1>7, <1>9 DEF Owned, Alone, Owns
<1>11. ASSUME NEW b \in Actors PROVE Stage(b)'
  <2>1. CASE b = h
    BY <1>1, <2>1 DEF Stage, Owning, WithBackup, WithGood, WithTrial, Copying
  <2>2. CASE b = t
    BY <1>a, <1>1, <1>3, <1>6, <2>2 DEF Stage, Owning, WithBackup, WithGood, WithTrial, Copying
  <2>3. CASE b \notin {h, t}
    BY <1>2, <1>4, <1>6, <2>3 DEF Guarded, Owned, Stage
  <2>. QED
    BY <2>1, <2>2, <2>3
<1>12. ASSUME NEW k \in Keys PROVE Rested(k)'
  <2>1. CASE k = key[h]
    BY <1>1, <1>3, <1>8, <2>1 DEF Rested, Owns
  <2>2. CASE k # key[h]
    <3>1. (\A b \in Actors : ~Owns(b, k)') => \A b \in Actors : ~Owns(b, k)
      BY <1>1, <1>2, <1>4, <1>8, <2>2 DEF Owns
    <3>. QED
      BY <1>a, <1>6, <3>1 DEF Owned, Rested, Safe
  <2>. QED
    BY <2>1, <2>2
<1>13. OneEditor'
  BY <1>a, <1>1, <1>2, <1>4 DEF OneEditor, Editing
<1>14. Filed'
  <2>1. \A k \in Keys : t \notin pending[k]
    BY <1>a, <1>1 DEF Filed
  <2>2. \A g \in Handlers : pc[g] \in {"insert", "cancel"} => t \notin guards[g]
    BY <1>a, <1>1 DEF Filed
  <2>3. \A u \in pending[key[h]] : pc[u] # "armed"
    BY <1>a, <1>7 DEF Filed, Owns, Owning, WithBackup
  <2>4. \A u \in Timers \ {t} : pc'[u] = pc[u] /\ key'[u] = key[u]
    BY <1>2, <1>4
  <2>5. \A g \in Handlers \ {h} : pc'[g] = pc[g] /\ key'[g] = key[g]
    BY <1>2, <1>4
  <2>6. \A k \in Keys : \A u \in pending'[k] : key'[u] = k /\ pc'[u] # "off"
    BY <1>a, <1>6, <2>1, <2>4 DEF Filed
  <2>7. \A g \in Handlers : pc'[g] \in {"insert", "cancel"} =>
            \A u \in guards'[g] : key'[u] = key'[g] /\ pc'[u] # "off"
    BY <1>a, <1>1, <1>3, <1>4, <1>5, <2>2, <2>4, <2>5 DEF Filed
  <2>8. \A g \in Handlers : pc'[g] = "insert" => \A u \in pending'[key'[g]] : pc'[u] # "armed"
    BY <1>a, <1>4, <1>6, <2>1, <2>3, <2>4, <2>5 DEF Filed
  <2>. QED
    BY <2>6, <2>7, <2>8 DEF Filed
<1>. QED
  BY <1>10, <1>11, <1>12, <1>13, <1>14 DEF Guarded, Owned

(* Confirmed in time: the area passes from the timer to the request.       *)
LEMMA CancelSerial ==
    ASSUME TypeOK, Guarded, NEW h \in Handlers, NEW t \in Timers, CancelInTime(h, t)
    PROVE  Guarded'
<1>. USE MapTypes DEF files, locals, holds, history
<1>a. Owned /\ OneEditor /\ Filed /\ Stage(t) /\ h # t
  BY DEF Guarded, Owned
<1>1. pc[h] = "cancel" /\ pc[t] = "armed" /\ pc'[h] = "accept" /\ pc'[t] = "cancelled"
  BY DEF CancelInTime, TypeOK
<1>2. \A b \in Actors \ {h, t} : pc'[b] = pc[b]
  BY DEF CancelInTime, TypeOK
<1>3. key' = key /\ key[h] = key[t]
  BY <1>a, <1>1 DEF CancelInTime, Filed
<1>4. draft'[h] = draft[t] /\ \A b \in Actors \ {h} : draft'[b] = draft[b]
  BY DEF CancelInTime, TypeOK
<1>5. UNCHANGED <<conf, bak, copied, guards, pending, good, lost>>
  BY DEF CancelInTime
<1>6. Owns(t, key[t]) /\ \A b \in Actors \ {t} : ~Owns(b, key[t])
  BY <1>a, <1>1 DEF Owned, Alone, Owns, Owning, WithBackup
<1>7. "cancel" \notin Owning /\ "cancelled" \notin Owning /\ "accept" \in Owning
  BY DEF Owning, WithBackup, WithGood
<1>8. \A k \in Keys : \A b \in Actors \ {h} : Owns(b, k)' => b # t /\ Owns(b, k)
  BY <1>1, <1>2, <1>3, <1>7 DEF Owns
<1>9. Alone'
  BY <1>a, <1>3, <1>6, <1>8 DEF Owned, Alone, Owns
<1>10. ASSUME NEW b \in Actors PROVE Stage(b)'
  <2>1. CASE b = t
    BY <1>1, <2>1 DEF Stage, Owning, WithBackup, WithGood, WithTrial, Copying
  <2>2. CASE b = h
    BY <1>a, <1>1, <1>3, <1>4, <1>5, <2>2 DEF Stage, Owning, WithBackup, WithGood, WithTrial, Copying
  <2>3. CASE b \notin {h, t}
    BY <1>2, <1>3, <1>4, <1>5, <2>3 DEF Guarded, Owned, Stage
  <2>. QED
    BY <2>1, <2>2, <2>3
<1>11. ASSUME NEW k \in Keys PROVE Rested(k)'
  <2>1. CASE k = key[h]
    BY <1>1, <1>3, <1>7, <2>1 DEF Rested, Owns
  <2>2. CASE k # key[h]
    <3>1. (\A b \in Actors : ~Owns(b, k)') => \A b \in Actors : ~Owns(b, k)
      BY <1>1, <1>2, <1>3, <1>7, <2>2 DEF Owns
    <3>. QED
      BY <1>a, <1>5, <3>1 DEF Owned, Rested, Safe
  <2>. QED
    BY <2>1, <2>2
<1>12. OneEditor'
  BY <1>a, <1>1, <1>2, <1>3 DEF OneEditor, Editing
<1>13. Filed'
  BY <1>a, <1>1, <1>2, <1>3, <1>5 DEF Filed
<1>. QED
  BY <1>9, <1>10, <1>11, <1>12, <1>13 DEF Guarded, Owned

(* The timer's guard is put in the map, over none or over one that cannot  *)
(* fire any more.                                                          *)
LEMMA InsertSerial ==
    ASSUME TypeOK, Guarded, NEW h \in Handlers, InsertFirst(h) \/ InsertOver(h)
    PROVE  Guarded'
<1>. USE MapTypes DEF files, locals, holds, history
<1>a. h \in Actors /\ Owned /\ OneEditor /\ Filed
  BY DEF Guarded
<1>1. pc[h] = "insert"
  BY DEF InsertFirst, InsertOver, Answer, Goto
<1>2. PICK to \in {"idle", "join"} : pc' = [pc EXCEPT ![h] = to]
  <2>1. CASE InsertFirst(h)
    BY <2>1 DEF InsertFirst, Answer, Goto
  <2>2. CASE InsertOver(h)
    <3>1. \A b \in pending[key[h]] : pc[b] # "armed"
      BY <1>a, <1>1 DEF Filed
    <3>2. pc' = [b \in Actors |-> IF b = h THEN "join" ELSE pc[b]]
      BY <2>2, <3>1 DEF InsertOver
    <3>3. pc' = [pc EXCEPT ![h] = "join"]
      BY <1>a, <3>2 DEF TypeOK
    <3>. QED
      BY <3>3
  <2>. QED
    BY <2>1, <2>2
<1>3. pc'[h] = to /\ \A b \in Actors \ {h} : pc'[b] = pc[b]
  BY <1>a, <1>2 DEF TypeOK
<1>4. UNCHANGED <<conf, bak, key, good, lost>>
  BY DEF InsertFirst, InsertOver, Answer
<1>5. \A b \in Actors \ {h} : draft'[b] = draft[b] /\ copied'[b] = copied[b]
  BY DEF InsertFirst, InsertOver, Answer, TypeOK
<1>6. pending'[key[h]] = guards[h] /\ \A k \in Keys \ {key[h]} : pending'[k] = pending[k]
  BY DEF InsertFirst, InsertOver, TypeOK
<1>7. \A g \in Handlers \ {h} : guards'[g] = guards[g]
  BY DEF InsertFirst, InsertOver, TypeOK
<1>8. Owned'
  BY <1>a, <1>1, <1>2, <1>4, <1>5, BystanderMoves DEF Owning, WithBackup, WithGood
<1>9. OneEditor'
  BY <1>a, <1>2, <1>3, <1>4 DEF OneEditor, Editing
<1>10. \A g \in Handlers \ {h} : pc[g] = "insert" => key[g] # key[h]
  BY <1>a, <1>1 DEF OneEditor, Editing
<1>11. Filed'
  BY <1>a, <1>1, <1>2, <1>3, <1>4, <1>6, <1>7, <1>10 DEF Filed
<1>. QED
  BY <1>8, <1>9, <1>11 DEF Guarded

(* A service that ends changes no file; and when the program ends, the     *)
(* areas on which something was under way are marked, each with the        *)
(* acknowledged configuration in the file or in its .bak.                  *)
LEMMA OutsideSerial ==
    ASSUME TypeOK, Guarded, Exit \/ \E k \in Keys : ServiceExits(k)
    PROVE  Guarded'
<1>. USE MapTypes DEF files, locals, holds, history
<1>1. ASSUME NEW k \in Keys, ServiceExits(k) PROVE Guarded'
  BY <1>1 DEF ServiceExits, Guarded, Owned, Alone, Owns, Stage, Rested, Safe, OneEditor, Filed
<1>2. CASE Exit
  <2>1. \A a \in Actors : pc'[a] \in {"idle", "off", "dead"}
    BY <1>2 DEF Exit
  <2>2. \A a \in Actors : pc'[a] \notin Owning /\ pc'[a] \notin Editing
    BY <2>1 DEF Owning, WithBackup, WithGood, Editing
  <2>3. Alone' /\ OneEditor'
    BY <2>2 DEF Alone, Owns, OneEditor
  <2>4. \A a \in Actors : Stage(a)'
    BY <2>2 DEF Stage, Owning, WithBackup, WithGood, WithTrial, Copying
  <2>5. ASSUME NEW k \in Keys PROVE Safe(k)'
    <3>1. conf' = conf /\ bak' = bak /\ good' = good /\ lost'[k] = (lost[k] \/ Busy(k) # {})
      BY <1>2 DEF Exit, TypeOK
    <3>2. CASE \A a \in Actors : ~Owns(a, k)
      <4>1. Safe(k)
        BY <3>2 DEF Guarded, Owned, Rested
      <4>. QED
        BY <3>1, <4>1 DEF Safe
    <3>3. ASSUME NEW a \in Actors, Owns(a, k) PROVE Safe(k)'
      <4>1. Stage(a) /\ key[a] = k
        BY <3>3 DEF Guarded, Owned, Owns
      <4>2. CASE pc[a] \in WithGood
        BY <3>1, <4>1, <4>2 DEF Stage, Safe
      <4>3. CASE pc[a] \in WithBackup
        <5>1. a \in Busy(k)
          BY <4>1, <4>3 DEF Busy, Trying, WithBackup
        <5>. QED
          BY <3>1, <4>1, <4>3, <5>1 DEF Stage, Safe
      <4>. QED
        BY <3>3, <4>2, <4>3 DEF Owns, Owning
    <3>. QED
      BY <3>2, <3>3
  <2>6. Filed'
    BY <1>2, <2>1 DEF Exit, Filed
  <2>. QED
    BY <2>3, <2>4, <2>5, <2>6 DEF Guarded, Owned, Rested
<1>. QED
  BY <1>1, <1>2

(* Nothing is under way at the start, and every area is in order.          *)
LEMMA InitSerial == Init => Guarded
<1>. SUFFICES ASSUME Init PROVE Guarded
  OBVIOUS
<1>1. \A a \in Actors : pc[a] \in {"idle", "off"}
  BY DEF Init
<1>2. \A a \in Actors : pc[a] \notin Owning /\ pc[a] \notin Editing
  BY <1>1 DEF Owning, WithBackup, WithGood, Editing
<1>3. Alone /\ OneEditor
  BY <1>2 DEF Alone, Owns, OneEditor, Actors
<1>4. \A a \in Actors : Stage(a)
  BY <1>2 DEF Stage, Owning, WithBackup, WithGood, WithTrial, Copying
<1>5. \A k \in Keys : Rested(k)
  BY DEF Init, Rested, Safe
<1>6. Filed
  BY <1>1 DEF Init, Filed, Actors
<1>. QED
  BY <1>3, <1>4, <1>5, <1>6 DEF Guarded, Owned

(* Every step keeps the areas owned, traced and in order.                  *)
LEMMA NextSerial == Serial /\ TypeOK /\ Guarded /\ [Next]_vars => Guarded'
<1>. SUFFICES ASSUME Serial, TypeOK, Guarded, [Next]_vars PROVE Guarded'
  OBVIOUS
<1>1. ASSUME NEW h \in Handlers, Requests(h) \/ HandlerStep(h) PROVE Guarded'
  <2>. h \in Actors /\ ~RestoreFails(h)
    BY DEF Actors, Serial, RestoreFails
  <2>1. CASE Requests(h)
    BY <2>1, BeginSerial, ConfirmSerial DEF Requests, Serial
  <2>2. CASE HandlerStep(h)
    BY <2>2, ApplySerial, VerifiedSerial, RevertSerial, AsideSerial, ConfirmSerial,
       ArmSerial, CancelSerial, InsertSerial DEF HandlerStep
  <2>. QED
    BY <1>1, <2>1, <2>2
<1>2. ASSUME NEW t \in Timers, TimerStep(t) PROVE Guarded'
  <2>. t \in Actors /\ ~RestoreFails(t)
    BY DEF Actors, Serial, RestoreFails
  <2>. QED
    BY <1>2, RevertSerial, TimerSerial DEF TimerStep
<1>3. CASE UNCHANGED vars
  BY <1>3 DEF vars, files, locals, holds, history, Guarded, Owned, Alone, Owns, Stage,
     Rested, Safe, OneEditor, Filed
<1>. QED
  BY <1>1, <1>2, <1>3, OutsideSerial DEF Next

(* Hence every state of a behaviour has them so.                           *)
LEMMA AlwaysGuarded == ASSUME Serial PROVE Spec => [](TypeOK /\ Guarded)
<1>1. Init => TypeOK /\ Guarded
  BY InitTypes, InitSerial
<1>2. TypeOK /\ Guarded /\ [Next]_vars => (TypeOK /\ Guarded)'
  BY NextTypes, NextSerial
<1>. QED
  BY <1>1, <1>2, PTL DEF Spec

(* While the administrators make one change of an area at a time and no    *)
(* restore fails, the configuration acknowledged last is in the file or in *)
(* its .bak, at every step of every edit, rollback, confirm and timer, and *)
(* whatever backup, write or end of the program cuts in.                   *)
THEOREM AcknowledgedIsKept == ASSUME Serial PROVE Spec => []BaselineKept
<1>1. TypeOK /\ Guarded => BaselineKept
  <2>. SUFFICES ASSUME TypeOK, Guarded, NEW k \in Keys
                PROVE  conf[k] = good[k] \/ bak[k] = {good[k]}
    BY DEF BaselineKept
  <2>1. CASE \A a \in Actors : ~Owns(a, k)
    BY <2>1 DEF Guarded, Owned, Rested, Safe
  <2>2. ASSUME NEW a \in Actors, Owns(a, k) PROVE conf[k] = good[k] \/ bak[k] = {good[k]}
    BY <2>2 DEF Guarded, Owned, Stage, Owns, Owning
  <2>. QED
    BY <2>1, <2>2
<1>. QED
  BY <1>1, AlwaysGuarded, PTL

(* Under the same conditions the README's promise holds: a timer that has  *)
(* restored and restarted has put back what was acknowledged last.  Run    *)
(* hold_over_hold shows that the discipline is needed.                     *)
THEOREM RevertIsFaithful == ASSUME Serial PROVE Spec => []RevertRestoresAcknowledged
<1>1. TypeOK /\ Guarded => RevertRestoresAcknowledged
  BY DEF Guarded, Owned, Stage, WithGood, RevertRestoresAcknowledged, Actors
<1>. QED
  BY <1>1, AlwaysGuarded, PTL


-----------------------------------------------------------------------------
(* Whatever the administrators do.                                         *)

Reach(t) ==
    \/ pending[key[t]] = {t}
    \/ \E h \in Handlers : guards[h] = {t} /\ key[h] = key[t] /\ pc[h] \in {"insert", "cancel"}

(* A step that arms nobody, moves no guard and no request that has one to  *)
(* insert or confirm, leaves every armed timer in reach.                   *)
LEMMA GuardsRest ==
    ASSUME TypeOK, ArmedIsReachable, NEW a \in Actors, NEW to,
           pc[a] \notin {"insert", "cancel"}, to # "armed",
           pc' = [pc EXCEPT ![a] = to],
           \A b \in Actors \ {a} : key'[b] = key[b],
           a \in Timers => key'[a] = key[a],
           pending' = pending,
           \A h \in Handlers \ {a} : guards'[h] = guards[h]
    PROVE  ArmedIsReachable'
<1>. SUFFICES ASSUME NEW t \in Timers, pc'[t] = "armed" PROVE Reach(t)'
  BY DEF ArmedIsReachable, Reach
<1>1. pc'[a] = to /\ \A b \in Actors \ {a} : pc'[b] = pc[b]
  BY DEF TypeOK
<1>2. t # a /\ pc[t] = "armed" /\ key'[t] = key[t]
  BY <1>1, MapTypes
<1>3. Reach(t)
  BY <1>2 DEF ArmedIsReachable, Reach
<1>4. CASE pending[key[t]] = {t}
  BY <1>2, <1>4 DEF Reach
<1>5. ASSUME NEW h \in Handlers, guards[h] = {t}, key[h] = key[t], pc[h] \in {"insert", "cancel"}
      PROVE  Reach(t)'
  <2>1. h \in Actors \ {a}
    BY <1>5, MapTypes
  <2>. QED
    BY <1>1, <1>2, <1>5, <2>1 DEF Reach
<1>. QED
  BY <1>3, <1>4, <1>5 DEF Reach

(* The guard of a new timer is in hand.                                    *)
LEMMA ArmReach ==
    ASSUME TypeOK, ArmedIsReachable, NEW h \in Handlers, NEW u \in Timers, Arm(h, u)
    PROVE  ArmedIsReachable'
<1>. USE MapTypes
<1>. SUFFICES ASSUME NEW t \in Timers, pc'[t] = "armed" PROVE Reach(t)'
  BY DEF ArmedIsReachable, Reach
<1>1. pc'[h] = "insert" /\ \A b \in Actors \ {h, u} : pc'[b] = pc[b]
  BY DEF Arm, TypeOK
<1>2. key'[u] = key[h] /\ \A b \in Actors \ {u} : key'[b] = key[b]
  BY DEF Arm, TypeOK
<1>3. guards'[h] = {u} /\ \A g \in Handlers \ {h} : guards'[g] = guards[g]
  BY DEF Arm, TypeOK
<1>4. pc[h] = "arm" /\ pc[u] = "off" /\ pending' = pending
  BY DEF Arm
<1>5. CASE t = u
  BY <1>1, <1>2, <1>3, <1>5 DEF Reach
<1>6. CASE t # u
  <2>1. pc[t] = "armed" /\ key'[t] = key[t]
    BY <1>1, <1>2, <1>6
  <2>2. CASE pending[key[t]] = {t}
    BY <1>4, <2>1, <2>2 DEF Reach
  <2>3. ASSUME NEW g \in Handlers, guards[g] = {t}, key[g] = key[t], pc[g] \in {"insert", "cancel"}
        PROVE  Reach(t)'
    <3>1. g # h /\ pc'[g] = pc[g] /\ key'[g] = key[g] /\ guards'[g] = guards[g]
      BY <1>1, <1>2, <1>3, <1>4, <2>3
    <3>. QED
      BY <2>1, <2>3, <3>1 DEF Reach
  <2>. QED
    BY <2>1, <2>2, <2>3 DEF ArmedIsReachable
<1>. QED
  BY <1>5, <1>6

(* A guard goes into the map or comes out of it; the one replaced cannot   *)
(* fire any more.                                                          *)
LEMMA MapReach ==
    ASSUME TypeOK, ArmedIsReachable, NEW h \in Handlers,
           InsertFirst(h) \/ InsertOver(h) \/ TakeGuard(h)
    PROVE  ArmedIsReachable'
<1>. USE MapTypes DEF locals
<1>. SUFFICES ASSUME NEW t \in Timers, pc'[t] = "armed" PROVE Reach(t)'
  BY DEF ArmedIsReachable, Reach
<1>1. pc[t] = "armed" /\ \A g \in Handlers \ {h} : pc'[g] = pc[g]
  BY DEF InsertFirst, InsertOver, TakeGuard, Answer, Goto, TypeOK
<1>2. key' = key
  BY DEF InsertFirst, InsertOver, TakeGuard, Answer
<1>3. \A g \in Handlers \ {h} : guards'[g] = guards[g]
  BY DEF InsertFirst, InsertOver, TakeGuard, TypeOK
<1>4. \A k \in Keys \ {key[h]} : pending'[k] = pending[k]
  BY DEF InsertFirst, InsertOver, TakeGuard, TypeOK
<1>5. CASE pending[key[t]] = {t}
  <2>1. CASE key[t] # key[h]
    BY <1>2, <1>4, <1>5, <2>1 DEF Reach
  <2>2. CASE key[t] = key[h]
    <3>1. ~InsertFirst(h)
      BY <1>5, <2>2 DEF InsertFirst
    <3>2. ~InsertOver(h)
      BY <1>1, <1>5, <2>2 DEF InsertOver
    <3>3. pc'[h] = "cancel" /\ guards'[h] = {t}
      BY <1>5, <2>2, <3>1, <3>2 DEF TakeGuard, Goto, TypeOK
    <3>. QED
      BY <1>2, <2>2, <3>3 DEF Reach
  <2>. QED
    BY <2>1, <2>2
<1>6. ASSUME NEW g \in Handlers, guards[g] = {t}, key[g] = key[t], pc[g] \in {"insert", "cancel"}
      PROVE  Reach(t)'
  <2>1. CASE g # h
    BY <1>1, <1>2, <1>3, <1>6, <2>1 DEF Reach
  <2>2. CASE g = h
    <3>1. pending'[key[h]] = guards[h]
      BY <1>6, <2>2 DEF InsertFirst, InsertOver, TakeGuard, Goto, TypeOK
    <3>. QED
      BY <1>2, <1>6, <2>2, <3>1 DEF Reach
  <2>. QED
    BY <2>1, <2>2
<1>. QED
  BY <1>1, <1>5, <1>6 DEF ArmedIsReachable

(* A confirm that calls on its guard: the timer is cancelled or was over.  *)
LEMMA CancelReach ==
    ASSUME TypeOK, ArmedIsReachable, NEW h \in Handlers,
           CancelTooLate(h) \/ \E t \in Timers : CancelInTime(h, t)
    PROVE  ArmedIsReachable'
<1>. USE MapTypes DEF locals, holds
<1>. SUFFICES ASSUME NEW t \in Timers, pc'[t] = "armed" PROVE Reach(t)'
  BY DEF ArmedIsReachable, Reach
<1>1. pc[t] = "armed" /\ \A g \in Handlers \ {h} : pc'[g] = pc[g]
  BY DEF CancelTooLate, CancelInTime, Goto, TypeOK
<1>2. key' = key /\ guards' = guards /\ pending' = pending
  BY DEF CancelTooLate, CancelInTime
<1>3. guards[h] # {t}
  <2>1. CASE CancelTooLate(h)
    BY <1>1, <2>1 DEF CancelTooLate
  <2>2. ASSUME NEW u \in Timers, CancelInTime(h, u) PROVE guards[h] # {t}
    <3>1. u \in guards[h] /\ pc'[u] = "cancelled"
      BY <2>2 DEF CancelInTime, TypeOK
    <3>. QED
      BY <3>1
  <2>. QED
    BY <2>1, <2>2
<1>. QED
  BY <1>1, <1>2, <1>3 DEF ArmedIsReachable, Reach

(* No step leaves an armed timer that nobody can cancel.                   *)
LEMMA NextReach == TypeOK /\ ArmedIsReachable /\ [Next]_vars => ArmedIsReachable'
<1>. SUFFICES ASSUME TypeOK, ArmedIsReachable, [Next]_vars PROVE ArmedIsReachable'
  OBVIOUS
<1>. USE MapTypes DEF files, locals, holds, history
<1>1. ASSUME NEW h \in Handlers, NEW k \in Keys, Confirm(h, k) PROVE ArmedIsReachable'
  <2>1. \A b \in Actors \ {h} : key'[b] = key[b]
    BY <1>1 DEF Confirm, TypeOK
  <2>. QED
    BY <1>1, <2>1, GuardsRest DEF Confirm, Goto
<1>2. ASSUME NEW h \in Handlers, NEW k \in Keys, NEW m \in Kinds, NEW s \in Settings, Begin(h, k, m, s)
      PROVE  ArmedIsReachable'
  <2>1. \A b \in Actors \ {h} : key'[b] = key[b]
    BY <1>2 DEF Begin, TypeOK
  <2>. QED
    BY <1>2, <2>1, GuardsRest DEF Begin, Goto
<1>3. ASSUME NEW h \in Handlers,
             \/ Refuse(h) \/ Load(h) \/ BackupOpen(h) \/ BackupFill(h) \/ BackupFails(h)
             \/ WriteOpen(h) \/ WriteFill(h) \/ WriteFails(h)
             \/ RestartOk(h) \/ RestartErr(h) \/ RestartRefused(h)
      PROVE  ArmedIsReachable'
  BY <1>3, GuardsRest DEF Refuse, Load, BackupOpen, BackupFill, BackupFails, WriteOpen, WriteFill,
     WriteFails, RestartOk, RestartErr, RestartRefused, Answer, Goto
<1>4. ASSUME NEW h \in Handlers, Verified(h) \/ NotVerified(h) \/ CommitNow(h) \/ RolledBack(h) \/ TakeNone(h)
      PROVE  ArmedIsReachable'
  BY <1>4, GuardsRest DEF Verified, NotVerified, CommitNow, RolledBack, TakeNone, Answer, Goto
<1>5. ASSUME NEW h \in Handlers, Join(h) \/ Accept(h) \/ AlreadyReverted(h)
      PROVE  ArmedIsReachable'
  <2>1. \A g \in Handlers \ {h} : guards'[g] = guards[g]
    BY <1>5 DEF Join, Accept, AlreadyReverted, TypeOK
  <2>. QED
    BY <1>5, <2>1, GuardsRest DEF Join, Accept, AlreadyReverted, Answer, Goto
<1>6. ASSUME NEW a \in Actors, RestoreMissing(a) \/ RestoreOpen(a) \/ RestoreFill(a) \/ RestoreFails(a)
      PROVE  ArmedIsReachable'
  BY <1>6, GuardsRest DEF RestoreMissing, RestoreOpen, RestoreFill, RestoreFails, Goto
<1>7. ASSUME NEW t \in Timers, TimerFires(t) \/ TimerRestarts(t) \/ TimerDiscards(t)
      PROVE  ArmedIsReachable'
  BY <1>7, GuardsRest DEF TimerFires, TimerRestarts, TimerDiscards, Goto
<1>8. ASSUME NEW k \in Keys, ServiceExits(k) PROVE ArmedIsReachable'
  BY <1>8 DEF ServiceExits, ArmedIsReachable
<1>9. CASE Exit
  <2>1. \A t \in Timers : pc'[t] # "armed"
    BY <1>9 DEF Exit
  <2>. QED
    BY <2>1 DEF ArmedIsReachable
<1>10. CASE UNCHANGED vars
  BY <1>10 DEF vars, ArmedIsReachable
<1>11. ASSUME NEW h \in Handlers, Requests(h) PROVE ArmedIsReachable'
  BY <1>1, <1>2, <1>11 DEF Requests
<1>12. ASSUME NEW h \in Handlers, HandlerStep(h) PROVE ArmedIsReachable'
  BY <1>3, <1>4, <1>5, <1>6, <1>12, ArmReach, MapReach, CancelReach DEF HandlerStep
<1>13. ASSUME NEW t \in Timers, TimerStep(t) PROVE ArmedIsReachable'
  BY <1>6, <1>7, <1>13 DEF TimerStep
<1>. QED
  BY <1>8, <1>9, <1>10, <1>11, <1>12, <1>13 DEF Next

(* Whatever requests overlap and whatever fails, a timer that may still    *)
(* fire is the one in the map, or in the hands of the one request that is  *)
(* about to file or confirm it.                                            *)
THEOREM ArmedStaysReachable == Spec => []ArmedIsReachable
<1>1. Init => ArmedIsReachable
  <2>. SUFFICES ASSUME Init, NEW t \in Timers PROVE pc[t] # "armed"
    BY DEF ArmedIsReachable
  <2>. QED
    BY DEF Init, Actors
<1>. QED
  BY <1>1, InitTypes, NextTypes, NextReach, PTL DEF Spec

-----------------------------------------------------------------------------
(* One change of an area at a time.                                        *)

(* A guard is in one place: in the map or in the hands of one request.     *)
Held ==
    /\ \A h \in Handlers : \A t \in guards[h] : pc[t] # "off"
    /\ \A g, h \in Handlers : g # h => guards[g] \cap guards[h] = {}
    /\ \A h \in Handlers, k \in Keys : guards[h] \cap pending[k] = {}

(* So it is after a step that moves no guard, but may let one go.          *)
LEMMA GuardsStay ==
    ASSUME TypeOK, Held,
           \A h \in Handlers : guards'[h] \subseteq guards[h],
           \A k \in Keys : pending'[k] \subseteq pending[k],
           \A t \in Timers : pc'[t] = "off" => pc[t] = "off"
    PROVE  Held'
<1>. USE MapTypes
<1>1. \A h \in Handlers : \A t \in guards'[h] : pc'[t] # "off"
  BY DEF Held
<1>2. \A g, h \in Handlers : g # h => guards'[g] \cap guards'[h] = {}
  BY DEF Held
<1>3. \A h \in Handlers, k \in Keys : guards'[h] \cap pending'[k] = {}
  BY DEF Held
<1>. QED
  BY <1>1, <1>2, <1>3 DEF Held

(* A new guard is in no other place; one that moves leaves its place.      *)
LEMMA GuardMoves ==
    ASSUME TypeOK, Filed, Held, NEW h \in Handlers,
           \/ InsertFirst(h) \/ InsertOver(h) \/ TakeGuard(h)
           \/ \E t \in Timers : Arm(h, t)
    PROVE  Held'
<1>. USE MapTypes
<1>a. \A j, k \in Keys : j # k => pending[j] \cap pending[k] = {}
  BY DEF Filed
<1>1. ASSUME NEW t \in Timers, Arm(h, t) PROVE Held'
  <2>1. pending' = pending /\ guards'[h] = {t} /\ \A g \in Handlers \ {h} : guards'[g] = guards[g]
    BY <1>1 DEF Arm, TypeOK
  <2>2. pc'[t] = "armed" /\ \A u \in Timers \ {t} : pc'[u] = pc[u]
    BY <1>1 DEF Arm, TypeOK
  <2>3. \A g \in Handlers, k \in Keys : t \notin guards[g] /\ t \notin pending[k]
    BY <1>1 DEF Arm, Held, Filed
  <2>. QED
    BY <2>1, <2>2, <2>3 DEF Held
<1>2. ASSUME InsertFirst(h) \/ InsertOver(h) PROVE Held'
  <2>1. \A t \in Timers : pc'[t] = "off" => pc[t] = "off"
    BY <1>2 DEF InsertFirst, InsertOver, Answer, Goto, TypeOK
  <2>2. pending'[key[h]] = guards[h] /\ \A k \in Keys \ {key[h]} : pending'[k] = pending[k]
    BY <1>2 DEF InsertFirst, InsertOver, TypeOK
  <2>3. guards'[h] \subseteq pending[key[h]] /\ \A g \in Handlers \ {h} : guards'[g] = guards[g]
    BY <1>2 DEF InsertFirst, InsertOver, TypeOK
  <2>4. \A g \in Handlers : \A t \in guards'[g] : pc'[t] # "off"
    BY <2>1, <2>3 DEF Held, Filed
  <2>5. \A g, i \in Handlers : g # i => guards'[g] \cap guards'[i] = {}
    BY <2>3 DEF Held
  <2>6. \A g \in Handlers, k \in Keys : guards'[g] \cap pending'[k] = {}
    <3>. SUFFICES ASSUME NEW g \in Handlers, NEW k \in Keys, NEW t \in guards'[g], t \in pending'[k]
                  PROVE  FALSE
      OBVIOUS
    <3>1. CASE g = h /\ k = key[h]
      BY <2>2, <2>3, <3>1 DEF Held
    <3>2. CASE g = h /\ k # key[h]
      BY <1>a, <2>2, <2>3, <3>2
    <3>3. CASE g # h /\ k = key[h]
      BY <2>2, <2>3, <3>3 DEF Held
    <3>4. CASE g # h /\ k # key[h]
      BY <2>2, <2>3, <3>4 DEF Held
    <3>. QED
      BY <3>1, <3>2, <3>3, <3>4
  <2>. QED
    BY <2>4, <2>5, <2>6 DEF Held
<1>3. ASSUME TakeGuard(h) PROVE Held'
  <2>1. \A t \in Timers : pc'[t] = pc[t]
    BY <1>3 DEF TakeGuard, Goto, TypeOK
  <2>2. pending'[key[h]] = {} /\ \A k \in Keys \ {key[h]} : pending'[k] = pending[k]
    BY <1>3 DEF TakeGuard, TypeOK
  <2>3. guards'[h] = pending[key[h]] /\ \A g \in Handlers \ {h} : guards'[g] = guards[g]
    BY <1>3 DEF TakeGuard, TypeOK
  <2>4. \A g \in Handlers : \A t \in guards'[g] : pc'[t] # "off"
    BY <2>1, <2>3 DEF Held, Filed
  <2>5. \A g, i \in Handlers : g # i => guards'[g] \cap guards'[i] = {}
    BY <2>3 DEF Held
  <2>6. \A g \in Handlers, k \in Keys : guards'[g] \cap pending'[k] = {}
    BY <1>a, <2>2, <2>3 DEF Held
  <2>. QED
    BY <2>4, <2>5, <2>6 DEF Held
<1>. QED
  BY <1>1, <1>2, <1>3

(* No step doubles a guard.                                                *)
LEMMA NextHeld == TypeOK /\ Filed /\ Held /\ [Next]_vars => Held'
<1>. SUFFICES ASSUME TypeOK, Filed, Held, [Next]_vars PROVE Held'
  OBVIOUS
<1>. USE MapTypes DEF holds
<1>1. ASSUME NEW h \in Handlers, NEW k \in Keys, Confirm(h, k) PROVE Held'
  BY <1>1, GuardsStay DEF Confirm, Goto, TypeOK
<1>2. ASSUME NEW h \in Handlers, NEW k \in Keys, NEW m \in Kinds, NEW s \in Settings, Begin(h, k, m, s)
      PROVE  Held'
  BY <1>2, GuardsStay DEF Begin, Goto, TypeOK
<1>3. ASSUME NEW h \in Handlers,
             \/ Refuse(h) \/ Load(h) \/ BackupOpen(h) \/ BackupFill(h) \/ BackupFails(h)
             \/ WriteOpen(h) \/ WriteFill(h) \/ WriteFails(h)
             \/ RestartOk(h) \/ RestartErr(h) \/ RestartRefused(h)
      PROVE  Held'
  <2>1. guards' = guards /\ pending' = pending
    BY <1>3 DEF Refuse, Load, BackupOpen, BackupFill, BackupFails, WriteOpen, WriteFill,
       WriteFails, RestartOk, RestartErr, RestartRefused
  <2>2. \A t \in Timers : pc'[t] = pc[t]
    BY <1>3 DEF Refuse, Load, BackupOpen, BackupFill, BackupFails, WriteOpen, WriteFill,
       WriteFails, RestartOk, RestartErr, RestartRefused, Answer, Goto, TypeOK
  <2>. QED
    BY <2>1, <2>2, GuardsStay
<1>4. ASSUME NEW h \in Handlers, Verified(h) \/ NotVerified(h) \/ CommitNow(h) \/ RolledBack(h) \/ TakeNone(h)
      PROVE  Held'
  BY <1>4, GuardsStay DEF Verified, NotVerified, CommitNow, RolledBack, TakeNone, Answer, Goto, TypeOK
<1>5. ASSUME NEW h \in Handlers, Join(h) \/ Accept(h) \/ AlreadyReverted(h) \/ CancelTooLate(h)
      PROVE  Held'
  BY <1>5, GuardsStay DEF Join, Accept, AlreadyReverted, CancelTooLate, Answer, Goto, TypeOK
<1>6. ASSUME NEW h \in Handlers, NEW t \in Timers, CancelInTime(h, t) PROVE Held'
  BY <1>6, GuardsStay DEF CancelInTime, TypeOK
<1>7. ASSUME NEW a \in Actors, RestoreMissing(a) \/ RestoreOpen(a) \/ RestoreFill(a) \/ RestoreFails(a)
      PROVE  Held'
  BY <1>7, GuardsStay DEF RestoreMissing, RestoreOpen, RestoreFill, RestoreFails, Goto, TypeOK
<1>8. ASSUME NEW t \in Timers, TimerFires(t) \/ TimerRestarts(t) \/ TimerDiscards(t)
      PROVE  Held'
  BY <1>8, GuardsStay DEF TimerFires, TimerRestarts, TimerDiscards, Goto, TypeOK
<1>9. ASSUME NEW k \in Keys, ServiceExits(k) PROVE Held'
  BY <1>9, GuardsStay DEF ServiceExits
<1>10. CASE Exit
  BY <1>10 DEF Exit, Held
<1>11. CASE UNCHANGED vars
  BY <1>11, GuardsStay DEF vars
<1>12. ASSUME NEW h \in Handlers, Requests(h) PROVE Held'
  BY <1>1, <1>2, <1>12 DEF Requests
<1>13. ASSUME NEW h \in Handlers, HandlerStep(h) PROVE Held'
  BY <1>3, <1>4, <1>5, <1>6, <1>7, <1>13, GuardMoves DEF HandlerStep
<1>14. ASSUME NEW t \in Timers, TimerStep(t) PROVE Held'
  BY <1>7, <1>8, <1>14 DEF TimerStep
<1>. QED
  BY <1>9, <1>10, <1>11, <1>12, <1>13, <1>14 DEF Next

(* The service runs on a configuration, unless that is one it ends on; a   *)
(* stale area claims nothing of it.                                        *)
Launched(k, c) == svc[k] \subseteq {c} /\ (Starts(c) => svc[k] # {})
InForce(k) == stale[k] \/ Launched(k, good[k])

(* The places of an owner at which the service has not been touched, or    *)
(* has been put back, and those at which it was launched on the trial.     *)
Untouched == {"load", "backup", "backing", "write", "writing", "restart", "clean"}
Tried == {"verify", "discard", "arm", "armed", "accept"}

(* What is acknowledged is complete, and a .bak is it or was truncated.    *)
Area(k) == Whole(good[k]) /\ bak[k] \subseteq {Empty, good[k]}

Trace(a) ==
    /\ pc[a] = "load" => draft[a].set # {}
    /\ pc[a] \in Owning \ {"load"} => Whole(draft[a])
    /\ pc[a] \in Untouched => InForce(key[a])
    /\ pc[a] \in Tried => Launched(key[a], draft[a])

Unowned(k) == (\A a \in Actors : ~Owns(a, k)) => lost[k] \/ InForce(k)

(* A request that is about to file its timer's guard stands for the same   *)
(* change, and nobody but that timer owns the area.                        *)
Paired(h) == pc[h] = "insert" =>
    \E t \in Timers :
        /\ guards[h] = {t} /\ draft[t] = draft[h]
        /\ \A a \in Actors : Owns(a, key[h]) => a = t

Traced ==
    /\ \A k \in Keys : Area(k) /\ Unowned(k)
    /\ \A a \in Actors : Trace(a)
    /\ \A h \in Handlers : Paired(h)

(* A step of the owner of an area.                                         *)
LEMMA OwnerTraces ==
    ASSUME TypeOK, Owned, Traced, NEW a \in Actors, NEW to,
           pc[a] \in Owning, to # "insert",
           pc' = [pc EXCEPT ![a] = to],
           key' = key,
           \A b \in Actors \ {a} : draft'[b] = draft[b],
           a \in Timers => draft' = draft,
           \A h \in Handlers \ {a} : guards'[h] = guards[h],
           \A k \in Keys \ {key[a]} :
               /\ bak'[k] = bak[k] /\ svc'[k] = svc[k] /\ good'[k] = good[k] /\ lost'[k] = lost[k]
               /\ stale'[k] = stale[k],
           Area(key[a])',
           Trace(a)',
           to \notin Owning => (lost[key[a]] \/ InForce(key[a]))'
    PROVE  Traced'
<1>1. pc'[a] = to /\ \A b \in Actors \ {a} : pc'[b] = pc[b]
  BY DEF TypeOK
<1>2. key[a] \in Keys /\ \A b \in Actors : key[b] \in Keys
  BY DEF TypeOK
<1>3. \A b \in Actors \ {a} : key[b] = key[a] => pc[b] \notin Owning
  BY <1>2 DEF Owned, Alone, Owns
<1>4. ASSUME NEW k \in Keys PROVE Area(k)' /\ Unowned(k)'
  <2>1. CASE k = key[a]
    BY <1>1, <2>1 DEF Unowned, Owns
  <2>2. CASE k # key[a]
    <3>1. Area(k) /\ Unowned(k)
      BY DEF Traced
    <3>2. ASSUME NEW b \in Actors PROVE Owns(b, k)' <=> Owns(b, k)
      BY <1>1, <2>2 DEF Owns
    <3>. QED
      BY <2>2, <3>1, <3>2 DEF Area, Unowned, InForce, Launched
  <2>. QED
    BY <2>1, <2>2
<1>5. ASSUME NEW b \in Actors, b # a PROVE Trace(b)'
  <2>1. Trace(b)
    BY DEF Traced
  <2>2. CASE key[b] = key[a]
    <3>1. pc'[b] \notin Owning
      BY <1>1, <1>3, <1>5, <2>2
    <3>. QED
      BY <3>1 DEF Trace, Owning, WithBackup, WithGood, Untouched, Tried
  <2>3. CASE key[b] # key[a]
    BY <1>1, <1>2, <1>5, <2>1, <2>3 DEF Trace, InForce, Launched
  <2>. QED
    BY <2>2, <2>3
<1>6. ASSUME NEW h \in Handlers PROVE Paired(h)'
  <2>. SUFFICES ASSUME pc'[h] = "insert" PROVE Paired(h)'
    BY DEF Paired
  <2>1. h # a /\ h \in Actors /\ pc[h] = "insert" /\ draft'[h] = draft[h] /\ guards'[h] = guards[h]
    BY <1>1, MapTypes
  <2>2. PICK t \in Timers : /\ guards[h] = {t} /\ draft[t] = draft[h]
                            /\ \A b \in Actors : Owns(b, key[h]) => b = t
    BY <2>1 DEF Traced, Paired
  <2>3. draft'[t] = draft[t]
    BY <2>2, MapTypes
  <2>4. \A b \in Actors : Owns(b, key[h])' => b = t
    BY <1>1, <2>2 DEF Owns
  <2>. QED
    BY <2>1, <2>2, <2>3, <2>4 DEF Paired
<1>. QED
  BY <1>4, <1>5, <1>6 DEF Traced

(* A step of somebody who owns no area, before or after it.                *)
LEMMA BystanderTraces ==
    ASSUME TypeOK, Traced, NEW a \in Actors, NEW to,
           pc[a] \notin Owning, to \notin Owning, to # "insert",
           pc' = [pc EXCEPT ![a] = to],
           \A b \in Actors \ {a} : draft'[b] = draft[b] /\ key'[b] = key[b],
           a \in Timers => draft' = draft,
           \A h \in Handlers \ {a} : guards'[h] = guards[h],
           UNCHANGED <<bak, svc, good, lost, stale>>
    PROVE  Traced'
<1>1. pc'[a] = to /\ \A b \in Actors \ {a} : pc'[b] = pc[b]
  BY DEF TypeOK
<1>2. ASSUME NEW b \in Actors, NEW k \in Keys PROVE Owns(b, k)' <=> Owns(b, k)
  BY <1>1 DEF Owns
<1>3. ASSUME NEW k \in Keys PROVE Area(k)' /\ Unowned(k)'
  BY <1>2 DEF Traced, Area, Unowned, InForce, Launched
<1>4. ASSUME NEW b \in Actors PROVE Trace(b)'
  <2>1. CASE b = a
    BY <1>1, <2>1 DEF Trace, Owning, WithBackup, WithGood, Untouched, Tried
  <2>2. CASE b # a
    BY <1>1, <2>2 DEF Traced, Trace, InForce, Launched
  <2>. QED
    BY <2>1, <2>2
<1>5. ASSUME NEW h \in Handlers PROVE Paired(h)'
  <2>. SUFFICES ASSUME pc'[h] = "insert" PROVE Paired(h)'
    BY DEF Paired
  <2>1. h # a /\ h \in Actors /\ pc[h] = "insert" /\ key[h] \in Keys
    BY <1>1, MapTypes
  <2>2. draft'[h] = draft[h] /\ guards'[h] = guards[h] /\ key'[h] = key[h]
    BY <2>1
  <2>3. PICK t \in Timers : /\ guards[h] = {t} /\ draft[t] = draft[h]
                            /\ \A b \in Actors : Owns(b, key[h]) => b = t
    BY <2>1 DEF Traced, Paired
  <2>4. draft'[t] = draft[t]
    BY <2>3, MapTypes
  <2>5. \A b \in Actors : Owns(b, key[h])' => b = t
    BY <1>2, <2>1, <2>2, <2>3
  <2>. QED
    BY <2>2, <2>3, <2>4, <2>5 DEF Paired
<1>. QED
  BY <1>3, <1>4, <1>5 DEF Traced

(* The steps of an edit, or of a confirm that came in time.                *)
LEMMA ApplyTraces ==
    ASSUME TypeOK, Guarded, Traced, NEW h \in Handlers,
           \/ Refuse(h) \/ Load(h) \/ BackupOpen(h) \/ BackupFill(h) \/ BackupFails(h)
           \/ WriteOpen(h) \/ WriteFill(h) \/ WriteFails(h)
           \/ RestartOk(h) \/ RestartErr(h) \/ RestartRefused(h) \/ NotVerified(h) \/ CommitNow(h)
           \/ RolledBack(h) \/ Accept(h)
    PROVE  Traced'
<1>. USE DEF files, locals, holds, history
<1>a. h \in Actors /\ h \in Handlers /\ h \notin Timers /\ key[h] \in Keys
  BY MapTypes
<1>b. Owned /\ Stage(h) /\ Trace(h) /\ Area(key[h])
  BY <1>a DEF Guarded, Owned, Traced
<1>1. ASSUME Refuse(h) PROVE Traced'
  <2>1. Area(key[h])' /\ Trace(h)' /\ ("idle" \notin Owning => (lost[key[h]] \/ InForce(key[h]))')
    BY <1>a, <1>b, <1>1 DEF Refuse, Answer, Goto, Whole, Area, Trace, Stage, InForce, Launched, TypeOK,
       Owning, WithBackup, WithGood, WithTrial, Copying, Untouched, Tried
  <2>. QED
    BY <1>a, <1>b, <1>1, <2>1, OwnerTraces DEF Refuse, Answer, Goto, TypeOK, Owning, WithBackup, WithGood
<1>2. ASSUME Load(h) PROVE Traced'
  <2>1. Area(key[h])' /\ Trace(h)' /\ ("backup" \notin Owning => (lost[key[h]] \/ InForce(key[h]))')
    BY <1>a, <1>b, <1>2 DEF Load, Goto, Merged, Whole, Area, Trace, Stage, InForce, Launched, TypeOK,
       Owning, WithBackup, WithGood, WithTrial, Copying, Untouched, Tried
  <2>. QED
    BY <1>a, <1>b, <1>2, <2>1, OwnerTraces DEF Load, Goto, Merged, TypeOK, Owning, WithBackup, WithGood
<1>3. ASSUME BackupOpen(h) PROVE Traced'
  <2>1. Area(key[h])' /\ Trace(h)' /\ ("backing" \notin Owning => (lost[key[h]] \/ InForce(key[h]))')
    BY <1>a, <1>b, <1>3 DEF BackupOpen, Goto, Whole, Area, Trace, Stage, InForce, Launched, TypeOK,
       Owning, WithBackup, WithGood, WithTrial, Copying, Untouched, Tried
  <2>. QED
    BY <1>a, <1>b, <1>3, <2>1, OwnerTraces DEF BackupOpen, Goto, TypeOK, Owning, WithBackup, WithGood
<1>4. ASSUME BackupFill(h) PROVE Traced'
  <2>1. Area(key[h])' /\ Trace(h)' /\ ("write" \notin Owning => (lost[key[h]] \/ InForce(key[h]))')
    BY <1>a, <1>b, <1>4 DEF BackupFill, Goto, Whole, Area, Trace, Stage, InForce, Launched, TypeOK,
       Owning, WithBackup, WithGood, WithTrial, Copying, Untouched, Tried
  <2>. QED
    BY <1>a, <1>b, <1>4, <2>1, OwnerTraces DEF BackupFill, Goto, TypeOK, Owning, WithBackup, WithGood
<1>5. ASSUME BackupFails(h) PROVE Traced'
  <2>1. Area(key[h])' /\ Trace(h)' /\ ("idle" \notin Owning => (lost[key[h]] \/ InForce(key[h]))')
    BY <1>a, <1>b, <1>5 DEF BackupFails, Answer, Goto, Whole, Area, Trace, Stage, InForce, Launched, TypeOK,
       Owning, WithBackup, WithGood, WithTrial, Copying, Untouched, Tried
  <2>. QED
    BY <1>a, <1>b, <1>5, <2>1, OwnerTraces DEF BackupFails, Answer, Goto, TypeOK, Owning, WithBackup, WithGood
<1>6. ASSUME WriteOpen(h) PROVE Traced'
  <2>1. Area(key[h])' /\ Trace(h)' /\ ("writing" \notin Owning => (lost[key[h]] \/ InForce(key[h]))')
    BY <1>a, <1>b, <1>6 DEF WriteOpen, Goto, Whole, Area, Trace, Stage, InForce, Launched, TypeOK,
       Owning, WithBackup, WithGood, WithTrial, Copying, Untouched, Tried
  <2>. QED
    BY <1>a, <1>b, <1>6, <2>1, OwnerTraces DEF WriteOpen, Goto, TypeOK, Owning, WithBackup, WithGood
<1>7. ASSUME WriteFill(h) PROVE Traced'
  <2>1. Area(key[h])' /\ Trace(h)' /\ ("restart" \notin Owning => (lost[key[h]] \/ InForce(key[h]))')
    BY <1>a, <1>b, <1>7 DEF WriteFill, Goto, Whole, Area, Trace, Stage, InForce, Launched, TypeOK,
       Owning, WithBackup, WithGood, WithTrial, Copying, Untouched, Tried
  <2>. QED
    BY <1>a, <1>b, <1>7, <2>1, OwnerTraces DEF WriteFill, Goto, TypeOK, Owning, WithBackup, WithGood
<1>8. ASSUME WriteFails(h) PROVE Traced'
  <2>1. Area(key[h])' /\ Trace(h)' /\ ("idle" \notin Owning => (lost[key[h]] \/ InForce(key[h]))')
    BY <1>a, <1>b, <1>8 DEF WriteFails, Answer, Goto, Whole, Area, Trace, Stage, InForce, Launched, TypeOK,
       Owning, WithBackup, WithGood, WithTrial, Copying, Untouched, Tried
  <2>. QED
    BY <1>a, <1>b, <1>8, <2>1, OwnerTraces DEF WriteFails, Answer, Goto, TypeOK, Owning, WithBackup, WithGood
<1>9. ASSUME RestartOk(h) PROVE Traced'
  <2>1. Area(key[h])' /\ Trace(h)' /\ ("verify" \notin Owning => (lost[key[h]] \/ InForce(key[h]))')
    BY <1>a, <1>b, <1>9 DEF RestartOk, Goto, Whole, Area, Trace, Stage, InForce, Launched, TypeOK,
       Owning, WithBackup, WithGood, WithTrial, Copying, Untouched, Tried
  <2>. QED
    BY <1>a, <1>b, <1>9, <2>1, OwnerTraces DEF RestartOk, Goto, TypeOK, Owning, WithBackup, WithGood
<1>10. ASSUME RestartErr(h) PROVE Traced'
  <2>1. Area(key[h])' /\ Trace(h)' /\ ("restore" \notin Owning => (lost[key[h]] \/ InForce(key[h]))')
    BY <1>a, <1>b, <1>10 DEF RestartErr, Goto, Whole, Area, Trace, Stage, InForce, Launched, TypeOK,
       Owning, WithBackup, WithGood, WithTrial, Copying, Untouched, Tried
  <2>. QED
    BY <1>a, <1>b, <1>10, <2>1, OwnerTraces DEF RestartErr, Goto, TypeOK, Owning, WithBackup, WithGood
<1>11. ASSUME RestartRefused(h) PROVE Traced'
  <2>1. Area(key[h])' /\ Trace(h)' /\ ("restore" \notin Owning => (lost[key[h]] \/ InForce(key[h]))')
    BY <1>a, <1>b, <1>11 DEF RestartRefused, Goto, Unmanaged, Whole, Area, Trace, Stage, InForce, Launched, TypeOK,
       Owning, WithBackup, WithGood, WithTrial, Copying, Untouched, Tried
  <2>. QED
    BY <1>a, <1>b, <1>11, <2>1, OwnerTraces DEF RestartRefused, Goto, Unmanaged, TypeOK, Owning, WithBackup, WithGood
<1>12. ASSUME NotVerified(h) PROVE Traced'
  <2>1. Area(key[h])' /\ Trace(h)' /\ ("restore" \notin Owning => (lost[key[h]] \/ InForce(key[h]))')
    BY <1>a, <1>b, <1>12 DEF NotVerified, Goto, Whole, Area, Trace, Stage, InForce, Launched, TypeOK,
       Owning, WithBackup, WithGood, WithTrial, Copying, Untouched, Tried
  <2>. QED
    BY <1>a, <1>b, <1>12, <2>1, OwnerTraces DEF NotVerified, Goto, TypeOK, Owning, WithBackup, WithGood
<1>13. ASSUME CommitNow(h) PROVE Traced'
  <2>1. Area(key[h])' /\ Trace(h)' /\ ("idle" \notin Owning => (lost[key[h]] \/ InForce(key[h]))')
    BY <1>a, <1>b, <1>13 DEF CommitNow, Answer, Goto, Whole, Area, Trace, Stage, InForce, Launched, TypeOK,
       Owning, WithBackup, WithGood, WithTrial, Copying, Untouched, Tried
  <2>. QED
    BY <1>a, <1>b, <1>13, <2>1, OwnerTraces DEF CommitNow, Answer, Goto, TypeOK, Owning, WithBackup, WithGood
<1>14. ASSUME RolledBack(h) PROVE Traced'
  <2>1. Relaunch(key[h]) /\ pc[h] = "rerestart" /\ pc' = [pc EXCEPT ![h] = "idle"]
    BY <1>14 DEF RolledBack, Answer, Goto
  <2>2. UNCHANGED <<conf, bak, key, guards, good, lost>>
    BY <1>14 DEF RolledBack, Answer
  <2>3. conf[key[h]] = good[key[h]]
    BY <1>b, <2>1 DEF Stage, Owning, WithBackup, WithGood, WithTrial, Copying
  <2>4. /\ \A k \in Keys \ {key[h]} : svc'[k] = svc[k] /\ stale'[k] = stale[k]
        /\ InForce(key[h])'
    BY <1>a, <2>1, <2>2, <2>3, RelaunchDoes DEF InForce, Launched, Starts, Whole
  <2>5. Area(key[h])' /\ Trace(h)' /\ ("idle" \notin Owning => (lost[key[h]] \/ InForce(key[h]))')
    BY <1>a, <1>b, <1>14, <2>1, <2>2, <2>4 DEF RolledBack, Answer, Area, Trace, TypeOK, Whole,
       Owning, WithBackup, WithGood, Untouched, Tried
  <2>. QED
    BY <1>a, <1>b, <1>14, <2>1, <2>2, <2>4, <2>5, OwnerTraces DEF RolledBack, Answer, TypeOK, Owning, WithBackup, WithGood
<1>15. ASSUME Accept(h) PROVE Traced'
  <2>1. Area(key[h])' /\ Trace(h)' /\ ("idle" \notin Owning => (lost[key[h]] \/ InForce(key[h]))')
    BY <1>a, <1>b, <1>15 DEF Accept, Answer, Goto, Whole, Area, Trace, Stage, InForce, Launched, TypeOK,
       Owning, WithBackup, WithGood, WithTrial, Copying, Untouched, Tried
  <2>. QED
    BY <1>a, <1>b, <1>15, <2>1, OwnerTraces DEF Accept, Answer, Goto, TypeOK, Owning, WithBackup, WithGood
<1>. QED
  BY <1>1, <1>2, <1>3, <1>4, <1>5, <1>6, <1>7, <1>8, <1>9, <1>10, <1>11, <1>12, <1>13, <1>14, <1>15

(* A verified edit is committed, or held.                                  *)
LEMMA VerifiedTraces ==
    ASSUME TypeOK, Guarded, Traced, NEW h \in Handlers, Verified(h)
    PROVE  Traced'
<1>. USE DEF files, locals, holds, history
<1>a. h \in Actors /\ h \notin Timers /\ key[h] \in Keys
  BY MapTypes
<1>b. Owned /\ Trace(h) /\ Area(key[h])
  BY <1>a DEF Guarded, Owned, Traced
<1>1. PICK to \in {"discard", "arm"} : pc' = [pc EXCEPT ![h] = to]
  BY DEF Verified, Goto
<1>2. Area(key[h])' /\ Trace(h)' /\ to \in Owning
  BY <1>a, <1>b, <1>1 DEF Verified, Goto, Area, Trace, Launched, TypeOK,
     Owning, WithBackup, WithGood, Untouched, Tried
<1>. QED
  BY <1>a, <1>b, <1>1, <1>2, OwnerTraces DEF Verified, Goto, Owning, WithBackup, WithGood

(* The steps of revert that do not fail, and a timer's own.                *)
LEMMA RevertTraces ==
    ASSUME TypeOK, Guarded, Traced, NEW a \in Actors,
           \/ RestoreMissing(a) \/ RestoreOpen(a) \/ RestoreFill(a)
           \/ TimerFires(a) \/ TimerRestarts(a) \/ TimerDiscards(a)
    PROVE  Traced'
<1>. USE DEF files, locals, holds, history
<1>a. a \in Actors /\ key[a] \in Keys
  BY DEF TypeOK
<1>b. Owned /\ Stage(a) /\ Trace(a) /\ Area(key[a])
  BY <1>a DEF Guarded, Owned, Traced
<1>1. ASSUME RestoreMissing(a) PROVE Traced'
  <2>1. Area(key[a])' /\ Trace(a)' /\ ("rerestart" \notin Owning => (lost[key[a]] \/ InForce(key[a]))')
    BY <1>a, <1>b, <1>1 DEF RestoreMissing, Goto, Whole, Area, Trace, Stage, InForce, Launched, TypeOK,
       Owning, WithBackup, WithGood, WithTrial, Copying, Untouched, Tried
  <2>. QED
    BY <1>a, <1>b, <1>1, <2>1, OwnerTraces DEF RestoreMissing, Goto, TypeOK, Owning, WithBackup, WithGood
<1>2. ASSUME RestoreOpen(a) PROVE Traced'
  <2>1. Area(key[a])' /\ Trace(a)' /\ ("restoring" \notin Owning => (lost[key[a]] \/ InForce(key[a]))')
    BY <1>a, <1>b, <1>2 DEF RestoreOpen, Goto, Whole, Area, Trace, Stage, InForce, Launched, TypeOK,
       Owning, WithBackup, WithGood, WithTrial, Copying, Untouched, Tried
  <2>. QED
    BY <1>a, <1>b, <1>2, <2>1, OwnerTraces DEF RestoreOpen, Goto, TypeOK, Owning, WithBackup, WithGood
<1>3. ASSUME RestoreFill(a) PROVE Traced'
  <2>1. Area(key[a])' /\ Trace(a)' /\ ("rerestart" \notin Owning => (lost[key[a]] \/ InForce(key[a]))')
    BY <1>a, <1>b, <1>3 DEF RestoreFill, Goto, Whole, Area, Trace, Stage, InForce, Launched, TypeOK,
       Owning, WithBackup, WithGood, WithTrial, Copying, Untouched, Tried
  <2>. QED
    BY <1>a, <1>b, <1>3, <2>1, OwnerTraces DEF RestoreFill, Goto, TypeOK, Owning, WithBackup, WithGood
<1>4. ASSUME TimerFires(a) PROVE Traced'
  <2>1. Area(key[a])' /\ Trace(a)' /\ ("restore" \notin Owning => (lost[key[a]] \/ InForce(key[a]))')
    BY <1>a, <1>b, <1>4 DEF TimerFires, Goto, Whole, Area, Trace, Stage, InForce, Launched, TypeOK,
       Owning, WithBackup, WithGood, WithTrial, Copying, Untouched, Tried
  <2>. QED
    BY <1>a, <1>b, <1>4, <2>1, OwnerTraces DEF TimerFires, Goto, TypeOK, Owning, WithBackup, WithGood
<1>5. ASSUME TimerRestarts(a) PROVE Traced'
  <2>1. Relaunch(key[a]) /\ pc[a] = "rerestart" /\ pc' = [pc EXCEPT ![a] = "clean"]
    BY <1>5 DEF TimerRestarts, Goto
  <2>2. UNCHANGED <<conf, bak, key, guards, good, lost>>
    BY <1>5 DEF TimerRestarts
  <2>3. conf[key[a]] = good[key[a]]
    BY <1>b, <2>1 DEF Stage, Owning, WithBackup, WithGood, WithTrial, Copying
  <2>4. /\ \A k \in Keys \ {key[a]} : svc'[k] = svc[k] /\ stale'[k] = stale[k]
        /\ InForce(key[a])'
    BY <1>a, <2>1, <2>2, <2>3, RelaunchDoes DEF InForce, Launched, Starts, Whole
  <2>5. Area(key[a])' /\ Trace(a)' /\ ("clean" \notin Owning => (lost[key[a]] \/ InForce(key[a]))')
    BY <1>a, <1>b, <1>5, <2>1, <2>2, <2>4 DEF TimerRestarts, Area, Trace, TypeOK, Whole,
       Owning, WithBackup, WithGood, Untouched, Tried
  <2>. QED
    BY <1>a, <1>b, <1>5, <2>1, <2>2, <2>4, <2>5, OwnerTraces DEF TimerRestarts, TypeOK, Owning, WithBackup, WithGood
<1>6. ASSUME TimerDiscards(a) PROVE Traced'
  <2>1. Area(key[a])' /\ Trace(a)' /\ ("over" \notin Owning => (lost[key[a]] \/ InForce(key[a]))')
    BY <1>a, <1>b, <1>6 DEF TimerDiscards, Goto, Whole, Area, Trace, Stage, InForce, Launched, TypeOK,
       Owning, WithBackup, WithGood, WithTrial, Copying, Untouched, Tried
  <2>. QED
    BY <1>a, <1>b, <1>6, <2>1, OwnerTraces DEF TimerDiscards, Goto, TypeOK, Owning, WithBackup, WithGood
<1>. QED
  BY <1>1, <1>2, <1>3, <1>4, <1>5, <1>6

(* The steps of a request that owns no area.                               *)
LEMMA AsideTraces ==
    ASSUME TypeOK, Guarded, Traced, NEW h \in Handlers,
           \/ Join(h) \/ TakeNone(h) \/ TakeGuard(h) \/ CancelTooLate(h) \/ AlreadyReverted(h)
           \/ \E k \in Keys : Confirm(h, k)
    PROVE  Traced'
<1>. USE DEF files, locals, holds, history
<1>a. h \in Actors /\ h \notin Timers
  BY MapTypes
<1>1. CASE Join(h)
  BY <1>a, <1>1, BystanderTraces DEF Join, Answer, Goto, TypeOK, Owning, WithBackup, WithGood
<1>2. CASE TakeNone(h)
  BY <1>a, <1>2, BystanderTraces DEF TakeNone, Answer, Goto, TypeOK, Owning, WithBackup, WithGood
<1>3. CASE TakeGuard(h)
  BY <1>a, <1>3, BystanderTraces DEF TakeGuard, Goto, TypeOK, Owning, WithBackup, WithGood
<1>4. CASE CancelTooLate(h)
  BY <1>a, <1>4, BystanderTraces DEF CancelTooLate, Goto, TypeOK, Owning, WithBackup, WithGood
<1>5. CASE AlreadyReverted(h)
  BY <1>a, <1>5, BystanderTraces DEF AlreadyReverted, Answer, Goto, TypeOK, Owning, WithBackup, WithGood
<1>6. ASSUME NEW k \in Keys, Confirm(h, k) PROVE Traced'
  BY <1>a, <1>6, BystanderTraces DEF Confirm, Goto, TypeOK, Owning, WithBackup, WithGood
<1>. QED
  BY <1>1, <1>2, <1>3, <1>4, <1>5, <1>6

(* A new change finds its area at rest, and in force.                      *)
LEMMA BeginTraces ==
    ASSUME TypeOK, OneAtATime, Traced,
           NEW h \in Handlers, NEW k \in Keys, NEW m \in Kinds, NEW s \in Settings,
           Begin(h, k, m, s)
    PROVE  Traced'
<1>. USE MapTypes DEF files, locals, holds, history
<1>1. Quiet(k) /\ pc[h] = "idle"
  BY DEF Begin, Goto
<1>2. pc'[h] = "load" /\ key'[h] = k /\ draft'[h] = [set |-> {s}, rest |-> TRUE]
  BY DEF Begin, Goto, TypeOK
<1>3. \A b \in Actors \ {h} : pc'[b] = pc[b] /\ key'[b] = key[b] /\ draft'[b] = draft[b]
  BY DEF Begin, Goto, TypeOK
<1>4. UNCHANGED <<bak, svc, guards, good, lost, stale>>
  BY DEF Begin
<1>5. \A b \in Actors : ~Owns(b, k)
  <2>1. ASSUME NEW b \in Handlers, key[b] = k PROVE pc[b] = "idle"
    BY <1>1, <2>1 DEF Quiet
  <2>2. ASSUME NEW b \in Timers, key[b] = k PROVE pc[b] \notin Trying
    BY <1>1, <2>2 DEF Quiet, Busy
  <2>3. \A b \in Timers : pc[b] \in Owning => pc[b] \in Trying
    BY DEF TypeOK, TimerSteps, Trying, Owning, WithBackup, WithGood
  <2>. QED
    BY <2>1, <2>2, <2>3 DEF Owns, Actors, Owning, WithBackup, WithGood
<1>6. InForce(k)
  BY <1>1, <1>5 DEF Traced, Unowned, Quiet
<1>7. "idle" \notin Owning /\ "load" \in Owning
  BY DEF Owning, WithBackup, WithGood
<1>8. ASSUME NEW j \in Keys PROVE Area(j)' /\ Unowned(j)'
  <2>1. CASE j = k
    BY <1>2, <1>4, <1>7, <2>1 DEF Traced, Area, Unowned, Owns
  <2>2. CASE j # k
    <3>1. \A b \in Actors : Owns(b, j)' <=> Owns(b, j)
      BY <1>1, <1>2, <1>3, <1>7, <2>2 DEF Owns
    <3>. QED
      BY <1>4, <3>1 DEF Traced, Area, Unowned, InForce, Launched
  <2>. QED
    BY <2>1, <2>2
<1>9. ASSUME NEW b \in Actors PROVE Trace(b)'
  <2>1. CASE b = h
    BY <1>2, <1>4, <1>6, <2>1 DEF Trace, InForce, Launched, Owning, WithBackup, WithGood, Tried
  <2>2. CASE b # h
    BY <1>3, <1>4, <2>2 DEF Traced, Trace, InForce, Launched
  <2>. QED
    BY <2>1, <2>2
<1>10. ASSUME NEW g \in Handlers PROVE Paired(g)'
  <2>. SUFFICES ASSUME pc'[g] = "insert" PROVE Paired(g)'
    BY DEF Paired
  <2>1. g # h /\ pc[g] = "insert" /\ key'[g] = key[g] /\ draft'[g] = draft[g]
    BY <1>2, <1>3
  <2>2. key[g] # k
    BY <1>1, <2>1 DEF Quiet
  <2>3. PICK t \in Timers : /\ guards[g] = {t} /\ draft[t] = draft[g]
                            /\ \A b \in Actors : Owns(b, key[g]) => b = t
    BY <2>1 DEF Traced, Paired
  <2>4. draft'[t] = draft[t]
    BY <1>3
  <2>5. \A b \in Actors : Owns(b, key[g])' => b = t
    BY <1>2, <1>3, <2>2, <2>3 DEF Owns
  <2>. QED
    BY <1>4, <2>1, <2>3, <2>4, <2>5 DEF Paired
<1>. QED
  BY <1>8, <1>9, <1>10 DEF Traced

(* A hold: the timer stands for what the request had on trial.             *)
LEMMA ArmTraces ==
    ASSUME TypeOK, Guarded, Traced, NEW h \in Handlers, NEW t \in Timers, Arm(h, t)
    PROVE  Traced'
<1>. USE MapTypes DEF files, locals, holds, history
<1>a. Alone /\ OneEditor /\ Filed /\ Trace(h) /\ h # t
  BY DEF Guarded, Owned, Traced
<1>1. pc[h] = "arm" /\ pc[t] = "off" /\ pc'[h] = "insert" /\ pc'[t] = "armed"
  BY DEF Arm, TypeOK
<1>2. \A b \in Actors \ {h, t} : pc'[b] = pc[b]
  BY DEF Arm, TypeOK
<1>3. key'[t] = key[h] /\ draft'[t] = draft[h]
  BY DEF Arm, TypeOK
<1>4. \A b \in Actors \ {t} : key'[b] = key[b] /\ draft'[b] = draft[b]
  BY DEF Arm, TypeOK
<1>5. guards'[h] = {t} /\ \A g \in Handlers \ {h} : guards'[g] = guards[g]
  BY DEF Arm, TypeOK
<1>6. UNCHANGED <<bak, svc, good, lost, stale>>
  BY DEF Arm
<1>7. Owns(h, key[h]) /\ \A b \in Actors \ {h} : ~Owns(b, key[h])
  BY <1>a, <1>1 DEF Alone, Owns, Owning, WithBackup
<1>8. "insert" \notin Owning /\ "off" \notin Owning /\ "armed" \in Owning
  BY DEF Owning, WithBackup, WithGood
<1>9. ASSUME NEW k \in Keys PROVE Area(k)' /\ Unowned(k)'
  <2>1. CASE k = key[h]
    BY <1>1, <1>3, <1>6, <1>8, <2>1 DEF Traced, Area, Unowned, Owns
  <2>2. CASE k # key[h]
    <3>1. \A b \in Actors : Owns(b, k)' <=> Owns(b, k)
      BY <1>1, <1>2, <1>3, <1>4, <1>8, <2>2 DEF Owns
    <3>. QED
      BY <1>6, <3>1 DEF Traced, Area, Unowned, InForce, Launched
  <2>. QED
    BY <2>1, <2>2
<1>10. ASSUME NEW b \in Actors PROVE Trace(b)'
  <2>1. CASE b = h
    BY <1>1, <2>1 DEF Trace, Owning, WithBackup, WithGood, Untouched, Tried
  <2>2. CASE b = t
    BY <1>a, <1>1, <1>3, <1>6, <2>2 DEF Trace, Launched, Owning, WithBackup, WithGood, Untouched, Tried
  <2>3. CASE b \notin {h, t}
    BY <1>2, <1>4, <1>6, <2>3 DEF Traced, Trace, InForce, Launched
  <2>. QED
    BY <2>1, <2>2, <2>3
<1>11. ASSUME NEW g \in Handlers PROVE Paired(g)'
  <2>1. CASE g = h
    <3>1. ASSUME NEW b \in Actors, Owns(b, key[h])' PROVE b = t
      BY <1>1, <1>2, <1>4, <1>7, <1>8, <3>1 DEF Owns
    <3>. QED
      BY <1>a, <1>3, <1>4, <1>5, <2>1, <3>1 DEF Paired
  <2>2. ASSUME g # h, pc'[g] = "insert" PROVE Paired(g)'
    <3>1. pc[g] = "insert" /\ key'[g] = key[g] /\ draft'[g] = draft[g] /\ guards'[g] = guards[g]
      BY <1>2, <1>4, <1>5, <2>2
    <3>2. key[g] # key[h]
      BY <1>a, <1>1, <2>2, <3>1 DEF OneEditor, Editing
    <3>3. PICK u \in Timers : /\ guards[g] = {u} /\ draft[u] = draft[g]
                              /\ \A b \in Actors : Owns(b, key[g]) => b = u
      BY <3>1 DEF Traced, Paired
    <3>4. u # t
      BY <1>a, <1>1, <3>1, <3>3 DEF Filed
    <3>5. ASSUME NEW b \in Actors, Owns(b, key[g])' PROVE b = u
      BY <1>1, <1>2, <1>3, <1>4, <3>1, <3>2, <3>3, <3>5 DEF Owns
    <3>. QED
      BY <1>4, <3>1, <3>3, <3>4, <3>5 DEF Paired
  <2>. QED
    BY <2>1, <2>2 DEF Paired
<1>. QED
  BY <1>9, <1>10, <1>11 DEF Traced

(* Confirmed in time: the request stands for what the timer did, and no    *)
(* other has that timer in hand.                                           *)
LEMMA CancelTraces ==
    ASSUME TypeOK, Guarded, Held, Traced, NEW h \in Handlers, NEW t \in Timers, CancelInTime(h, t)
    PROVE  Traced'
<1>. USE MapTypes DEF files, locals, holds, history
<1>a. Alone /\ Filed /\ Trace(t) /\ h # t
  BY DEF Guarded, Owned, Traced
<1>1. pc[h] = "cancel" /\ pc[t] = "armed" /\ pc'[h] = "accept" /\ pc'[t] = "cancelled"
  BY DEF CancelInTime, TypeOK
<1>2. \A b \in Actors \ {h, t} : pc'[b] = pc[b]
  BY DEF CancelInTime, TypeOK
<1>3. key' = key /\ key[h] = key[t] /\ t \in guards[h]
  BY <1>a, <1>1 DEF CancelInTime, Filed
<1>4. draft'[h] = draft[t] /\ \A b \in Actors \ {h} : draft'[b] = draft[b]
  BY DEF CancelInTime, TypeOK
<1>5. UNCHANGED <<bak, svc, guards, good, lost, stale>>
  BY DEF CancelInTime
<1>6. Owns(t, key[t]) /\ "cancel" \notin Owning /\ "cancelled" \notin Owning /\ "accept" \in Owning
  BY <1>1 DEF Owns, Owning, WithBackup, WithGood
<1>7. ASSUME NEW k \in Keys PROVE Area(k)' /\ Unowned(k)'
  <2>1. CASE k = key[h]
    BY <1>1, <1>3, <1>5, <1>6, <2>1 DEF Traced, Area, Unowned, Owns
  <2>2. CASE k # key[h]
    <3>1. \A b \in Actors : Owns(b, k)' <=> Owns(b, k)
      BY <1>2, <1>3, <2>2 DEF Owns
    <3>. QED
      BY <1>5, <3>1 DEF Traced, Area, Unowned, InForce, Launched
  <2>. QED
    BY <2>1, <2>2
<1>8. ASSUME NEW b \in Actors PROVE Trace(b)'
  <2>1. CASE b = t
    BY <1>1, <2>1 DEF Trace, Owning, WithBackup, WithGood, Untouched, Tried
  <2>2. CASE b = h
    BY <1>a, <1>1, <1>3, <1>4, <1>5, <2>2 DEF Trace, Launched, Owning, WithBackup, WithGood, Untouched, Tried
  <2>3. CASE b \notin {h, t}
    BY <1>2, <1>3, <1>4, <1>5, <2>3 DEF Traced, Trace, InForce, Launched
  <2>. QED
    BY <2>1, <2>2, <2>3
<1>9. ASSUME NEW g \in Handlers PROVE Paired(g)'
  <2>. SUFFICES ASSUME pc'[g] = "insert" PROVE Paired(g)'
    BY DEF Paired
  <2>1. g # h /\ pc[g] = "insert" /\ draft'[g] = draft[g]
    BY <1>1, <1>2, <1>4
  <2>2. PICK u \in Timers : /\ guards[g] = {u} /\ draft[u] = draft[g]
                            /\ \A b \in Actors : Owns(b, key[g]) => b = u
    BY <2>1 DEF Traced, Paired
  <2>3. key[g] # key[t]
    BY <1>3, <1>6, <2>1, <2>2 DEF Held
  <2>4. ASSUME NEW b \in Actors, Owns(b, key[g])' PROVE b = u
    BY <1>1, <1>2, <1>3, <2>2, <2>3, <2>4 DEF Owns
  <2>5. draft'[u] = draft[u]
    BY <1>4
  <2>. QED
    BY <1>3, <1>5, <2>1, <2>2, <2>4, <2>5 DEF Paired
<1>. QED
  BY <1>7, <1>8, <1>9 DEF Traced

(* The request that has filed its timer's guard is done with the change.   *)
LEMMA InsertTraces ==
    ASSUME TypeOK, Guarded, Traced, NEW h \in Handlers, InsertFirst(h) \/ InsertOver(h)
    PROVE  Traced'
<1>. USE MapTypes DEF files, locals, holds, history
<1>1. pc[h] = "insert"
  BY DEF InsertFirst, InsertOver, Answer, Goto
<1>2. PICK to \in {"idle", "join"} : pc' = [pc EXCEPT ![h] = to]
  <2>1. CASE InsertFirst(h)
    BY <2>1 DEF InsertFirst, Answer, Goto
  <2>2. CASE InsertOver(h)
    <3>1. \A b \in pending[key[h]] : pc[b] # "armed"
      BY <1>1 DEF Guarded, Filed
    <3>2. pc' = [b \in Actors |-> IF b = h THEN "join" ELSE pc[b]]
      BY <2>2, <3>1 DEF InsertOver
    <3>. QED
      BY <3>2 DEF TypeOK
  <2>. QED
    BY <2>1, <2>2
<1>3. UNCHANGED <<bak, svc, key, good, lost, stale>>
  BY DEF InsertFirst, InsertOver, Answer
<1>4. \A b \in Actors \ {h} : draft'[b] = draft[b]
  BY DEF InsertFirst, InsertOver, Answer, TypeOK
<1>5. \A g \in Handlers \ {h} : guards'[g] = guards[g]
  BY DEF InsertFirst, InsertOver, TypeOK
<1>. QED
  BY <1>1, <1>2, <1>3, <1>4, <1>5, BystanderTraces DEF Owning, WithBackup, WithGood

(* A service ends only on a configuration it cannot use, and the end of    *)
(* the program marks the areas it leaves in between.                       *)
LEMMA OutsideTraces ==
    ASSUME TypeOK, Traced, Exit \/ \E k \in Keys : ServiceExits(k)
    PROVE  Traced'
<1>. USE MapTypes DEF files, locals, holds, history
<1>1. ASSUME NEW k \in Keys, ServiceExits(k) PROVE Traced'
  <2>1. UNCHANGED <<bak, pc, key, draft, guards, good, lost, stale>>
    BY <1>1 DEF ServiceExits
  <2>2. ASSUME NEW j \in Keys, NEW c, Launched(j, c) PROVE Launched(j, c)'
    BY <1>1, <2>2 DEF ServiceExits, Launched, TypeOK
  <2>3. \A j \in Keys : Area(j)' /\ Unowned(j)'
    BY <2>1, <2>2 DEF Traced, Area, Unowned, InForce, Owns
  <2>4. \A b \in Actors : key[b] \in Keys
    BY DEF TypeOK
  <2>5. \A b \in Actors : Trace(b)'
    BY <2>1, <2>2, <2>4 DEF Traced, Trace, InForce
  <2>6. \A g \in Handlers : Paired(g)'
    BY <2>1 DEF Traced, Paired, Owns
  <2>. QED
    BY <2>3, <2>5, <2>6 DEF Traced
<1>2. CASE Exit
  <2>1. \A a \in Actors : pc'[a] \in {"idle", "off", "dead"}
    BY <1>2 DEF Exit
  <2>2. UNCHANGED <<bak, svc, good, stale>> /\ \A k \in Keys : lost'[k] = (lost[k] \/ Busy(k) # {})
    BY <1>2 DEF Exit
  <2>3. ASSUME NEW k \in Keys PROVE lost'[k] \/ InForce(k)
    <3>1. CASE \A a \in Actors : ~Owns(a, k)
      BY <2>2, <3>1 DEF Traced, Unowned
    <3>2. ASSUME NEW a \in Actors, Owns(a, k) PROVE lost'[k] \/ InForce(k)
      <4>1. CASE pc[a] = "load"
        BY <3>2, <4>1 DEF Owns, Traced, Trace, Untouched
      <4>2. CASE pc[a] # "load"
        <5>1. a \in Busy(k)
          BY <3>2, <4>2 DEF Busy, Trying, Owns, Owning, WithBackup, WithGood
        <5>. QED
          BY <2>2, <5>1
      <4>. QED
        BY <4>1, <4>2
    <3>. QED
      BY <3>1, <3>2
  <2>4. \A k \in Keys : Area(k)' /\ Unowned(k)'
    BY <2>2, <2>3 DEF Traced, Area, Unowned, InForce, Launched
  <2>5. \A a \in Actors : Trace(a)'
    BY <2>1 DEF Trace, Owning, WithBackup, WithGood, Untouched, Tried
  <2>6. \A g \in Handlers : Paired(g)'
    BY <2>1 DEF Paired
  <2>. QED
    BY <2>4, <2>5, <2>6 DEF Traced
<1>. QED
  BY <1>1, <1>2

(* At the start everything is acknowledged and in force.                   *)
LEMMA InitTraces == Init => Held /\ Traced
<1>. SUFFICES ASSUME Init PROVE Held /\ Traced
  OBVIOUS
<1>1. \A a \in Actors : pc[a] \in {"idle", "off"}
  BY DEF Init
<1>2. \A k \in Keys : Area(k) /\ Unowned(k)
  BY DEF Init, Area, Unowned, InForce, Launched, Whole, InitConfig
<1>3. \A a \in Actors : Trace(a)
  BY <1>1 DEF Trace, Owning, WithBackup, WithGood, Untouched, Tried
<1>4. \A h \in Handlers : Paired(h)
  BY <1>1 DEF Paired, Actors
<1>5. Held
  BY DEF Init, Held
<1>. QED
  BY <1>2, <1>3, <1>4, <1>5 DEF Traced

(* Every step keeps account of what is in force.                           *)
LEMMA NextTraces == Serial /\ TypeOK /\ Guarded /\ Held /\ Traced /\ [Next]_vars => Traced'
<1>. SUFFICES ASSUME Serial, TypeOK, Guarded, Held, Traced, [Next]_vars PROVE Traced'
  OBVIOUS
<1>1. ASSUME NEW h \in Handlers, Requests(h) \/ HandlerStep(h) PROVE Traced'
  <2>. h \in Actors /\ ~RestoreFails(h)
    BY DEF Actors, Serial, RestoreFails
  <2>1. CASE Requests(h)
    BY <2>1, BeginTraces, AsideTraces DEF Requests, Serial
  <2>2. CASE HandlerStep(h)
    BY <2>2, ApplyTraces, VerifiedTraces, RevertTraces, AsideTraces, ArmTraces, CancelTraces,
       InsertTraces DEF HandlerStep
  <2>. QED
    BY <1>1, <2>1, <2>2
<1>2. ASSUME NEW t \in Timers, TimerStep(t) PROVE Traced'
  <2>. t \in Actors /\ ~RestoreFails(t)
    BY DEF Actors, Serial, RestoreFails
  <2>. QED
    BY <1>2, RevertTraces DEF TimerStep
<1>3. CASE UNCHANGED vars
  BY <1>3 DEF vars, files, locals, holds, history, Traced, Area, Unowned, Trace, Paired, Owns,
     InForce, Launched
<1>. QED
  BY <1>1, <1>2, <1>3, OutsideTraces DEF Next

(* All of it holds throughout.                                             *)
LEMMA AlwaysTraced == ASSUME Serial PROVE Spec => [](TypeOK /\ Guarded /\ Held /\ Traced)
<1>1. Init => TypeOK /\ Guarded /\ Held /\ Traced
  BY InitTypes, InitSerial, InitTraces
<1>2. TypeOK /\ Guarded /\ Held /\ Traced /\ [Next]_vars => (TypeOK /\ Guarded /\ Held /\ Traced)'
  <2>. SUFFICES ASSUME TypeOK, Guarded, Held, Traced, [Next]_vars
                PROVE  TypeOK' /\ Guarded' /\ Held' /\ Traced'
    OBVIOUS
  <2>1. Filed
    BY DEF Guarded
  <2>. QED
    BY <2>1, NextTypes, NextSerial, NextHeld, NextTraces
<1>. QED
  BY <1>1, <1>2, PTL DEF Spec

(* While the administrators make one change of an area at a time and no    *)
(* restore fails, the file of an area on which nothing is unresolved is    *)
(* the one acknowledged last: a change that was refused, that failed, was  *)
(* rolled back or timed out leaves no trace in it.  The service runs on it *)
(* too, unless a rollback's restart failed, which revert does not report,  *)
(* and none has been carried out since.                                    *)
THEOREM SettledIsInForce == ASSUME Serial PROVE Spec => []SettledInForce
<1>1. TypeOK /\ Guarded /\ Held /\ Traced => SettledInForce
  <2>. SUFFICES ASSUME TypeOK, Guarded, Traced, NEW k \in Keys, Busy(k) = {}, ~lost[k]
                PROVE  conf[k] = good[k] /\ InForce(k)
    BY DEF SettledInForce, InForce, Launched
  <2>1. CASE \A a \in Actors : ~Owns(a, k)
    BY <2>1 DEF Guarded, Owned, Rested, Safe, Traced, Unowned
  <2>2. ASSUME NEW a \in Actors, Owns(a, k) PROVE conf[k] = good[k] /\ InForce(k)
    <3>1. pc[a] = "load"
      BY <2>2 DEF Busy, Trying, Owns, Owning, WithBackup, WithGood
    <3>2. Stage(a) /\ Trace(a) /\ key[a] = k
      BY <2>2 DEF Guarded, Owned, Traced, Owns
    <3>. QED
      BY <3>1, <3>2 DEF Stage, Trace, WithGood, Untouched
  <2>. QED
    BY <2>1, <2>2
<1>. QED
  BY <1>1, AlwaysTraced, PTL

-----------------------------------------------------------------------------
(* Commit-confirm, under the same discipline.                              *)

OnTrial(k) == {draft[a] : a \in Busy(k)}
Committed(k) == IF Kept(k) = {} THEN conf[k] ELSE CHOOSE c \in Kept(k) : TRUE

(* The two files tell what is acknowledged, and those who work on a change *)
(* agree on what it is.                                                    *)
Mapped ==
    /\ \A k \in Keys : Committed(k) = good[k]
    /\ \A k \in Keys : \A a, b \in Busy(k) : draft[a] = draft[b]

(* A request that owns its area works on it alone.                         *)
LEMMA SoleEditor ==
    ASSUME TypeOK, Guarded, Traced, NEW h \in Handlers, pc[h] \in Owning
    PROVE  Busy(key[h]) \subseteq {h}
<1>. SUFFICES ASSUME NEW b \in Busy(key[h]), b # h PROVE FALSE
  OBVIOUS
<1>1. h \in Actors /\ h \notin Timers /\ key[h] \in Keys /\ Owns(h, key[h])
  BY MapTypes DEF Owns
<1>2. b \in Actors /\ key[b] = key[h] /\ pc[b] \in Trying
  BY DEF Busy
<1>3. pc[b] \notin Owning
  BY <1>1, <1>2 DEF Guarded, Owned, Alone, Owns
<1>4. pc[b] = "insert"
  BY <1>2, <1>3 DEF Trying, Owning, WithBackup, WithGood
<1>5. b \in Handlers
  BY <1>2, <1>4 DEF TypeOK, TimerSteps, Actors
<1>6. PICK t \in Timers : \A a \in Actors : Owns(a, key[b]) => a = t
  BY <1>4, <1>5 DEF Traced, Paired
<1>. QED
  BY <1>1, <1>2, <1>6

(* Who has the area, or nobody, accounts for both files and for the trial. *)
LEMMA AllMapped == TypeOK /\ Guarded /\ Traced => Mapped
<1>. SUFFICES ASSUME TypeOK, Guarded, Traced PROVE Mapped
  OBVIOUS
<1>1. ASSUME NEW k \in Keys PROVE Committed(k) = good[k]
  <2>1. Whole(good[k]) /\ Kept(k) \subseteq {good[k]}
    BY DEF Traced, Area, Kept, Whole, Empty
  <2>2. bak[k] = {good[k]} => Kept(k) = {good[k]}
    BY <2>1 DEF Kept
  <2>3. Kept(k) = {} => conf[k] = good[k]
    <3>1. CASE \A a \in Actors : ~Owns(a, k)
      BY <2>2, <3>1 DEF Guarded, Owned, Rested, Safe
    <3>2. ASSUME NEW a \in Actors, Owns(a, k) PROVE Kept(k) = {} => conf[k] = good[k]
      BY <2>2, <3>2 DEF Guarded, Owned, Stage, Owns, Owning
    <3>. QED
      BY <3>1, <3>2
  <2>4. Kept(k) # {} => (CHOOSE c \in Kept(k) : TRUE) = good[k]
    BY <2>1
  <2>. QED
    BY <2>3, <2>4 DEF Committed
<1>2. ASSUME NEW k \in Keys, NEW a \in Busy(k), NEW b \in Busy(k) PROVE draft[a] = draft[b]
  <2>1. a \in Actors /\ b \in Actors /\ key[a] = k /\ key[b] = k
    BY DEF Busy
  <2>2. CASE pc[a] \in Owning /\ pc[b] \in Owning
    BY <2>1, <2>2 DEF Guarded, Owned, Alone, Owns
  <2>3. ASSUME NEW c \in Busy(k), pc[c] \notin Owning
        PROVE  /\ c \in Handlers /\ pc[c] = "insert"
               /\ \E t \in Timers : /\ draft[t] = draft[c]
                                    /\ \A d \in Actors : Owns(d, k) => d = t
    <3>1. c \in Actors /\ key[c] = k /\ pc[c] = "insert"
      BY <2>3 DEF Busy, Trying, Owning, WithBackup, WithGood
    <3>2. c \in Handlers
      BY <3>1 DEF TypeOK, TimerSteps, Actors
    <3>. QED
      BY <3>1, <3>2 DEF Traced, Paired
  <2>4. CASE pc[a] \notin Owning /\ pc[b] \in Owning
    BY <2>1, <2>3, <2>4 DEF Owns
  <2>5. CASE pc[a] \in Owning /\ pc[b] \notin Owning
    BY <2>1, <2>3, <2>5 DEF Owns
  <2>6. CASE pc[a] \notin Owning /\ pc[b] \notin Owning
    BY <2>1, <2>3, <2>6 DEF Guarded, OneEditor, Editing
  <2>. QED
    BY <2>2, <2>4, <2>5, <2>6
<1>. QED
  BY <1>1, <1>2 DEF Mapped

(* What a step of the files and the actors is to commit-confirm.           *)
LEMMA Stutters ==
    ASSUME Mapped, Mapped', good' = good, lost' = lost,
           \A k \in Keys : OnTrial(k)' = OnTrial(k)
    PROVE  UNCHANGED Promise!vars
BY DEF Mapped, Committed, OnTrial, Promise!vars

(* A trial begins, ends or is cut short.                                   *)
LEMMA Tries ==
    ASSUME Mapped, Mapped', good' = good, lost' = lost, NEW k \in Keys, NEW c \in Config,
           ~lost[k], OnTrial(k) = {}, OnTrial(k)' = {c},
           \A j \in Keys \ {k} : OnTrial(j)' = OnTrial(j)
    PROVE  Promise!Next
<1>1. Promise!Try(k, c)
  BY DEF Mapped, Committed, OnTrial, Promise!Try
<1>. QED
  BY <1>1 DEF Promise!Next

LEMMA Abandons ==
    ASSUME Mapped, Mapped', good' = good, lost' = lost, NEW k \in Keys,
           OnTrial(k) # {}, OnTrial(k)' = {},
           \A j \in Keys \ {k} : OnTrial(j)' = OnTrial(j)
    PROVE  Promise!Next
<1>1. Promise!Abandon(k)
  BY DEF Mapped, Committed, OnTrial, Promise!Abandon
<1>. QED
  BY <1>1 DEF Promise!Next

LEMMA Commits ==
    ASSUME Mapped, Mapped', lost' = lost, NEW k \in Keys, NEW c \in Config,
           good' = [good EXCEPT ![k] = c], good \in [Keys -> Config],
           OnTrial(k) = {c}, OnTrial(k)' = {},
           \A j \in Keys \ {k} : OnTrial(j)' = OnTrial(j)
    PROVE  Promise!Next
<1>1. Promise!Commit(k, c)
  BY DEF Mapped, Committed, OnTrial, Promise!Commit
<1>. QED
  BY <1>1 DEF Promise!Next

LEMMA CutsShort ==
    ASSUME Mapped, Mapped', good' = good, NEW S \in SUBSET Keys,
           lost' = [k \in Keys |-> lost[k] \/ k \in S],
           \A k \in S : OnTrial(k) # {} /\ OnTrial(k)' = {},
           \A k \in Keys \ S : OnTrial(k)' = OnTrial(k)
    PROVE  Promise!Next
<1>1. Promise!CutShort(S)
  BY DEF Mapped, Committed, OnTrial, Promise!CutShort
<1>. QED
  BY <1>1 DEF Promise!Next

(* Who works on no change of an area, before or after a step, leaves what  *)
(* is on trial there.                                                      *)
LEMMA Elsewhere ==
    ASSUME TypeOK, NEW a \in Actors, NEW to, NEW k \in Keys,
           pc' = [pc EXCEPT ![a] = to],
           \A b \in Actors \ {a} : key'[b] = key[b] /\ draft'[b] = draft[b],
           key[a] = k => pc[a] \notin Trying,
           key'[a] = k => to \notin Trying
    PROVE  OnTrial(k)' = OnTrial(k)
<1>1. pc'[a] = to /\ \A b \in Actors \ {a} : pc'[b] = pc[b]
  BY DEF TypeOK
<1>2. a \notin Busy(k) /\ a \notin Busy(k)'
  BY <1>1 DEF Busy
<1>3. Busy(k)' = Busy(k)
  BY <1>1, <1>2 DEF Busy
<1>4. \A b \in Busy(k) : draft'[b] = draft[b]
  BY <1>2 DEF Busy
<1>. QED
  BY <1>3, <1>4 DEF OnTrial

(* A step in the middle of a change.                                       *)
LEMMA Midway ==
    ASSUME TypeOK, Mapped, Mapped', NEW a \in Actors, NEW to,
           pc[a] \in Trying, to \in Trying,
           pc' = [pc EXCEPT ![a] = to],
           UNCHANGED <<key, draft, good, lost>>
    PROVE  UNCHANGED Promise!vars
<1>1. \A k \in Keys : Busy(k)' = Busy(k)
  BY DEF Busy, TypeOK
<1>2. \A k \in Keys : OnTrial(k)' = OnTrial(k)
  BY <1>1 DEF OnTrial
<1>. QED
  BY <1>2, Stutters

(* The last step of somebody who commits nothing: the change is abandoned, *)
(* unless another still stands for it.                                     *)
LEMMA Leaves ==
    ASSUME TypeOK, Mapped, Mapped', NEW a \in Actors, NEW to,
           pc[a] \in Trying, to \notin Trying,
           pc' = [pc EXCEPT ![a] = to],
           \A b \in Actors \ {a} : draft'[b] = draft[b],
           UNCHANGED <<key, good, lost>>
    PROVE  [Promise!Next]_(Promise!vars)
<1>1. pc'[a] = to /\ \A b \in Actors \ {a} : pc'[b] = pc[b]
  BY DEF TypeOK
<1>2. key[a] \in Keys /\ a \in Busy(key[a])
  BY DEF TypeOK, Busy
<1>3. \A k \in Keys \ {key[a]} : OnTrial(k)' = OnTrial(k)
  BY Elsewhere
<1>4. Busy(key[a])' = Busy(key[a]) \ {a}
  BY <1>1 DEF Busy
<1>5. CASE Busy(key[a])' = {}
  <2>1. OnTrial(key[a]) # {} /\ OnTrial(key[a])' = {}
    BY <1>2, <1>5 DEF OnTrial
  <2>. QED
    BY <1>2, <1>3, <2>1, Abandons
<1>6. ASSUME NEW b \in Busy(key[a])' PROVE UNCHANGED Promise!vars
  <2>1. b \in Busy(key[a]) /\ b # a /\ b \in Actors
    BY <1>4 DEF Busy
  <2>2. OnTrial(key[a]) = {draft[b]}
    BY <1>2, <2>1 DEF OnTrial, Mapped
  <2>3. OnTrial(key[a])' = {draft'[b]}
    BY <1>2, <1>6 DEF OnTrial, Mapped
  <2>4. draft'[b] = draft[b]
    BY <2>1
  <2>5. \A k \in Keys : OnTrial(k)' = OnTrial(k)
    BY <1>3, <2>2, <2>3, <2>4
  <2>. QED
    BY <2>5, Stutters
<1>. QED
  BY <1>5, <1>6

(* The steps of a change up to its restart and back.                       *)
LEMMA ApplyImplements ==
    ASSUME TypeOK, Guarded, Traced, Mapped, Mapped', NEW h \in Handlers,
           \/ Refuse(h) \/ Load(h) \/ BackupOpen(h) \/ BackupFill(h) \/ BackupFails(h)
           \/ WriteOpen(h) \/ WriteFill(h) \/ WriteFails(h)
           \/ RestartOk(h) \/ RestartErr(h) \/ RestartRefused(h)
           \/ Verified(h) \/ NotVerified(h) \/ RolledBack(h)
    PROVE  [Promise!Next]_(Promise!vars)
<1>. USE DEF files, locals, holds, history
<1>a. h \in Actors /\ key[h] \in Keys
  BY MapTypes
<1>1. CASE Refuse(h)
  <2>1. \A k \in Keys : OnTrial(k)' = OnTrial(k)
    BY <1>1, <1>a, Elsewhere DEF Refuse, Answer, Goto, TypeOK, Trying
  <2>. QED
    BY <1>1, <2>1, Stutters DEF Refuse
<1>2. CASE Load(h)
  <2>1. pc[h] = "load" /\ pc' = [pc EXCEPT ![h] = "backup"] /\ UNCHANGED <<key, good, lost>>
    BY <1>2 DEF Load, Goto
  <2>2. draft'[h] \in Config /\ \A b \in Actors \ {h} : draft'[b] = draft[b]
    BY <1>2, <1>a, ConfigKinds DEF Load, TypeOK
  <2>3. Busy(key[h]) \subseteq {h} /\ h \notin Busy(key[h])
    BY <2>1, SoleEditor DEF Owning, WithGood, Busy, Trying
  <2>4. Busy(key[h])' = {h}
    BY <1>a, <2>1, <2>3 DEF Busy, Trying, TypeOK
  <2>5. OnTrial(key[h]) = {} /\ OnTrial(key[h])' = {draft'[h]}
    BY <2>3, <2>4 DEF OnTrial
  <2>6. \A k \in Keys \ {key[h]} : OnTrial(k)' = OnTrial(k)
    BY <1>a, <2>1, <2>2, Elsewhere
  <2>7. ~lost[key[h]]
    BY <1>a, <2>1 DEF Guarded, Owned, Stage, Owning, WithGood
  <2>. QED
    BY <1>a, <2>1, <2>2, <2>5, <2>6, <2>7, Tries
<1>3. CASE \/ BackupOpen(h) \/ BackupFill(h) \/ WriteOpen(h) \/ WriteFill(h)
           \/ RestartOk(h) \/ RestartErr(h) \/ RestartRefused(h) \/ Verified(h) \/ NotVerified(h)
  <2>1. /\ pc[h] \in Trying
        /\ \E to \in Trying : pc' = [pc EXCEPT ![h] = to]
        /\ UNCHANGED <<key, draft, good, lost>>
    BY <1>3 DEF BackupOpen, BackupFill, WriteOpen, WriteFill, RestartOk, RestartErr, RestartRefused,
       Verified, NotVerified, Goto, Trying
  <2>. QED
    BY <1>a, <2>1, Midway
<1>4. CASE BackupFails(h) \/ RolledBack(h)
  <2>1. /\ pc[h] \in Trying /\ pc' = [pc EXCEPT ![h] = "idle"] /\ "idle" \notin Trying
        /\ \A b \in Actors \ {h} : draft'[b] = draft[b]
        /\ UNCHANGED <<key, good, lost>>
    BY <1>4 DEF BackupFails, RolledBack, Answer, Goto, Trying, TypeOK
  <2>. QED
    BY <1>a, <2>1, Leaves
<1>5. CASE WriteFails(h)
  <2>1. PICK from \in {"write", "writing"} :
          /\ Answer(h, from)
          /\ lost' = [lost EXCEPT ![key[h]] = @ \/ from = "writing"]
    BY <1>5 DEF WriteFails
  <2>2. /\ pc[h] = from /\ pc' = [pc EXCEPT ![h] = "idle"]
        /\ \A b \in Actors \ {h} : draft'[b] = draft[b]
        /\ UNCHANGED <<key, good>>
    BY <1>5, <2>1 DEF WriteFails, Answer, Goto, TypeOK
  <2>3. pc[h] \in Trying /\ pc[h] \in Owning /\ "idle" \notin Trying
    BY <2>2 DEF Trying, Owning, WithBackup
  <2>4. CASE from = "write"
    <3>1. lost' = lost
      BY <2>1, <2>4 DEF TypeOK
    <3>. QED
      BY <1>a, <2>2, <2>3, <3>1, Leaves
  <2>5. CASE from = "writing"
    <3>1. PICK k \in Keys : k = key[h]
      BY <1>a
    <3>2. lost' = [j \in Keys |-> lost[j] \/ j \in {k}]
      BY <2>1, <2>5, <3>1 DEF TypeOK
    <3>3. Busy(k) = {h}
      <4>1. h \in Busy(k)
        BY <1>a, <2>3, <3>1 DEF Busy
      <4>. QED
        BY <2>3, <3>1, <4>1, SoleEditor
    <3>4. pc'[h] \notin Trying /\ \A b \in Actors \ {h} : pc'[b] = pc[b]
      BY <1>a, <2>2, <2>3 DEF TypeOK
    <3>5. Busy(k)' = {}
      BY <2>2, <3>3, <3>4 DEF Busy
    <3>6. OnTrial(k) # {} /\ OnTrial(k)' = {}
      BY <3>3, <3>5 DEF OnTrial
    <3>7. \A j \in Keys \ {k} : OnTrial(j)' = OnTrial(j)
      BY <1>a, <2>2, <3>1, Elsewhere
    <3>8. {k} \in SUBSET Keys /\ \A j \in {k} : OnTrial(j) # {} /\ OnTrial(j)' = {}
      BY <3>6
    <3>. QED
      BY <2>2, <3>2, <3>7, <3>8, CutsShort
  <2>. QED
    BY <2>4, <2>5
<1>. QED
  BY <1>1, <1>2, <1>3, <1>4, <1>5

(* A rollback, by a request or by a timer, which abandons at its end.      *)
LEMMA RevertImplements ==
    ASSUME TypeOK, Mapped, Mapped', NEW a \in Actors,
           \/ RestoreMissing(a) \/ RestoreOpen(a) \/ RestoreFill(a)
           \/ TimerFires(a) \/ TimerRestarts(a) \/ TimerDiscards(a)
    PROVE  [Promise!Next]_(Promise!vars)
<1>. USE DEF files, locals, holds, history
<1>1. CASE TimerDiscards(a)
  <2>1. /\ pc[a] \in Trying /\ pc' = [pc EXCEPT ![a] = "over"] /\ "over" \notin Trying
        /\ UNCHANGED <<key, draft, good, lost>>
    BY <1>1 DEF TimerDiscards, Goto, Trying
  <2>. QED
    BY <2>1, Leaves
<1>2. CASE ~TimerDiscards(a)
  <2>1. /\ pc[a] \in Trying
        /\ \E to \in Trying : pc' = [pc EXCEPT ![a] = to]
        /\ UNCHANGED <<key, draft, good, lost>>
    BY <1>2 DEF RestoreMissing, RestoreOpen, RestoreFill, TimerFires, TimerRestarts, Goto, Trying
  <2>. QED
    BY <2>1, Midway
<1>. QED
  BY <1>1, <1>2

(* A success answered at once, or a confirm in time, commits.              *)
LEMMA CommitImplements ==
    ASSUME TypeOK, Guarded, Traced, Mapped, Mapped', NEW h \in Handlers, CommitNow(h) \/ Accept(h)
    PROVE  Promise!Next
<1>. USE DEF files, locals, holds, history
<1>1. PICK k \in Keys : k = key[h]
  BY MapTypes
<1>2. h \in Actors /\ draft[h] \in Config /\ good \in [Keys -> Config]
  BY MapTypes DEF TypeOK
<1>3. /\ pc[h] \in {"discard", "accept"} /\ pc' = [pc EXCEPT ![h] = "idle"]
      /\ \A b \in Actors \ {h} : draft'[b] = draft[b]
      /\ good' = [good EXCEPT ![k] = draft[h]]
      /\ UNCHANGED <<key, lost>>
  BY <1>1 DEF CommitNow, Accept, Answer, Goto, TypeOK
<1>4. pc[h] \in Trying /\ pc[h] \in Owning /\ "idle" \notin Trying
  BY <1>3 DEF Trying, Owning, WithBackup
<1>5. Busy(k) = {h}
  <2>1. h \in Busy(k)
    BY <1>1, <1>2, <1>4 DEF Busy
  <2>. QED
    BY <1>1, <1>4, <2>1, SoleEditor
<1>6. pc'[h] \notin Trying /\ \A b \in Actors \ {h} : pc'[b] = pc[b]
  BY <1>2, <1>3, <1>4 DEF TypeOK
<1>7. Busy(k)' = {}
  BY <1>3, <1>5, <1>6 DEF Busy
<1>8. OnTrial(k) = {draft[h]} /\ OnTrial(k)' = {}
  BY <1>5, <1>7 DEF OnTrial
<1>9. \A j \in Keys \ {k} : OnTrial(j)' = OnTrial(j)
  BY <1>1, <1>2, <1>3, Elsewhere
<1>. QED
  BY <1>2, <1>3, <1>8, <1>9, Commits

(* Requests that come, and steps of those who work on no change.           *)
LEMMA AsideImplements ==
    ASSUME TypeOK, Mapped, Mapped', NEW h \in Handlers,
           \/ Requests(h) \/ Join(h)
           \/ TakeNone(h) \/ TakeGuard(h) \/ CancelTooLate(h) \/ AlreadyReverted(h)
    PROVE  UNCHANGED Promise!vars
<1>. USE DEF files, locals, holds, history
<1>1. h \in Actors
  BY MapTypes
<1>2. /\ pc[h] \notin Trying
      /\ \E to : to \notin Trying /\ pc' = [pc EXCEPT ![h] = to]
      /\ \A b \in Actors \ {h} : key'[b] = key[b] /\ draft'[b] = draft[b]
      /\ UNCHANGED <<good, lost>>
  <2>1. ASSUME NEW k \in Keys, NEW m \in Kinds, NEW s \in Settings, Begin(h, k, m, s)
        PROVE  <1>2!:
    BY <2>1 DEF Begin, Goto, Trying, TypeOK
  <2>2. ASSUME NEW k \in Keys, Confirm(h, k) PROVE <1>2!:
    BY <2>2 DEF Confirm, Goto, Trying, TypeOK
  <2>3. CASE Join(h) \/ TakeNone(h) \/ AlreadyReverted(h)
    BY <2>3 DEF Join, TakeNone, AlreadyReverted, Answer, Goto, Trying, TypeOK
  <2>4. CASE TakeGuard(h) \/ CancelTooLate(h)
    BY <2>4 DEF TakeGuard, CancelTooLate, Goto, Trying
  <2>. QED
    BY <2>1, <2>2, <2>3, <2>4 DEF Requests
<1>3. \A k \in Keys : OnTrial(k)' = OnTrial(k)
  BY <1>1, <1>2, Elsewhere
<1>. QED
  BY <1>2, <1>3, Stutters

(* The request that has filed its timer's guard is out of it: the timer    *)
(* stands for the change, or has abandoned it already.                     *)
LEMMA InsertImplements ==
    ASSUME TypeOK, Guarded, Mapped, Mapped', NEW h \in Handlers, InsertFirst(h) \/ InsertOver(h)
    PROVE  [Promise!Next]_(Promise!vars)
<1>. USE MapTypes DEF files, locals, holds, history
<1>1. pc[h] = "insert" /\ "insert" \in Trying /\ "idle" \notin Trying /\ "join" \notin Trying
  BY DEF InsertFirst, InsertOver, Answer, Goto, Trying
<1>2. PICK to \in {"idle", "join"} : pc' = [pc EXCEPT ![h] = to]
  <2>1. CASE InsertFirst(h)
    BY <2>1 DEF InsertFirst, Answer, Goto
  <2>2. CASE InsertOver(h)
    <3>1. \A b \in pending[key[h]] : pc[b] # "armed"
      BY <1>1 DEF Guarded, Filed
    <3>2. pc' = [b \in Actors |-> IF b = h THEN "join" ELSE pc[b]]
      BY <2>2, <3>1 DEF InsertOver
    <3>. QED
      BY <3>2 DEF TypeOK
  <2>. QED
    BY <2>1, <2>2
<1>3. /\ \A b \in Actors \ {h} : draft'[b] = draft[b]
      /\ UNCHANGED <<key, good, lost>>
  BY DEF InsertFirst, InsertOver, Answer, TypeOK
<1>. QED
  BY <1>1, <1>2, <1>3, Leaves

(* The hand-over to the timer, and back from it to the confirm.            *)
LEMMA HoldImplements ==
    ASSUME TypeOK, Guarded, Traced, Mapped, Mapped', NEW h \in Handlers, NEW t \in Timers,
           Arm(h, t) \/ CancelInTime(h, t)
    PROVE  UNCHANGED Promise!vars
<1>. USE DEF files, locals, holds, history
<1>1. PICK k \in Keys : k = key[h]
  BY MapTypes
<1>2. h \in Actors /\ t \in Actors /\ h # t
  BY MapTypes
<1>3. \A b \in Actors \ {h, t} : pc'[b] = pc[b] /\ key'[b] = key[b] /\ draft'[b] = draft[b]
  BY DEF Arm, CancelInTime, TypeOK
<1>4. UNCHANGED <<good, lost>>
  BY DEF Arm, CancelInTime
<1>5. /\ key'[h] = k /\ key'[t] = k
      /\ \E a \in Busy(k) : \E b \in Busy(k)' : draft'[b] = draft[a]
      /\ pc[t] = "off" \/ key[t] = k
  <2>1. CASE Arm(h, t)
    <3>1. pc[h] = "arm" /\ key'[h] = k /\ key'[t] = k /\ pc[t] = "off"
      BY <1>1, <1>2, <2>1 DEF Arm, TypeOK
    <3>2. pc'[h] = "insert" /\ draft'[h] = draft[h]
      BY <1>2, <2>1 DEF Arm, TypeOK
    <3>3. h \in Busy(k) /\ h \in Busy(k)'
      BY <1>1, <1>2, <3>1, <3>2 DEF Busy, Trying
    <3>. QED
      BY <3>1, <3>2, <3>3
  <2>2. CASE CancelInTime(h, t)
    <3>1. pc[t] = "armed" /\ key' = key /\ key[t] = k
      BY <1>1, <2>2 DEF CancelInTime, Guarded, Filed
    <3>2. pc'[h] = "accept" /\ draft'[h] = draft[t]
      BY <1>2, <2>2 DEF CancelInTime, TypeOK
    <3>3. t \in Busy(k) /\ h \in Busy(k)'
      BY <1>1, <1>2, <3>1, <3>2 DEF Busy, Trying
    <3>. QED
      BY <1>1, <3>1, <3>2, <3>3
  <2>. QED
    BY <2>1, <2>2
<1>6. OnTrial(k)' = OnTrial(k)
  <2>1. PICK a \in Busy(k), b \in Busy(k)' : draft'[b] = draft[a]
    BY <1>5
  <2>2. OnTrial(k) = {draft[a]}
    BY <2>1 DEF OnTrial, Mapped
  <2>3. OnTrial(k)' = {draft'[b]}
    BY <2>1 DEF OnTrial, Mapped
  <2>. QED
    BY <2>1, <2>2, <2>3
<1>7. ASSUME NEW j \in Keys, j # k PROVE OnTrial(j)' = OnTrial(j)
  <2>1. h \notin Busy(j) /\ t \notin Busy(j)
    BY <1>1, <1>5, <1>7 DEF Busy, Trying
  <2>2. h \notin Busy(j)' /\ t \notin Busy(j)'
    BY <1>5, <1>7 DEF Busy
  <2>3. Busy(j)' = Busy(j)
    BY <1>3, <2>1, <2>2 DEF Busy
  <2>4. \A b \in Busy(j) : draft'[b] = draft[b]
    BY <1>3, <2>1 DEF Busy
  <2>. QED
    BY <2>3, <2>4 DEF OnTrial
<1>. QED
  BY <1>4, <1>6, <1>7, Stutters

(* A service that ends is nothing to commit-confirm; the program's end     *)
(* cuts short what is on trial.                                            *)
LEMMA OutsideImplements ==
    ASSUME TypeOK, Mapped, Mapped', Exit \/ \E k \in Keys : ServiceExits(k)
    PROVE  [Promise!Next]_(Promise!vars)
<1>. USE DEF files, locals, holds, history
<1>1. ASSUME NEW k \in Keys, ServiceExits(k) PROVE UNCHANGED Promise!vars
  <2>1. UNCHANGED <<pc, key, draft, good, lost>>
    BY <1>1 DEF ServiceExits
  <2>2. \A j \in Keys : OnTrial(j)' = OnTrial(j)
    BY <2>1 DEF OnTrial, Busy
  <2>. QED
    BY <2>1, <2>2, Stutters
<1>2. CASE Exit
  <2>. DEFINE S == {k \in Keys : Busy(k) # {}}
  <2>1. \A a \in Actors : pc'[a] \notin Trying
    BY <1>2 DEF Exit, Trying
  <2>2. good' = good /\ lost' = [k \in Keys |-> lost[k] \/ k \in S]
    BY <1>2 DEF Exit
  <2>3. \A k \in Keys : OnTrial(k)' = {}
    BY <2>1 DEF OnTrial, Busy
  <2>4. \A k \in Keys : OnTrial(k) = {} <=> k \notin S
    BY DEF OnTrial
  <2>5. S \in SUBSET Keys
    OBVIOUS
  <2>. HIDE DEF S
  <2>. QED
    BY <2>2, <2>3, <2>4, <2>5, CutsShort
<1>. QED
  BY <1>1, <1>2

(* Every step is one of commit-confirm, or nothing to it.                  *)
LEMMA NextImplements ==
    Serial /\ TypeOK /\ Guarded /\ Traced /\ Mapped /\ Mapped' /\ [Next]_vars
        => [Promise!Next]_(Promise!vars)
<1>. SUFFICES ASSUME Serial, TypeOK, Guarded, Traced, Mapped, Mapped', [Next]_vars
              PROVE  [Promise!Next]_(Promise!vars)
  OBVIOUS
<1>1. ASSUME NEW h \in Handlers, Requests(h) \/ HandlerStep(h) PROVE [Promise!Next]_(Promise!vars)
  <2>. h \in Actors /\ ~RestoreFails(h)
    BY DEF Actors, Serial, RestoreFails
  <2>. QED
    BY <1>1, ApplyImplements, RevertImplements, CommitImplements, AsideImplements,
       InsertImplements, HoldImplements DEF HandlerStep
<1>2. ASSUME NEW t \in Timers, TimerStep(t) PROVE [Promise!Next]_(Promise!vars)
  <2>. t \in Actors /\ ~RestoreFails(t)
    BY DEF Actors, Serial, RestoreFails
  <2>. QED
    BY <1>2, RevertImplements DEF TimerStep
<1>3. CASE UNCHANGED vars
  <2>1. UNCHANGED <<pc, key, draft, good, lost>>
    BY <1>3 DEF vars, files, locals, holds, history
  <2>2. \A k \in Keys : OnTrial(k)' = OnTrial(k)
    BY <2>1 DEF OnTrial, Busy
  <2>. QED
    BY <2>1, <2>2, Stutters
<1>. QED
  BY <1>1, <1>2, <1>3, OutsideImplements DEF Next

(* While the administrators make one change of an area at a time and no    *)
(* restore fails, files, services, requests and timers implement           *)
(* commit-confirm: a change of the configuration is tried, and then        *)
(* committed, abandoned without a trace or cut short, and whatever happens *)
(* the committed one can be read off the file and its .bak.                *)
THEOREM HoldsImplementCommitConfirm == ASSUME Serial PROVE Spec => ImplementsCommitConfirm
<1>. DEFINE Inv == TypeOK /\ Guarded /\ Traced /\ Mapped
<1>1. Init => Inv
  BY InitTypes, InitSerial, InitTraces, AllMapped
<1>2. Init /\ Inv => Promise!Init
  <2>. SUFFICES ASSUME Init, TypeOK, Mapped PROVE Promise!Init
    OBVIOUS
  <2>1. \A k \in Keys : Committed(k) \in Config
    BY DEF Mapped, TypeOK
  <2>2. \A k \in Keys : Busy(k) = {}
    BY DEF Init, Busy, Trying
  <2>. QED
    BY <2>1, <2>2 DEF Init, Committed, Promise!Init
<1>3. Inv /\ Inv' /\ [Next]_vars => [Promise!Next]_(Promise!vars)
  BY NextImplements
<1>4. TypeOK /\ Guarded /\ Traced => Mapped
  BY AllMapped
<1>. QED
  BY <1>1, <1>2, <1>3, <1>4, AlwaysTraced, PTL DEF Spec, ImplementsCommitConfirm, Promise!Spec
=============================================================================
