------------------------------ MODULE SafeEdit ------------------------------
(***************************************************************************)
(* Safe edits of hostapd.conf and nanodhcp.conf: apply_wifi (wifi.rs) and  *)
(* apply_dhcp (nanodhcp.rs), which have the same steps, with backup and    *)
(* restore_backup (file.rs), revert and discard_backup (safety.rs), and    *)
(* arm_revert, confirm_pending and the POST handlers of tinywifi-web's     *)
(* api.rs around them.                                                     *)
(*                                                                         *)
(* A handler is a request on a worker thread of the multi-threaded         *)
(* runtime: it blocks in place, so requests interleave at every file       *)
(* operation, restart and lock.  A timer is an AutoRevert as module        *)
(* OneShot specifies it.  The only lock is the one of the map `pending`.   *)
(***************************************************************************)
EXTENDS Integers, FiniteSets

CONSTANTS
    Keys,                \* the edited areas: "wifi", "dhcp"
    Handlers,            \* the requests that may be in progress at once
    Timers,              \* the auto-reverts that may be armed
    Settings,            \* the values an edit may ask for
    GoodSettings,        \* those on which the service starts and stays up
    InitSettings,        \* the value the system starts with
    Kinds,               \* the edits they make: "now" (no hold), "hold"
    MaxEdits,            \* bound: edits over a behaviour
    OneAtATime,          \* the administrators' discipline, see Begin
    Faults               \* what may go wrong, of FaultKinds

FaultKinds == {"backup_io", "write_io", "refused", "restore_io", "exit"}

ASSUME ActorsAssumption == Handlers \cap Timers = {}
ASSUME SettingsAssumption ==
    /\ GoodSettings \subseteq Settings
    /\ InitSettings \in GoodSettings
ASSUME BoundsAssumption ==
    /\ Kinds \subseteq {"now", "hold"}
    /\ MaxEdits \in Nat
    /\ OneAtATime \in BOOLEAN
    /\ Faults \subseteq FaultKinds

VARIABLES
    conf,                \* conf[k]: the configuration file
    bak,                 \* bak[k]: its .bak sibling, {} when there is none
    svc,                 \* svc[k]: what the service runs on, {} when it is down
    pc,                  \* pc[a]: the next step of the handler or timer a
    key,                 \* key[a]: the area a works on
    kind,                \* kind[h]: Commit::Now or Commit::Hold
    draft,               \* draft[a]: the content a writes, or stands for
    copied,              \* copied[a]: what a copy in progress has opened
    guards,              \* guards[h]: the AutoRevert a handler has in hand
    pending,             \* pending[k]: the AutoRevert in AppState.pending
    plock,               \* the handlers that hold the lock of `pending`
    edits,               \* edits begun so far
    good,                \* history: good[k], the content last acknowledged
    lost,                \* history: lost[k], a change of k was cut short
    stale                \* history: stale[k], see NotRelaunched

files == <<conf, bak, svc>>
locals == <<key, kind, draft, copied>>
holds == <<guards, pending, plock>>
history == <<good, lost, stale>>
vars == <<files, pc, locals, holds, edits, history>>

Actors == Handlers \cup Timers

\* A file is the edited settings ({} when the lines are missing) and whether
\* the lines the edit does not own are there.
Config == [set : SUBSET Settings, rest : BOOLEAN]
Empty == [set |-> {}, rest |-> FALSE]
Whole(c) == c.set # {} /\ c.rest
Merged(c, d) == [set |-> d.set, rest |-> c.rest]

\* hostapd or nanodhcp comes up, and stays up, on a complete file with good
\* settings.
Starts(c) == Whole(c) /\ c.set \subseteq GoodSettings

HandlerSteps == {"idle", "load", "backup", "backing", "write", "writing", "restart", "verify",
    "discard", "restore", "restoring", "rerestart", "arm", "insert", "join",
    "take", "cancel", "accept", "late"}
TimerSteps == {"off", "armed", "restore", "restoring", "rerestart", "clean",
    "cancelled", "over", "dead"}

TypeOK ==
    /\ conf \in [Keys -> Config]
    /\ bak \in [Keys -> SUBSET Config]
    /\ svc \in [Keys -> SUBSET Config]
    /\ pc \in [Actors -> HandlerSteps \cup TimerSteps]
    /\ \A h \in Handlers : pc[h] \in HandlerSteps
    /\ \A t \in Timers : pc[t] \in TimerSteps
    /\ key \in [Actors -> Keys]
    /\ kind \in [Handlers -> {"now", "hold"}]
    /\ draft \in [Actors -> Config]
    /\ copied \in [Actors -> Config]
    /\ guards \in [Handlers -> SUBSET Timers]
    /\ pending \in [Keys -> SUBSET Timers]
    /\ plock \subseteq Handlers
    /\ edits \in Nat
    /\ good \in [Keys -> Config]
    /\ lost \in [Keys -> BOOLEAN]
    /\ stale \in [Keys -> BOOLEAN]

InitConfig == [set |-> {InitSettings}, rest |-> TRUE]

Init ==
    /\ conf = [k \in Keys |-> InitConfig]
    /\ bak = [k \in Keys |-> {}]
    /\ svc = [k \in Keys |-> {InitConfig}]
    /\ pc = [a \in Actors |-> IF a \in Handlers THEN "idle" ELSE "off"]
    /\ \E k \in Keys : key = [a \in Actors |-> k]
    /\ kind = [h \in Handlers |-> "now"]
    /\ draft = [a \in Actors |-> Empty]
    /\ copied = [a \in Actors |-> Empty]
    /\ guards = [h \in Handlers |-> {}]
    /\ pending = [k \in Keys |-> {}]
    /\ plock = {}
    /\ edits = 0
    /\ good = [k \in Keys |-> InitConfig]
    /\ lost = [k \in Keys |-> FALSE]
    /\ stale = [k \in Keys |-> FALSE]

-----------------------------------------------------------------------------
\* The steps at which a change of a's area is unresolved: begun, and neither
\* committed nor rolled back.
Trying == {"backup", "backing", "write", "writing", "restart", "verify", "discard",
    "restore", "restoring", "rerestart", "arm", "insert", "armed", "clean", "accept"}
Busy(k) == {a \in Actors : key[a] = k /\ pc[a] \in Trying}

\* Nobody works on k, no auto-revert of k may still run, and no earlier
\* change was cut short.
Quiet(k) ==
    /\ Busy(k) = {}
    /\ \A h \in Handlers : key[h] = k => pc[h] = "idle"
    /\ ~lost[k]

Goto(a, from, to) == pc[a] = from /\ pc' = [pc EXCEPT ![a] = to]

\* The request is answered: its locals go away.
Answer(h, from) ==
    /\ Goto(h, from, "idle")
    /\ draft' = [draft EXCEPT ![h] = Empty]
    /\ copied' = [copied EXCEPT ![h] = Empty]
    /\ kind' = [kind EXCEPT ![h] = "now"]
    /\ UNCHANGED key

-----------------------------------------------------------------------------
(* apply_wifi and apply_dhcp.                                              *)

\* wifi_post or dhcp_post arrives.  With OneAtATime the administrators begin
\* no change of an area while another change of it is unresolved.
Begin(h, k, m, s) ==
    /\ edits < MaxEdits
    /\ OneAtATime => Quiet(k)
    /\ Goto(h, "idle", "load")
    /\ key' = [key EXCEPT ![h] = k]
    /\ kind' = [kind EXCEPT ![h] = m]
    /\ draft' = [draft EXCEPT ![h] = [set |-> {s}, rest |-> TRUE]]
    /\ edits' = edits + 1
    /\ UNCHANGED <<files, copied, holds, history>>

\* The file does not load, the settings do not validate, the file is not
\* writable or the interface is missing: nothing was touched.
Refuse(h) ==
    /\ Answer(h, "load")
    /\ UNCHANGED <<files, holds, edits, history>>

\* A slip: the file is written without having been backed up.
LoadSkipsBackup(h) ==
    /\ Goto(h, "load", "write")
    /\ draft' = [draft EXCEPT ![h] = Merged(conf[key[h]], @)]
    /\ UNCHANGED <<files, key, kind, copied, holds, edits, history>>

\* The file is read and the new settings are merged into what it holds.
Load(h) ==
    /\ Goto(h, "load", "backup")
    /\ draft' = [draft EXCEPT ![h] = Merged(conf[key[h]], @)]
    /\ UNCHANGED <<files, key, kind, copied, holds, edits, history>>

\* backup: fs::copy opens the file and truncates the .bak ...
BackupOpen(h) ==
    /\ Goto(h, "backup", "backing")
    /\ copied' = [copied EXCEPT ![h] = conf[key[h]]]
    /\ bak' = [bak EXCEPT ![key[h]] = {Empty}]
    /\ UNCHANGED <<conf, svc, key, kind, draft, holds, edits, history>>

\* ... and then fills it, with what the file held or holds by now.
BackupFill(h) ==
    /\ Goto(h, "backing", "write")
    /\ \E c \in {copied[h], conf[key[h]]} : bak' = [bak EXCEPT ![key[h]] = {c}]
    /\ UNCHANGED <<conf, svc, locals, holds, edits, history>>

\* The backup fails: the edit is given up with an Io error.
BackupFails(h) ==
    /\ "backup_io" \in Faults
    /\ \E from \in {"backup", "backing"} : Answer(h, from)
    /\ UNCHANGED <<files, holds, edits, history>>

\* fs::write truncates the file ...
WriteOpen(h) ==
    /\ Goto(h, "write", "writing")
    /\ conf' = [conf EXCEPT ![key[h]] = Empty]
    /\ UNCHANGED <<bak, svc, locals, holds, edits, history>>

\* ... and then fills it.
WriteFill(h) ==
    /\ Goto(h, "writing", "restart")
    /\ conf' = [conf EXCEPT ![key[h]] = draft[h]]
    /\ UNCHANGED <<bak, svc, locals, holds, edits, history>>

\* The write fails, before or after the truncation: the `?` returns the Io
\* error, and nothing is put back.
WriteFails(h) ==
    /\ "write_io" \in Faults
    /\ \E from \in {"write", "writing"} :
        /\ Answer(h, from)
        /\ lost' = [lost EXCEPT ![key[h]] = @ \/ from = "writing"]
    /\ UNCHANGED <<files, holds, edits, good, stale>>

\* service_restart returns Ok: the process was launched on the file as it is.
\* On a file it cannot use it has ended already, or ends later (ServiceExits).
RestartOk(h) ==
    /\ Goto(h, "restart", "verify")
    /\ \E up \in {{conf[key[h]]}, {}} :
        /\ up = {} => ~Starts(conf[key[h]])
        /\ svc' = [svc EXCEPT ![key[h]] = up]
    /\ stale' = [stale EXCEPT ![key[h]] = FALSE]
    /\ UNCHANGED <<conf, bak, locals, holds, edits, good, lost>>

\* service_restart returns Err: the service was stopped and did not start.
RestartErr(h) ==
    /\ ~Starts(conf[key[h]])
    /\ Goto(h, "restart", "restore")
    /\ svc' = [svc EXCEPT ![key[h]] = {}]
    /\ UNCHANGED <<conf, bak, locals, holds, edits, history>>

\* service_restart returns Err whatever the file holds: the service cannot be
\* managed on this host, or its manager fails before or after stopping it.
Unmanaged(k) == \E left \in {svc[k], {}} : svc' = [svc EXCEPT ![k] = left]

RestartRefused(h) ==
    /\ "refused" \in Faults
    /\ Goto(h, "restart", "restore")
    /\ Unmanaged(key[h])
    /\ UNCHANGED <<conf, bak, locals, holds, edits, history>>

\* wait_until_running sees the service up, for the moment at least.
Verified(h) ==
    /\ svc[key[h]] # {}
    /\ Goto(h, "verify", IF kind[h] = "now" THEN "discard" ELSE "arm")
    /\ UNCHANGED <<files, locals, holds, edits, history>>

\* A slip: a service that did not come up is let through as a failure the
\* caller is told of, without the rollback.
NotVerifiedKeeps(h) ==
    /\ svc[key[h]] = {}
    /\ Answer(h, "verify")
    /\ UNCHANGED <<files, holds, edits, history>>

\* wait_until_running gives up after its five seconds.
NotVerified(h) ==
    /\ svc[key[h]] = {}
    /\ Goto(h, "verify", "restore")
    /\ UNCHANGED <<files, locals, holds, edits, history>>

\* Commit::Now: discard_backup, and the answer is Ok.
CommitNow(h) ==
    /\ Answer(h, "discard")
    /\ bak' = [bak EXCEPT ![key[h]] = {}]
    /\ good' = [good EXCEPT ![key[h]] = draft[h]]
    /\ UNCHANGED <<conf, svc, holds, edits, lost, stale>>

-----------------------------------------------------------------------------
(* revert, by a handler whose restart failed or by a timer that fired.     *)

\* restore_backup has no .bak to copy from, and its error is swallowed.
RestoreMissing(a) ==
    /\ bak[key[a]] = {}
    /\ Goto(a, "restore", "rerestart")
    /\ UNCHANGED <<files, locals, holds, edits, history>>

\* restore_backup: fs::copy opens the .bak and truncates the file ...
RestoreOpen(a) ==
    /\ Goto(a, "restore", "restoring")
    /\ \E c \in bak[key[a]] : copied' = [copied EXCEPT ![a] = c]
    /\ conf' = [conf EXCEPT ![key[a]] = Empty]
    /\ UNCHANGED <<bak, svc, key, kind, draft, holds, edits, history>>

\* ... and then fills it, with what the .bak held or holds by now.
RestoreFill(a) ==
    /\ Goto(a, "restoring", "rerestart")
    /\ \E c \in {copied[a]} \cup bak[key[a]] : conf' = [conf EXCEPT ![key[a]] = c]
    /\ UNCHANGED <<bak, svc, locals, holds, edits, history>>

\* The copy fails, before or after the truncation; the error is swallowed.
RestoreFails(a) ==
    /\ "restore_io" \in Faults
    /\ \E from \in {"restore", "restoring"} : Goto(a, from, "rerestart")
    /\ UNCHANGED <<files, locals, holds, edits, history>>

\* service_restart, its result ignored: the service is launched on the file ...
Relaunched(k) ==
    /\ \E up \in {{conf[k]}, {}} :
        /\ up = {} => ~Starts(conf[k])
        /\ svc' = [svc EXCEPT ![k] = up]
    /\ stale' = [stale EXCEPT ![k] = FALSE]

\* ... or it is not, and what it had before the rollback goes on, or nothing:
\* unless that is the file's content, k is stale until a restart is carried out.
NotRelaunched(k) ==
    /\ "refused" \in Faults
    /\ Unmanaged(k)
    /\ stale' = [stale EXCEPT ![k] = svc'[k] # {conf[k]}]

Relaunch(k) == Relaunched(k) \/ NotRelaunched(k)

\* A handler that has rolled back answers RolledBack or Service.
RolledBack(h) ==
    /\ Answer(h, "rerestart")
    /\ Relaunch(key[h])
    /\ UNCHANGED <<conf, bak, holds, edits, good, lost>>

\* A slip: the result is unwrapped, and a restart that fails ends the thread.
TimerRestartsUnwrapped(t) ==
    /\ Starts(conf[key[t]])
    /\ Goto(t, "rerestart", "clean")
    /\ Relaunched(key[t])
    /\ UNCHANGED <<conf, bak, locals, holds, edits, good, lost>>

TimerRestarts(t) ==
    /\ Goto(t, "rerestart", "clean")
    /\ Relaunch(key[t])
    /\ UNCHANGED <<conf, bak, locals, holds, edits, good, lost>>

-----------------------------------------------------------------------------
(* arm_revert and its timer.                                               *)

\* AutoRevert::arm: the timer runs from here on, before anybody can find it.
Arm(h, t) ==
    /\ pc[h] = "arm"
    /\ pc[t] = "off"
    /\ pc' = [pc EXCEPT ![h] = "insert", ![t] = "armed"]
    /\ key' = [key EXCEPT ![t] = key[h]]
    /\ draft' = [draft EXCEPT ![t] = draft[h]]
    /\ guards' = [guards EXCEPT ![h] = {t}]
    /\ UNCHANGED <<files, kind, copied, pending, plock, edits, history>>

\* pending.insert with no guard to replace; the answer is "pending".
InsertFirst(h) ==
    /\ plock = {}
    /\ pending[key[h]] = {}
    /\ Answer(h, "insert")
    /\ pending' = [pending EXCEPT ![key[h]] = guards[h]]
    /\ guards' = [guards EXCEPT ![h] = {}]
    /\ UNCHANGED <<files, plock, edits, history>>

\* A slip: the replaced guard is forgotten rather than dropped.
InsertOverForgets(h) ==
    /\ plock = {}
    /\ pending[key[h]] # {}
    /\ Answer(h, "insert")
    /\ pending' = [pending EXCEPT ![key[h]] = guards[h]]
    /\ guards' = [guards EXCEPT ![h] = {}]
    /\ UNCHANGED <<files, plock, edits, history>>

\* pending.insert hands back the guard it replaces, and that one is dropped
\* with the lock still held: its timer is cancelled if it has not fired.
InsertOver(h) ==
    /\ plock = {}
    /\ pending[key[h]] # {}
    /\ pc[h] = "insert"
    /\ pc' = [a \in Actors |->
                IF a = h THEN "join"
                ELSE IF a \in pending[key[h]] /\ pc[a] = "armed" THEN "cancelled" ELSE pc[a]]
    /\ pending' = [pending EXCEPT ![key[h]] = guards[h]]
    /\ guards' = [guards EXCEPT ![h] = pending[key[h]]]
    /\ plock' = {h}
    /\ UNCHANGED <<files, locals, edits, history>>

\* The drop has joined the replaced timer's thread; the answer is "pending".
Join(h) ==
    /\ \A t \in guards[h] : pc[t] \in {"cancelled", "over"}
    /\ Answer(h, "join")
    /\ guards' = [guards EXCEPT ![h] = {}]
    /\ plock' = {}
    /\ UNCHANGED <<files, pending, edits, history>>

TimerFires(t) ==
    /\ Goto(t, "armed", "restore")
    /\ UNCHANGED <<files, locals, holds, edits, history>>

\* A slip: the timer takes the lock of `pending` to remove itself from it.
TimerDiscardsLocked(t) ==
    /\ plock = {}
    /\ Goto(t, "clean", "over")
    /\ bak' = [bak EXCEPT ![key[t]] = {}]
    /\ pending' = [pending EXCEPT ![key[t]] = @ \ {t}]
    /\ UNCHANGED <<conf, svc, locals, guards, plock, edits, history>>

\* A slip: the timer takes that lock and ends without giving it back.
TimerDiscardsHolding(t) ==
    /\ plock = {}
    /\ Goto(t, "clean", "over")
    /\ bak' = [bak EXCEPT ![key[t]] = {}]
    /\ plock' = {t}
    /\ UNCHANGED <<conf, svc, locals, guards, pending, edits, history>>

\* discard_backup ends the timer's action, whatever became of the restore.
TimerDiscards(t) ==
    /\ Goto(t, "clean", "over")
    /\ bak' = [bak EXCEPT ![key[t]] = {}]
    /\ UNCHANGED <<conf, svc, locals, holds, edits, history>>

-----------------------------------------------------------------------------
(* confirm_pending.                                                        *)

\* wifi_confirm or dhcp_confirm arrives.
Confirm(h, k) ==
    /\ Goto(h, "idle", "take")
    /\ key' = [key EXCEPT ![h] = k]
    /\ UNCHANGED <<files, kind, draft, copied, holds, edits, history>>

\* The map has no guard: "no_pending".
TakeNone(h) ==
    /\ plock = {}
    /\ pending[key[h]] = {}
    /\ Answer(h, "take")
    /\ UNCHANGED <<files, holds, edits, history>>

TakeGuard(h) ==
    /\ plock = {}
    /\ pending[key[h]] # {}
    /\ Goto(h, "take", "cancel")
    /\ guards' = [guards EXCEPT ![h] = pending[key[h]]]
    /\ pending' = [pending EXCEPT ![key[h]] = {}]
    /\ UNCHANGED <<files, locals, plock, edits, history>>

\* A slip: the answer is taken from the map, the timer is left running.
CancelInTimeForgets(h, t) ==
    /\ t \in guards[h]
    /\ pc[t] = "armed"
    /\ Goto(h, "cancel", "accept")
    /\ draft' = [draft EXCEPT ![h] = draft[t]]
    /\ UNCHANGED <<files, key, kind, copied, holds, edits, history>>

\* AutoRevert::confirm returns true.
CancelInTime(h, t) ==
    /\ t \in guards[h]
    /\ pc[h] = "cancel"
    /\ pc[t] = "armed"
    /\ pc' = [pc EXCEPT ![h] = "accept", ![t] = "cancelled"]
    /\ draft' = [draft EXCEPT ![h] = draft[t]]
    /\ UNCHANGED <<files, key, kind, copied, holds, edits, history>>

\* AutoRevert::confirm returns false.
CancelTooLate(h) ==
    /\ \A t \in guards[h] : pc[t] # "armed"
    /\ Goto(h, "cancel", "late")
    /\ UNCHANGED <<files, locals, holds, edits, history>>

\* discard_backup, and the answer is "confirmed".
Accept(h) ==
    /\ Answer(h, "accept")
    /\ bak' = [bak EXCEPT ![key[h]] = {}]
    /\ guards' = [guards EXCEPT ![h] = {}]
    /\ good' = [good EXCEPT ![key[h]] = draft[h]]
    /\ UNCHANGED <<conf, svc, pending, plock, edits, lost, stale>>

\* "already_reverted": the guard is dropped on the way out, which joins the
\* timer's thread, so the answer leaves when the rollback is over.
AlreadyReverted(h) ==
    /\ \A t \in guards[h] : pc[t] = "over"
    /\ Answer(h, "late")
    /\ guards' = [guards EXCEPT ![h] = {}]
    /\ UNCHANGED <<files, pending, plock, edits, history>>

-----------------------------------------------------------------------------
(* The environment.                                                        *)

\* A process launched on a configuration it cannot use ends by itself.
ServiceExits(k) ==
    /\ \E c \in svc[k] : ~Starts(c)
    /\ svc' = [svc EXCEPT ![k] = {}]
    /\ UNCHANGED <<conf, bak, pc, locals, holds, edits, history>>

\* tinywifi-web ends (restarted through its own API, upgraded, out of power)
\* and comes back: requests, timers and the map are gone, files are not, and
\* main does nothing about a .bak it finds.
Exit ==
    /\ "exit" \in Faults
    /\ \E a \in Actors : pc[a] \notin {"idle", "off", "dead"}
    /\ pc' = [a \in Actors |-> IF a \in Handlers THEN "idle"
                               ELSE IF pc[a] = "off" THEN "off" ELSE "dead"]
    /\ kind' = [h \in Handlers |-> "now"]
    /\ draft' = [a \in Actors |-> Empty]
    /\ copied' = [a \in Actors |-> Empty]
    /\ guards' = [h \in Handlers |-> {}]
    /\ pending' = [k \in Keys |-> {}]
    /\ plock' = {}
    /\ lost' = [k \in Keys |-> lost[k] \/ Busy(k) # {}]
    /\ UNCHANGED <<files, key, edits, good, stale>>

-----------------------------------------------------------------------------
HandlerStep(h) ==
    \/ Refuse(h) \/ Load(h) \/ BackupOpen(h) \/ BackupFill(h) \/ BackupFails(h)
    \/ WriteOpen(h) \/ WriteFill(h) \/ WriteFails(h)
    \/ RestartOk(h) \/ RestartErr(h) \/ RestartRefused(h)
    \/ Verified(h) \/ NotVerified(h) \/ CommitNow(h)
    \/ RestoreMissing(h) \/ RestoreOpen(h) \/ RestoreFill(h) \/ RestoreFails(h) \/ RolledBack(h)
    \/ InsertFirst(h) \/ InsertOver(h) \/ Join(h)
    \/ TakeNone(h) \/ TakeGuard(h) \/ CancelTooLate(h) \/ Accept(h) \/ AlreadyReverted(h)
    \/ \E t \in Timers : Arm(h, t) \/ CancelInTime(h, t)

TimerStep(t) ==
    \/ TimerFires(t) \/ RestoreMissing(t) \/ RestoreOpen(t) \/ RestoreFill(t) \/ RestoreFails(t)
    \/ TimerRestarts(t) \/ TimerDiscards(t)

Requests(h) == \E k \in Keys :
    \/ Confirm(h, k)
    \/ \E m \in Kinds, s \in Settings : Begin(h, k, m, s)

Next ==
    \/ \E h \in Handlers : Requests(h) \/ HandlerStep(h)
    \/ \E t \in Timers : TimerStep(t)
    \/ \E k \in Keys : ServiceExits(k)
    \/ Exit

(* Threads run, timeouts pass and child processes end.  The fairness of a  *)
(* request is strong for the sake of its two steps that take the lock of   *)
(* `pending`: parking_lot hands a contended mutex over fairly at least     *)
(* every half millisecond, so a thread that waits for it gets it.  At any  *)
(* other step of a request nobody can disable it again, and weak fairness  *)
(* would do.  No request has to come, and no process has to die.           *)
Fairness ==
    /\ \A h \in Handlers : SF_vars(HandlerStep(h))
    /\ \A t \in Timers : WF_vars(TimerStep(t))

Spec == Init /\ [][Next]_vars

FairSpec == Spec /\ Fairness

-----------------------------------------------------------------------------
(* Under OneAtATime.                                                       *)

(* The configuration acknowledged last is never lost: at every step of an  *)
(* edit, a rollback, a confirm or a timer, and wherever a crash or a disk  *)
(* error of the backup or the write cuts in, the file or its .bak holds it.*)
BaselineKept == \A k \in Keys : conf[k] = good[k] \/ bak[k] = {good[k]}

(* When nothing is unresolved, the acknowledged configuration is the one   *)
(* on disk: a refused, failed, rolled back or timed out change leaves no   *)
(* trace, a confirmed one is not undone.  It is also the one the service   *)
(* runs on, unless the restart of a rollback failed and no restart has     *)
(* been carried out since: revert ("failures here are not recoverable by   *)
(* the caller, so they are swallowed", safety.rs) leaves it so.            *)
SettledInForce == \A k \in Keys :
    Busy(k) = {} /\ ~lost[k] =>
        /\ conf[k] = good[k]
        /\ stale[k] \/ (svc[k] \subseteq {good[k]} /\ (Starts(good[k]) => svc[k] # {}))

(* An administrator who walks away, or is cut off by the change itself,    *)
(* comes back to a settled configuration: unless the program dies, a hold  *)
(* is confirmed or rolled back to the end, whatever fails on the way.      *)
HoldSettles == \A t \in Timers :
    pc[t] = "armed" ~> pc[t] = "dead" \/ Busy(key[t]) = {}

(* The change on trial is the one its handler or its timer stands for, and *)
(* the committed configuration is read off the two files.                  *)
Kept(k) == {c \in bak[k] : Whole(c)}

Promise == INSTANCE CommitConfirm WITH
    Configs <- Config,
    base <- [k \in Keys |-> IF Kept(k) = {} THEN conf[k] ELSE CHOOSE c \in Kept(k) : TRUE],
    trial <- [k \in Keys |-> {draft[a] : a \in Busy(k)}],
    damaged <- lost

(* Files, services and timers implement commit-confirm.                    *)
ImplementsCommitConfirm == Promise!Spec

-----------------------------------------------------------------------------
(* Whatever the administrators do.                                         *)

(* A timer that may still fire can be cancelled: it is the one in the map, *)
(* or in the hands of the one request that is inserting or confirming it   *)
(* ("arming a new change for a key replaces (and cancels) the previous     *)
(* pending one", state.rs).                                                *)
ArmedIsReachable == \A t \in Timers : pc[t] = "armed" =>
    \/ pending[key[t]] = {t}
    \/ \E h \in Handlers : guards[h] = {t} /\ key[h] = key[t] /\ pc[h] \in {"insert", "cancel"}

(* The wait for a timer's thread with the lock of `pending` held does not  *)
(* block the program: every request is answered.                           *)
EveryRequestAnswered == \A h \in Handlers : pc[h] # "idle" ~> pc[h] = "idle"


-----------------------------------------------------------------------------
(* Said of the program, and not so.                                        *)

(* README, "Safe edits": "if no `POST /api/wifi/confirm` arrives within    *)
(* `hold` seconds, the config is restored from its `.bak` and the service  *)
(* is restarted on the old settings."  When a timer has restored and       *)
(* restarted, the file is the one acknowledged last.                       *)
RevertRestoresAcknowledged == \A t \in Timers :
    pc[t] = "clean" => conf[key[t]] = good[key[t]]

(* apply_dhcp: "On failure the backup is restored and nanodhcp restarted   *)
(* on the old config before returning an error."  With no request and no   *)
(* timer at work, the file is the acknowledged one.                        *)
FailureRestores == \A k \in Keys :
    (\A a \in Actors : pc[a] \in {"idle", "off", "cancelled", "over"}) => conf[k] = good[k]
=============================================================================
