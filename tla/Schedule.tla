------------------------------ MODULE Schedule ------------------------------
(***************************************************************************)
(* The internet schedule: schedule.rs of tinywifi-core, the three POST     *)
(* handlers of api.rs and the startup pass and one-minute ticker of        *)
(* tinywifi-web's main.rs.                                                 *)
(*                                                                         *)
(* No lock is taken anywhere: the ticker and the handlers share two files  *)
(* and the nftables chain `schedule`, and interleave at every file         *)
(* operation and every run of `date` or `nft`.  Minutes are the model's    *)
(* unit of time, the ticker's period and the resolution of a window.       *)
(***************************************************************************)
EXTENDS Integers

CONSTANTS
    Handlers,            \* the requests that may be in progress at once
    Ticker,              \* the ticker task; main's startup pass is its first
    Week,                \* days in a week
    Day,                 \* minutes in a day
    Schedules,           \* the schedules an administrator may save
    Faults,              \* what may go wrong, of FaultKinds
    MaxEvents            \* bound: requests, faults and stops over a behaviour

Weekdays == 0..(Week - 1)
Minutes == 0..(Day - 1)
DayWindow == [active : BOOLEAN, from : Minutes, to : Minutes]
AnySchedule == [enabled : BOOLEAN, days : [Weekdays -> DayWindow]]
FaultKinds == {"write", "clock", "list", "nft", "stop", "reboot"}

ASSUME ClockAssumption == Week \in Nat \ {0} /\ Day \in Nat \ {0}
ASSUME TickerAssumption == Ticker \notin Handlers
ASSUME SchedulesAssumption == Schedules \subseteq AnySchedule
ASSUME EventsAssumption == Faults \subseteq FaultKinds /\ MaxEvents \in Nat

\* Schedule::default.  The times of a day that is not active play no part.
Default ==
    [enabled |-> FALSE, days |-> [d \in Weekdays |-> [active |-> FALSE, from |-> 0, to |-> 0]]]

VARIABLES
    file,                \* the schedule in schedule.json, {} if none can be parsed
    over,                \* the block the override file forces, {} if none
    blocked,             \* the chain `schedule` holds a drop rule
    today, minute,       \* the local time
    due,                 \* the ticker's interval has elapsed in this minute
    serving,             \* main is past the startup pass
    pc,                  \* pc[a]: the next step of the ticker or handler a
    plan,                \* plan[a]: the schedule a saves or applies
    want,                \* want[a]: the block a is to bring about
    events,              \* requests, faults and stops so far
    since                \* history: what ran last, and whether it ran alone

disk == <<file, over>>
clock == <<today, minute, due>>
vars == <<disk, blocked, clock, serving, pc, plan, want, events, since>>

Actors == Handlers \cup {Ticker}

Steps == {"idle", "open", "fill", "forget", "clock", "override", "clear", "compare",
    "mark", "marking", "force", "nft"}

TypeOK ==
    /\ file \in SUBSET AnySchedule
    /\ over \in SUBSET BOOLEAN
    /\ blocked \in BOOLEAN
    /\ today \in Weekdays
    /\ minute \in Minutes
    /\ due \in BOOLEAN
    /\ serving \in BOOLEAN
    /\ pc \in [Actors -> Steps]
    /\ plan \in [Actors -> AnySchedule]
    /\ want \in [Actors -> BOOLEAN]
    /\ events \in Nat
    /\ since \in {"pass", "request", "unsure"}

-----------------------------------------------------------------------------
\* The slip of a window closed at both ends.
ShouldBlockAtClosed(s, d, m) ==
    LET w == s.days[d]
    IN  /\ s.enabled
        /\ w.active
        /\ \/ w.from = w.to
           \/ w.from < w.to /\ ~(w.from <= m /\ m <= w.to)
           \/ w.from > w.to /\ w.to <= m /\ m < w.from

\* Schedule::should_block_at.
ShouldBlockAt(s, d, m) ==
    LET w == s.days[d]
    IN  /\ s.enabled
        /\ w.active
        /\ \/ w.from = w.to
           \/ w.from < w.to /\ ~(w.from <= m /\ m < w.to)
           \/ w.from > w.to /\ w.to <= m /\ m < w.from

\* Schedule::load: a file that is missing, cut short or garbled is the default.
Load == IF file = {} THEN Default ELSE CHOOSE s \in file : TRUE

\* What a non-empty override file forces (get_override).
Forced == CHOOSE block \in over : TRUE

Idle(a) == pc[a] = "idle"
Alone(a) == \A b \in Actors \ {a} : Idle(b)
Go(a, from, to) == pc[a] = from /\ pc' = [pc EXCEPT ![a] = to]

\* History: a pass or request begins (alone, or over another's), or something fails.
Begins(a, what) == since' = IF Alone(a) THEN what ELSE "unsure"
Event == events < MaxEvents /\ events' = events + 1
Fails(fault) == fault \in Faults /\ Event /\ since' = "unsure"
AsBefore == UNCHANGED <<events, since>>

Init ==
    /\ \E s \in Schedules : file \in {{}, {s}}
    /\ over = {}
    /\ blocked = FALSE
    /\ today \in Weekdays /\ minute \in Minutes
    /\ due = FALSE
    /\ serving = FALSE
    /\ pc = [a \in Actors |-> IF a = Ticker THEN "clock" ELSE "idle"]
    /\ plan = [a \in Actors |-> IF a = Ticker THEN Load ELSE Default]
    /\ want = [a \in Actors |-> FALSE]
    /\ events = 0
    /\ since = "pass"

-----------------------------------------------------------------------------
(***************************************************************************)
(* apply_schedule, as run by the ticker and by schedule_post.              *)
(***************************************************************************)
\* A return to the caller, with the locals gone; after the startup pass main serves.
Done(a, from) ==
    /\ Go(a, from, "idle")
    /\ serving' = (serving \/ a = Ticker)
    /\ plan' = [plan EXCEPT ![a] = Default]
    /\ want' = [want EXCEPT ![a] = FALSE]
To(a, from, to) == Go(a, from, to) /\ UNCHANGED serving

ReadClock(a) ==
    /\ To(a, "clock", "override")
    /\ want' = [want EXCEPT ![a] = ShouldBlockAt(plan[a], today, minute)]
    /\ AsBefore
    /\ UNCHANGED <<disk, blocked, clock, plan>>

\* should_block_now without a clock fails open.
NoClock(a) ==
    /\ To(a, "clock", "override")
    /\ want' = [want EXCEPT ![a] = FALSE]
    /\ Fails("clock")
    /\ UNCHANGED <<disk, blocked, clock, plan>>

\* The slip of an override that is obeyed and never consumed.
ReadOverrideKeeps(a) ==
    /\ To(a, "override", "compare")
    /\ want' = [want EXCEPT ![a] = IF over = {} THEN @ ELSE Forced]
    /\ AsBefore
    /\ UNCHANGED <<disk, blocked, clock, plan>>

\* The slip of a schedule that wins over the override.
ReadOverrideYields(a) ==
    /\ To(a, "override", IF over = {want[a]} THEN "clear" ELSE "compare")
    /\ AsBefore
    /\ UNCHANGED <<disk, blocked, clock, plan, want>>

ReadOverride(a) ==
    /\ To(a, "override", IF over = {want[a]} THEN "clear" ELSE "compare")
    /\ want' = [want EXCEPT ![a] = IF over = {} THEN @ ELSE Forced]
    /\ AsBefore
    /\ UNCHANGED <<disk, blocked, clock, plan>>

ClearOverride(a) ==
    /\ To(a, "clear", "compare")
    /\ over' = {}
    /\ AsBefore
    /\ UNCHANGED <<file, blocked, clock, plan, want>>

\* is_inet_blocked, asked at `from`: on to `nft` when the answer is not wanted.
Ask(a, from, onward, answer) ==
    /\ \/ answer = want[a] /\ Done(a, from)
       \/ answer # want[a] /\ To(a, from, onward) /\ UNCHANGED <<plan, want>>
    /\ UNCHANGED <<disk, blocked, clock>>

Compare(a) == Ask(a, "compare", "force", blocked) /\ AsBefore

\* The check inet_block and inet_unblock repeat.
Recheck(a) == Ask(a, "force", "nft", blocked) /\ AsBefore

\* `nft list` fails, which is_inet_blocked reports as "not blocked".
NoAnswer(a) ==
    /\ Ask(a, "compare", "force", FALSE) \/ Ask(a, "force", "nft", FALSE)
    /\ Fails("list")

\* `nft add rule` or `nft flush chain`: a second drop rule goes with the first.
Nft(a) ==
    /\ Done(a, "nft")
    /\ blocked' = want[a]
    /\ AsBefore
    /\ UNCHANGED <<disk, clock>>

NftFails(a) ==
    /\ Done(a, "nft")
    /\ Fails("nft")
    /\ UNCHANGED <<disk, blocked, clock>>

-----------------------------------------------------------------------------
(***************************************************************************)
(* schedule_post: save, clear_override, apply_schedule.                    *)
(***************************************************************************)
SaveRequest(h) ==
    /\ serving
    /\ To(h, "idle", "open")
    /\ \E s \in Schedules : plan' = [plan EXCEPT ![h] = s]
    /\ Event
    /\ Begins(h, "request")
    /\ UNCHANGED <<disk, blocked, clock, want>>

\* fs::write opens, which truncates, and then writes.
SaveOpen(h) ==
    /\ To(h, "open", "fill")
    /\ file' = {}
    /\ AsBefore
    /\ UNCHANGED <<over, blocked, clock, plan, want>>

\* Text written over another request's may leave the tail of it behind.
SaveFill(h) ==
    /\ To(h, "fill", "forget")
    /\ \/ file' = {plan[h]}
       \/ file # {} /\ file' = {}
    /\ AsBefore
    /\ UNCHANGED <<over, blocked, clock, plan, want>>

SaveForgets(h) ==
    /\ To(h, "forget", "clock")
    /\ over' = {}
    /\ AsBefore
    /\ UNCHANGED <<file, blocked, clock, plan, want>>

(***************************************************************************)
(* schedule_block_post and schedule_unblock_post: set_override, and then   *)
(* inet_block or inet_unblock.                                             *)
(***************************************************************************)
BlockRequest(h) ==
    /\ serving
    /\ To(h, "idle", "mark")
    /\ \E block \in BOOLEAN : want' = [want EXCEPT ![h] = block]
    /\ Event
    /\ Begins(h, "request")
    /\ UNCHANGED <<disk, blocked, clock, plan>>

OverrideOpen(h) ==
    /\ To(h, "mark", "marking")
    /\ over' = {}
    /\ AsBefore
    /\ UNCHANGED <<file, blocked, clock, plan, want>>

OverrideFill(h) ==
    /\ To(h, "marking", "force")
    /\ over' = {want[h]}
    /\ AsBefore
    /\ UNCHANGED <<file, blocked, clock, plan, want>>

\* A write that fails ends either kind of request; a truncated file stays so.
WriteFails(h) ==
    /\ \E step \in {"open", "fill", "mark", "marking"} : Done(h, step)
    /\ Fails("write")
    /\ UNCHANGED <<disk, blocked, clock>>

-----------------------------------------------------------------------------
(***************************************************************************)
(* The ticker, the clock and the end of the process.                       *)
(***************************************************************************)
\* The slip of a ticker that loads the schedule once, before its loop.
TickLoadsOnce ==
    /\ due
    /\ To(Ticker, "idle", "clock")
    /\ due' = FALSE
    /\ Begins(Ticker, "pass")
    /\ UNCHANGED <<disk, blocked, today, minute, plan, want, events>>

Tick ==
    /\ due
    /\ To(Ticker, "idle", "clock")
    /\ due' = FALSE
    /\ plan' = [plan EXCEPT ![Ticker] = Load]
    /\ Begins(Ticker, "pass")
    /\ UNCHANGED <<disk, blocked, today, minute, want, events>>

\* The slip of a day that has a minute too many.
AdvanceLate ==
    /\ ~due /\ Idle(Ticker)
    /\ due' = TRUE
    /\ minute' = IF minute > Day - 1 THEN 0 ELSE minute + 1
    /\ today' = IF minute > Day - 1 THEN (today + 1) % Week ELSE today
    /\ UNCHANGED <<disk, blocked, serving, pc, plan, want, events, since>>

\* The next minute, by the end of which the ticker has had its turn.
Advance ==
    /\ ~due /\ Idle(Ticker)
    /\ due' = TRUE
    /\ minute' = IF minute = Day - 1 THEN 0 ELSE minute + 1
    /\ today' = IF minute = Day - 1 THEN (today + 1) % Week ELSE today
    /\ UNCHANGED <<disk, blocked, serving, pc, plan, want, events, since>>

\* The process ends and starts again, some time later.  A reboot also empties
\* /tmp and reloads the nftables configuration, whose chain is empty.
Restart(fault) ==
    /\ fault \in Faults \cap {"stop", "reboot"}
    /\ Event
    /\ over' = IF fault = "reboot" THEN {} ELSE over
    /\ blocked' = (fault # "reboot" /\ blocked)
    /\ today' \in Weekdays /\ minute' \in Minutes
    /\ due' = FALSE
    /\ serving' = FALSE
    /\ pc' = [a \in Actors |-> IF a = Ticker THEN "clock" ELSE "idle"]
    /\ plan' = [a \in Actors |-> IF a = Ticker THEN Load ELSE Default]
    /\ want' = [a \in Actors |-> FALSE]
    /\ since' = "pass"
    /\ UNCHANGED file

-----------------------------------------------------------------------------
Apply(a) == ReadClock(a) \/ ReadOverride(a) \/ ClearOverride(a) \/ Compare(a) \/ Recheck(a) \/ Nft(a)
Save(h) == SaveOpen(h) \/ SaveFill(h) \/ SaveForgets(h)
SetOverride(h) == OverrideOpen(h) \/ OverrideFill(h)
Fault(a) == NoClock(a) \/ NoAnswer(a) \/ NftFails(a)

Next ==
    \/ \E a \in Actors : Apply(a) \/ Fault(a)
    \/ \E h \in Handlers : \/ SaveRequest(h) \/ BlockRequest(h)
                           \/ Save(h) \/ SetOverride(h) \/ WriteFails(h)
    \/ Tick
    \/ Advance
    \/ \E fault \in Faults : Restart(fault)

\* Work begun goes on, the interval fires and time passes; nobody need ask,
\* nothing need fail.
Fairness ==
    /\ \A a \in Actors : WF_vars(Apply(a))
    /\ \A h \in Handlers : WF_vars(Save(h) \/ SetOverride(h))
    /\ WF_vars(Tick)
    /\ WF_vars(Advance)

Spec == Init /\ [][Next]_vars
FairSpec == Spec /\ Fairness

-----------------------------------------------------------------------------
(***************************************************************************)
(* Correctness.                                                            *)
(***************************************************************************)
Scheduled == ShouldBlockAt(Load, today, minute)
Wanted == IF over = {} THEN Scheduled ELSE Forced
InForce == blocked = Wanted

\* Between a pass of the ticker and the next minute, with no request running.
Settled == ~due /\ \A a \in Actors : Idle(a)

(***************************************************************************)
(* When everything is at rest, and what ran last ran alone and met no      *)
(* fault, the chain is what the override file, or else the schedule at     *)
(* this minute, asks for: however the files and the chain were left by     *)
(* failed, interrupted or overlapping work before it (apply_schedule and   *)
(* the handlers; the chain is derived state and is never trusted).         *)
(***************************************************************************)
Enforced == Settled /\ since # "unsure" => InForce

(***************************************************************************)
(* An override never outlives a pass at which the schedule agrees with it, *)
(* so that the next window boundary switches state as scheduled (doc of    *)
(* apply_schedule).                                                        *)
(***************************************************************************)
OverrideConsumed == Settled /\ since = "pass" => over # {Scheduled}

(***************************************************************************)
(* A day's window, told by a walk: the internet is on at a minute of an    *)
(* active day exactly when one starting at `from`, and going round the     *)
(* day's clock, comes to that minute before it comes to `to` (doc of       *)
(* DayWindow: on inside [from, to), overnight windows, an empty window     *)
(* blocks the day; checked for the schedule in force at every minute).     *)
(***************************************************************************)
Walk(from, to) == IF from <= to THEN to - from ELSE to - from + Day

OnInsideWindow ==
    LET w == Load.days[today]
        on == Walk(w.from, minute) < Walk(w.from, w.to)
    IN  Load.enabled /\ w.active => (Scheduled <=> ~on)

(***************************************************************************)
(* Whatever requests overlapped, failed or were cut short by a restart,    *)
(* the ticker repairs it: the system comes to rest in every minute, and    *)
(* from some time on it is at rest only with the right chain.              *)
(***************************************************************************)
Converges == []<>Settled /\ <>[](Settled => InForce)

(***************************************************************************)
(* The doc of set_override: an override holds until the schedule wants the *)
(* same state, the schedule is saved or the device reboots.  The steps of  *)
(* a request that sets another one are not counted.                        *)
(***************************************************************************)
OverrideHolds ==
    [][over # {} /\ over' = {} =>
         \/ over = {Scheduled}
         \/ \E h \in Handlers : SaveForgets(h) \/ OverrideOpen(h)
         \/ Restart("reboot")]_vars
=============================================================================
