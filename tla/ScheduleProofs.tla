--------------------------- MODULE ScheduleProofs ---------------------------
(***************************************************************************)
(* Proofs about module Schedule, for every number of requests, length of   *)
(* day and week, set of schedules and set of faults.                       *)
(***************************************************************************)
EXTENDS Schedule, TLAPS

\* The default schedule is a schedule.
LEMMA DefaultType == Default \in AnySchedule
  <1>1. Weekdays \subseteq Int /\ 0 \in Minutes
    BY ClockAssumption DEF Weekdays, Minutes
  <1>2. [active |-> FALSE, from |-> 0, to |-> 0] \in DayWindow
    BY <1>1 DEF DayWindow
  <1> QED
    BY <1>2 DEF Default, AnySchedule

\* Whatever the file holds, load returns a schedule: its own, if it has one.
LEMMA LoadType ==
    ASSUME file \in SUBSET AnySchedule
    PROVE  Load \in AnySchedule
  <1>1. CASE file = {}
    BY <1>1, DefaultType DEF Load
  <1>2. CASE file # {}
    <2>1. (CHOOSE s \in file : TRUE) \in file
      BY <1>2
    <2> QED
      BY <1>2, <2>1 DEF Load
  <1> QED
    BY <1>1, <1>2

\* A file that one request wrote is what load returns (Schedule::save and load).
LEMMA LoadOfSaved ==
    ASSUME NEW s, file = {s}
    PROVE  Load = s
  BY DEF Load

\* The decision is a Boolean (Schedule::should_block_at).
LEMMA DecisionType ==
    ASSUME NEW s, NEW d, NEW m
    PROVE  ShouldBlockAt(s, d, m) \in BOOLEAN
  BY DEF ShouldBlockAt

-----------------------------------------------------------------------------
(***************************************************************************)
(* Type correctness: TypeOK is inductive by itself.                        *)
(***************************************************************************)
LEMMA InitType == Init => TypeOK
  <1> SUFFICES ASSUME Init PROVE TypeOK
    OBVIOUS
  <1>1. file \in SUBSET AnySchedule
    BY SchedulesAssumption DEF Init
  <1>2. plan \in [Actors -> AnySchedule]
    BY <1>1, LoadType, DefaultType DEF Init
  <1> QED
    BY <1>1, <1>2 DEF Init, TypeOK, Steps

\* A move keeps the types of what it may change: pc (To), or pc and the locals (Done).
LEMMA ToType ==
    ASSUME TypeOK, NEW a \in Actors, NEW from, NEW to \in Steps, To(a, from, to)
    PROVE  pc' \in [Actors -> Steps] /\ serving' \in BOOLEAN
  BY DEF TypeOK, To, Go

LEMMA DoneType ==
    ASSUME TypeOK, NEW a \in Actors, NEW from, Done(a, from)
    PROVE  /\ pc' \in [Actors -> Steps] /\ serving' \in BOOLEAN
           /\ plan' \in [Actors -> AnySchedule] /\ want' \in [Actors -> BOOLEAN]
  <1>1. "idle" \in Steps
    BY DEF Steps
  <1> QED
    BY <1>1, DefaultType DEF TypeOK, Done, Go

\* The question put to nftables keeps the types (is_inet_blocked and its callers).
LEMMA AskType ==
    ASSUME TypeOK, NEW a \in Actors, NEW from, NEW onward \in Steps, NEW answer,
           Ask(a, from, onward, answer)
    PROVE  /\ pc' \in [Actors -> Steps] /\ serving' \in BOOLEAN
           /\ plan' \in [Actors -> AnySchedule] /\ want' \in [Actors -> BOOLEAN]
           /\ UNCHANGED <<disk, blocked, clock>>
  <1>1. CASE Done(a, from)
    BY <1>1, DoneType DEF Ask
  <1>2. CASE To(a, from, onward) /\ UNCHANGED <<plan, want>>
    BY <1>2, ToType DEF Ask, TypeOK
  <1> QED
    BY <1>1, <1>2 DEF Ask

\* The counter and the history keep their types in every step.
LEMMA CountType ==
    ASSUME TypeOK, AsBefore \/ (\E fault : Fails(fault))
    PROVE  events' \in Nat /\ since' \in {"pass", "request", "unsure"}
  BY DEF TypeOK, AsBefore, Fails, Event

\* Every step of a pass, or of the part of a request that is one, keeps the types.
LEMMA ApplyType ==
    ASSUME TypeOK, NEW a \in Actors, Apply(a) \/ Fault(a)
    PROVE  TypeOK'
  <1>0. {"override", "clear", "compare", "force", "nft"} \subseteq Steps
    BY DEF Steps
  <1>a. AsBefore \/ (\E fault : Fails(fault)) => events' \in Nat /\ since' \in {"pass", "request", "unsure"}
    BY CountType
  <1>1. CASE ReadClock(a)
    <2>1. ShouldBlockAt(plan[a], today, minute) \in BOOLEAN
      BY DecisionType
    <2> QED
      BY <1>0, <1>1, <1>a, <2>1, ToType DEF ReadClock, TypeOK, disk, clock
  <1>2. CASE ReadOverride(a)
    <2>1. (IF over = {} THEN want[a] ELSE Forced) \in BOOLEAN
      <3>1. over # {} => Forced \in over
        BY DEF Forced
      <3> QED
        BY <3>1 DEF TypeOK
    <2>2. want' \in [Actors -> BOOLEAN]
      BY <1>2, <2>1 DEF ReadOverride, TypeOK
    <2> QED
      BY <1>0, <1>2, <1>a, <2>2, ToType DEF ReadOverride, TypeOK, disk, clock
  <1>3. CASE ClearOverride(a)
    BY <1>0, <1>3, <1>a, ToType DEF ClearOverride, TypeOK, clock
  <1>4. CASE Compare(a)
    BY <1>0, <1>4, <1>a, AskType DEF Compare, TypeOK, disk, clock
  <1>5. CASE Recheck(a)
    BY <1>0, <1>5, <1>a, AskType DEF Recheck, TypeOK, disk, clock
  <1>6. CASE Nft(a)
    BY <1>0, <1>6, <1>a, DoneType DEF Nft, TypeOK, disk, clock
  <1>7. CASE NoClock(a)
    BY <1>0, <1>7, <1>a, ToType DEF NoClock, TypeOK, disk, clock
  <1>8. CASE NoAnswer(a)
    BY <1>0, <1>8, <1>a, AskType DEF NoAnswer, TypeOK, disk, clock
  <1>9. CASE NftFails(a)
    BY <1>0, <1>9, <1>a, DoneType DEF NftFails, TypeOK, disk, clock
  <1> QED
    BY <1>1, <1>2, <1>3, <1>4, <1>5, <1>6, <1>7, <1>8, <1>9 DEF Apply, Fault

\* Every other step of a request keeps the types.
LEMMA RequestType ==
    ASSUME TypeOK, NEW h \in Handlers,
           SaveRequest(h) \/ BlockRequest(h) \/ Save(h) \/ SetOverride(h) \/ WriteFails(h)
    PROVE  TypeOK'
  <1>0. {"open", "fill", "forget", "clock", "mark", "marking", "force"} \subseteq Steps /\ h \in Actors
    BY DEF Steps, Actors
  <1>a. AsBefore \/ (\E fault : Fails(fault)) => events' \in Nat /\ since' \in {"pass", "request", "unsure"}
    BY CountType
  <1>b. Event /\ Begins(h, "request") => events' \in Nat /\ since' \in {"pass", "request", "unsure"}
    BY DEF TypeOK, Event, Begins
  <1>1. CASE SaveRequest(h)
    BY <1>0, <1>1, <1>b, ToType, SchedulesAssumption DEF SaveRequest, TypeOK, disk, clock
  <1>2. CASE BlockRequest(h)
    BY <1>0, <1>2, <1>b, ToType DEF BlockRequest, TypeOK, disk, clock
  <1>3. CASE SaveOpen(h)
    BY <1>0, <1>3, <1>a, ToType DEF SaveOpen, TypeOK, clock
  <1>4. CASE SaveFill(h)
    <2>1. plan[h] \in AnySchedule
      BY <1>0 DEF TypeOK
    <2> QED
      BY <1>0, <1>4, <1>a, <2>1, ToType DEF SaveFill, TypeOK, clock
  <1>5. CASE SaveForgets(h)
    BY <1>0, <1>5, <1>a, ToType DEF SaveForgets, TypeOK, clock
  <1>6. CASE OverrideOpen(h)
    BY <1>0, <1>6, <1>a, ToType DEF OverrideOpen, TypeOK, clock
  <1>7. CASE OverrideFill(h)
    BY <1>0, <1>7, <1>a, ToType DEF OverrideFill, TypeOK, clock
  <1>8. CASE WriteFails(h)
    BY <1>0, <1>8, <1>a, DoneType DEF WriteFails, TypeOK, disk, clock
  <1> QED
    BY <1>1, <1>2, <1>3, <1>4, <1>5, <1>6, <1>7, <1>8 DEF Save, SetOverride

\* The clock stays on its face (Advance), and the ticker and a restart keep the types.
LEMMA ClockType ==
    ASSUME TypeOK, Tick \/ Advance \/ (\E fault \in Faults : Restart(fault))
    PROVE  TypeOK'
  <1>1. CASE Tick
    <2>1. Ticker \in Actors /\ "clock" \in Steps /\ Load \in AnySchedule
      BY LoadType DEF Actors, Steps, TypeOK
    <2> QED
      BY <1>1, <2>1, ToType DEF Tick, Begins, TypeOK, disk
  <1>2. CASE Advance
    <2>1. minute' \in Minutes
      BY <1>2, ClockAssumption DEF Advance, TypeOK, Minutes
    <2>2. today' \in Weekdays
      BY <1>2, ClockAssumption DEF Advance, TypeOK, Weekdays
    <2> QED
      BY <1>2, <2>1, <2>2 DEF Advance, TypeOK, disk
  <1>3. ASSUME NEW fault \in Faults, Restart(fault) PROVE TypeOK'
    <2>1. {"clock", "idle"} \subseteq Steps /\ Load \in AnySchedule /\ Default \in AnySchedule
      BY LoadType, DefaultType DEF Steps, TypeOK
    <2>2. /\ pc' \in [Actors -> Steps] /\ plan' \in [Actors -> AnySchedule]
          /\ want' \in [Actors -> BOOLEAN]
      BY <1>3, <2>1 DEF Restart
    <2>3. blocked' \in BOOLEAN
      BY <1>3 DEF Restart, TypeOK
    <2>4. over' \in SUBSET BOOLEAN
      BY <1>3 DEF Restart, TypeOK
    <2> QED
      <3>1. events' \in Nat /\ since' \in {"pass", "request", "unsure"}
        BY <1>3 DEF Restart, Event, TypeOK
      <3> QED
        BY <1>3, <2>2, <2>3, <2>4, <3>1 DEF Restart, TypeOK
  <1> QED
    BY <1>1, <1>2, <1>3

\* Every step keeps the types.
LEMMA NextType == TypeOK /\ [Next]_vars => TypeOK'
  <1> SUFFICES ASSUME TypeOK, [Next]_vars PROVE TypeOK'
    OBVIOUS
  <1>1. CASE Next
    BY <1>1, ApplyType, RequestType, ClockType DEF Next
  <1>2. CASE UNCHANGED vars
    BY <1>2 DEF vars, disk, clock, TypeOK
  <1> QED
    BY <1>1, <1>2

(***************************************************************************)
(* The files, the clock and the tasks of schedule.rs and api.rs keep the   *)
(* values the model gives them.                                            *)
(***************************************************************************)
THEOREM ScheduleTypes == Spec => []TypeOK
  BY InitType, NextType, PTL DEF Spec

-----------------------------------------------------------------------------
(***************************************************************************)
(* The arithmetic of a window (Schedule::should_block_at, three cases of   *)
(* from and to) is the walk round the clock, in a day of any length.       *)
(***************************************************************************)
LEMMA WindowIsWalk ==
    ASSUME NEW s \in AnySchedule, NEW d \in Weekdays, NEW m \in Minutes,
           s.enabled, s.days[d].active
    PROVE  ShouldBlockAt(s, d, m) <=>
               ~(Walk(s.days[d].from, m) < Walk(s.days[d].from, s.days[d].to))
  <1>1. s.days[d] \in DayWindow
    BY DEF AnySchedule
  <1>2. s.days[d].from \in 0..(Day - 1) /\ s.days[d].to \in 0..(Day - 1) /\ m \in 0..(Day - 1)
    BY <1>1 DEF DayWindow, Minutes
  <1> QED
    BY <1>2, ClockAssumption DEF ShouldBlockAt, Walk

(***************************************************************************)
(* Whatever schedule is loaded, its decision at the present minute is the  *)
(* one its window means (should_block_at and the doc of DayWindow).        *)
(***************************************************************************)
THEOREM WindowsAreWalks == Spec => []OnInsideWindow
  <1>1. TypeOK => OnInsideWindow
    <2> SUFFICES ASSUME TypeOK, Load.enabled, Load.days[today].active
                 PROVE  Scheduled <=> ~(Walk(Load.days[today].from, minute)
                                        < Walk(Load.days[today].from, Load.days[today].to))
      BY DEF OnInsideWindow
    <2> QED
      BY LoadType, WindowIsWalk DEF TypeOK, Scheduled
  <1> QED
    BY <1>1, ScheduleTypes, PTL

-----------------------------------------------------------------------------
(***************************************************************************)
(* The chain is right whenever the last pass or request ran alone.  The    *)
(* inductive invariant says how far the one that runs alone has got.       *)
(***************************************************************************)
\* What a request or pass has established when it is about to take each step.
Progress(a) ==
    /\ pc[a] = "fill" => file = {}
    /\ pc[a] = "forget" => file = {plan[a]}
    /\ pc[a] = "clock" => Load = plan[a]
    /\ pc[a] \in {"override", "clear"} => want[a] = Scheduled
    /\ pc[a] = "clear" => over = {want[a]}
    /\ pc[a] \in {"compare", "force", "nft"} =>
           /\ want[a] = Wanted
           /\ since = "pass" => over # {Scheduled}

\* Only the ticker runs after a pass alone, and at most one handler after a request alone.
OneRuns ==
    /\ since = "pass" => \A h \in Handlers : Idle(h)
    /\ since = "request" => Idle(Ticker) /\ \A h, g \in Handlers : Idle(h) \/ Idle(g) \/ h = g

\* Time does not pass during a pass of the ticker, which makes no request.
PassSteps == {"idle", "clock", "override", "clear", "compare", "force", "nft"}

PassInMinute ==
    /\ pc[Ticker] \in PassSteps
    /\ due => Idle(Ticker)

\* The two properties, and the progress behind them.
Sure ==
    /\ since # "unsure" /\ ~due => \A a \in Actors : Progress(a)
    /\ Enforced
    /\ OverrideConsumed

Inv == OneRuns /\ PassInMinute /\ Sure

\* What is wanted depends on the files and the clock alone.
LEMMA WantedKept ==
    ASSUME UNCHANGED <<disk, today, minute>>
    PROVE  Load' = Load /\ Scheduled' = Scheduled /\ Wanted' = Wanted
  <1>1. Load' = Load
    BY DEF Load, disk
  <1>2. Scheduled' = Scheduled
    BY <1>1 DEF Scheduled
  <1> QED
    BY <1>1, <1>2 DEF Wanted, Forced, disk

\* A step that leaves the ticker due, or the history unsure, has nothing to keep.
LEMMA NothingToKeep ==
    ASSUME due' \/ since' = "unsure"
    PROVE  Sure'
  BY DEF Sure, Enforced, OverrideConsumed, Settled

\* When one actor alone may be busy, its progress and its result are all that counts.
LEMMA OneCounts ==
    ASSUME NEW a \in Actors,
           \A b \in Actors \ {a} : pc'[b] = "idle",
           Progress(a)',
           pc'[a] = "idle" => InForce' /\ (since' = "pass" => over' # {Scheduled'})
    PROVE  Sure'
  <1>1. \A b \in Actors \ {a} : Progress(b)'
    BY DEF Progress
  <1>2. Settled' => pc'[a] = "idle"
    BY DEF Settled, Idle
  <1> QED
    BY <1>1, <1>2 DEF Sure, Enforced, OverrideConsumed

\* The step of a busy actor keeps Inv if, running alone, it keeps its progress.
LEMMA BusyStep ==
    ASSUME TypeOK, Inv, NEW a \in Actors, NEW from, NEW to, Go(a, from, to), from # "idle",
           a = Ticker => to \in PassSteps,
           UNCHANGED due, since' = since \/ since' = "unsure",
           since' # "unsure" /\ ~due =>
               Progress(a)' /\ (to = "idle" => InForce' /\ (since' = "pass" => over' # {Scheduled'}))
    PROVE  Inv'
  <1>1. pc[a] = from /\ pc'[a] = to /\ \A b \in Actors \ {a} : pc'[b] = pc[b]
    BY DEF Go, TypeOK
  <1>2. OneRuns'
    BY <1>1 DEF Inv, OneRuns, Idle, Actors
  <1>3. PassInMinute'
    BY <1>1 DEF Inv, PassInMinute, Idle, Actors
  <1>4. Sure'
    <2>1. CASE since' = "unsure" \/ due
      BY <2>1, NothingToKeep
    <2>2. CASE since' # "unsure" /\ ~due
      <3>1. \A b \in Actors \ {a} : pc[b] = "idle"
        <4>1. since \in {"pass", "request"}
          BY <2>2 DEF TypeOK
        <4> QED
          BY <1>1, <4>1, TickerAssumption DEF Inv, OneRuns, Idle, Actors
      <3> QED
        BY <1>1, <2>2, <3>1, OneCounts
    <2> QED
      BY <2>1, <2>2
  <1> QED
    BY <1>2, <1>3, <1>4 DEF Inv

\* The progress an actor has made, when what it established still holds.
LEMMA ProgressMade ==
    ASSUME Inv, NEW a \in Actors, since # "unsure", ~due
    PROVE  Progress(a)
  BY DEF Inv, Sure

-----------------------------------------------------------------------------
\* An override file with one request's answer in it forces that answer.
LEMMA ForcedBlock ==
    ASSUME NEW b, over = {b}
    PROVE  over # {} /\ Forced = b
  BY DEF Forced

(* The steps of apply_schedule, one lemma each. *)

\* A pass that has the schedule in hand wants what it says at this minute.
LEMMA ReadClockKeeps ==
    ASSUME TypeOK, Inv, NEW a \in Actors, ReadClock(a)
    PROVE  Inv'
  <1>1. Go(a, "clock", "override") /\ UNCHANGED <<disk, today, minute>> /\ UNCHANGED <<due, since>>
    BY DEF ReadClock, To, AsBefore, clock
  <1>2. since' # "unsure" /\ ~due => Progress(a)'
    <2> SUFFICES ASSUME since' # "unsure", ~due PROVE Progress(a)'
      OBVIOUS
    <2>1. Load = plan[a]
      BY <1>1, ProgressMade DEF Progress, Go
    <2>2. want'[a] = Scheduled'
      BY <1>1, <2>1, WantedKept DEF ReadClock, Scheduled, TypeOK
    <2> QED
      BY <1>1, <2>2 DEF Progress, Go, TypeOK
  <1> QED
    BY <1>1, <1>2, BusyStep DEF PassSteps

\* The override is obeyed, and about to go if the schedule agrees.
LEMMA ReadOverrideObeys ==
    ASSUME TypeOK, Inv, NEW a \in Actors, ReadOverride(a)
    PROVE  Inv'
  <1> DEFINE to == IF over = {want[a]} THEN "clear" ELSE "compare"
  <1>1. Go(a, "override", to) /\ UNCHANGED <<disk, today, minute>> /\ UNCHANGED <<due, since>>
    BY DEF ReadOverride, To, AsBefore, clock
  <1>2. since' # "unsure" /\ ~due => Progress(a)'
    <2> SUFFICES ASSUME since' # "unsure", ~due PROVE Progress(a)'
      OBVIOUS
    <2>1. want[a] = Scheduled /\ pc'[a] = to
      BY <1>1, ProgressMade DEF Progress, Go, TypeOK
    <2>2. want'[a] = Wanted'
      BY <1>1, <2>1, WantedKept DEF ReadOverride, Wanted, Forced, disk, TypeOK
    <2>3. CASE over = {want[a]}
      <3>1. want'[a] = want[a]
        BY <2>3, ForcedBlock DEF ReadOverride, TypeOK
      <3> QED
        BY <1>1, <2>1, <2>3, <3>1, WantedKept DEF Progress, disk
    <2>4. CASE over # {want[a]}
      BY <1>1, <2>1, <2>2, <2>4, WantedKept DEF Progress, disk
    <2> QED
      BY <2>3, <2>4
  <1> QED
    BY <1>1, <1>2, BusyStep DEF PassSteps

\* With the override gone the schedule's own wish is what is wanted.
LEMMA ClearOverrideKeeps ==
    ASSUME TypeOK, Inv, NEW a \in Actors, ClearOverride(a)
    PROVE  Inv'
  <1>1. Go(a, "clear", "compare") /\ UNCHANGED <<file, today, minute>> /\ UNCHANGED <<due, since, want>>
    BY DEF ClearOverride, To, AsBefore, clock
  <1>2. since' # "unsure" /\ ~due => Progress(a)'
    <2> SUFFICES ASSUME since' # "unsure", ~due PROVE Progress(a)'
      OBVIOUS
    <2>1. want[a] = Scheduled /\ pc'[a] = "compare" /\ over' = {}
      BY <1>1, ProgressMade DEF Progress, Go, TypeOK, ClearOverride
    <2>2. Scheduled' = Scheduled
      BY <1>1 DEF Scheduled, Load
    <2> QED
      BY <1>1, <2>1, <2>2 DEF Progress, Wanted
  <1> QED
    BY <1>1, <1>2, BusyStep DEF PassSteps

\* is_inet_blocked, when nft answers: a chain that is as wanted ends the pass.
LEMMA AskKeeps ==
    ASSUME TypeOK, Inv, NEW a \in Actors, NEW from \in {"compare", "force"},
           NEW onward \in {"force", "nft"}, NEW answer, Ask(a, from, onward, answer),
           since' = "unsure" \/ (answer = blocked /\ since' = since)
    PROVE  Inv'
  <1>1. UNCHANGED <<disk, today, minute>> /\ UNCHANGED <<due, blocked>>
    BY DEF Ask, clock
  <1>a. since' # "unsure" /\ ~due =>
            want[a] = Wanted' /\ (since' = "pass" => over' # {Scheduled'})
    <2> SUFFICES ASSUME since' # "unsure", ~due
                 PROVE  want[a] = Wanted' /\ (since' = "pass" => over' # {Scheduled'})
      OBVIOUS
    <2>1. pc[a] = from
      BY DEF Ask, Done, To, Go
    <2> QED
      BY <1>1, <2>1, ProgressMade, WantedKept DEF Progress, disk
  <1>2. CASE answer = want[a] /\ Done(a, from)
    <2>1. Go(a, from, "idle")
      BY <1>2 DEF Done
    <2>2. since' # "unsure" /\ ~due =>
              Progress(a)' /\ InForce' /\ (since' = "pass" => over' # {Scheduled'})
      BY <1>1, <1>a, <1>2, <2>1 DEF Progress, InForce, Go, TypeOK
    <2> QED
      BY <1>1, <2>1, <2>2, BusyStep DEF PassSteps
  <1>3. CASE answer # want[a] /\ To(a, from, onward) /\ UNCHANGED <<plan, want>>
    <2>1. Go(a, from, onward)
      BY <1>3 DEF To
    <2>2. since' # "unsure" /\ ~due => Progress(a)'
      BY <1>a, <1>3, <2>1 DEF Progress, Go, TypeOK
    <2> QED
      BY <1>1, <2>1, <2>2, BusyStep DEF PassSteps
  <1> QED
    BY <1>2, <1>3 DEF Ask

\* nft brings the wanted state about.
LEMMA NftKeeps ==
    ASSUME TypeOK, Inv, NEW a \in Actors, Nft(a)
    PROVE  Inv'
  <1>1. Go(a, "nft", "idle") /\ UNCHANGED <<disk, today, minute>> /\ UNCHANGED <<due, since>>
    BY DEF Nft, Done, AsBefore, clock
  <1>2. since' # "unsure" /\ ~due =>
            Progress(a)' /\ InForce' /\ (since' = "pass" => over' # {Scheduled'})
    <2> SUFFICES ASSUME since' # "unsure", ~due
                 PROVE  Progress(a)' /\ InForce' /\ (since' = "pass" => over' # {Scheduled'})
      OBVIOUS
    <2>1. want[a] = Wanted /\ (since = "pass" => over # {Scheduled})
      BY <1>1, ProgressMade DEF Progress, Go
    <2>2. blocked' = Wanted' /\ (since' = "pass" => over' # {Scheduled'})
      BY <1>1, <2>1, WantedKept DEF Nft, disk
    <2> QED
      BY <1>1, <2>2 DEF Progress, InForce, Go, TypeOK
  <1> QED
    BY <1>1, <1>2, BusyStep DEF PassSteps

\* A step of a busy actor that fails leaves nothing to keep.
LEMMA FailureKeeps ==
    ASSUME TypeOK, Inv, NEW a \in Actors, NEW from, NEW to, Go(a, from, to), from # "idle",
           a = Ticker => to \in PassSteps, UNCHANGED due, since' = "unsure"
    PROVE  Inv'
  BY BusyStep

\* Every step of apply_schedule keeps Inv.
LEMMA ApplyKeeps ==
    ASSUME TypeOK, Inv, NEW a \in Actors, Apply(a) \/ Fault(a)
    PROVE  Inv'
  <1>1. CASE ReadClock(a)
    BY <1>1, ReadClockKeeps
  <1>2. CASE ReadOverride(a)
    BY <1>2, ReadOverrideObeys
  <1>3. CASE ClearOverride(a)
    BY <1>3, ClearOverrideKeeps
  <1>4. CASE Compare(a)
    BY <1>4, AskKeeps DEF Compare, AsBefore, TypeOK
  <1>5. CASE Recheck(a)
    BY <1>5, AskKeeps DEF Recheck, AsBefore, TypeOK
  <1>6. CASE Nft(a)
    BY <1>6, NftKeeps
  <1>7. CASE NoClock(a)
    BY <1>7, FailureKeeps DEF NoClock, To, Fails, clock, PassSteps
  <1>8. CASE NoAnswer(a)
    <2>1. since' = "unsure"
      BY <1>8 DEF NoAnswer, Fails
    <2>2. CASE Ask(a, "compare", "force", FALSE)
      BY <2>1, <2>2, AskKeeps
    <2>3. CASE Ask(a, "force", "nft", FALSE)
      BY <2>1, <2>3, AskKeeps
    <2> QED
      BY <1>8, <2>2, <2>3 DEF NoAnswer
  <1>9. CASE NftFails(a)
    BY <1>9, FailureKeeps DEF NftFails, Done, Fails, clock, PassSteps
  <1> QED
    BY <1>1, <1>2, <1>3, <1>4, <1>5, <1>6, <1>7, <1>8, <1>9 DEF Apply, Fault

-----------------------------------------------------------------------------
\* A request that begins: alone, it has established nothing yet and needs nothing.
LEMMA BeginKeeps ==
    ASSUME TypeOK, Inv, NEW h \in Handlers, NEW to \in {"open", "mark"}, Go(h, "idle", to),
           Begins(h, "request"), UNCHANGED due
    PROVE  Inv'
  <1>1. /\ pc[h] = "idle" /\ pc'[h] = to /\ \A b \in Actors \ {h} : pc'[b] = pc[b]
        /\ h \in Actors /\ h # Ticker
    BY TickerAssumption DEF Go, TypeOK, Actors
  <1>2. PassInMinute'
    BY <1>1 DEF Inv, PassInMinute, Idle, Actors
  <1>3. CASE Alone(h)
    <2>1. since' = "request" /\ \A b \in Actors \ {h} : pc'[b] = "idle"
      BY <1>1, <1>3 DEF Begins, Alone, Idle
    <2>2. OneRuns'
      BY <1>1, <2>1 DEF OneRuns, Idle, Actors
    <2>3. Progress(h)'
      BY <1>1 DEF Progress
    <2>4. Sure'
      BY <1>1, <2>1, <2>3, OneCounts
    <2> QED
      BY <1>2, <2>2, <2>4 DEF Inv
  <1>4. CASE ~Alone(h)
    <2>1. since' = "unsure"
      BY <1>4 DEF Begins
    <2> QED
      BY <1>2, <2>1, NothingToKeep DEF Inv, OneRuns
  <1> QED
    BY <1>3, <1>4

\* The steps of a request up to the pass it ends in.
LEMMA RequestKeeps ==
    ASSUME TypeOK, Inv, NEW h \in Handlers,
           SaveRequest(h) \/ BlockRequest(h) \/ Save(h) \/ SetOverride(h) \/ WriteFails(h)
    PROVE  Inv'
  <1>0. h \in Actors /\ h # Ticker
    BY TickerAssumption DEF Actors
  <1>1. CASE SaveRequest(h)
    BY <1>1, BeginKeeps DEF SaveRequest, To, clock
  <1>2. CASE BlockRequest(h)
    BY <1>2, BeginKeeps DEF BlockRequest, To, clock
  <1>3. CASE SaveOpen(h)
    <2>1. Go(h, "open", "fill") /\ UNCHANGED <<due, since>> /\ file' = {}
      BY <1>3 DEF SaveOpen, To, AsBefore, clock
    <2>2. Progress(h)'
      BY <1>0, <2>1 DEF Progress, Go, TypeOK
    <2> QED
      BY <1>0, <2>1, <2>2, BusyStep
  <1>4. CASE SaveFill(h)
    <2>1. Go(h, "fill", "forget") /\ UNCHANGED <<due, since, plan>>
      BY <1>4 DEF SaveFill, To, AsBefore, clock
    <2>2. since' # "unsure" /\ ~due => Progress(h)'
      <3> SUFFICES ASSUME since' # "unsure", ~due PROVE Progress(h)'
        OBVIOUS
      <3>1. file = {}
        BY <1>0, <2>1, ProgressMade DEF Progress, Go
      <3>2. file' = {plan'[h]}
        BY <1>4, <2>1, <3>1 DEF SaveFill
      <3> QED
        BY <1>0, <2>1, <3>2 DEF Progress, Go, TypeOK
    <2> QED
      BY <1>0, <2>1, <2>2, BusyStep
  <1>5. CASE SaveForgets(h)
    <2>1. Go(h, "forget", "clock") /\ UNCHANGED <<due, since, plan, file>>
      BY <1>5 DEF SaveForgets, To, AsBefore, clock
    <2>2. since' # "unsure" /\ ~due => Progress(h)'
      <3> SUFFICES ASSUME since' # "unsure", ~due PROVE Progress(h)'
        OBVIOUS
      <3>1. file = {plan[h]}
        BY <1>0, <2>1, ProgressMade DEF Progress, Go
      <3>2. Load' = plan'[h]
        BY <2>1, <3>1 DEF Load
      <3> QED
        BY <1>0, <2>1, <3>2 DEF Progress, Go, TypeOK
    <2> QED
      BY <1>0, <2>1, <2>2, BusyStep
  <1>6. CASE OverrideOpen(h)
    <2>1. Go(h, "mark", "marking") /\ UNCHANGED <<due, since>>
      BY <1>6 DEF OverrideOpen, To, AsBefore, clock
    <2>2. Progress(h)'
      BY <1>0, <2>1 DEF Progress, Go, TypeOK
    <2> QED
      BY <1>0, <2>1, <2>2, BusyStep
  <1>7. CASE OverrideFill(h)
    <2>1. Go(h, "marking", "force") /\ UNCHANGED <<due, since, want>> /\ over' = {want[h]}
      BY <1>7 DEF OverrideFill, To, AsBefore, clock
    <2>2. since' # "unsure" => Progress(h)'
      <3> SUFFICES ASSUME since' # "unsure" PROVE Progress(h)'
        OBVIOUS
      <3>1. since' # "pass"
        BY <1>0, <2>1 DEF Inv, OneRuns, Idle, Go
      <3>2. want'[h] = Wanted'
        <4>1. over' # {} /\ Forced' = want[h]
          BY <2>1 DEF Forced
        <4> QED
          BY <2>1, <4>1 DEF Wanted
      <3> QED
        BY <1>0, <2>1, <3>1, <3>2 DEF Progress, Go, TypeOK
    <2> QED
      BY <1>0, <2>1, <2>2, BusyStep
  <1>8. CASE WriteFails(h)
    BY <1>0, <1>8, FailureKeeps DEF WriteFails, Done, Fails, clock
  <1> QED
    BY <1>1, <1>2, <1>3, <1>4, <1>5, <1>6, <1>7, <1>8 DEF Save, SetOverride

-----------------------------------------------------------------------------
\* The ticker's turn: alone, it has the schedule in hand.
LEMMA TickKeeps ==
    ASSUME TypeOK, Inv, Tick
    PROVE  Inv'
  <1>1. /\ Ticker \in Actors /\ pc'[Ticker] = "clock"
        /\ \A b \in Actors \ {Ticker} : pc'[b] = pc[b]
        /\ due' = FALSE /\ Load' = Load /\ plan'[Ticker] = Load
    BY DEF Tick, To, Go, TypeOK, Actors, disk, Load
  <1>2. PassInMinute'
    BY <1>1 DEF PassInMinute, PassSteps
  <1>3. CASE Alone(Ticker)
    <2>1. since' = "pass" /\ \A b \in Actors \ {Ticker} : pc'[b] = "idle"
      BY <1>1, <1>3 DEF Tick, Begins, Alone, Idle
    <2>2. OneRuns'
      BY <2>1, TickerAssumption DEF OneRuns, Idle, Actors
    <2>3. Progress(Ticker)'
      BY <1>1 DEF Progress
    <2>4. Sure'
      BY <1>1, <2>1, <2>3, OneCounts
    <2> QED
      BY <1>2, <2>2, <2>4 DEF Inv
  <1>4. CASE ~Alone(Ticker)
    <2>1. since' = "unsure"
      BY <1>4 DEF Tick, Begins
    <2> QED
      BY <1>2, <2>1, NothingToKeep DEF Inv, OneRuns
  <1> QED
    BY <1>3, <1>4

\* The next minute asks for the ticker; nothing is at rest until it has run.
LEMMA AdvanceKeeps ==
    ASSUME Inv, Advance
    PROVE  Inv'
  <1>1. due' /\ UNCHANGED <<pc, since>> /\ Idle(Ticker)
    BY DEF Advance
  <1>2. OneRuns' /\ PassInMinute'
    BY <1>1 DEF Inv, OneRuns, PassInMinute, Idle
  <1> QED
    BY <1>1, <1>2, NothingToKeep DEF Inv

\* A state in which main begins its startup pass.
Startup ==
    /\ pc = [a \in Actors |-> IF a = Ticker THEN "clock" ELSE "idle"]
    /\ plan[Ticker] = Load
    /\ ~due
    /\ since = "pass"

\* From there on, what the pass is to establish is all that counts.
LEMMA StartupKeeps == Startup => Inv
  <1> SUFFICES ASSUME Startup PROVE Inv
    OBVIOUS
  <1> USE DEF Startup
  <1>1. /\ pc[Ticker] = "clock" /\ \A b \in Actors \ {Ticker} : pc[b] = "idle"
        /\ Ticker \in Actors
    BY DEF Actors
  <1>2. OneRuns /\ PassInMinute
    BY <1>1, TickerAssumption DEF OneRuns, PassInMinute, PassSteps, Idle, Actors
  <1>3. \A a \in Actors : Progress(a)
    BY <1>1 DEF Progress
  <1>4. ~Settled
    BY <1>1 DEF Settled, Idle
  <1> QED
    BY <1>2, <1>3, <1>4 DEF Inv, Sure, Enforced, OverrideConsumed

\* A process that starts again, or a device, starts over with the startup pass.
LEMMA RestartKeeps ==
    ASSUME NEW fault, Restart(fault)
    PROVE  Inv'
  <1>1. Load' = Load
    BY DEF Restart, Load
  <1>2. /\ pc' = [a \in Actors |-> IF a = Ticker THEN "clock" ELSE "idle"]
        /\ plan'[Ticker] = Load' /\ ~due' /\ since' = "pass"
    BY <1>1 DEF Restart, Actors
  <1>3. Startup' => Inv'
    BY StartupKeeps, PTL
  <1> QED
    BY <1>2, <1>3 DEF Startup

\* Every step keeps Inv.
LEMMA NextKeeps == TypeOK /\ Inv /\ [Next]_vars => Inv'
  <1> SUFFICES ASSUME TypeOK, Inv, [Next]_vars PROVE Inv'
    OBVIOUS
  <1>1. CASE Next
    BY <1>1, ApplyKeeps, RequestKeeps, TickKeeps, AdvanceKeeps, RestartKeeps DEF Next
  <1>2. CASE UNCHANGED vars
    <2>1. UNCHANGED <<file, over, blocked, today, minute, due, pc, plan, want, since>>
      BY <1>2 DEF vars, disk, clock
    <2>2. Load' = Load
      BY <2>1 DEF Load
    <2>3. Scheduled' = Scheduled
      BY <2>1, <2>2 DEF Scheduled
    <2>4. Wanted' = Wanted
      BY <2>1, <2>3 DEF Wanted, Forced
    <2> QED
      BY <2>1, <2>2, <2>3, <2>4
      DEF Inv, OneRuns, PassInMinute, Sure, Progress, Enforced, OverrideConsumed, Settled, Idle, InForce
  <1> QED
    BY <1>1, <1>2

\* Inv holds of every behaviour.
LEMMA AlwaysInv == Spec => []Inv
  <1>1. Init => Inv
    <2> SUFFICES ASSUME Init PROVE Inv
      OBVIOUS
    <2>1. Ticker \in Actors
      BY DEF Actors
    <2> QED
      BY <2>1, StartupKeeps DEF Init, Startup
  <1> QED
    BY <1>1, NextKeeps, ScheduleTypes, PTL DEF Spec

(***************************************************************************)
(* Whatever failed, overlapped or was cut short before, a pass or request  *)
(* that ran alone leaves the chain right (apply_schedule, the handlers and *)
(* the startup pass), for any number of requests, faults and restarts.     *)
(***************************************************************************)
THEOREM ChainIsEnforced == Spec => []Enforced
  BY AlwaysInv, PTL DEF Inv, Sure

(***************************************************************************)
(* An override the schedule has come to agree with is gone after the pass, *)
(* so that the next window boundary takes effect (apply_schedule).         *)
(***************************************************************************)
THEOREM OverrideIsConsumed == Spec => []OverrideConsumed
  BY AlwaysInv, PTL DEF Inv, Sure
=============================================================================
