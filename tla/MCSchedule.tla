----------------------------- MODULE MCSchedule -----------------------------
(***************************************************************************)
(* A week of two days of three minutes for module Schedule.                *)
(***************************************************************************)
EXTENDS Schedule

Closed == [active |-> TRUE, from |-> 1, to |-> 1]
Daytime == [active |-> TRUE, from |-> 0, to |-> 2]
Overnight == [active |-> TRUE, from |-> 2, to |-> 1]
Open == [active |-> FALSE, from |-> 0, to |-> 2]

\* Functions on 0..1, as the days are indexed.
MCSchedules ==
    {[enabled |-> TRUE, days |-> [d \in Weekdays |-> IF d = 0 THEN Daytime ELSE Overnight]],
     [enabled |-> TRUE, days |-> [d \in Weekdays |-> IF d = 0 THEN Open ELSE Closed]]}
=============================================================================
