------------------------------- MODULE Limits -------------------------------
(***************************************************************************)
(* The two counters that the web service keeps of each address: requests   *)
(* (ratelimit.rs) and failed logins (auth.rs), here of one address.  Both  *)
(* count from the first event of a window that is fixed, not sliding.      *)
(* Time advances by ticks; a window has Window of them, a ban Ban.         *)
(***************************************************************************)
EXTENDS Naturals, FiniteSets

CONSTANTS
    Request,             \* logins that may be in progress at once
    Window, Ban,         \* ticks
    MaxRequests,         \* requests a window allows
    MaxAttempts          \* failures that ban

VARIABLES
    count, age,          \* the rate limiter's counter and its window's age
    fails, failAge,      \* the login counter and its window's age
    banned,              \* ticks the ban has still to run
    attempt,             \* per login: idle, or past the check of the ban
    passed,              \* history: requests let through, per tick of the last Window
    guesses,             \* history: failures since the last success, likewise
    sinceBan             \* history: failures since the ban in force was set

vars == <<count, age, fails, failAge, banned, attempt, passed, guesses, sinceBan>>
limiter == <<count, age, passed>>
bans == <<fails, failAge, banned, guesses, sinceBan>>

None == [t \in 1..Window |-> 0]

\* How many events a history has of the last ticks.
Recent(h, ticks) ==
    LET upTo[t \in 0..ticks] == IF t = 0 THEN 0 ELSE upTo[t - 1] + h[t] IN upTo[ticks]

\* An age of Window means that the window is over, or that there was none.
Init ==
    /\ count = 0 /\ age = Window
    /\ fails = 0 /\ failAge = Window /\ banned = 0
    /\ attempt = [r \in Request |-> "idle"]
    /\ passed = None /\ guesses = None /\ sinceBan = 0

Older(a) == IF a < Window THEN a + 1 ELSE a
Shifted(h) == [t \in 1..Window |-> IF t = 1 THEN 0 ELSE h[t - 1]]

Tick ==
    /\ age' = Older(age) /\ failAge' = Older(failAge)
    /\ banned' = IF banned > 0 THEN banned - 1 ELSE 0
    /\ sinceBan' = IF banned' = 0 THEN 0 ELSE sinceBan
    /\ passed' = Shifted(passed) /\ guesses' = Shifted(guesses)
    /\ UNCHANGED <<count, fails, attempt>>

\* The slip of a counter that forgets what came before the last tick.
CountedAfresh(n, a) == IF a = 0 THEN n + 1 ELSE 1

Counted(n, a) == IF a < Window THEN n + 1 ELSE 1

\* is_rate_limited counts every request, those it refuses too; what exceeds the
\* limit is capped at one more.
Ask ==
    /\ LET n == Counted(count, age)
       IN  /\ count' = IF n <= MaxRequests THEN n ELSE MaxRequests + 1
           /\ passed' = IF n <= MaxRequests THEN [passed EXCEPT ![1] = @ + 1] ELSE passed
    /\ age' = IF age < Window THEN age ELSE 0
    /\ UNCHANGED <<bans, attempt>>

\* The slip of a login that does not look for a ban.
EnterUnchecked(r) ==
    /\ attempt[r] = "idle"
    /\ attempt' = [attempt EXCEPT ![r] = "verify"]
    /\ UNCHANGED <<limiter, bans>>

\* login_post: is_banned, and then the hash is verified without the lock.
Enter(r) ==
    /\ attempt[r] = "idle" /\ banned = 0
    /\ attempt' = [attempt EXCEPT ![r] = "verify"]
    /\ UNCHANGED <<limiter, bans>>

\* record_failure.
Failed(r) ==
    /\ attempt[r] = "verify" /\ attempt' = [attempt EXCEPT ![r] = "idle"]
    /\ LET n == Counted(fails, failAge)
       IN  IF n >= MaxAttempts
           THEN /\ banned' = Ban /\ fails' = 0 /\ failAge' = 0
           ELSE /\ fails' = n /\ UNCHANGED banned
                /\ failAge' = IF failAge < Window THEN failAge ELSE 0
    /\ guesses' = [guesses EXCEPT ![1] = @ + 1]
    /\ sinceBan' = IF banned = 0 THEN 0 ELSE sinceBan + 1
    /\ UNCHANGED limiter

\* record_success drops the address's entry, its ban included.
Succeeded(r) ==
    /\ attempt[r] = "verify" /\ attempt' = [attempt EXCEPT ![r] = "idle"]
    /\ fails' = 0 /\ failAge' = Window /\ banned' = 0
    /\ guesses' = None /\ sinceBan' = 0
    /\ UNCHANGED limiter

Next == Tick \/ Ask \/ \E r \in Request : Enter(r) \/ Failed(r) \/ Succeeded(r)

LimitSpec == Init /\ [][Next]_vars

-----------------------------------------------------------------------------
\* A span as long as a window may straddle two windows, of which the first has
\* spent one event on being opened before it.  In such a span that many requests
\* are let through and no more; and an address fails that often since its last
\* success, a window ending with the failure that bans, and once more for every
\* further login past the check of the ban.
SpansBounded ==
    /\ Recent(passed, Window) <= 2 * MaxRequests - 1
    /\ Recent(guesses, Window) <= 2 * MaxAttempts - 2 + (Cardinality(Request) - 1)

\* While a ban runs only those logins are answered that were past the check.
BanHolds == sinceBan <= Cardinality(Request) - 1
=============================================================================
