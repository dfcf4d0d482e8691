--------------------------- MODULE MarketScheduler ---------------------------
(***************************************************************************)
(* bist_bot.scheduler.MarketScheduler: the loop that scans while the market *)
(* is open, the end-of-day pass with its retries, the watchdog, and the     *)
(* sleeps in between.  Everything the loop remembers is in memory.          *)
(*                                                                         *)
(* Time is counted in ticks.  A sleeping or working process lets time pass *)
(* up to its deadline; every other step is instantaneous.                  *)
(***************************************************************************)
EXTENDS Naturals, FiniteSets

CONSTANTS
    DayLength,      \* ticks of a day, a multiple of Interval
    Open, Close,    \* the continuous session, as times of day
    Eod,            \* bist_eod_time: the closing auction is over
    Holidays,       \* days without a session
    Interval,       \* SCAN_INTERVAL_MINUTES
    Warmup,         \* MARKET_WARMUP_MINUTES
    MinSeparation,  \* SCAN_MIN_SEPARATION_MINUTES
    Stale,          \* WATCHDOG_STALE_MINUTES
    Cooldown,       \* WATCHDOG_ALERT_COOLDOWN_MINUTES
    EodMaxAttempts, \* EOD_MAX_ATTEMPTS
    EodRetry,       \* EOD_RETRY_MINUTES
    Backoff,        \* the first pause between two tries of a scan
    MaxScan,        \* the longest a scan takes
    MaxEod,         \* the longest the end-of-day pass takes
    None,
    Horizon,        \* bound on time
    MaxRestarts     \* bound on crashes

ASSUME SchedulerAssumption ==
    /\ {DayLength, Open, Close, Eod, Interval, Warmup, MinSeparation, Stale, Cooldown,
        EodMaxAttempts, EodRetry, Backoff, MaxScan, MaxEod, Horizon, MaxRestarts} \subseteq Nat
    /\ Interval > 0 /\ EodMaxAttempts > 0 /\ DayLength % Interval = 0
    /\ Open < Close /\ Close <= Eod /\ Eod < DayLength
    /\ Stale <= Cooldown /\ IsFiniteSet(Holidays) /\ None \notin Nat
    \* In a night there is room for the end-of-day pass and between two scans.
    /\ MaxEod <= Open /\ MinSeparation + Close <= DayLength + Open

VARIABLES
    now,
    pc,        \* what the process is doing
    deadline,  \* until when it sleeps or works at most
    retry,     \* the number of the retry of a scan, 0 for the scan itself
    eod,       \* _eod_close_done_date, _eod_state_date and the failure state of a day
    health,    \* _last_scan_success_at, _last_scan_attempt_at, _watchdog_alerted_at,
               \* _scan_fail_streak
    restarts,
    since,     \* history: when the process was started
    passes     \* history: the end-of-day passes the process has run on a day

vars == <<now, pc, deadline, retry, eod, health, restarts, since, passes>>
memory == <<eod, health>>
history == <<restarts, since, passes>>

Day(t) == t \div DayLength
TimeOfDay(t) == t % DayLength
Later(a, b) == IF a >= b THEN a ELSE b

\* is_bist_open, bist_eod_time and next_bist_session.
IsOpen(t) == Day(t) \notin Holidays /\ TimeOfDay(t) \in Open..(Close - 1)
NextSession(t) ==
    LET days == {d \in Day(t)..(Day(t) + Cardinality(Holidays) + 1) :
                   d \notin Holidays /\ (d = Day(t) => TimeOfDay(t) < Close)}
    IN  DayLength * (CHOOSE d \in days : \A x \in days : d <= x) + Open

Times == 0..(Horizon + DayLength * (Cardinality(Holidays) + 2))
Days == 0..Day(Horizon)

TypeOK ==
    /\ now \in 0..Horizon
    /\ pc \in {"loop", "closed", "warmup", "scan", "backoff", "wait", "closing", "down"}
    /\ deadline \in Times /\ retry \in 0..3
    /\ eod \in [done : Days \cup {None}, date : Days \cup {None}, fails : 0..EodMaxAttempts,
                retryAt : Times \cup {None}, final : BOOLEAN]
    /\ health \in [success : Times \cup {None}, attempt : Times \cup {None},
                   alerted : Times \cup {None}, streak : BOOLEAN]
    /\ restarts \in 0..MaxRestarts /\ since \in 0..Horizon
    /\ passes \in [day : Days \cup {None}, count : 0..EodMaxAttempts, ok : BOOLEAN]

NoEod == [done |-> None, date |-> None, fails |-> 0, retryAt |-> None, final |-> FALSE]
NoHealth == [success |-> None, attempt |-> None, alerted |-> None, streak |-> FALSE]
NoPasses == [day |-> None, count |-> 0, ok |-> FALSE]

\* The process is started at any time of the first day.
Init ==
    /\ now \in 0..(DayLength - 1) /\ since = now
    /\ pc = "loop" /\ deadline = 0 /\ retry = 0
    /\ eod = NoEod /\ health = NoHealth
    /\ restarts = 0 /\ passes = NoPasses

-----------------------------------------------------------------------------
(* The end-of-day pass.                                                    *)

\* _reset_eod_state_for_date
Reset(t) ==
    IF eod.date = Day(t) THEN eod
    ELSE [eod EXCEPT !.date = Day(t), !.fails = 0, !.retryAt = None, !.final = FALSE]

\* _pending_eod_close
Pending(t) ==
    LET e == Reset(t)
    IN  /\ Day(t) \notin Holidays /\ TimeOfDay(t) >= Eod
        /\ e.done # Day(t) /\ ~e.final
        /\ e.retryAt # None => t >= e.retryAt

RunEod ==
    /\ pc = "loop" /\ Pending(now)
    /\ pc' = "closing" /\ deadline' = now + MaxEod
    /\ eod' = Reset(now)
    /\ passes' = IF passes.day = Day(now) THEN [passes EXCEPT !.count = @ + 1]
                 ELSE [day |-> Day(now), count |-> 1, ok |-> FALSE]
    /\ UNCHANGED <<now, retry, health, restarts, since>>

\* The time _run_eod_close was given, before the pass took its time.
CalledAt == deadline - MaxEod

EodSucceeds ==
    /\ pc = "closing" /\ pc' = "loop"
    /\ eod' = [eod EXCEPT !.done = Day(CalledAt), !.fails = 0, !.retryAt = None]
    /\ passes' = [passes EXCEPT !.ok = TRUE]
    /\ UNCHANGED <<now, deadline, retry, health, restarts, since>>

\* Mutant of EodFails: one retry more than configured.
EodFailsOnceMore ==
    /\ pc = "closing" /\ pc' = "loop"
    /\ eod' = IF eod.fails >= EodMaxAttempts
              THEN [eod EXCEPT !.final = TRUE, !.retryAt = None]
              ELSE [eod EXCEPT !.fails = @ + 1, !.retryAt = CalledAt + EodRetry]
    /\ UNCHANGED <<now, deadline, retry, health, history>>

EodFails ==
    /\ pc = "closing" /\ pc' = "loop"
    /\ eod' = IF eod.fails + 1 >= EodMaxAttempts
              THEN [eod EXCEPT !.fails = @ + 1, !.final = TRUE, !.retryAt = None]
              ELSE [eod EXCEPT !.fails = @ + 1, !.retryAt = CalledAt + EodRetry]
    /\ UNCHANGED <<now, deadline, retry, health, history>>

-----------------------------------------------------------------------------
(* Scanning.                                                               *)

\* _check_watchdog
Watched ==
    IF /\ health.success # None /\ now - health.success >= Stale
       /\ health.alerted = None \/ now - health.alerted >= Cooldown
    THEN [health EXCEPT !.alerted = now] ELSE health

IsWarmup == TimeOfDay(now) >= Open /\ TimeOfDay(now) < Open + Warmup

\* A round of the loop in the session: the watchdog, then the warm-up or a scan.
WarmUp ==
    /\ pc = "loop" /\ ~Pending(now) /\ IsOpen(now) /\ IsWarmup
    /\ eod' = Reset(now) /\ health' = Watched
    /\ pc' = "warmup" /\ deadline' = now + 1
    /\ UNCHANGED <<now, retry, history>>

StartScan ==
    /\ pc = "loop" /\ ~Pending(now) /\ IsOpen(now) /\ ~IsWarmup
    /\ eod' = Reset(now) /\ health' = [Watched EXCEPT !.attempt = now]
    /\ pc' = "scan" /\ deadline' = now + MaxScan /\ retry' = 0
    /\ UNCHANGED <<now, history>>

\* Mutant of NextSlot: the next slot of the grid, however near.
NextSlotAnyDistance ==
    CHOOSE t \in (now + 1)..(now + Interval) : t % Interval = 0

\* The sleep after a scan ends on the wall-clock grid, at least MinSeparation after
\* the scan started.
NextSlot ==
    LET slots == {t \in (now + 1)..(now + 2 * Interval + MinSeparation) :
                    t % Interval = 0 /\ t - health.attempt >= MinSeparation}
    IN  CHOOSE t \in slots : \A u \in slots : t <= u

SleepToSlot == pc' = "wait" /\ deadline' = NextSlot

\* The scan and the agent's callback return; _mark_scan_success.
ScanSucceeds ==
    /\ pc = "scan"
    /\ health' = [health EXCEPT !.success = now, !.alerted = None, !.streak = FALSE]
    /\ SleepToSlot
    /\ UNCHANGED <<now, retry, eod, history>>

\* Mutant of ScanFails: giving up is not escalated.
ScanFailsSilently ==
    /\ pc = "scan"
    /\ IF retry < 3
       THEN pc' = "backoff" /\ retry' = retry + 1 /\ deadline' = now + Backoff * retry'
       ELSE SleepToSlot /\ UNCHANGED retry
    /\ UNCHANGED <<now, memory, history>>

\* The scan, or the agent's callback, raises: three retries, then an escalation.
ScanFails ==
    /\ pc = "scan"
    /\ IF retry < 3
       THEN /\ pc' = "backoff" /\ retry' = retry + 1
            /\ deadline' = now + Backoff * retry' /\ UNCHANGED health
       ELSE /\ SleepToSlot
            /\ health' = [health EXCEPT !.streak = TRUE] /\ UNCHANGED retry
    /\ UNCHANGED <<now, eod, history>>

RetryScan ==
    /\ pc = "backoff" /\ now >= deadline
    /\ pc' = "scan" /\ deadline' = now + MaxScan
    /\ UNCHANGED <<now, retry, memory, history>>

-----------------------------------------------------------------------------
(* Sleeping, and the process.                                              *)

\* _sleep_until_next_session
SleepUntilOpen ==
    /\ pc = "loop" /\ ~Pending(now) /\ ~IsOpen(now)
    /\ eod' = Reset(now)
    /\ pc' = "closed" /\ deadline' = NextSession(now)
    /\ UNCHANGED <<now, retry, health, history>>

\* Both long sleeps look at the end-of-day pass every ten seconds.
Interrupts == pc \in {"wait", "closed"} /\ Pending(now)

WakeUp ==
    /\ pc \in {"wait", "closed", "warmup"} /\ (now >= deadline \/ Interrupts)
    /\ pc' = "loop"
    /\ eod' = IF pc = "warmup" THEN eod ELSE Reset(now)
    /\ UNCHANGED <<now, deadline, retry, health, history>>

Tick ==
    /\ now < Horizon /\ now' = now + 1
    /\ \/ pc = "down"
       \/ pc # "loop" /\ now < deadline /\ ~Interrupts
    /\ eod' = IF pc \in {"wait", "closed"} THEN Reset(now) ELSE eod
    /\ UNCHANGED <<pc, deadline, retry, health, history>>

\* A crash, or the end of a stopped process: running is looked at in every sleep.
Crash ==
    /\ pc # "down" /\ restarts < MaxRestarts
    /\ pc' = "down" /\ restarts' = restarts + 1
    /\ deadline' = 0 /\ retry' = 0 /\ eod' = NoEod /\ health' = NoHealth /\ passes' = NoPasses
    /\ UNCHANGED <<now, since>>

Start ==
    /\ pc = "down" /\ pc' = "loop" /\ since' = now
    /\ UNCHANGED <<now, deadline, retry, memory, restarts, passes>>

Next ==
    \/ RunEod \/ EodSucceeds \/ EodFails
    \/ WarmUp \/ StartScan \/ ScanSucceeds \/ ScanFails \/ RetryScan
    \/ SleepUntilOpen \/ WakeUp \/ Tick \/ Crash \/ Start

Spec == Init /\ [][Next]_vars

-----------------------------------------------------------------------------
(* Properties.                                                             *)

\* The longest a scan with its retries takes, and the longest the end-of-day pass
\* with its retries takes.
LongestScan == 4 * MaxScan + 6 * Backoff
LongestEod == EodMaxAttempts * Later(EodRetry, MaxEod)

\* A session never ends silently: within a bounded time after the closing auction
\* the end-of-day pass is done or its final failure was reported, whatever the loop
\* was doing when the pass came due (_sleep_until_next_session, run_loop).
EodSettled ==
    pc # "down" /\ Day(now) \notin Holidays
    /\ now > Later(since, DayLength * Day(now) + Eod) + LongestScan + LongestEod
    => eod.done = Day(now) \/ (eod.final /\ eod.date = Day(now))

\* A process runs the pass of a day at most EOD_MAX_ATTEMPTS times, and not again
\* after it succeeded, however often it sleeps, wakes and changes the date.
EodBounded ==
    /\ passes.count <= EodMaxAttempts
    /\ pc = "closing" => ~passes.ok

\* The end of a day is settled, and once (_pending_eod_close, _run_eod_close).
EodSettledOnce == EodSettled /\ EodBounded

\* What the operator is told of a bot that does not scan.  The watchdog runs in the
\* loop it watches, so between two looks a whole scan with its retries can pass:
\* a success that is older than Stale and one such round has been reported
\* (_check_watchdog).
WatchdogNotices ==
    pc # "down" /\ IsOpen(now) /\ health.success # None
    /\ now > Later(health.success, DayLength * Day(now) + Open)
             + Stale + Later(LongestScan, MinSeparation) + Interval
    => health.alerted # None

\* A process that never scanned successfully is not watched; then the exhausted
\* retries are what tells the operator, within the warm-up and one round (run_loop).
OperatorTold ==
    LET seen == IF health.success = None THEN 0 ELSE health.success
    IN  pc # "down" /\ IsOpen(now)
        /\ now > Later(seen, Later(since, DayLength * Day(now) + Open))
                 + Warmup + Interval + MinSeparation + LongestScan
        => health.streak \/ health.alerted # None

\* Whether it succeeded once or never, a bot that no longer scans is reported within those
\* bounds (_check_watchdog, run_loop).
SilenceReported == WatchdogNotices /\ OperatorTold

\* Without restarts, two scans of the grid start at least MinSeparation apart ("a
\* startup scan never doubles with the next slot", run_loop).
ScansSeparated ==
    [][health.attempt # None /\ health'.attempt \notin {None, health.attempt}
       => health'.attempt - health.attempt >= MinSeparation]_vars

=============================================================================
