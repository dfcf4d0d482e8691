----------------------------- MODULE ScanRequests -----------------------------
(***************************************************************************)
(* A scan asked for over HTTP: api_scan of the dashboard with its lease and *)
(* its timeout, ScanService.scan_once in a thread of its own with the       *)
(* boundaries at which it looks whether it was told to abort, and the       *)
(* CircuitBreaker that all scans of the process share.                      *)
(*                                                                         *)
(* A request gives up on its scan but cannot stop it: the thread goes on to *)
(* its next boundary, beside the scan of a later request.                   *)
(***************************************************************************)
EXTENDS Naturals

CONSTANTS
    NRequests,        \* bound on the requests for a scan
    ScanTimeout,      \* SCAN_TIMEOUT_SECONDS
    LeaseTime,        \* max_scan_dur: the timeout and ten seconds
    BreakerCooldown,  \* cooldown_seconds of the breaker
    MaxErrors,        \* max_consecutive_errors
    MaxProbes,        \* half_open_max_probes
    ScanHorizon       \* bound on time

ASSUME ScanAssumption ==
    /\ {NRequests, ScanTimeout, LeaseTime, BreakerCooldown, MaxErrors, MaxProbes, ScanHorizon} \subseteq Nat
    /\ 0 < ScanTimeout /\ ScanTimeout < LeaseTime
    /\ 0 < MaxErrors /\ 0 < MaxProbes /\ 0 < BreakerCooldown

VARIABLES
    clock,
    breaker,   \* _state, _consecutive_errors, _opened_at, _half_open_successes
    lease,     \* _scan_started_at; Free is 0.0
    request,   \* what a request is doing and since when
    scan,      \* the scan of a request: its stage, abort_event, what it has left behind
    mislaid    \* history: a request that held no lease ended one

scanVars == <<clock, breaker, lease, request, scan, mislaid>>

\* Requests are numbered in the order in which they arrive.
Requests == 1..NRequests
Free == ScanHorizon + 1
Stages == {"none", "admit", "fetch", "analyse", "save", "notify", "over"}
Effects == {"shadow", "signals", "notified"}
NoRequest == [pc |-> "idle", since |-> 0]
NoScan == [stage |-> "none", abort |-> FALSE, told |-> "none", left |-> {}]
ClosedBreaker == [state |-> "CLOSED", errors |-> 0, openedAt |-> 0, probes |-> 0]

ScanTypeOK ==
    /\ clock \in 0..ScanHorizon
    /\ breaker \in [state : {"CLOSED", "OPEN", "HALF_OPEN"}, errors : Nat,
                    openedAt : 0..ScanHorizon, probes : 0..(MaxProbes - 1)]
    /\ lease \in 0..Free
    /\ request \in [Requests -> [pc : {"idle", "waiting", "answered"}, since : 0..ScanHorizon]]
    /\ scan \in [Requests -> [stage : Stages, abort : BOOLEAN, told : Stages, left : SUBSET Effects]]
    /\ mislaid \in BOOLEAN

ScanInit ==
    /\ clock = 0 /\ breaker = ClosedBreaker /\ lease = Free
    /\ request = [r \in Requests |-> NoRequest]
    /\ scan = [r \in Requests |-> NoScan]
    /\ mislaid = FALSE

-----------------------------------------------------------------------------
(* The circuit breaker; every operation holds its lock. *)

\* _maybe_transition: after the cooldown an open breaker is half open.
Rested == IF breaker.state = "OPEN" /\ clock - breaker.openedAt >= BreakerCooldown
          THEN [breaker EXCEPT !.state = "HALF_OPEN", !.probes = 0] ELSE breaker

\* record_error and _trip: an error of a probe, and every error at or beyond the limit, trips
\* the breaker, an open one once more.
WithError ==
    LET counted == [breaker EXCEPT !.errors = @ + 1]
    IN  IF breaker.state = "HALF_OPEN" \/ counted.errors >= MaxErrors
        THEN [counted EXCEPT !.state = "OPEN", !.openedAt = clock, !.probes = 0]
        ELSE counted

\* A form with a plausible bug: a success closes the breaker in every state.
WithSuccessAnyTime == [breaker EXCEPT !.errors = 0, !.state = "CLOSED", !.probes = 0]

\* record_success and _close: only a half open breaker counts its successes, whenever the
\* scan that reports one was admitted.
WithSuccess ==
    LET cleared == [breaker EXCEPT !.errors = 0]
    IN  IF breaker.state # "HALF_OPEN" THEN cleared
        ELSE IF breaker.probes + 1 < MaxProbes THEN [cleared EXCEPT !.probes = @ + 1]
        ELSE [cleared EXCEPT !.state = "CLOSED", !.probes = 0]

\* The state property read by /health, and allow_request asked by the agent.
LookAtBreaker ==
    /\ breaker' = Rested /\ breaker' # breaker
    /\ UNCHANGED <<clock, lease, request, scan, mislaid>>

-----------------------------------------------------------------------------
(* scan_once, in the thread of the request's executor. *)

ScanRunning(r) == scan[r].stage \notin {"none", "over"}

\* A scan is refused by the breaker and returns nothing, or goes on to load its data.
Admitted(r) ==
    /\ scan[r].stage = "admit"
    /\ breaker' = Rested
    /\ scan' = [scan EXCEPT ![r].stage = IF Rested.state = "OPEN" THEN "over" ELSE "fetch"]
    /\ UNCHANGED <<clock, lease, request, mislaid>>

\* No data, or data too old: the scan returns nothing and tells the breaker nothing, before
\* it looks at abort_event.
FetchesNothing(r) ==
    /\ scan[r].stage = "fetch"
    /\ scan' = [scan EXCEPT ![r].stage = "over"]
    /\ UNCHANGED <<clock, breaker, lease, request, mislaid>>

\* Every exception, that of a boundary included, is an error to the breaker.
Raises(r, effects) ==
    /\ scan' = [scan EXCEPT ![r].stage = "over", ![r].left = @ \cup effects]
    /\ breaker' = WithError
    /\ UNCHANGED <<clock, lease, request, mislaid>>

\* A form with a plausible bug: the boundaries do not look at abort_event.
PassesBoundaryBlindly(r, stage, effects) ==
    /\ scan' = [scan EXCEPT ![r].stage = stage, ![r].left = @ \cup effects]
    /\ UNCHANGED <<clock, breaker, lease, request, mislaid>>

\* A stage ends, and unless the scan was told to abort the next one begins.
PassesBoundary(r, stage, effects) ==
    IF scan[r].abort THEN Raises(r, effects)
    ELSE /\ scan' = [scan EXCEPT ![r].stage = stage, ![r].left = @ \cup effects]
         /\ UNCHANGED <<clock, breaker, lease, request, mislaid>>

\* Boundary 1, after the data was loaded and found fresh.
Fetches(r) == scan[r].stage = "fetch" /\ PassesBoundary(r, "analyse", {})

\* Signals are made and the shadow ledger is kept; then boundary 2.
Analyses(r) == scan[r].stage = "analyse" /\ PassesBoundary(r, "save", {"shadow"})

\* Changed signals are told; signals, outcomes, orders, paper trades and the scan's log are
\* written; then boundary 3.
Saves(r) == scan[r].stage = "save" /\ PassesBoundary(r, "notify", {"signals"})

\* The results are sent, the open paper trades looked after, and the breaker is told.
Notifies(r) ==
    /\ scan[r].stage = "notify"
    /\ scan' = [scan EXCEPT ![r].stage = "over", ![r].left = @ \cup {"notified"}]
    /\ breaker' = WithSuccess
    /\ UNCHANGED <<clock, lease, request, mislaid>>

\* A stage raises halfway, with or without what it was to write.
BreaksDown(r) ==
    \/ scan[r].stage \in {"fetch", "analyse"} /\ Raises(r, {})
    \/ scan[r].stage = "save" /\ \E effects \in SUBSET {"signals"} : Raises(r, effects)
    \/ scan[r].stage = "notify" /\ \E effects \in SUBSET {"notified"} : Raises(r, effects)

-----------------------------------------------------------------------------
(* api_scan, one thread per request. *)

Arrives(r) ==
    /\ request[r].pc = "idle"
    /\ \A s \in Requests : s < r => request[s].pc # "idle"

LeaseHeld == lease # Free /\ clock - lease < LeaseTime

\* A request makes its service and takes the lease; its scan is started.
TakesLease(r) ==
    /\ Arrives(r) /\ ~LeaseHeld /\ clock + ScanTimeout <= ScanHorizon
    /\ lease' = clock
    /\ request' = [request EXCEPT ![r] = [pc |-> "waiting", since |-> clock]]
    /\ scan' = [scan EXCEPT ![r].stage = "admit"]
    /\ UNCHANGED <<clock, breaker, mislaid>>

\* 429 while another request's scan runs.
Refused(r) ==
    /\ Arrives(r) /\ LeaseHeld
    /\ request' = [request EXCEPT ![r].pc = "answered"]
    /\ UNCHANGED <<clock, breaker, lease, scan, mislaid>>

\* The service cannot be made: the handler of exceptions ends the lease, whoever holds it.
CannotBuild(r) ==
    /\ Arrives(r)
    /\ request' = [request EXCEPT ![r].pc = "answered"]
    /\ lease' = Free /\ mislaid' = (mislaid \/ lease # Free)
    /\ UNCHANGED <<clock, breaker, scan>>

\* The scan has returned or raised: the request ends the lease and answers.
AnswersScan(r) ==
    /\ request[r].pc = "waiting" /\ scan[r].stage = "over"
    /\ request' = [request EXCEPT ![r].pc = "answered"]
    /\ lease' = Free
    /\ UNCHANGED <<clock, breaker, scan, mislaid>>

\* A form with a plausible bug: the request leaves without a word to its scan.
TimesOutSilently(r) ==
    /\ request[r].pc = "waiting" /\ scan[r].stage # "over"
    /\ clock - request[r].since >= ScanTimeout
    /\ request' = [request EXCEPT ![r].pc = "answered"]
    /\ lease' = Free
    /\ UNCHANGED <<clock, breaker, scan, mislaid>>

\* A form with a plausible bug: a scan in its last stage is waited for.
TimesOutBeforeLast(r) ==
    /\ request[r].pc = "waiting" /\ scan[r].stage \notin {"notify", "over"}
    /\ clock - request[r].since >= ScanTimeout
    /\ request' = [request EXCEPT ![r].pc = "answered"]
    /\ scan' = [scan EXCEPT ![r].abort = TRUE, ![r].told = scan[r].stage]
    /\ lease' = Free
    /\ UNCHANGED <<clock, breaker, mislaid>>

\* 504: the scan is told to abort, and the lease ends before the scan does.
TimesOut(r) ==
    /\ request[r].pc = "waiting" /\ scan[r].stage # "over"
    /\ clock - request[r].since >= ScanTimeout
    /\ request' = [request EXCEPT ![r].pc = "answered"]
    /\ scan' = [scan EXCEPT ![r].abort = TRUE, ![r].told = scan[r].stage]
    /\ lease' = Free
    /\ UNCHANGED <<clock, breaker, mislaid>>

\* A request does not oversleep its timeout by the ten seconds the lease has more.
ScanClockTicks ==
    /\ clock < ScanHorizon
    /\ \A r \in Requests : request[r].pc = "waiting" => clock - request[r].since < ScanTimeout
    /\ clock' = clock + 1
    /\ UNCHANGED <<breaker, lease, request, scan, mislaid>>

-----------------------------------------------------------------------------
StageStep(r) ==
    \/ Admitted(r) \/ FetchesNothing(r) \/ Fetches(r) \/ Analyses(r) \/ Saves(r)
    \/ Notifies(r) \/ BreaksDown(r)

RequestStep(r) == TakesLease(r) \/ Refused(r) \/ CannotBuild(r) \/ AnswersScan(r) \/ TimesOut(r)

ScanNext == (\E r \in Requests : StageStep(r) \/ RequestStep(r)) \/ LookAtBreaker \/ ScanClockTicks

\* Time passes and a request that waits wakes up; of the scan, which may hang, nothing is asked.
ScanFairness ==
    /\ WF_scanVars(ScanClockTicks)
    /\ \A r \in Requests : WF_scanVars(AnswersScan(r)) /\ WF_scanVars(TimesOut(r))

ScanSpec == ScanInit /\ [][ScanNext]_scanVars /\ ScanFairness

-----------------------------------------------------------------------------
\* At most one scan runs that was not told to abort, unless a request ended a lease that was
\* not its own (_acquire_scan_lock, _release_scan_lock and the timeout of api_scan).
ScansExclusive ==
    mislaid \/ \A r, s \in Requests :
        (ScanRunning(r) /\ ScanRunning(s) /\ ~scan[r].abort /\ ~scan[s].abort) => r = s

\* "Strict discard": a scan told to abort before boundary 2 writes nothing but the shadow
\* ledger, and one told to abort before boundary 3 does not send its results (scan_once).
StrictDiscard ==
    \A r \in Requests :
        /\ scan[r].told \in {"admit", "fetch", "analyse"} => scan[r].left \subseteq {"shadow"}
        /\ scan[r].told = "save" => "notified" \notin scan[r].left

\* A tripped breaker is closed by nothing before its cooldown is over: not by the success of
\* a scan that was admitted before the trip, and not while no one has found it half open.
TripHolds ==
    [][(breaker.state # "CLOSED" /\ breaker'.state = "CLOSED")
         => clock - breaker.openedAt >= BreakerCooldown]_scanVars

\* No request waits for ever, also when its scan hangs: as there are finitely many, a time comes
\* at which none does (future.result with a timeout in api_scan).
EveryRequestAnswered ==
    (\E r \in Requests : request[r].pc = "waiting") ~> (\A r \in Requests : request[r].pc # "waiting")
=============================================================================
