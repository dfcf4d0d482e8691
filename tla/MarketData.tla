------------------------------ MODULE MarketData ------------------------------
(***************************************************************************)
(* BISTDataFetcher over its providers: how the price history of one ticker  *)
(* is fetched in a batch, then singly, then in a batch of one; the router   *)
(* that passes over a provider that keeps failing; the cache of histories   *)
(* and the cache of analyses that api_analyze makes from them.              *)
(*                                                                         *)
(* Scans and requests for an analysis fetch in threads of their own.  A     *)
(* provider's retries are one answer.  A history is the time at which it    *)
(* was fetched and whether it shows the jump of a split.                    *)
(***************************************************************************)
EXTENDS Naturals, Sequences

CONSTANTS
    Scanners,          \* threads that fetch for a scan
    Analysts,          \* threads of api_analyze
    Chains,            \* bound on the providers configured: a router's order, or one alone
    Outlooks,          \* bound on what each provider may answer
    HistoryTTL, AnalysisTTL,
    FailureThreshold,  \* failure_threshold of the router
    RouterCooldown,    \* cooldown_seconds of the router
    FetchHorizon,      \* bound on time
    None

Providers == {"official", "yahoo"}

\* A usable history, one with the jump of a split, one nothing is left of once it is
\* normalized, nothing at all, or an exception.
Answers == {"ok", "split", "garbled", "refuses", "breaks"}

ASSUME MarketAssumption ==
    /\ {HistoryTTL, AnalysisTTL, FailureThreshold, RouterCooldown, FetchHorizon} \subseteq Nat
    /\ 0 < FailureThreshold
    /\ Chains \subseteq {<<"yahoo">>, <<"official">>, <<"official", "yahoo">>}
    /\ Outlooks \in [Providers -> SUBSET Answers] /\ Scanners \cap Analysts = {}

VARIABLES
    time,
    chain,      \* the providers in the order of the router, or one without a router
    outlook,    \* what a provider answers at present
    health,     \* _health of the router
    history,    \* the entry of _history_cache
    analysis,   \* the entry of _analysis_cache
    fetch,      \* what a thread is doing
    newest      \* history: when the last frame that was stored was fetched

marketVars == <<time, chain, outlook, health, history, analysis, fetch, newest>>

Fetchers == Scanners \cup Analysts
Times == 0..FetchHorizon
Frames == [of : Times, split : BOOLEAN, unchecked : BOOLEAN]
NoFetch == [pc |-> "idle", at |-> 0, raised |-> FALSE, spoilt |-> FALSE,
            sound |-> {}, frame |-> None]

MarketTypeOK ==
    /\ time \in Times /\ chain \in Chains
    /\ outlook \in [Providers -> Answers]
    /\ health \in [Providers -> [failures : 0..FailureThreshold, last : Times]]
    /\ history \in Frames \cup {None}
    /\ analysis \in [of : Times, stored : Times, late : BOOLEAN] \cup {None}
    /\ fetch \in [Fetchers -> [pc : {"idle", "batch", "single", "rescue", "compute", "empty"},
                               at : 0..(Len(chain)), raised : BOOLEAN, spoilt : BOOLEAN,
                               sound : SUBSET Providers, frame : Frames \cup {None}]]
    /\ newest \in Times

MarketInit ==
    /\ time = 0 /\ chain \in Chains
    /\ outlook = [p \in Providers |-> "ok"]
    /\ health = [p \in Providers |-> [failures |-> 0, last |-> 0]]
    /\ history = None /\ analysis = None /\ newest = 0
    /\ fetch = [f \in Fetchers |-> NoFetch]

Routed == Len(chain) > 1
Fresh(stored, ttl) == time - stored < ttl

-----------------------------------------------------------------------------
(* The router. *)

\* _is_available.
Available(p) ==
    ~Routed \/ health[p].failures < FailureThreshold \/ time - health[p].last >= RouterCooldown

\* _record_failure; beyond the threshold the count tells nothing more.
Failed(p) ==
    IF ~Routed THEN health
    ELSE [health EXCEPT ![p] =
            [failures |-> IF @.failures < FailureThreshold THEN @.failures + 1 ELSE @.failures,
             last |-> time]]

\* _record_success.
Succeeded(p) == [health EXCEPT ![p].failures = 0, ![p].last = 0]

\* fetch_history of a provider: the official one keeps the errors of HTTP to itself and
\* raises those of the connection; Yahoo raises when its last resort does.
HistoryAnswer(p) == outlook[p]

\* fetch_batch of a provider: a table with nothing in it for the ticker, where Yahoo fails.
BatchAnswer(p) == IF p = "yahoo" /\ outlook[p] = "breaks" THEN "refuses" ELSE outlook[p]

-----------------------------------------------------------------------------
(* What becomes of an answer. *)

Goes(f, pc) == fetch' = [fetch EXCEPT ![f].pc = pc, ![f].at = 1]
Rests(f) == fetch' = [fetch EXCEPT ![f] = NoFetch]
Computes(f, frame) == fetch' = [fetch EXCEPT ![f] = [NoFetch EXCEPT !.pc = "compute", !.frame = frame]]

\* _store_cache, which clears the analyses of the ticker; then a scan is served, and an
\* analysis is computed.
Stores(f, split, unchecked) ==
    LET frame == [of |-> time, split |-> split, unchecked |-> unchecked]
    IN  /\ history' = frame /\ analysis' = None /\ newest' = time
        /\ IF f \in Analysts THEN Computes(f, frame) ELSE Rests(f)

\* A usable frame is stored unless it shows a split; then the caller is given nothing, and no
\* other provider is tried.
Accepts(f, answer) ==
    IF answer = "split"
    THEN /\ fetch' = [fetch EXCEPT ![f].pc = "empty", ![f].spoilt = TRUE]
         /\ UNCHANGED <<history, analysis, newest>>
    ELSE Stores(f, FALSE, FALSE)

Usable(answer) == answer \in {"ok", "split"}
KeepsCaches == UNCHANGED <<history, analysis, newest>>

-----------------------------------------------------------------------------
(* Threads. *)

InChain(p) == \E i \in 1..Len(chain) : chain[i] = p
Sound == {p \in Providers : InChain(p) /\ outlook[p] = "ok" /\ Available(p)}
Begins(f, pc) ==
    fetch' = [fetch EXCEPT ![f] = [NoFetch EXCEPT !.pc = pc, !.at = 1, !.sound = Sound]]

\* fetch_all and fetch_batch: what the cache does not have is fetched; an entry that is too
\* old is dropped.
ScanFetches(f, force) ==
    /\ fetch[f].pc = "idle"
    /\ ~force /\ history # None => ~Fresh(history.of, HistoryTTL)
    /\ history' = IF force THEN history ELSE None
    /\ Begins(f, "batch")
    /\ UNCHANGED <<time, chain, outlook, health, analysis, newest>>

\* api_analyze: no analysis is cached, or a new one is forced; the history comes from the
\* cache or is fetched.
AnalysisFetches(f, force) ==
    LET cached == ~force /\ history # None /\ Fresh(history.of, HistoryTTL)
    IN  /\ fetch[f].pc = "idle"
        /\ ~force /\ analysis # None => ~Fresh(analysis.stored, AnalysisTTL)
        /\ analysis' = None
        /\ IF cached
           THEN Computes(f, history) /\ UNCHANGED history
           ELSE /\ history' = IF force THEN history ELSE None
                /\ Begins(f, "single")
        /\ UNCHANGED <<time, chain, outlook, health, newest>>

\* The analysis is computed and stored.
StoresAnalysis(f) ==
    /\ fetch[f].pc = "compute"
    /\ analysis' = [of |-> fetch[f].frame.of, stored |-> time,
                    late |-> fetch[f].frame.of # newest]
    /\ Rests(f)
    /\ UNCHANGED <<time, chain, outlook, health, history, newest>>

\* The router passes over a provider that is not available.
PassesProvider(f) ==
    /\ fetch[f].pc \in {"batch", "single", "rescue"}
    /\ fetch[f].at \in 1..Len(chain) /\ ~Available(chain[fetch[f].at])
    /\ fetch' = [fetch EXCEPT ![f].at = IF @ < Len(chain) THEN @ + 1 ELSE 0]
    /\ KeepsCaches /\ UNCHANGED <<time, chain, outlook, health>>

\* After the last provider the loop of the router is over; its batch asks the last one again,
\* available or not.
LoopOver(f) == fetch[f].at = 0
Asked(f) == chain[IF LoopOver(f) THEN Len(chain) ELSE fetch[f].at]

\* Whether a provider is asked at this place.
Asks(f, pc) ==
    /\ fetch[f].pc = pc
    /\ ~LoopOver(f) => Available(Asked(f))

TriesNext(f) == fetch' = [fetch EXCEPT ![f].at = IF @ < Len(chain) THEN @ + 1 ELSE 0]

\* fetch_batch at the watchlist: a provider's table is the answer of the router even if it has
\* nothing for the ticker, which is then fetched singly.
AnswersBatch(f) ==
    LET p == Asked(f)
        answer == BatchAnswer(p)
    IN  /\ Asks(f, "batch")
        /\ IF answer = "breaks" /\ Routed /\ ~LoopOver(f)
           THEN TriesNext(f) /\ health' = Failed(p) /\ KeepsCaches
           ELSE /\ health' = IF Routed /\ ~LoopOver(f) THEN Succeeded(p) ELSE health
                /\ IF Usable(answer) THEN Accepts(f, answer) ELSE Goes(f, "single") /\ KeepsCaches
        /\ UNCHANGED <<time, chain, outlook>>

\* The batch of one is tried next.
Rescued(f, answer) ==
    [fetch[f] EXCEPT !.pc = "rescue", !.at = 1, !.raised = (answer = "breaks"),
                     !.spoilt = (answer = "garbled")]

\* A form with a plausible bug: the router ends at the first provider that has nothing.
AnswersSingleOnce(f) ==
    LET p == Asked(f)
        answer == HistoryAnswer(p)
    IN  /\ Asks(f, "single") /\ ~LoopOver(f)
        /\ IF Usable(answer) THEN Accepts(f, answer)
           ELSE fetch' = [fetch EXCEPT ![f] = Rescued(f, answer)] /\ KeepsCaches
        /\ health' = IF answer = "breaks" THEN Failed(p) ELSE health
        /\ UNCHANGED <<time, chain, outlook>>

\* fetch_single: the router tries the next provider when one has nothing or raises, and takes
\* what it is given; an exception of a provider without a router ends in the batch of one, too.
AnswersSingle(f) ==
    LET p == Asked(f)
        answer == HistoryAnswer(p)
        turns == fetch' = [fetch EXCEPT ![f] = Rescued(f, answer)]
    IN  /\ Asks(f, "single") /\ ~LoopOver(f)
        /\ CASE Usable(answer) -> Accepts(f, answer) /\ health' = Succeeded(p)
             [] answer = "garbled" -> turns /\ health' = Succeeded(p) /\ KeepsCaches
             [] OTHER -> /\ IF Routed THEN TriesNext(f) ELSE turns
                         /\ health' = IF answer = "breaks" THEN Failed(p) ELSE health
                         /\ KeepsCaches
        /\ UNCHANGED <<time, chain, outlook>>

\* No provider had a history.
SingleIsOver(f) ==
    /\ fetch[f].pc = "single" /\ LoopOver(f)
    /\ Goes(f, "rescue")
    /\ KeepsCaches /\ UNCHANGED <<time, chain, outlook, health>>

\* _fetch_single_batch_fallback: after an empty answer its frame is looked at for a split, after
\* an exception it is stored as it is.
AnswersRescue(f) ==
    LET p == Asked(f)
        answer == BatchAnswer(p)
    IN  /\ Asks(f, "rescue")
        /\ IF answer = "breaks" /\ Routed /\ ~LoopOver(f)
           THEN TriesNext(f) /\ health' = Failed(p) /\ KeepsCaches
           ELSE /\ health' = IF Routed /\ ~LoopOver(f) THEN Succeeded(p) ELSE health
                /\ IF ~Usable(answer) THEN fetch' = [fetch EXCEPT ![f].pc = "empty"] /\ KeepsCaches
                   ELSE IF fetch[f].raised THEN Stores(f, answer = "split", TRUE)
                   ELSE Accepts(f, answer)
        /\ UNCHANGED <<time, chain, outlook>>

\* The caller goes on without the ticker.
GivesUp(f) ==
    /\ fetch[f].pc = "empty" /\ Rests(f)
    /\ KeepsCaches /\ UNCHANGED <<time, chain, outlook, health>>

\* clear_cache, by a scan that is to be fresh and by the user interface; an entry may also be
\* evicted for another ticker's.
Clears ==
    /\ \/ history' = None /\ UNCHANGED analysis
       \/ analysis' = None /\ UNCHANGED history
       \/ history' = None /\ analysis' = None
    /\ UNCHANGED <<time, chain, outlook, health, fetch, newest>>

-----------------------------------------------------------------------------
(* The world. *)

OutlookChanges(p, answer) ==
    /\ InChain(p) /\ answer # outlook[p]
    /\ outlook' = [outlook EXCEPT ![p] = answer]
    /\ fetch' = [f \in Fetchers |-> [fetch[f] EXCEPT !.sound = @ \ {p}]]
    /\ KeepsCaches /\ UNCHANGED <<time, chain, health>>

MarketTime ==
    /\ time < FetchHorizon /\ time' = time + 1
    /\ KeepsCaches /\ UNCHANGED <<chain, outlook, health, fetch>>

MarketNext ==
    \/ \E f \in Scanners, force \in BOOLEAN : ScanFetches(f, force)
    \/ \E f \in Analysts, force \in BOOLEAN : AnalysisFetches(f, force)
    \/ \E f \in Fetchers :
        \/ StoresAnalysis(f) \/ PassesProvider(f) \/ AnswersBatch(f) \/ AnswersSingle(f)
        \/ SingleIsOver(f) \/ AnswersRescue(f) \/ GivesUp(f)
    \/ \E p \in Providers : \E answer \in Outlooks[p] : OutlookChanges(p, answer)
    \/ Clears \/ MarketTime

MarketSpec == MarketInit /\ [][MarketNext]_marketVars

-----------------------------------------------------------------------------
\* A fetch comes back empty only if no provider could have delivered all the while, though the
\* batch of the router ends with the first table and a single fetch with the first frame; or
\* because of that frame: nothing is left of it once it is normalized, or it shows the jump of a
\* split, and then a provider that could deliver is not asked (fetch_single, fetch_all).
FailoverDelivers ==
    \A f \in Fetchers : fetch[f].pc = "empty" => fetch[f].sound = {} \/ fetch[f].spoilt

\* A frame that shows a split is in the cache only when the single fetch raised before it came
\* (_is_split_anomaly: "nothing is cached").
SplitKeptOut == history # None /\ history.split => history.unchecked

\* A cached analysis is that of the newest frame that was ever stored, unless that frame came
\* while the analysis was computed (_store_cache, store_analysis).
AnalysisFollowsHistory == analysis # None /\ ~analysis.late => analysis.of = newest

\* Routing and both caches together: what a reader of the fetcher gets is there when a provider
\* could deliver it and no useless frame came first, in one price scale, and belongs to the
\* newest history (fetch_single, _is_split_anomaly, _store_cache).
ReadersServed == FailoverDelivers /\ SplitKeptOut /\ AnalysisFollowsHistory
=============================================================================
