----------------------------- MODULE ProviderCalls -----------------------------
(***************************************************************************)
(* The calls below the answers of MarketData: the rate limiter that gives    *)
(* each request of a domain its slot, the chain of sources a Yahoo history   *)
(* is tried from, the official vendor's client with its token and retries,   *)
(* the current price with its cache, and the list of tickers a fetch over    *)
(* two timeframes had to skip.                                               *)
(*                                                                         *)
(* A caller is one thread.  A sleep is a thread that does not run; only the  *)
(* slot of the limiter holds it back.  A price is the time its data is from. *)
(***************************************************************************)
EXTENDS Naturals, FiniteSets

CONSTANTS
    Callers,
    Vendors,          \* bound on the provider that is configured: "yahoo", "official"
    Mixes,            \* bound on the kinds of calls that are made beside each other
    Interval,         \* RATE_LIMIT_SECONDS
    TokenLife,        \* the hour of _ensure_auth
    QuoteTTL, DailyTTL,
    MaxTries,         \* YFINANCE_MAX_RETRIES, max_retries
    MaxTurns,         \* bound on the turns of the sources and of the vendor
    CallTickers,      \* bound on the tickers of a fetch over two timeframes
    CallHorizon,      \* bound on time
    NoSlot, NoPrice

Sources == {"chart", "yf", "table"}
Domains == {"yahoo", "bist", "official"}

ASSUME CallsAssumption ==
    /\ {Interval, TokenLife, QuoteTTL, DailyTTL, MaxTries, MaxTurns, CallHorizon} \subseteq Nat
    /\ 0 < MaxTries /\ Vendors \subseteq {"yahoo", "official"}
    /\ Mixes \subseteq SUBSET {"history", "batch", "price", "frames"}
    /\ IsFiniteSet(CallTickers) /\ {NoSlot, NoPrice} \cap Nat = {}

VARIABLES
    tick,
    vendor,
    mix,        \* the kinds of calls of this behaviour
    scraping,   \* ENABLE_REALTIME_SCRAPING
    listed,     \* the ticker ends with .IS
    last,       \* last_request of the limiter
    working,    \* the sources that deliver at present
    turns,      \* how often a source or the vendor has turned
    token,      \* _session_token: none, or whether the vendor still accepts it
    expires,    \* _token_expires
    told,       \* history: a refusal was heard since the token was stored
    quote,      \* the entry of _quote_cache
    daily,      \* the entry of _history_cache for five days of daily bars
    skipped,    \* _last_skipped_tickers
    call        \* what a thread is doing

callVars == <<tick, vendor, mix, scraping, listed, last, working, turns, token, expires, told, quote, daily, skipped, call>>

Moments == 0..CallHorizon
Slots == 0..(CallHorizon + Interval * Cardinality(Callers))
Limited == {"chart", "yf", "again", "batch", "page", "mirror", "official"}
Stages == Limited \cup {"none", "table", "history", "frames"}
NoCall == [pc |-> "idle", kind |-> "none", stage |-> "none", tries |-> 0, due |-> 0, could |-> {},
           clean |-> TRUE, answer |-> "none", age |-> 0, got |-> {}]

CallsTypeOK ==
    /\ tick \in Moments /\ vendor \in Vendors /\ mix \in Mixes /\ scraping \in BOOLEAN /\ listed \in BOOLEAN
    /\ last \in [Domains -> Slots \cup {NoSlot}]
    /\ working \subseteq Sources /\ turns \in 0..MaxTurns
    /\ token \in {"none", "good", "bad"} /\ expires \in 0..(CallHorizon + TokenLife) /\ told \in BOOLEAN
    /\ quote \in [of : Moments, at : Moments] \cup {NoPrice}
    /\ daily \in Moments \cup {NoPrice} /\ skipped \subseteq CallTickers
    /\ call \in [Callers ->
          [pc : {"idle", "waits", "stamps", "sends", "hears", "reads", "served", "none", "missing", "refused", "raised"},
           kind : {"none", "history", "batch", "price", "frames"}, stage : Stages,
           tries : 0..MaxTries, due : Slots, could : SUBSET Sources, clean : BOOLEAN,
           answer : {"none", "ok", "401", "busy", "error"}, age : Moments, got : SUBSET CallTickers]]

CallsInit ==
    /\ tick = 0 /\ vendor \in Vendors /\ mix \in Mixes
    /\ scraping \in BOOLEAN /\ (scraping \/ "price" \in mix)
    /\ listed \in BOOLEAN /\ (listed \/ mix \cap {"history", "batch"} # {})
    /\ last = [d \in Domains |-> NoSlot]
    /\ working \in (IF vendor = "yahoo" THEN SUBSET Sources ELSE {Sources}) /\ turns = 0
    /\ token = "none" /\ expires = 0 /\ told = FALSE
    /\ quote = NoPrice /\ daily = NoPrice /\ skipped = {}
    /\ call = [f \in Callers |-> NoCall]

-----------------------------------------------------------------------------
(* The limiter. *)

DomainOf(stage) ==
    CASE stage \in {"chart", "yf", "again", "batch"} -> "yahoo"
      [] stage \in {"page", "mirror"} -> "bist"
      [] OTHER -> "official"

\* wait_if_needed: the next slot of the domain, one interval after the one given out last.
SlotOf(d) ==
    IF last[d] = NoSlot \/ last[d] + Interval < tick THEN tick ELSE last[d] + Interval
\* A form with a plausible bug: the time of the call is stored, not the slot it was given.
ReservedNow(d) == [last EXCEPT ![d] = tick]

Reserved(d) == [last EXCEPT ![d] = SlotOf(d)]

\* A thread turns to the next stage and, where that is limited, waits for a slot.
Turns(f, c, stage, tries) ==
    LET d == DomainOf(stage)
        due == IF stage \in Limited THEN SlotOf(d) ELSE 0
    IN  /\ call' = [call EXCEPT ![f] = [c EXCEPT !.pc = "waits", !.stage = stage,
                                                 !.tries = tries, !.due = due]]
        /\ last' = IF stage \in Limited THEN Reserved(d) ELSE last

\* A call has its result, and forgets what it no longer needs.
Settled(c, pc) == [c EXCEPT !.pc = pc, !.tries = 0, !.due = 0, !.answer = "none"]
Results(f, pc) == call' = [call EXCEPT ![f] = Settled(@, pc)] /\ UNCHANGED last

-----------------------------------------------------------------------------
(* Calls. *)

\* The sources that are asked for the ticker and deliver: for one of another exchange only the
\* library is asked.
Ready == IF listed THEN working ELSE working \cap {"yf"}
FirstSource == IF listed THEN "chart" ELSE "yf"

\* What a call begins with: the sources that are ready, and a token nobody has heard refused yet.
Opened(kind) ==
    [NoCall EXCEPT !.kind = kind, !.could = IF vendor = "yahoo" /\ kind \in {"history", "batch"} THEN Ready ELSE {},
                   !.clean = (token # "bad" \/ told)]

\* fetch_history, fetch_batch.
CallsHistory(f) ==
    /\ call[f].pc = "idle" /\ "history" \in mix
    /\ Turns(f, Opened("history"), IF vendor = "official" THEN "official" ELSE FirstSource, 1)
    /\ UNCHANGED <<tick, vendor, mix, scraping, listed, working, turns, token, expires, told, quote, daily, skipped>>

CallsBatch(f) ==
    /\ call[f].pc = "idle" /\ "batch" \in mix
    /\ Turns(f, Opened("batch"), IF vendor = "official" THEN "official" ELSE "batch", 1)
    /\ UNCHANGED <<tick, vendor, mix, scraping, listed, working, turns, token, expires, told, quote, daily, skipped>>

CachedQuote == quote # NoPrice /\ tick - quote.at < QuoteTTL

\* get_current_price: from the cache, or from the exchange's pages and what comes after them, or
\* without scraping from the history at once; an entry that is too old is dropped.
CallsPrice(f) ==
    /\ call[f].pc = "idle" /\ "price" \in mix
    /\ IF CachedQuote
       THEN /\ call' = [call EXCEPT ![f] = [Opened("price") EXCEPT !.pc = "served", !.age = tick - quote.of]]
            /\ UNCHANGED <<last, quote>>
       ELSE /\ Turns(f, Opened("price"), IF scraping THEN "page" ELSE "history", 1)
            /\ quote' = NoPrice
    /\ UNCHANGED <<tick, vendor, mix, scraping, listed, working, turns, token, expires, told, daily, skipped>>

\* fetch_multi_timeframe, fetch_multi_timeframe_all.
CallsFrames(f) ==
    /\ call[f].pc = "idle" /\ "frames" \in mix
    /\ Turns(f, Opened("frames"), "frames", 1)
    /\ UNCHANGED <<tick, vendor, mix, scraping, listed, working, turns, token, expires, told, quote, daily, skipped>>

Due(f, stages) == call[f].pc = "waits" /\ call[f].stage \in stages /\ call[f].due <= tick

Prices(f, of) ==
    /\ quote' = [of |-> of, at |-> tick]
    /\ call' = [call EXCEPT ![f] = [Settled(@, "served") EXCEPT !.age = tick - of]]
    /\ UNCHANGED last

-----------------------------------------------------------------------------
(* Yahoo. *)

SourceOf(stage) ==
    CASE stage \in {"yf", "batch"} -> "yf" [] stage = "table" -> "table" [] OTHER -> "chart"

\* The chart, the library with its retries, the chart again, the table of StockAnalysis; a batch
\* is retried, then each ticker goes the way of a single one, which for a ticker of another
\* exchange is the library alone.  A failure is an empty answer, an error that is retried, or
\* another one.
NextSource(f, failure) ==
    LET c == call[f]
        stage == c.stage
        retried == failure # "error" /\ c.tries < MaxTries
    IN  CASE stage = "chart" -> Turns(f, c, "yf", 1)
          [] stage = "yf" -> IF retried THEN Turns(f, c, "yf", c.tries + 1)
                             ELSE IF listed THEN Turns(f, c, "again", 1) ELSE Results(f, "none")
          [] stage = "again" -> Turns(f, c, "table", 1)
          [] stage = "batch" -> IF retried THEN Turns(f, c, "batch", c.tries + 1)
                                ELSE Turns(f, c, FirstSource, 1)
          [] OTHER -> Results(f, IF failure = "empty" \/ c.kind = "batch" THEN "none" ELSE "raised")

\* A batch may also be answered without the ticker, which is given up at once.
AsksYahoo(f) ==
    /\ Due(f, {"chart", "yf", "again", "batch", "table"})
    /\ \/ SourceOf(call[f].stage) \in working /\ Results(f, "served")
       \/ /\ SourceOf(call[f].stage) \notin working
          /\ \E failure \in {"empty", "busy", "error"} : NextSource(f, failure)
       \/ call[f].stage = "batch" /\ Results(f, "missing")
    /\ UNCHANGED <<tick, vendor, mix, scraping, listed, working, turns, token, expires, told, quote, daily, skipped>>

-----------------------------------------------------------------------------
(* The official vendor. *)

\* _retry_request after an answer it retries; on the last try the error goes up: one of the
\* vendor's own is an empty answer of fetch_*, one of the connection is not caught.
Retries(f, failure) ==
    IF call[f].tries < MaxTries
    THEN call' = [call EXCEPT ![f] = [Settled(@, "waits") EXCEPT !.tries = call[f].tries + 1]]
    ELSE call' = [call EXCEPT ![f] = Settled(@, IF failure = "busy" THEN "none" ELSE "raised")]

KeepsToken == UNCHANGED <<token, expires, told>>

\* _ensure_auth: a token that is not too old is used, or a new one fetched; its expiry is written
\* after it.
EnsuresAuth(f) ==
    /\ Due(f, {"official"})
    /\ \/ /\ token # "none" /\ tick < expires
          /\ call' = [call EXCEPT ![f].pc = "sends", ![f].due = 0] /\ KeepsToken
       \/ /\ token = "none" \/ tick >= expires
          /\ \/ /\ token' = "good" /\ told' = FALSE /\ UNCHANGED expires
                /\ call' = [call EXCEPT ![f].pc = "stamps", ![f].due = 0]
             \/ /\ \E failure \in {"busy", "lost"} : Retries(f, failure)
                /\ KeepsToken
             \/ call' = [call EXCEPT ![f] = Settled(@, "none")] /\ KeepsToken
    /\ UNCHANGED <<tick, vendor, mix, scraping, listed, last, working, turns, quote, daily, skipped>>

StampsExpiry(f) ==
    /\ call[f].pc = "stamps"
    /\ expires' = tick + TokenLife
    /\ call' = [call EXCEPT ![f].pc = "sends"]
    /\ UNCHANGED <<tick, vendor, mix, scraping, listed, last, working, turns, token, told, quote, daily, skipped>>

\* The request carries the token of the provider at this moment, which another thread may have
\* cleared or replaced; the vendor looks at it.
SendsRequest(f) ==
    /\ call[f].pc = "sends"
    /\ \E answer \in {"ok", "busy", "error"} :
          call' = [call EXCEPT ![f].pc = "hears", ![f].answer = IF token = "good" THEN answer ELSE "401"]
    /\ UNCHANGED <<tick, vendor, mix, scraping, listed, last, working, turns, token, expires, told, quote, daily, skipped>>

\* A form with a plausible bug: the refused token stays, until its hour is over.
ClearsNothing == UNCHANGED <<token, expires>>

\* _clear_auth: the token of the provider goes, whichever was refused.
ClearsAuth == token' = "none" /\ expires' = 0

\* A refusal is heard: every other call under way may suffer from it.
HearsRefusal(f) ==
    /\ call[f].pc = "hears" /\ call[f].answer = "401"
    /\ ClearsAuth /\ told' = TRUE
    /\ call' = [g \in Callers |-> IF g = f THEN Settled(call[f], "refused")
                                  ELSE [call[g] EXCEPT !.clean = FALSE]]
    /\ UNCHANGED <<tick, vendor, mix, scraping, listed, last, working, turns, quote, daily, skipped>>

\* Any other answer: data; too many requests or an error of the server, which are retried; an
\* error of the client, which is not.
HearsAnswer(f) ==
    /\ call[f].pc = "hears" /\ call[f].answer # "401"
    /\ CASE call[f].answer = "ok" /\ call[f].kind = "price" -> Prices(f, tick)
         [] call[f].answer = "ok" /\ call[f].kind # "price" -> Results(f, "served") /\ UNCHANGED quote
         [] call[f].answer = "busy" -> \E failure \in {"busy", "lost"} :
                                          Retries(f, failure) /\ UNCHANGED <<last, quote>>
         [] OTHER -> Results(f, "none") /\ UNCHANGED quote
    /\ UNCHANGED <<tick, vendor, mix, scraping, listed, working, turns, token, expires, told, daily, skipped>>

-----------------------------------------------------------------------------
(* The current price. *)

\* scrape_bist_quote: the two pages, one after the other; then the provider's quote, which Yahoo
\* does not have, and the history.
AsksPage(f) ==
    /\ Due(f, {"page", "mirror"})
    /\ \/ Prices(f, tick)
       \/ /\ UNCHANGED quote
          /\ CASE call[f].stage = "page" -> Turns(f, call[f], "mirror", 1)
               [] call[f].stage = "mirror" /\ vendor = "official" -> Turns(f, call[f], "official", 1)
               [] OTHER -> Turns(f, call[f], "history", 1)
    /\ UNCHANGED <<tick, vendor, mix, scraping, listed, working, turns, token, expires, told, daily, skipped>>

\* The provider's quote failed without an exception.
FallsToHistory(f) ==
    /\ call[f].pc \in {"none", "refused"} /\ call[f].kind = "price" /\ call[f].stage = "official"
    /\ Turns(f, call[f], "history", 1)
    /\ UNCHANGED <<tick, vendor, mix, scraping, listed, working, turns, token, expires, told, quote, daily, skipped>>

\* fetch_single of five days: from the cache, or fetched (MarketData), and its last close stored
\* as a quote of this moment.
PricesFromHistory(f) ==
    /\ Due(f, {"history"})
    /\ IF daily # NoPrice /\ tick - daily < DailyTTL
       THEN Prices(f, daily) /\ UNCHANGED daily
       ELSE \/ daily' = tick /\ Prices(f, tick)
            \/ daily' = NoPrice /\ Results(f, "none") /\ UNCHANGED quote
    /\ UNCHANGED <<tick, vendor, mix, scraping, listed, working, turns, token, expires, told, skipped>>

\* clear_cache, or another ticker's quote takes the place.
ClearsQuote ==
    /\ quote # NoPrice /\ quote' = NoPrice
    /\ UNCHANGED <<tick, vendor, mix, scraping, listed, last, working, turns, token, expires, told, daily, skipped, call>>

-----------------------------------------------------------------------------
(* Two timeframes. *)

\* What has both frames is combined; the rest is recorded for whoever asks next.
CombinesFrames(f) ==
    /\ Due(f, {"frames"})
    /\ \E trend \in SUBSET CallTickers, trigger \in SUBSET CallTickers :
          /\ skipped' = CallTickers \ (trend \cap trigger)
          /\ call' = [g \in Callers |->
                IF g = f THEN [call[f] EXCEPT !.pc = "reads", !.got = trend \cap trigger, !.clean = TRUE]
                ELSE IF call[g].pc = "reads" THEN [call[g] EXCEPT !.clean = FALSE] ELSE call[g]]
    /\ UNCHANGED <<tick, vendor, mix, scraping, listed, last, working, turns, token, expires, told, quote, daily>>

\* get_last_skipped_tickers, asked by the scan that has just fetched.
ReadsSkipped(f) ==
    /\ call[f].pc = "reads" /\ Results(f, "served")
    /\ UNCHANGED <<tick, vendor, mix, scraping, listed, working, turns, token, expires, told, quote, daily, skipped>>

-----------------------------------------------------------------------------
Returns(f) ==
    /\ call[f].pc \in {"served", "none", "missing", "refused", "raised"}
    /\ call' = [call EXCEPT ![f] = NoCall]
    /\ UNCHANGED <<tick, vendor, mix, scraping, listed, last, working, turns, token, expires, told, quote, daily, skipped>>

\* A source fails or recovers.
SourceTurns(s) ==
    /\ vendor = "yahoo" /\ turns < MaxTurns /\ turns' = turns + 1
    /\ working' = IF s \in working THEN working \ {s} ELSE working \cup {s}
    /\ call' = [f \in Callers |-> [call[f] EXCEPT !.could = @ \ {s}]]
    /\ UNCHANGED <<tick, vendor, mix, scraping, listed, last, token, expires, told, quote, daily, skipped>>

\* The vendor no longer accepts its tokens.
VendorRevokes ==
    /\ token = "good" /\ turns < MaxTurns /\ turns' = turns + 1
    /\ token' = "bad"
    /\ call' = [f \in Callers |-> [call[f] EXCEPT !.clean = FALSE]]
    /\ UNCHANGED <<tick, vendor, mix, scraping, listed, last, working, expires, told, quote, daily, skipped>>

CallTime ==
    /\ tick < CallHorizon /\ tick' = tick + 1
    /\ UNCHANGED <<vendor, mix, scraping, listed, last, working, turns, token, expires, told, quote, daily, skipped, call>>

CallsNext ==
    \/ \E f \in Callers :
        \/ CallsHistory(f) \/ CallsBatch(f) \/ CallsPrice(f) \/ CallsFrames(f)
        \/ AsksYahoo(f) \/ EnsuresAuth(f) \/ StampsExpiry(f) \/ SendsRequest(f)
        \/ HearsRefusal(f) \/ HearsAnswer(f) \/ AsksPage(f) \/ FallsToHistory(f)
        \/ PricesFromHistory(f) \/ CombinesFrames(f) \/ ReadsSkipped(f) \/ Returns(f)
    \/ \E s \in Sources : SourceTurns(s)
    \/ ClearsQuote \/ VendorRevokes \/ CallTime

CallsSpec == CallsInit /\ [][CallsNext]_callVars

-----------------------------------------------------------------------------
\* Requests of one domain that wait for their slots are an interval apart, however many threads
\* asked for one at the same moment (wait_if_needed).
SlotsApart ==
    \A f, g \in Callers :
        f # g /\ call[f].pc = "waits" /\ call[g].pc = "waits" /\ {call[f].stage, call[g].stage} \subseteq Limited
        /\ DomainOf(call[f].stage) = DomainOf(call[g].stage) /\ call[f].due > 0 /\ call[g].due > 0
            => call[f].due >= call[g].due + Interval \/ call[g].due >= call[f].due + Interval

\* A Yahoo call comes back without data only if none of the sources could have delivered all the
\* while: the chart, the library and the table, or the library alone for a ticker without .IS.
\* Only a ticker that the answer to a batch lacks comes back without data though others were
\* ready (fetch_history, fetch_batch).
SourcesTried ==
    \A f \in Callers : vendor = "yahoo" /\ call[f].kind \in {"history", "batch"}
                       /\ call[f].pc \in {"none", "raised"} => call[f].could = {}

\* A call is refused for its token only when the vendor turned the token down during the call or
\* before anybody knew, or when another call heard a refusal meanwhile (_ensure_auth, _clear_auth).
RefusalsExplained ==
    \A f \in Callers : call[f].pc = "refused" => ~call[f].clean

\* The oldest that a cache lets its entries become.
Oldest(ttl) == IF ttl = 0 THEN 0 ELSE ttl - 1

\* A price is never from data older than the two caches together allow: the last moment of the one
\* and then of the other (get_current_price).
PricesRecent ==
    \A f \in Callers : call[f].kind = "price" /\ call[f].pc = "served"
                       => call[f].age <= Oldest(QuoteTTL) + Oldest(DailyTTL)

\* The skipped tickers a scan reads are those it did not get, unless another fetch ended in between.
SkipsOwn ==
    \A f \in Callers : call[f].pc = "reads" /\ call[f].clean => skipped = CallTickers \ call[f].got

\* The calls below the fetcher together: slots, sources, tokens, ages and the list of the skipped
\* (RateLimiter, YFinanceProvider, BaseOfficialProvider, get_current_price, _record_skipped_tickers).
CallsSound == SlotsApart /\ SourcesTried /\ RefusalsExplained /\ PricesRecent /\ SkipsOwn
=============================================================================
