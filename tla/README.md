# bist-bot: specifications, model checking and proofs

bist-bot scans the shares of Borsa Istanbul, scores them, and trades the signals, on paper
or through the AlgoLab broker.  This directory specifies the parts of it that decide: what
is ordered, recorded, sold and told, when the process looks, who may do what, and where two
pieces of code have to agree on a result.

Paths below are relative to `src/bist_bot/` of the repository.

## 1. Inventory

| Component | State it keeps | Operations | What makes it correct |
|---|---|---|---|
| Live order submission (`execution/algolab_broker.py`) | tokens; everything else is durable in the intents | `place_order`, `_reconcile_order`, start-up replay | at most one order per intent; an order whose outcome is unknown blocks its ticker until it is known |
| Order intents (`db/repositories/order_intents_repository.py`) | table `order_intents`: status, `active_key` (the ticker's lock), `broker_order_id` | `create`, `update`, `update_conditional`, `list_reconcilable`, `is_broker_order_bound` | the lock excludes; a released intent changes only at an administrator's hand |
| Reconciled fill accounting (`execution/reconcile_accounting.py`) | none | `record_fill` | a fill is booked once, also when it is accounted again after a crash, as far as the positions can be read |
| Execution service, exit service (`services/`, `agent/`) | none | `execute_signal`, `exit_position`, `process_pending_exits` | the order row follows the broker's answer; closed means sold |
| Resolution endpoint (`dashboard.py`) | none | resolve an intent by hand | a manual decision does not undo what is recorded |
| Position and order ledgers (`agent/position_manager.py`, `db/repositories/`) | tables `live_positions`, `orders` | open, close, count; create, update | a position is recorded iff the shares are held |
| Order tracker (`execution/order_tracker.py`) | its thread | `poll_once` | rows follow the broker |
| Trading agent (`agent/trading_agent.py`, `command_handler.py`) | operational state, resume generation, monitor thread | scan cycle, monitor, stop, pause, resume, close | limits hold; exits go on; a halt lasts |
| Scheduler (`scheduler.py`, `market_calendar.py`) | health and end-of-day state, in memory | the loop, end-of-day pass, watchdog | no session ends unnoticed; scans keep their distance; a silent bot is reported |
| Scans over HTTP (`dashboard.py`, `scanner.py`, `risk/circuit_breaker.py`) | lease, events, breaker | `api_scan`, `scan_once`, `allow`, `record_*` | scans exclude each other; a scan told to abort leaves nothing; a tripped breaker rests |
| Paper trades (`services/paper_trade_service.py`) | table `paper_trades`, ledger mirror, trail extremes | queue, pass, close, end of day | the mirror agrees with the row; a day ends flat |
| Shadow trades and signal outcomes (`services/`) | JSON, CSV and database each | open, pass, report, mirror | the end of a position is reported once and mirrored on its own row |
| Paper broker (`broker/`, `execution/`) | cash, positions and orders in memory | submit, fill, partial fill, cancel | money and shares balance; rows follow |
| Market data (`data/`) | provider health, histories, analyses, tokens, slots, quotes | fetch, fail over, retry, clear | data that was available is served; nothing stale or mixed up is |
| Strategy (`strategy/`, `indicators.py`) | sectors, registered positions, memos | `scan_all`, `analyze`, regimes, indicators | a scan keeps its limits; a score decides in its own sense; live and backtest see one market |
| Risk levels and sizes (`risk/`) | none | `determine_final_levels`, the steps of a size | stop below, target above, budget kept |
| Announcements and sending (`services/`, `scanner.py`, `notifier.py`) | last message per ticker, cooldowns, send times | filter, store, tell, retry | told sparingly, never silently dropped |
| Backtest and validation (`backtest/`, `optimization/`, `ml/`) | books of a run, diagnostics | two ways through the bars, five ways of cutting them | both ways agree; nothing trained on is tested |
| Simulators and reports (`scripts/`, `services/`, `reporting/`) | none | follow a position to its exit; count and sum | where two of them tell the same thing, they tell the same |
| Backfills and datasets (`scripts/`, `analytics/`) | tables of the bot | outcome backfill, ledger backfill, replay datasets | written once, on the chosen rows, beside the running bot |
| Subscriptions (`dashboard.py`, `auth/`, `db/`) | payment requests, expiry of a user | claim, approve, reject, set by hand | a request pays out once; a membership is what its grants add up to |
| Accounts (`auth/`, `dashboard.py`) | hashes, tokens, cookies, revocations | login, register, mint, logout, gates, audit | what has ended stays ended; what is granted was the role's to have |
| Interface sessions (`ui/`) | session state, results waiting, active sessions | script runs, background worker, refresh, reset, logout | the page shows the newest scan; nobody waits for nobody |
| Start-up (`main.py`, `dependencies.py`, `db/`) | schema, bootstrap mark, degraded web process | create, migrate, seed, check the configuration | a schema is whole before it is used; the administrator is seeded once |
| Presentation, studies, tools | none | pages, charts, research and deployment scripts | not a subject of this directory |

How they interact.  The scheduler's thread runs a scan and hands its signals to the agent,
which checks exits, then enters positions through the execution service, which calls the
broker.  A monitor thread checks exits too.  Chat commands and auto-resume timers arrive on
threads of their own, and the dashboard serves scans, analyses, decisions on intents, payments
and sessions from the threads of a web server in another process.  At start a background thread
replays unresolved intents while orders are already accepted.  All of them share the database;
inside a process they share one engine, one fetcher with its caches and one circuit breaker.  The
agent's lock protects its operational state and not the ledgers; what keeps two orders of one
ticker apart is a unique column of the database.

What is hard here: a POST whose answer is lost; a crash between two writes; a reconciliation
from a history that has no client ids; two threads that read the same position; a decision
taken on a read that is out of date; a scan that was given up and goes on; caches keyed by less
than their content depends on; an algorithm written twice.  `PROJECT.json` lists these hazards at
their lines with the properties that cover them.

## 2. Modules

| Module | Content |
|---|---|
| `OrderIntents` | the intent table and its transactions, used by the next one |
| `AlgoLabBroker` | submission, reconciliation, replay, accounting, manual resolution, crash |
| `OrderGate` | abstract: what submission promises, without threads, tables or reconciliation |
| `AlgoLabBroker_proofs` | the inductive invariants; types; what follows from them, finality, the refinement, the accounting |
| `TradingAgent`, `_proofs` | agent, exits, monitor, timers, commands, tracker |
| `MarketScheduler`, `_proofs` | the scheduler's loop over days, with time |
| `ScanRequests`, `_proofs` | `api_scan` with lease and timeout, `scan_once` with its boundaries, the breaker |
| `PaperTrades`, `Subscriptions`, `VirtualTrades` | rows and their mirrors; payments and memberships; shadow trades and outcomes |
| `BrokerSession` | the requests below submission: login, session, retries; the rows of the two `OrderExecutor`s; the probes |
| `MarketData`, `ProviderCalls` | provider chain, health and caches; below them slots, sources, tokens, retries, quotes |
| `EntryScan`, `SignalDecision`, `Indicators`, `RiskLevels` | from bars to a signal with stop, target and size |
| `Announcements`, `Outbox` | what becomes of a signal; what becomes of a message |
| `Desk` | the paper broker with its order rows and tracker |
| `Backtest`, `WalkForward`, `ExitSimulators`, `Figures` | algorithms that exist twice, and sums that have to add up |
| `OutcomeBackfill`, `LedgerBackfill`, `PnlRepair`, `SqliteImport`, `ReplayDatasets` | scripts beside the running bot |
| `ParameterSearch`, `ModelArtifacts` | what is learnt: parameters, the files of the meta model |
| `Backfills` | the scripts and what is learnt, together |
| `Backfills_proofs`, `Entries_proofs` | of what `Backfills` joins and of `WalkForward`; of `EntryScan`, `RiskLevels` and `Desk` |
| `SessionScans`, `Accounts`, `StartUp` | pages, sessions, processes |
| `Services_proofs` | of `PaperTrades`, `Subscriptions`, `VirtualTrades`, `MarketData`, `SessionScans`, `Announcements`, `Outbox`, `SignalDecision` |
| `Platform_proofs` | of `BrokerSession`, `Accounts`, `ProviderCalls`, `StartUp`, `ExitSimulators` |
| `MC_AlgoLabBroker`, `MC_TradingAgent` | instances: the ticker of an order; symmetry of the tickers |
| `MC_Commands`, `MC_Services`, `MC_Platform` | several components in one run |

The three last put components side by side that share no state in these models.  A state
of their product would say nothing that a state of one of them does not, so a behaviour picks
one of them at the start (`served`, `part`, `side`) and the others rest in one initial state.
Where components do interact, the interaction is inside one module: the broker with its tables,
accounting and administrator; the agent with exits, tracker and commands; requests with scans
and breaker; the fetcher with router and caches; the paper broker with rows and tracker.

### Order submission

Each thread has a program counter (`th[t].pc`) and the locals it needs after a database or
network call; one action is what happens between two of those calls.  `CheckUnresolved`,
`CreateIntent`, `MarkSent`, `Post`, `Answer` and `AnswerLost` are `place_order` in its
order; `fetch`, `cancel`, `reread`, `account`, `write`, `cas`, `override` are the stations of
`_reconcile_order` and `_settle_matched_fill`, with `record_fill` split between its reads and
its position write.  The replay lists intents (`start`) and runs the same stations one intent
at a time.  `Return` is what `execute_signal` and `exit_position` do with the result, `KeepBooks` what the
agent does after them: it opens a position for an accepted entry, and closes by its id the one an exit sold, also when
the accounting has done so in line; `PendingExit` is the same close, cycles later.  An exit is here a SELL without an order row of
`place_order`'s (`IsExit`); its own row keeps the position it sells (`exits`).  The administrator decides on any intent, a
released one too, from what the broker's list shows.  A crash
parks all threads and keeps the tables and the broker's side.  The broker decides requests,
fills, and cancels on its own, also after a caller has timed out.

Abstracted: quantities are whole lots; prices, tokens and wording are left out; a 401 with
its single retry creates nothing, so it is part of `Post`.  An order of the intent's own is
always in the window of history that is searched, and a foreign order of the same shape may
or may not be.  The dry-run return is not modelled.  `execute_signal` has a second call of the broker without the order row for brokers
that do not accept the argument; a `TypeError` raised inside the first call takes that path,
where the ticker's lock refuses it, so it adds nothing to the model.

An accepted answer may carry no order id (`unnamed`): its intent is acknowledged and released, and the order stands in
the broker's history bound to nobody.  What the documents promise of an order's own intent cannot hold for its ticker and
side from then on, so the properties say *unless an order of that kind was left unnamed* (`Astray`, `blurred` in
`OrderGate`), and no more: a ticker or side without such an answer keeps everything.  A read of the positions that
fails answers None, as a ticker without a position does; a position opened on such a read is marked `unread`.

Two constants state the operating procedure.  `OrderedStartup`: no order is placed before the
replay has made its list.  `CarefulAdmin`: an intent is resolved by hand only when no thread
works on it, its request is not on the way, and the history is looked at under its own order.  The code enforces
neither (`dependencies.py` starts the replay in the background, `dashboard.py` does not look at the lock).  `NoOrphanOrder`,
`BoundToOwnOrder`, `AccountedOnce`, `BookedReleasedByAdmin`, `ReleasedIsFinal`, `ClosedIsFinal` and `GateRefined` are checked and
proved under both; without the first, `NoOrphanOrder` fails.

`BrokerSession` is the layer below: every request first looks for a session without the lock,
logs in under it if there is none, reads the headers, sends, and is refused, lost, garbled or
served.  The first refusal clears whatever session is there; placing an order is tried at most
twice and only after a refusal, everything else up to `max_retries`.  Above it stand the two
`OrderExecutor`s, which write a row before and after the order, and the probes, which
authenticate and nothing else.  The intents of `place_order` are left to `AlgoLabBroker`.

### Trading agent

Threads: the scheduler's scan, one chat thread, monitors, timers.  `agent`, `generation`,
`running` and `latest` are the agent's fields; `positions` and `today` the position ledger
with the day each row counts for; `exits` joins the row of an exit order with its state at
the broker.  The scan cycle is `ScanCompleted` (the unlocked look at HALTED), `SetState`, the
exit loop (`ListExits`, `PlaceExit`, `CloseExited`: one position per round, the sale and the
ledger write apart), `CanTrade`, `CountSlots`, `FilterSignals`, the entry loop (`EnterNext`,
`OpenEntered`) and `FinishScan`.  The monitor runs the exit loop and `process_pending_exits`.
The emergency stop runs the exit loop on everything.  An entry is here ready or not; how it
gets there is the submission model.  A failing call, read or write spends one of `MaxFaults`.

What the model shows on the way, though it is no property: `/close` sells and leaves the row
open (`ManualClose`), so the next exit check may sell again; the order tracker can mark an
exit FILLED first, and `process_pending_exits` then never closes its position; one exit
that raises ends the round for the ones behind it; scan and monitor can sell the same
position.  `CommandHandler` has no caller in the repository besides its tests, and nothing
calls `start_monitor`: without a resume the scan cycle is the only one to look at stops, which
is what `DueIsExited` relies on.

### Scheduler

One thread and the clock.  Time passes only while the thread sleeps or works, up to the
deadline of what it does; every other step is instantaneous.  A scan and an end-of-day pass take
any time up to their bound and succeed or raise.  `Watched` is `_check_watchdog`,
`NextSlot` the alignment to the clock's grid, `Interrupts` the look at the end-of-day pass in both
long sleeps.  A crash forgets everything.  `since` and `passes` are history for the properties.
Half days are left out (their set is a matter of the calendar), as is the loop's catch-all:
nothing left inside it raises.  Sleeps of ten seconds are below a tick.

### Scans over HTTP

A request takes the lease (`api_scan`), starts its scan in a thread and waits with a timeout.
Giving up sets the abort event but cannot stop the thread: `scan_once` looks at the event at its
boundaries only, and what lies before a boundary is written although the scan was given up.  The
clock makes leases run out.  The breaker counts errors of all scans of the process, opens, and lets
a probe through after its cooldown; a scan that was admitted before the trip reports to it as well.

### Rows and their mirrors

`PaperTrades`: several services over one table; a pass reads, considers each trade, writes the
row and then the ledger, and may fail or crash between the two.  `VirtualTrades`: `Begin` reads
the JSON file, `FindsDue`, `Opens`, `Writes`, `Reports`, `Mirrors` are the writes of a pass in
its order, and `BreaksOff` ends it anywhere.  `Subscriptions`: a handler works in one transaction
under READ COMMITTED, so it reads what was committed before the read, and its first write
locks the row; the membership's expiry is read and written apart.  `Desk`: `PaperBroker` in
memory with the two services that write rows about it, the tracker, and a restart that forgets
the broker and keeps the rows.

### Market data

`MarketData`: a fetch goes to the providers in the order of the chain, skips those that failed
recently, in a batch, singly and in a batch of one; histories and analyses are cached, and a clear
may come while a fetch is under way.  The first frame ends a fetch: one that shows the jump of a split, or of which
normalizing leaves nothing, makes the fetch come back empty though the next provider is sound (`spoilt`).  `ProviderCalls`: a caller reserves its slot of the domain
under the limiter's lock and sleeps outside it; the sources of a Yahoo history are tried one
after the other, for a ticker without `.IS` the library alone (`Ready`, `FirstSource`); a ticker that the answer to a batch lacks is
given up at once (`missing`); the official client logs in, sends, clears its token on a 401 and retries; the
current price looks at two caches; a fetch over two timeframes leaves the skipped tickers in a
field that all fetches share.

### From bars to a signal

`Indicators` keeps exact readings: a mean is compared without dividing, a quotient is kept in units of
`1/Unit`, and a row with NaN has no reading.  `SignalDecision` has three parts.  The first compares the
regimes that the live bot computes bar by bar with those the backtest computes of all bars at once.  The second is `analyze`:
four components score a chart, gates and caps correct the sum, penalties and the session correct
it again, the type is decided, and risk, the higher timeframe and the macro regime may still change
it.  The third is the diagnosis of one rule on the rows of a window (`diagnose_chase_for_window`), with the score
of the second.  `EntryScan` is `scan_all` with the risk manager several threads share.  `RiskLevels` chooses
stop and target among five methods and follows the size through every correction; its arithmetic
is in whole units as the code's rounding is to ticks and shares.

### Told and sent

`Announcements` follows the signal of one ticker through the change message, the filters of
sales per day and of bought lately, and `save_signals`, between services over one database.  `Outbox`
is the notifier: the sliding window, where reading the clock, testing the oldest slot, dropping the oldest, counting
and taking are steps of their own and nothing locks them (`wronged` is a slot dropped in place of the one tested, `broken` a
message lost to the `IndexError` of an emptied window), 429 with its wait, retries with
backoff, a lost answer after arrival, and the alarm of the freshness gate, which rests for a while after
it was given.  The code notes that time before it sends, as the time at which the scan looked: an alarm
given late sets the time back, so two alarms may be less than the cooldown apart although each scan
looked in good order.  `AlarmsCoolDown` says when: if one of them, or one between, looked before the first.

### Algorithms written twice

`Backtest`: the bars are chosen one by one while `_run_iterative` walks over them; `_run_vectorized`
then jumps over the bars chosen.  `ExitSimulators`: eight functions follow a position over the
same bars.  `WalkForward`: the cutting by rows, by months (rolling and anchored), by days, with a
warm-up, and by shares of the dates; then one backtester runs over all windows and its
diagnostics are read after each run.  `ReplayDatasets`: episodes in one pass and in slices.
`Figures`: the sections of a day's report and of performance reports, over the same records.

### Scripts beside the bot

`OutcomeBackfill` loads pending signals, decides on bars loaded later, and writes while the live
tracker writes too; the day's last bar may be unfinished.  `LedgerBackfill` reads its keys, then
three sources, and inserts in one transaction, while trades open, close and are mirrored or not.
`PnlRepair` compares, lists, applies, looks for drift and adds its constraint, each in a transaction of its own, with
another run and the bot in between.  `SqliteImport` is the loop over the files for one table: `isKey` tells
`app_settings`, whose key the database keeps unique, from the other tables, whose rows only the script compares; rows
whose time cannot be read have one key between them and break the insertion.  `ParameterSearch` is the grid, the random
search of each window and the search of the recalibration, which compares an exact fitness with a rounded one.
`ModelArtifacts`: a training saves its files one by one and the manifest last, a load verifies the manifest first and
then reads the files one by one; a file stands for the number of the training that wrote it.

### Pages, sessions, processes

`SessionScans`: the script of a page runs from its top at every event; a worker leaves its result
under the session's key.  That Streamlit may interrupt a run at an access of `session_state` when
a click arrives is an assumption about Streamlit; it gives `LosesResult`, `LosesRefresh` and
`LosesWorker`.  `Accounts`: one account, one browser with tabs; a request is its database calls in
order; revoking, expiry, a changed role and a restarted web server come in between.  `StartUp`: processes
boot over one database; SQLite commits DDL and reads outside the write transaction, PostgreSQL
aborts a transaction after an error; the web process may come up degraded and try again.  Demoting
the administrator and clearing the bootstrap mark are an operator's doing.

## 3. Runs

| Run | Instance | Shows |
|---|---|---|
| `buys` | 2 BUYs of a ticker, 2 submitters, replay, 1 resolution, 1 crash; 1.9 million states | lock, sight, own order, single booking, finality, release by admin only, refinement of `OrderGate` |
| `sells` | 1 BUY, 1 SELL with order row, 1 exit, client id echoed, no remainder cancel, 1 resolution, 1 crash; 3.6 million states | the exit a sale's accounting wrote is replaced by no accounting |
| `limits` | 3 tickers, 2 slots, 3 rows, several days, a monitor, a timer, one command of any kind; 1,053,677 states | `WithinLimits`, `OneOpenPerTicker` |
| `commands` | agent: 1 ticker, 2 commands, a monitor, a timer, 1 fault; scans: 3 requests, timeout 2 below lease 3; 1,111,124 states | `ClosedWasSold`, `DueIsExited`; `ScansExclusive`, `StrictDiscard`, `TripHolds`, `EveryRequestAnswered` |
| `days` | session, holiday, session; 1 crash; 5,646,153 states | `EodSettledOnce`, `SilenceReported`, `ScansSeparated` |
| `services` | twenty-two components; 1,890,827 states | one property per component or pair of components |
| `platform` | start-up, accounts, provider calls, broker session (2 callers), exit simulators, figures, indicators; 686,128 states | one property per component |
| `double`, `remainder`, `unmapped`, `halt`, `confirm` | as `buys`, `commands`, `platform`, smaller | statements of the repository that the code does not keep (section 6) |

Why these bounds are enough to be interesting.

*Submission.*  Two orders of one ticker are what the lock separates and what matching by
shape can confuse; two lots allow a partial fill; one crash reaches every pair of writes, and the
replay after it meets every half-done state; three orders in `sells` let one position be opened and
a sale and an exit compete for it.  One resolution (`MaxResolutions`) may come at any moment, on a locked intent
or a released one; one keeps the run within its time, and the theorems hold for any number.  *Agent.*  Three tickers exceed two slots, three rows let one be closed
and replaced on the same day; one ticker suffices where the interleaving of commands is the question;
two commands give stop and resume, pause and stop, pause and pause against a timer.  *Scheduler.*
The ticks keep the order of the real settings (warm-up, minimum spacing and retry below the
interval, stale above it, cooldown above that), the day is long enough for each bound in a
property to expire inside its session or its evening, and the holiday makes the state cross a
day without a pass.  *Scans.*  Three requests give a given-up scan, the one beside it and one that
meets the breaker open or half open; the lease outlasts the timeout by one tick, as in the code.

*Rows.*  Two services or handlers are enough to read what the other is about to write; two trades let
an older one stay open behind a newer one.  *Market data.*  A provider that works, one that breaks
and one that garbles; times to live of one or two ticks so that each expires within the horizon.
*Scripts.*  Two trades and two runs of the repair; two
files with two keys, one of them unreadable, and two imports; two windows with two draws each; two trainings one after the other and a load.
*Strategy.*  The charts enumerate each component at its extremes with its neighbours at rest, so
every gate and cap is met alone and some together.  *Backtests.*  Bars that touch stop, target, both
and none, gaps down and up; trailing on and off; entry and exit on neighbouring bars.  *Walk-forward.*
Seven rows hold two windows of each kind with purge and embargo, days without rows and rows that share
a date.  *Sessions, accounts.*  Two tabs or threads; two tokens, so that one is revoked while the other
is valid; one change of the role or password at any moment.
*Messages.*  One message per window and two to send: the second sender meets the full window, both may find the same
room, and one may drop the slot the other has just taken.

`limits` assumes readable ledgers (`ReadFaults = FALSE`) and orders answered directly
(`Reconciles = FALSE`).  Both matter: a failing read reports nothing held, and a fill that is
settled by reconciliation inside `place_order` is opened by the accounting and again by the agent.
With either constant TRUE `OneOpenPerTicker` fails.

`buys`, `limits` and `platform` use symmetry, of orders, of tickers and of threads, which their modules treat alike;
none of these runs has liveness properties.  `buys` and `sells` have a view: what state an order row is given is
never read again, by a step or a property, unless the order is an exit, so states that differ in nothing else count as one
(`RowsAsRead`).  Every property of a passing run has a mutant in `PROJECT.json`: an
operator defined next to the one it replaces, with a plausible mistake in it, under which TLC finds
the property violated.  Deadlock is not checked: in every instance orders, commands, bars or ticks
run out.

### Fairness

Liveness is stated where the code's own scheduling bounds a wait.  `DueIsExited` (agent) assumes weak
fairness of the scan thread's steps, because `run_loop` keeps scanning as long as the process lives; it
assumes nothing of the monitor, the timers, the chat or the broker, and needs failures to be finite
(`MaxFaults`).  `EveryRequestAnswered` assumes that the clock goes on and that a request that waits is
answered or times out, which is what `future.result(timeout=...)` does; it assumes nothing of the scan
itself, which may never end.  Everything else is safety; for the scheduler "in the end" is
replaced by a bound on time.

## 4. Proofs

| Theorem | Module | For every |
|---|---|---|
| `TypeCorrect`, `TickerLockExcludes` | `AlgoLabBroker_proofs` | number of orders, tickers, threads, crashes; no operating procedure needed |
| `ProcedureInvariant`, `NothingOutOfSight`, `IntentsBoundToOwnOrder` | `AlgoLabBroker_proofs` | the same, under the operating procedure |
| `ReleasedIntentsFinal`, `SubmissionImplementsGate` | `AlgoLabBroker_proofs` | the same |
| `BooksInvariant`, `FillsAccountedOnce`, `BookedReleases`, `ClosedStaysClosed` | `AlgoLabBroker_proofs` | the same, under the operating procedure |
| `ClosesWereSold`, `LimitsHold`, `OnePositionPerTicker` | `TradingAgent_proofs` | number of tickers, rows, threads, commands and faults |
| `EndOfDayHolds`, `SilenceHolds`, `ScansApartHolds` | `MarketScheduler_proofs` | length of the day, session, waits and retries, set of holidays, number of days and restarts |
| `ScansExclude`, `DiscardsStrictly`, `TripsHold` | `TradingAgent_proofs` | number of requests, timeout, lease, cooldown |
| `PaperHolds` (`LedgerFollows`, `MirrorsAgree`, `EodCloses`) | `Services_proofs` | number of services, trades and reasons |
| `MembershipsHold` (`PaysOutOnce`, `GrantsAddUp`) | `Services_proofs` | number of handlers, requests, plans and lengths |
| `VirtualHolds` (`ReportsOnce`, `MirrorsOwn`) | `Services_proofs` | number of services and positions |
| `ReadersAreServed` | `Services_proofs` | number of threads, thresholds, cooldowns and lifetimes |
| `PageFollows` | `Services_proofs` | number of clicks and refreshes, set of buttons |
| `BrokerSessionHolds` | `Platform_proofs` | number of threads, sessions, retries and faults |
| `AccountsHold` | `Platform_proofs` | number of threads, tokens, roles and changes, session life |
| `CallsHold` | `Platform_proofs` | number of threads, tickers, retries, interval and lifetimes |
| `StartsHold` | `Platform_proofs` | number of processes, starts and tables, set of environments and first databases |
| `TellsHold` (`SendsHold`, `StoresHold`) | `Services_proofs` | number of threads, scans, tries, messages and faults, set of readings, every window, budget and cooldown |
| `StrategyHolds` (`RegimesHold`, `DecisionsHold`, `DiagnosisHolds`) | `Services_proofs` | number of benchmarks and bars, set of bars, of charts, of sessions and of profiles, every threshold below |
| `BuysHold` (`SoundBuyHolds`, `ScanWithinLimitsHolds`) | `Entries_proofs` | price, tick, setting and proposal of a chart, number of threads and papers, set of sectors and correlations, limit |
| `LooksNotAhead` | `Backfills_proofs` | frame of dates, scheme with its lengths, length of a month, thresholds |
| `SimulatorsHold`, `SimulatorsTyped` | `Platform_proofs` | bars and their number, levels, rates, limits, multiples of the trail |
| `DeskHolds` | `Entries_proofs` | number of orders, quantities, lots, prices, costs, cash, failures and restarts |
| `BackfillsHold` (`BackfilledHolds`, `FaithHolds`, `RepairHolds`, `ImportHolds`) | `Backfills_proofs` | number of signals, days, trades of both kinds, rows, files and runs of the scripts, set of setups, bars, prices and keys, timeout |
| `LearntHolds` (`SearchesHold`, `ArtifactsHold`) | `Backfills_proofs` | search space, backtest results, number of windows, draws, trainers and trainings |

**Submission.**  `TickerLockExcludes` rests on one observation: only `CreateIntent` takes a lock, and its
transaction is possible only on a free ticker.  `ProcedureInvariant` proves `IInv` under `Disciplined`.
`NoOrphanOrder` alone is not inductive: whether a released intent names its order depends on who
released it, with which match, whether the answer named the order, and whether somebody else with an older view can still
write.  `IInv`
adds exactly this: each thread is at a station of its role and has an order iff it works (`Roles`); no
order is in two hands, the replay's list included (`OneWorker`); who works on an intent finds it
locked, but for the administrator, who may name a released one, and before `Post` nothing was requested (`Held`); an
order nobody submitted left no trace (`Fresh`); a match in hand is the intent's own order (`OwnMatch`); and `Sight`, the
property itself with the binding of ids.  Both of the last say *unless an order of that kind was left unnamed*
(`Astray`), which no step but `Answer` brings about and none takes back.  `OwnMatch` is where matching by shape could go wrong: a foreign order
of the same shape belongs to an intent that, by `Sight`, is locked, impossible on the same ticker by the
exclusion theorem, or names that order, so `is_broker_order_bound` excludes it, or was left unnamed.  The step lemma has one
lemma per thread role and under it one step per action.  `ReleasedIntentsFinal` and
`SubmissionImplementsGate` share a case analysis of what a step can do to one intent and its request;
each outcome is `Begin`, `Send`, `Arrive`, `Conclude`, `Blur` of `OrderGate` or a stutter.

**Books.**  What a thread has read of the positions may be old when it writes them.  `BookInv` says what of it still
holds (`Reads`): nothing was booked of an order that is not out yet; a thread about to open a position after a read that
did not fail meets no open one of its entry, unless the ticker has a position of another order; and the position a thread is
about to close is on file and not closed by the accounting of a sale, while the thread's own intent is locked.  The first
two rest on `OneWorker`, the third on `TickerLockExcludes`: accountings of one ticker follow one another.  A
position the accounting opened is of a submitted BUY with a fill, or of one whose kind went astray (`Booked`).  What threads, and the rows of exits,
remember of a position names a row on file (`Recorded`), since nothing deletes one, and positions of one
entry are numbered without gaps (`Numbered`), so a row means one position.  The agent's own writes, which look at nothing,
and those of a resolution of a released intent are why the properties tell by whom a position was made and closed.

**Agent.**  The entry loop counts once and then trusts its slots.  `LimitsInv` says that they stay
within what the limits leave: the scan's thread alone opens positions, and every step of the others and
of the clock makes room.  `OneOpenInv` adds that the signals a scan has filtered and not yet entered are of
tickers that are not held.  `SoldInv` follows a row from the sale to the write that closes it.
`LimitsHold` and `OnePositionPerTicker` assume `~ReadFaults` and `~Reconciles`; `ClosesWereSold`
assumes neither.

**Scans.**  That scans exclude each other rests on time: no request waits longer than its timeout, the
timeout is shorter than the lease, so the lease of a request that waits has never run out.

**Scheduler.**  The properties are bounds on time, so the invariant is about time as well.  `Deadlines` says of each
station until when the loop stays there: a try of a scan by its number, the sleep to the slot, the sleep to the next
session (`SessionIsNext`: no session begins before it).  From it follow the others.  `LatestCall` is when the pass of a
day is called next, at the latest, after so many failures; the loop is at every station in time for it (`Calls`),
also when the date changes in a sleep, because a new day begins long before its end.  `PassInv` binds the passes that
were run to the failures that are remembered.  `WatchInv` and `ToldInv` say how old the last look at the watchdog and the
last sign of life can be where a scan began.  `ApartInv` says that what is open from now on is far enough from
the last scan: the sleep to the slot sees to it, and where the end-of-day pass interrupts that sleep, the night does.
For this, and because no pass may last into the next session, the module assumes that the night is longer than
`MinSeparation` and that `MaxEod` fits between midnight and the opening; the defaults are five minutes and a few seconds
against sixteen hours.

**Rows.**  `PaperTrades`: a ledger row is behind its trade only while the service that wrote the trade
is between its two writes or after it failed there.  `Subscriptions`: the first write of a transaction
locks its row, so no two decide one request; the sum of grants is kept by an expiry nobody wrote
since it was read.  `VirtualTrades`: a position on file, or in the hands of the one pass at work, has
no report yet, and its row is the newest open one; what broken passes left is older.

**Caches and pages.**  `MarketData`: `sound` is who could deliver when a fetch began and has not changed since; the
invariant says that these are available still, however many other threads report failures, and that a single
fetch has taken whom it passed out of `sound` (`Passed`).  So a fetch that comes back empty had nobody left to
ask, or took a frame that was worth nothing (`spoilt`).  `SessionScans`: a key is active while a scan of it
runs, so its scans follow one another (`OneWorker`); what is pending is newer than what is shown, and what the
script believes of its worker is so again once it has looked twice (`Knows`).

**Threads of one process.**  `BrokerSession`: the invariant keeps account of what a call has lost, since
whoever is about to meet an ended session has lost one per attempt (`Behind`); who logs in holds the lock and
finds no session.  `Accounts`: tokens expire in the order of their numbers, the role of the account is among
those a request has seen, and the cookie a page comes with is the token it was sent on with, or a newer one.
`ProviderCalls`: a slot that was handed out is not after the last one the limiter remembers (`Reserves`), so
the next one is an interval away from all; at each stage the sources asked before are no longer in `could`
(`Untried`), which holds none but those the ticker may be asked of; a call that may meet a token the vendor has turned down is not `clean` (`Explained`).  A
cache with a lifetime of zero keeps nothing, which is the other case of `Oldest`.

**Start.**  `StartUp`: each process has a `Station`, what it may rely on at its place: a column it found missing is
missing still, or it is not alone; columns up to its own are there; a process past the migration has the
schema and the stamps.  The store only grows (`Grows`), so the others' steps keep it.  Whoever could have
changed what a process looked up was at work, and being at work is what ends the solitude of both.
Who was demoted while nobody was starting meets no bootstrap that has already passed the mark (`OneShot`).  The
module assumes of the databases that are found that a mark has its one audit row.

**Told and sent.**  `Outbox`: the slots are the tail of everything taken, however the threads interleave (`SlotsInv`), but
what was cut off need not have expired: each slot dropped in place of the one tested is `wronged`, and not counted.  `RateInv`
says of every window that it is `Open` or `Over`.  While none of its counted slots is dropped, whoever finds
room has seen them all, so those taken and those about to be are at most the budget and one for each other thread
(`TakenIn`, `TakingIn`).  The first of them is dropped, as expired, by a thread that read the clock after the window; from then on
only threads that had read it before (`LateIn`) can put one more each into it, hence `Budget + 2 * (|Senders| - 1)`.  Who is under way has an undecided message
of its own (`MessagesInv`).  A scan at its alarm has rested on the last one it had seen (`AlarmsInv`).  The first statement of
`AlarmsCoolDown` was refuted in the proof: it knew only the alarms that looked beside one another, not those that an
alarm given late lets through.  `Announcements`: whoever comes to its write has passed the rows it saw in a minute
between its signal and now (`FilterInv`), and a row more makes the write `blind`; of a stored signal whose change was told there is
a row of its minute (`ChangesInv`), so a newer latest row cannot be passed over.  The times of the pauses are powers of two, which the
prover cannot type; the invariant leaves open which set they are of, for nothing rests on them.

**Strategy.**  The regimes: the bars up to a day are the first of their frame (`AsOfIsFirst`), so a vote of the series is the vote
of the bot that had no more bars.  It rests on a directional ratio of at least 100 %: below it a bar is bull and bear at once,
and the two computations ask in a different order (`OneDirection`).  The decision: of the score only its sign and its size after
each correction matter.  A score on a side is carried past zero by at most 4.9 points by the penalties and 8 more by the session
(`Carried`), so a signal on the other side is possible, but not one to act on, if the profile buys from 13 points on and
sells at -8 or below.  The profiles of the code do (20 to 28 points); `DecisionAssumption` says so, because
`validate_strategy_params` would accept other ones.  The diagnosis: each stage from the sum to the cap keeps the order of two
scores, so the one that met the cap never comes out above the one that did not.

**Backfills.**  `LedgerBackfill`: of a trade that nobody else has written since a run began (`Undisturbed`), what the
run has read is still so when it inserts: it knows the rows of the trade (`JobKnows`), and either the trade has one or one is
staged (`JobStages`).  A shadow trade that is open has the newest open row (`NewestOpen`), so its close, which takes
the newest of the ticker, finds its own; this survives an insertion because whatever open row a run has staged of another
shadow trade is of one that was open when it looked, and then either still is or the one that is open now was written meanwhile
(`StagedRight`).  `OutcomeBackfill`: what a replay decides on some bars it decides on every longer history (`DecisionStays`), unless
the last bar was not final; a row the live tracker has written is in the hands of a run only if the run read it before.
`PnlRepair`: what a run has listed was left without a profit by the bot, and what it found drifting was left with the
profit it read (`Listed`, `Drifted`), whoever has written it since; a closed row's prices do not change, so both runs write
the same.
`SqliteImport`: the keys a run has seen or read are in the table, or staged, or were written by another (`raced`).

**Learning.**  `ParameterSearch`: the best is held for the fitness of something tried in the window, and what was tried
is held for no more; for the recalibration this needs that rounding keeps the order and that rounding twice is rounding once
(`RoundedMonotone`, `RoundedAgain`), since it compares an exact fitness with a rounded one.  `ModelArtifacts`: a training
that was alone all the time has written each file it has passed, so its manifest names one training; whatever is
written later differs from it, as no two trainings write the same, so that the next verification fails, and a load that is
under way is no longer `sound`.

**Entries.**  `RiskLevels`: a level and a size come of one integer division after another, and the proof is that what each
loses goes the safe way: a stop rounded to the tick and clamped stays below the price, a size cut after each
correction stays within the loss that was allowed before it (`ThrottledLoss`, `ModelSizesSoundly`).  It needs two
settings that no start-up check looks at, a least stop distance within the daily limit and a least risk scale of at most
100 %, and a unit of money of at most a percent of the price (`UnitAssumption`).  `EntryScan`: what is registered is shared
and any thread may empty it, so the invariant says of a thread that was alone that every other one is idle and what is
registered is what is held and what it has itself bought (`EntryInv`); the sectors it counts for itself.

**Walks.**  `WalkForward`: what can still be tested on lies ahead (`Ahead`, by row or by date as the scheme counts), and less and
less does (`AheadShrinks`).  The invariant says of every window that its training rows lie before all that is ahead and
its test rows are no longer there (`Passed`); then a new window, whose test rows are ahead (`Fresh`), is in order with
all before it.  That rows may share a date is why the recalibration's boundary may, and why the validator raises.  The split by
shares is one step; its parts follow because a later date has more dates before it (`UntilInOrder`).

**Simulators.**  `ExitSimulators`: simulators that are written differently agree on the exit because they agreed on every bar
before it, which the invariant (`SimInv`) says of each pair while neither has left: the stop in force is at
least the one given, and the same as another's that follows the same levels (`StopsAgree`, `LevelsAgree`); who has left did so
within the bars seen and the holding limit (`ExitsPlaced`).  Of the trend study it says that while the shared and the random position
are both in since the same bar they have the same stop and the random one no lower peak, or the random one has left (`Followed`).
The money is arithmetic: what was paid, received and charged cancels, and a commission is at least its
minimum (`MoneyHolds`).  Of the bars it is assumed that prices are natural numbers and opens positive, of nothing that a high is above a low.

**Paper broker.**  `Desk`: the sums of its property are recursive functions, so that there is a function with these equations,
and only one, is proved first, by the least argument at which it would fail (`SumsExist`, `SumsUnique`).  `BookSound` then
keeps what the broker holds as what its orders say was bought (`NetOf`), a forgotten order counting nothing, and
each order as filled by its fills; `RowsSound` says that the rows stand for orders in the order these were placed, so
that no two count the same order, and that the copy the tracker holds is of an earlier day of its order (`Behind`);
`RowsCount` compares the two sums, by the least row or order at which they would part.

Assumptions: the named `ASSUME`s of the modules (distinct names, types of the parameters, timeout below
lease), which TLC evaluates in every run of the module, and `Disciplined`, `~ReadFaults`, `~Reconciles`
where a theorem says so.

Only model-checked:

- `DueIsExited` and `EveryRequestAnswered`: liveness, which is out of the prover's reach.
- `ReplaysAgree` (`Backtest`) and `ReadingsHold`, which is `FiguresAddUp` and `IndicatorsAgree` (`Figures`,
  `Indicators`): what folds over sequences compute, induction over data.
- `ServicesTypeOK`, `PlatformTypeOK`: what the proofs need of types is in their invariants.

`IInv` is proved and no longer model-checked.

## 5. Plan

Done: everything of section 2.  What is left, in the order of its value:

1. Proofs of the invariants that are only model-checked and do not fold over data.
2. The statistics pages of the dashboard and the repositories behind them, beside `Figures`.
3. The composition of `main.py`'s modes with the configuration errors `settings.py` collects.

## 6. Where code and documentation disagree

| Run | What is said | What the code does |
|---|---|---|
| `double` | a double reconcile books once (`docs/security/phase0_phase1_report.md:249`) | `record_fill` looks at one open position of the ticker; with another one there, a replay books again |
| `remainder` | still open after the second read stays unknown and locked (`:149`) | a fill that appears only at the second read is settled and acknowledged although the order is open |
| `unmapped` | an unknown state label keeps the lock (`:153`) | the intent is acknowledged and released before the label is converted |
| `halt` | `/stop` stops all trading until `/resume` (`agent/command_handler.py:16`) | a scan that passed its unlocked check sets MONITORING again and enters |
| `confirm` | live trading needs two confirmations together (`README.md:335`) | with `BROKER_MODE=algolab` beside `BROKER_PROVIDER=paper` the live broker is built and nothing asks for the second |

The following have no run of their own.  Those marked *(stated)* are definitions in the module named.

*Orders.*
- A missing history or match is to keep the lock (`docs/security/phase0_phase1_report.md:160`); the replay runs in
  the background (`dependencies.py:217`) and `_keep_reconcile_unknown` overwrites an intent that was acknowledged
  meanwhile.  The result is an unknown intent without its lock (`OrderedStartup` leaves this out).
- An accepted answer without an `order_id` is acknowledged and releases its intent unbound
  (`algolab_broker.py:321-329`): the order is followed by nothing, and a later submission of its shape may take it
  for its own (`Astray`).
- `get_position` answers None when its read fails (`position_manager.py:229-231`), so an accounting that is repeated then
  opens a second position of the same order (`unread`).  An accepted exit that was settled in line is closed again
  by the agent (`trading_agent.py:131-139`, `:388-396`) and once more when its row is found over: exit price and profit
  of a closed row are replaced, as the close is an update by id whatever the row's state (`ClosedIsFinal` says who may).
- The resolve endpoint takes any intent (`dashboard.py:2010-2152`): a released one can be rewritten and accounted again
  (`ReleasedIsFinal` excepts the administrator).
- `:179` of the same report says that without `cancel_remainder` a partial fill stays locked and unaccounted; the
  code acknowledges it.  `record_fill` promises that a failed close is reported, while `close_position` swallows
  the failure.  The `never_submitted` resolution has a branch that cannot succeed.
- AlgoLab's own `_CircuitBreaker` (`algolab_broker.py:155`) is never consulted, although the class
  promises "circuit breaker, and retries".  A login that raises `RuntimeError`, or an answer that is not an
  object, escapes `place_order` with its intent still `sent`.  A 401 that arrives late clears a token another
  thread just fetched; one that arrives after a first attempt failed otherwise never clears it.  `authenticate` returns True whenever a token is present, so the health probe calls a
  stale one healthy; with `BROKER_MODE=algolab` beside `BROKER_PROVIDER=paper` the probes do not ask at all.  A new login reuses the one-time code given at start.
- With manual confirmation the paper broker answers CREATED, and `get_pending_orders` lists SENT and PARTIAL
  only: the tracker never carries a confirmed fill over to the row.  `fill_order` and `partial_fill` bypass the
  confirmation.  A MARKET order without a price fills at 0.0.  A failing `update_order` after acceptance marks the row
  REJECTED although it is filled.  One raising `get_order_status` ends `poll_once` for all later orders.
- `get_open_live_position_tickers` counts nothing for an order cancelled after a partial fill.

*Scheduler.*  The watchdog speaks of no success *during market hours* (`scheduler.py:6`), and its age includes the
night, so each session opens with an alert.  `docs/position_lifecycle.md:43` says the end-of-day pass is
marked done also when it fails; the code retries and escalates (`EodSettledOnce` follows the code).

*Scans.*
- A discarded scan is to have no side effects; shadow trades and the daily summary are written before boundary
  2 and change messages sent before boundary 3 (`StrictDiscard` is about what comes after).  A timeout counts
  as an error of the breaker, a success of a scan admitted before the trip closes it half open.  A request
  that fails to build its service releases a lease it may not hold (`dashboard.py:1965`).
- `scan_once` says that only actionable signals are persisted; the code stores all that pass the filters, and
  an AL above `max_actionable_score` arms the cooldown though not actionable.  A signal's change is compared with
  the last *stored* one, so a change that a filter dropped is told again at every scan.  The day of a sale is the
  day of the look.  Failing look-ups fail open.
- The engine's rejection counts and the registered positions are shared with `api_analyze` and with scans that were
  given up.  Sector places are not given back when a candidate is refused later.

*Notifications.*  403 and 404 are to be dead-lettered without retry (`notifier.py:157-161`); `raise_for_status` is
inside the `try` and is retried.  `SlidingWindowRateLimiter` has no lock: its budget may be exceeded by two per
other thread, and by one more for every live slot dropped in place of an expired one; its `IndexError` loses a message.  A read timeout after arrival duplicates one.  The stale and halt
alarms count as sent when sending fails.

*Risk and strategy.*
- `apply_portfolio_risk` (`risk/correlation.py:116`) calls `apply_position_budget` without the cap of a
  position (default 90.0).  The 5 % cap comes back only in `apply_probability_sizing`, which needs a meta model
  that the default container does not build: buys may cost up to 90 % of the capital, although
  `settings.py:368-370` calls values above 25 % unsafe.  The cap on daily losses and the liquidity gate depend on
  the meta model as well.
- The ATR fallback of `determine_final_levels` escapes the band and the smallest stop; a target rounded up may
  exceed the daily limit; `ATR_TARGET_MULT` cancels out of Z2.
- `record_loss`, `record_equity_change`, `reset` and VaR of the circuit breaker have no callers.
- `apply_low_adx_penalty` "moves the score toward zero", yet five fixed points carry a small score past it; the
  session's adjustment comes after the caps and lifts a capped score.  `_precalculate_signals`
  (`backtest/engine.py:275-277`) says that the penalty is active in backtests; only `strategy/engine.py:672` calls it.
- `benchmark_regime_series` "reproduces detect_regime exactly" except for the last row of a frame shorter than
  `min_bars`; a `regime_di_ratio` below 1 passes validation and gives BULL here, BEAR there.
- `_add_min_divergence` never marks the last row (`indicators.py:256`), the only row live scoring reads
  (`scoring.py:409-422`), while a backtest reads all of them: divergence counts in backtests only.  For some
  rows the price of the previous minimum is taken from later rows (`indicators.py:229-231`).
- The indicator memo's key collides when middle bars are revised, and a computation begun before a clear
  stores its result after it.  Its "FIFO" is an LRU.

*Market data.*
- A frame garbled by normalisation counts as a success and is not failed over, nor is one refused for the jump of a
  split (`fetcher.py:614-615`, `:739-741`), though the next provider is sound; a ticker missing from an answered
  batch is not asked for elsewhere (`providers.py:374-376`); fewer than five rows are refused
  singly and accepted in a batch; an exception in a batch leaves the tickers behind it unresolved.
- The docstring of `fetch_single`'s exception path says that nothing is cached; it caches past the split check.
- Retries of the official client do not pass the limiter, StockAnalysis is not limited at all, and its daily
  table may be served as intraday history.  Connection errors of the official client escape `fetch_*`.
- `get_current_price` has no caller; `quotes.RateLimiter` is an unlocked twin without use.

*Backtest and studies.*
- `simulate_from_entry` says it runs "the same exit engine" (`SameEngine`, *stated* in `ExitSimulators`); it trails
  on the bar of the entry with that bar's close, so the random baseline leaves earlier than the strategy.
- The ratchet of the trend simulator holds the peak, not the stop, which falls when the range grows.  The edge
  diagnosis "mirrors the evaluator" and calls MAX_HOLD what the evaluator calls INCOMPLETE.  The replay charges
  half the spread per side where the evaluator charges all of it.  The contract's unit of sizing leaves out BSMV
  and the smallest commission.  Trailing differs between the two backtest paths in the bar of an entry.
- `walk_forward_validation` of the optimizer shares a bar between training and testing (`loc` is inclusive);
  `recalibrate_champion` picks on frames with test bars of other windows and pools its tests over them; the meta model's split has no purge,
  although it says "entirely free of look-ahead bias" (`ml/meta_model.py:289`); the monthly walk leaves bars
  untested at ends of months; counters of a training run are reported for a test frame of fewer than 50 bars.

*Rows and backfills.*
- "Re-running inserts nothing new" fails for a shadow trade whose close mirror was lost, and whenever live
  writes fall between reads and insert (no unique constraint on `paper_trade_id`).  A paper row whose close mirror
  failed stays OPEN in the ledger.  `--limit` always looks at the same first records.
- The outcome backfill overwrites an outcome written since it loaded, and decides on the unfinished bar of the
  day.  The PnL repair finds its quarantined rows again and audits them at every
  run.  `build_dataset_raw` drops a later actionable signal for an
  earlier one that is not.
- The extreme of a trailing stop is shared by siblings; the skip counter counts trades, not scans; two
  overlapping passes may leave different reasons, and READ COMMITTED may overwrite a closed row.
- An extension is lost when an approval and a manual plan overlap; two racing claims leave two requests.

*Meta model and diagnosis.*
- A training without the xgboost package saves a joblib model and names it in the manifest; `load_artifacts` prefers
  `meta_model.ubj` wherever there is one, so a model left by an earlier training is loaded beside the new files although
  the manifest verifies, with `enforce` too.  A calibrator fitted to a single probability is saved and cannot be loaded.
- The diagnosis of chasing switches the rule on and leaves the profile's gate of volume on, so "capped" counts what
  that gate takes down too; it compares with `>` and `<` where the rule has `>=` and `<=`; and with caps below the
  threshold, as in the conservative profile and those built on it, "capped" and "high" are always the same number.

*Accounts and pages.*
- The upgrade of a hash writes the hash of the password it verified, also if the password was changed meanwhile
  (`RotationKept`, *stated* in `Accounts`).  The audit of granted requests is "at most one row per window"
  (`dashboard.py:165-169`) by a check and a set without a lock.  "A redirect loop is structurally impossible"
  (`dashboard.py:1442-1446`) fails while the look-up fails.  Logout revokes the bearer token and not the minted
  cookie's; a mint under way can set a cookie after logout.
- A reset of the settings logs the user out, forgets the scan shown and leaves the old worker's result waiting
  for ever.  A page's own refresh beside a worker lets the older result replace the newer.  A click between
  `ACTIVE_SCAN_SESSIONS.add` and the start of the thread leaves a session "in progress" without a worker.
  `check_scan_timeout` and `run_initial_scan` have no callers.

*Start-up.*  `LiveOnLastingStore` (`settings.py:277-280` against `connection.py:100-111`) and `BootstrapOnEmpty`
(`README.md:288-289` against `database.py:716-821`) are *stated* in `StartUp` and fail there.  Two starts on
SQLite may both promote and audit an existing user; on PostgreSQL a swallowed insert of the mark aborts the
whole transaction; a check of a column and its ALTER are apart, so a second process is refused.
`BROKER_MODE=live` always ends in a ValueError though "allowed for construction" (`settings.py:290-292`).

## 7. Not modelled

The definitions map three tenths of the repository's implementation.  The rest, by size:

- **Presentation**: pages, charts, templates, texts of messages and reasons, formatting of reports.  What is counted
  and summed of them is `Figures`; the rest decides nothing.
- **Research scripts**: sweeps, diagnoses (but for the one in `SignalDecision`), presentations and comparisons under `scripts/`.  Each is one pass over
  data into a table, run by hand; the exits they simulate are `ExitSimulators`, their cutting of bars `WalkForward`.
- **Numeric detail**: floating point, the value of the ADX, squeezes, the fitting of the meta model, statistics of a
  study.  The models use whole numbers in the smallest unit that keeps every comparison of the code.
- **Declarations**: settings and their parsing, ORM tables, argument parsers, logging, metrics.
- **Code without callers**: the live stub, the daily-loss trip of the breaker, VaR.
- **Outside the repository**: Yahoo, AlgoLab, Telegram, Streamlit and the databases appear as what they may answer.

`PROJECT.json` names, per component, what of it is left out.

## 8. Running

    tlc -config MC_AlgoLabBroker_buys.cfg MC_AlgoLabBroker.tla
    tlc -config MC_TradingAgent_limits.cfg MC_TradingAgent.tla
    tlc -config MC_Commands.cfg MC_Commands.tla
    tlc -config MC_MarketScheduler_days.cfg MarketScheduler.tla
    tlc -config MC_Services.cfg MC_Services.tla
    tlc -config MC_Platform.cfg MC_Platform.tla
    for m in AlgoLabBroker_proofs MarketScheduler_proofs TradingAgent_proofs \
             Entries_proofs Services_proofs Backfills_proofs Platform_proofs; do tlapm $m.tla; done
