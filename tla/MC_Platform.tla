------------------------------ MODULE MC_Platform ------------------------------
(***************************************************************************)
(* What surrounds the trading core, each on a small instance: the start of   *)
(* the processes, the calls of the data providers, the requests to the       *)
(* broker, the sessions of the dashboard, and the calculations that several places do again (exits,      *)
(* figures, indicators).  They share no state: a behaviour picks one of them *)
(* and the others rest.                                                      *)
(***************************************************************************)
EXTENDS ExitSimulators, Figures, Indicators, StartUp, ProviderCalls, Accounts, BrokerSession, TLC

-----------------------------------------------------------------------------
Env(url, driver, broker, provider, dry, confirm, enforce, bootstrap, update) ==
    [url |-> url, driver |-> driver, mode |-> broker, provider |-> provider, dryRun |-> dry, confirm |-> confirm,
     credentials |-> TRUE, endpoints |-> TRUE, enforce |-> enforce, bootstrap |-> bootstrap, update |-> update]
MCAtRest == Env("none", TRUE, "paper", "paper", TRUE, FALSE, TRUE, TRUE, FALSE)
MCEnvironments ==
    {MCAtRest,
     Env("none", TRUE, "paper", "algolab", TRUE, FALSE, FALSE, TRUE, TRUE),
     Env("postgres", TRUE, "paper", "algolab", FALSE, FALSE, FALSE, TRUE, TRUE),
     Env("postgres", TRUE, "paper", "algolab", FALSE, TRUE, TRUE, TRUE, TRUE),
     Env("postgres", FALSE, "algolab", "paper", FALSE, FALSE, FALSE, TRUE, FALSE),
     Env("postgres", FALSE, "live", "live", FALSE, FALSE, FALSE, FALSE, FALSE)}
Db(tables, columns, stamps, role, others) ==
    [tables |-> tables, columns |-> columns, stamps |-> stamps, role |-> role, others |-> others,
     marked |-> FALSE, audits |-> 0]
MCEmpty == Db(FALSE, {}, "sqlalchemy", "none", "none")
MCDatabases == {MCEmpty, Db(TRUE, {"signals"}, "legacy", "viewer", "viewer")}
MCOldTables == <<"signals", "paper_trades">>

MCMixes == {{"history", "batch"}, {"price"}, {"frames"}}
MCCrews == {{"execute"}, {"orders", "cancel"}, {"account", "ready"}, {"health"}, {"submit"}}
MCUses == {{"login page", "page", "logout"}, {"logout", "member"}, {"api"}}

\* Threads are alike; the same two stand for those of each component, as one is at work.
MCAlike == Permutations(HttpThreads)

VARIABLE side   \* the one at work

platformVars == <<side, simVars, figureVars, frame, startVars, callVars, accountVars,
                  brokerSessionVars>>

PlatformInit ==
    /\ side \in {"exits", "figures", "indicators", "start", "calls", "accounts", "broker"}
    /\ SimInit /\ FiguresInit /\ IndicatorsInit /\ StartUpInit /\ CallsInit /\ AccountsInit
    /\ BrokerSessionInit
    /\ side # "exits" => setup.trail = NoTrail /\ setup.stop = 194 /\ setup.target = 212
    /\ side # "start" => env = MCAtRest /\ store = MCEmpty
    /\ side # "calls" => vendor = "yahoo" /\ mix = {"price"} /\ scraping /\ working = {}
    /\ side # "accounts" => uses = {"api"} /\ mode = "enforce" /\ account = NoAccount
    /\ side # "broker" => crew = {"submit"} /\ bearer = NoSession

KeepExits == side # "exits" /\ UNCHANGED simVars
KeepFigures == side # "figures" /\ UNCHANGED figureVars
KeepIndicators == side # "indicators" /\ UNCHANGED frame
KeepStart == side # "start" /\ UNCHANGED startVars
KeepCalls == side # "calls" /\ UNCHANGED callVars
KeepAccounts == side # "accounts" /\ UNCHANGED accountVars
KeepBroker == side # "broker" /\ UNCHANGED brokerSessionVars

PlatformNext ==
    /\ UNCHANGED side
    /\ \/ side = "exits" /\ SimNext
       \/ KeepExits
    /\ \/ side = "figures" /\ FiguresNext
       \/ KeepFigures
    /\ \/ side = "indicators" /\ IndicatorsNext
       \/ KeepIndicators
    /\ \/ side = "start" /\ StartUpNext
       \/ KeepStart
    /\ \/ side = "calls" /\ CallsNext
       \/ KeepCalls
    /\ \/ side = "accounts" /\ AccountsNext
       \/ KeepAccounts
    /\ \/ side = "broker" /\ BrokerSessionNext
       \/ KeepBroker

PlatformSpec == PlatformInit /\ [][PlatformNext]_platformVars

\* Everything has its type in each of the parts.
PlatformTypeOK ==
    SimTypeOK /\ FiguresTypeOK /\ IndicatorsTypeOK /\ StartUpTypeOK /\ CallsTypeOK /\ AccountsTypeOK
    /\ BrokerSessionTypeOK

\* What is computed a second time, or bar by bar, comes out as the first time: the figures of the
\* reports and the readings of the indicators (daily_report, performance, TechnicalIndicators).
ReadingsHold == FiguresAddUp /\ IndicatorsAgree

-----------------------------------------------------------------------------
SimBar(o, h, l, c, leave, atr, sig) ==
    [o |-> o, h |-> h, l |-> l, c |-> c, leave |-> leave, atr |-> atr, sig |-> sig]
MCSimBars ==
    {SimBar(200, 204, 198, 202, FALSE, 2, TRUE), SimBar(202, 210, 196, 208, FALSE, 4, FALSE),
     SimBar(208, 214, 200, 212, FALSE, 2, FALSE), SimBar(190, 200, 188, 198, FALSE, 6, TRUE),
     SimBar(204, 206, 202, 202, TRUE, 0, TRUE), SimBar(200, 212, 190, 200, FALSE, 1, TRUE),
     SimBar(196, 198, 195, 196, FALSE, 2, FALSE)}
Level(stop, target) == [stop |-> stop, target |-> target]
MCLevels == {Level(194, 212), Level(194, 206), Level(0, 210), Level(198, 0), Level(196, 208)}

DaySignal(ticker, time, type, score, gate) ==
    [ticker |-> ticker, time |-> time, type |-> type, score |-> score, gate |-> gate]
MCDaySignals ==
    {DaySignal("x", 1, "BUY", 30, "none"), DaySignal("x", 2, "RADAR", 30, "macro"),
     DaySignal("x", 2, "BUY", 40, "none"), DaySignal("y", 1, "STRONG_BUY", 25, "none"),
     DaySignal("y", 2, "RADAR", 26, "mtf"), DaySignal("y", 2, "WEAK_BUY", 20, "none"),
     DaySignal("x", 1, "WEAK_BUY", 18, "none"), DaySignal("y", 1, "RADAR", 15, "none"),
     DaySignal("x", 2, "RADAR", 9, "none"), DaySignal("y", 2, "SELL", -30, "none"),
     DaySignal("x", 1, "HOLD", 3, "none"), DaySignal("y", 2, "RADAR", -2, "none")}
ClosedTrade(score, profit, entry, exit, chance) ==
    [score |-> score, profit |-> profit, entry |-> entry, exit |-> exit, chance |-> chance]
MCClosedTrades ==
    {ClosedTrade(22, 2, 1, 1, 49), ClosedTrade(25, 3, 1, 2, 50), ClosedTrade(30, -2, 1, 3, 54),
     ClosedTrade(34, -1, 2, 2, 55), ClosedTrade(40, 0, 2, 3, 64), ClosedTrade(45, 4, 2, 4, 65),
     ClosedTrade(28, -5, 3, 4, 100), ClosedTrade(25, 1, 3, 3, 60)}
MCBands == <<<<25, 30>>, <<30, 35>>, <<35, 40>>, <<40, 1000>>>>
MCBuckets == <<<<50, 55>>, <<55, 60>>, <<60, 65>>, <<65, 101>>>>

ChartBar(h, l, c, v) == [h |-> h, l |-> l, c |-> c, v |-> v]
MCChartBars == {ChartBar(3, 1, 2, 1), ChartBar(4, 2, 4, 2), ChartBar(2, 0, 0, 3), ChartBar(3, 0, 1, 1)}
=============================================================================
