----------------------------- MODULE MC_Services -----------------------------
(***************************************************************************)
(* The components around the trading core, each on a small instance.  They  *)
(* share no state in this model, so a state of their product says nothing   *)
(* that a state of one of them does not: a behaviour picks one component    *)
(* and the others rest in one initial state.                                *)
(***************************************************************************)
EXTENDS PaperTrades, Subscriptions, Backtest, MarketData, VirtualTrades,
        RiskLevels, EntryScan, ReplayDatasets, Backfills,
        SignalDecision, Announcements, Outbox, Desk,
        WalkForward, SessionScans

MCConservative ==
    [buy |-> 250, sell |-> -250, maxActionable |-> 1000, sidewaysPct |-> 40, momentumPct |-> 70,
     counterTrendPct |-> 0, extra |-> 50, normalized |-> FALSE, confirmOversold |-> FALSE,
     unconfirmedPct |-> 50, confirmVolume |-> FALSE, volumeGate |-> TRUE, volumeCap |-> 150,
     chase |-> FALSE, chaseCap |-> 100, rideCap |-> 200, agreement |-> FALSE, agreementCap |-> 150]

LegacyTrade(dir, entry, exit, profit) == [dir |-> dir, entry |-> entry, exit |-> exit, profit |-> profit]

CONSTANTS s1, s2, h1, h2, f1, f2, c1, c2, q1, j1, a1, a2, k1, k2, v1, v2

VARIABLE part   \* the component at work

servicesVars == <<part, paperVars, subVars, backtestVars, marketVars, virtualVars,
                  riskVars, entryVars, outcomeVars, datasetVars, ledgerVars,
                  regimeVars, decisionVars, announceVars, outboxVars, deskVars, walkVars, sessionVars,
                  diagnosisVars, pnlVars, importVars, searchVars, artifactVars>>

Parts == {"paper", "subscription", "backtest", "market", "virtual", "risk", "entry", "outcome", "dataset", "ledger", "regime", "decision", "announce", "outbox", "desk", "walk", "session",
          "diagnosis", "repair", "import", "search", "artifacts"}

\* A resting component with several initial states is given one.
Resting ==
    /\ part # "backtest" => gap = Off
    /\ part # "market" => chain = <<"yahoo">>
    /\ part # "virtual" => book = "shadow"
    /\ part \notin {"decision", "diagnosis"} => profile = MCConservative
    /\ part # "announce" => stored = <<>>
    /\ part # "desk" => manualConfirm = FALSE
    /\ part # "diagnosis" => blocks = TRUE
    /\ part # "repair" => papers = [t \in RepairIds |-> LegacyTrade("long", 100, Unset, Unset)]
    /\ part # "import" => isKey = TRUE /\ contents = [f \in Sources |-> {}]
    /\ part # "search" => search = "grid"

MCRows ==
    [kind |-> "rows", train |-> 2, test |-> 2, step |-> 2, purge |-> 0, embargo |-> 0, warmup |-> 0,
     extension |-> 0, anchored |-> FALSE]

ServicesInit ==
    /\ part \in Parts
    /\ Resting
    /\ part # "walk" => frame = [i \in 1..7 |-> i] /\ scheme = MCRows
    /\ WalkForwardInit
    /\ PaperInit /\ SubscriptionInit /\ BacktestInit /\ MarketInit /\ VirtualInit
    /\ RiskInit /\ EntryInit /\ OutcomeInit /\ DatasetInit /\ LedgerInit
    /\ RegimeInit /\ DecisionInit /\ AnnouncementsInit /\ OutboxInit /\ DeskInit /\ SessionInit
    /\ DiagnosisInit /\ PnlInit /\ ImportInit /\ SearchInit /\ ArtifactInit
    \* The first of the files imported holds a row that can be read.
    /\ part = "import" => k1 \in contents[1]

KeepPaper == part # "paper" /\ UNCHANGED paperVars
KeepSubscription == part # "subscription" /\ UNCHANGED subVars
KeepBacktest == part # "backtest" /\ UNCHANGED backtestVars
KeepMarket == part # "market" /\ UNCHANGED marketVars
KeepVirtual == part # "virtual" /\ UNCHANGED virtualVars
KeepRisk == part # "risk" /\ UNCHANGED riskVars
KeepEntry == part # "entry" /\ UNCHANGED entryVars
KeepOutcome == part # "outcome" /\ UNCHANGED outcomeVars
KeepDataset == part # "dataset" /\ UNCHANGED datasetVars
KeepLedger == part # "ledger" /\ UNCHANGED ledgerVars
KeepRegime == part # "regime" /\ UNCHANGED regimeVars
KeepDecision == part # "decision" /\ UNCHANGED decisionVars
KeepAnnounce == part # "announce" /\ UNCHANGED announceVars
KeepOutbox == part # "outbox" /\ UNCHANGED outboxVars
KeepDesk == part # "desk" /\ UNCHANGED deskVars
KeepWalk == part # "walk" /\ UNCHANGED walkVars
KeepSession == part # "session" /\ UNCHANGED sessionVars

KeepDiagnosis == part # "diagnosis" /\ UNCHANGED diagnosisVars
KeepRepair == part # "repair" /\ UNCHANGED pnlVars
KeepImport == part # "import" /\ UNCHANGED importVars
KeepSearch == part # "search" /\ UNCHANGED searchVars
KeepArtifacts == part # "artifacts" /\ UNCHANGED artifactVars

ServicesNext ==
    /\ UNCHANGED part
    /\ \/ part = "paper" /\ PaperNext
       \/ KeepPaper
    /\ \/ part = "subscription" /\ SubscriptionNext
       \/ KeepSubscription
    /\ \/ part = "backtest" /\ BacktestNext
       \/ KeepBacktest
    /\ \/ part = "market" /\ MarketNext
       \/ KeepMarket
    /\ \/ part = "virtual" /\ VirtualNext
       \/ KeepVirtual
    /\ \/ part = "risk" /\ RiskNext
       \/ KeepRisk
    /\ \/ part = "entry" /\ EntryNext
       \/ KeepEntry
    /\ \/ part = "outcome" /\ OutcomeNext
       \/ KeepOutcome
    /\ \/ part = "dataset" /\ DatasetNext
       \/ KeepDataset
    /\ \/ part = "ledger" /\ LedgerNext
       \/ KeepLedger
    /\ \/ part = "regime" /\ RegimeNext
       \/ KeepRegime
    /\ \/ part = "decision" /\ DecisionNext
       \/ KeepDecision
    /\ \/ part = "announce" /\ AnnouncementsNext
       \/ KeepAnnounce
    /\ \/ part = "outbox" /\ OutboxNext
       \/ KeepOutbox
    /\ \/ part = "desk" /\ DeskNext
       \/ KeepDesk
    /\ \/ part = "walk" /\ WalkForwardNext
       \/ KeepWalk
    /\ \/ part = "session" /\ SessionNext
       \/ KeepSession
    /\ \/ part = "diagnosis" /\ DiagnosisNext
       \/ KeepDiagnosis
    /\ \/ part = "repair" /\ PnlNext
       \/ KeepRepair
    /\ \/ part = "import" /\ ImportNext
       \/ KeepImport
    /\ \/ part = "search" /\ SearchNext
       \/ KeepSearch
    /\ \/ part = "artifacts" /\ ArtifactNext
       \/ KeepArtifacts

ServicesSpec == ServicesInit /\ [][ServicesNext]_servicesVars

ServicesTypeOK ==
    CASE part = "paper" -> PaperTypeOK
      [] part = "subscription" -> SubscriptionTypeOK
      [] part = "backtest" -> BacktestTypeOK
      [] part = "market" -> MarketTypeOK
      [] part = "virtual" -> VirtualTypeOK
      [] part = "risk" -> RiskTypeOK
      [] part = "entry" -> EntryTypeOK
      [] part = "outcome" -> OutcomeTypeOK
      [] part = "dataset" -> DatasetTypeOK
      [] part = "ledger" -> LedgerTypeOK
      [] part = "regime" -> RegimeTypeOK
      [] part = "decision" -> DecisionTypeOK
      [] part = "announce" -> AnnouncementsTypeOK
      [] part = "outbox" -> OutboxTypeOK
      [] part = "desk" -> DeskTypeOK
      [] part = "walk" -> WalkForwardTypeOK
      [] part = "session" -> SessionTypeOK
      [] part = "diagnosis" -> DiagnosisTypeOK
      [] part = "repair" -> PnlTypeOK
      [] part = "import" -> ImportTypeOK
      [] part = "search" -> SearchTypeOK
      [] part = "artifacts" -> ArtifactTypeOK

\* A position, and an episode of signals, is the same in every form it is computed in
\* (_run_vectorized and _run_iterative; build_dataset_episodes and evaluate_hysteresis).
ReplaysAgree == PathsAgree /\ EpisodesAgree

-----------------------------------------------------------------------------
MCLegacyTrades ==
    {LegacyTrade("long", 100, Unset, Unset), LegacyTrade("short", 100, 90, Unset),
     LegacyTrade("unknown", 100, 90, Unset), LegacyTrade("long", 100, 110, 1000),
     LegacyTrade("short", 100, 900, 200)}
Backtested(given, ret, edge, trades) == [given |-> given, ret |-> ret, edge |-> edge, trades |-> trades]
MCResults ==
    {Backtested(FALSE, 0, 1, 0), Backtested(TRUE, 3, 40, 2), Backtested(TRUE, 2, 90, 1),
     Backtested(TRUE, -4, 30, 2), Backtested(TRUE, 3, 41, 2)}

B(o, h, l, c) == [o |-> o, h |-> h, l |-> l, c |-> c]
MCShapes == {B(3,3,3,3), B(3,5,2,4), B(2,5,2,2), B(4,5,4,5)}
MCTrails == {Off, 1}
MCChains == {<<"yahoo">>, <<"official", "yahoo">>}
MCOutlooks == [yahoo |-> {"ok", "split", "breaks"},
               official |-> {"ok", "garbled", "split", "breaks"}]
Proposed(stop, target) == [stop |-> stop, target |-> target]
MCProposals == [Charts -> {Proposed(0, 0), Proposed(404, 409), Proposed(400, 0), Proposed(340, 412),
                           Proposed(0, 490), Proposed(380, 406)}]
MCSectors == <<1, 1, 2>>
MCBars == {B(3,3,3,3), B(3,5,3,4), B(3,5,2,4), B(2,5,2,2), B(4,5,4,5)}
Setup(dir, actionable, stop, target) ==
    [dir |-> dir, actionable |-> actionable, price |-> 3, stop |-> stop, target |-> target]
MCSetups == {Setup("long", TRUE, 2, 5), Setup("short", TRUE, 5, 2), Setup("none", FALSE, 2, 5)}
MCMalformed == {PaperTrade(2)}
\* The profiles of StrategyParams, and one with its experiments.
MCProfiles ==
    {MCConservative,
     [MCConservative EXCEPT !.normalized = TRUE],
     [MCConservative EXCEPT !.buy = 280, !.sell = -280, !.maxActionable = 330, !.confirmVolume = TRUE],
     [MCConservative EXCEPT !.buy = 200, !.sell = -200, !.sidewaysPct = 60, !.momentumPct = 100,
        !.counterTrendPct = 30, !.volumeGate = FALSE, !.chase = TRUE, !.chaseCap = 200, !.rideCap = 300,
        !.agreement = TRUE, !.agreementCap = 300, !.confirmOversold = TRUE, !.unconfirmedPct = 0]}
MCPlain ==
    [rsi |-> 0, stochCross |-> 0, stochZone |-> 0, stochLean |-> 0, cci |-> 0, confirmed |-> TRUE,
     hasAverage |-> TRUE, above |-> TRUE, wasAbove |-> TRUE, slope |-> 1, hasSlope |-> TRUE,
     adx |-> 30, di |-> 1, diCross |-> 0, smaCross |-> 0, smaTrend |-> 1, emaCross |-> 0,
     macdCross |-> 0, histogram |-> 1, heavy |-> FALSE, spike |-> 0, priceVolume |-> 0,
     volumeTrend |-> 0, obv |-> 0, band |-> 0, near |-> 0, rsiDivergence |-> 0, macdDivergence |-> 0,
     stretched |-> 0, moving |-> TRUE, regime |-> "BULL"]
MCFalling ==
    [MCPlain EXCEPT !.above = FALSE, !.wasAbove = FALSE, !.slope = -1, !.di = -1, !.smaTrend = -1,
        !.histogram = -2, !.regime = "BEAR"]
MCSlow == [MCPlain EXCEPT !.adx = 15, !.moving = FALSE, !.regime = "SIDEWAYS"]
MCCharts ==
    {MCPlain, MCFalling, MCSlow,
     [MCPlain EXCEPT !.macdCross = 1, !.heavy = TRUE, !.priceVolume = 1, !.obv = 1],
     [MCPlain EXCEPT !.emaCross = 1, !.macdCross = 1, !.smaCross = 1, !.heavy = TRUE, !.spike = 1],
     [MCPlain EXCEPT !.macdCross = 1, !.emaCross = 1, !.priceVolume = -1, !.obv = -1, !.band = -2],
     [MCPlain EXCEPT !.rsi = -3, !.cci = -2, !.stretched = 1, !.stochZone = -1, !.near = -1],
     [MCFalling EXCEPT !.rsi = 3, !.cci = 2, !.stochZone = 1, !.band = 2, !.rsiDivergence = 1, !.confirmed = FALSE],
     [MCFalling EXCEPT !.macdCross = -1, !.diCross = -1, !.obv = -1, !.smaCross = -1],
     [MCFalling EXCEPT !.macdCross = -1, !.obv = 1, !.spike = -1, !.stretched = -1],
     [MCFalling EXCEPT !.wasAbove = TRUE, !.heavy = TRUE],
     [MCFalling EXCEPT !.adx = 17, !.macdCross = -1, !.regime = "BEAR"],
     [MCPlain EXCEPT !.adx = 17, !.smaCross = -1, !.macdCross = 1, !.histogram = -1, !.di = 1],
     [MCPlain EXCEPT !.adx = 17, !.smaTrend = -1, !.histogram = -1, !.di = 1, !.rsi = 1, !.macdCross = 1,
        !.rsiDivergence = 1, !.wasAbove = FALSE],
     [MCSlow EXCEPT !.macdCross = 1, !.emaCross = 1, !.smaCross = 1, !.diCross = 1, !.rsiDivergence = 1,
        !.macdDivergence = 1, !.heavy = TRUE],
     [MCSlow EXCEPT !.regime = "UNKNOWN", !.di = -1, !.smaTrend = -1, !.hasSlope = FALSE, !.slope = 0,
        !.rsi = 1, !.moving = TRUE]}
Reading(type, score) == [type |-> type, score |-> score]
MCReadings == {Reading("BUY", 30), Reading("WEAK_BUY", 10), Reading("SELL", -30), Reading("STRONG_SELL", -50)}
MCSellAt == -25
MCWeakSell == -80
MCStrongSell == -480
MCSession == [limit |-> 0, recovers |-> FALSE, relative |-> 0, pace |-> 0, narrow |-> FALSE]
MCSessions ==
    {MCSession,
     [MCSession EXCEPT !.limit = -1, !.relative = -1],
     [MCSession EXCEPT !.limit = 1, !.recovers = TRUE, !.relative = 1, !.pace = 1],
     [MCSession EXCEPT !.recovers = TRUE, !.relative = 1, !.pace = 1],
     [MCSession EXCEPT !.relative = -1, !.pace = -1, !.narrow = TRUE]}
Regime(adx, plus, minus, momentum, sma, ema) ==
    [adx |-> adx, plus |-> plus, minus |-> minus, momentum |-> momentum, sma |-> sma, ema |-> ema]
MCMarkets ==
    LET up == Regime(30, 30, 10, 0, 3, 2)
        down == Regime(16, 10, 20, -5, 1, 3)
        flat == Regime(10, 20, 20, 4, 2, 1)
    IN  {[b \in Benchmarks |-> up], [b \in Benchmarks |-> down],
         "thyao" :> up @@ "garan" :> down @@ "akbnk" :> flat,
         "thyao" :> down @@ "garan" :> down @@ "akbnk" :> up,
         "thyao" :> flat @@ "garan" :> up @@ "akbnk" :> Untraded,
         "thyao" :> Untraded @@ "garan" :> down @@ "akbnk" :> Untraded,
         "thyao" :> Untraded @@ "garan" :> Untraded @@ "akbnk" :> down,
         "thyao" :> up @@ "garan" :> Untraded @@ "akbnk" :> down}
MCSchemes ==
    {[MCRows EXCEPT !.step = s, !.purge = p, !.embargo = e] : s \in {1, 2}, p \in {0, 1}, e \in {0, 1}}
    \cup {[MCRows EXCEPT !.kind = "months", !.train = t, !.test = 1, !.step = 1, !.purge = p, !.anchored = a] :
              t \in {1, 2}, p \in {0, 1}, a \in BOOLEAN}
    \cup {[MCRows EXCEPT !.kind = "days", !.train = t] : t \in {1, 2}}
    \cup {[MCRows EXCEPT !.kind = "champion", !.test = t, !.purge = p, !.embargo = 1, !.warmup = 1,
              !.extension = 1] : t \in {1, 2}, p \in {0, 1}}
    \cup {[MCRows EXCEPT !.kind = "split", !.train = 50, !.test = 20, !.step = s] : s \in {15, 40}}
\* Days without a row before them and rows of one date, at most two of them.
MCSteps == {s \in [1..6 -> {0, 1, 3}] : Cardinality({i \in 1..6 : s[i] # 1}) <= 2}
MCFrames == {[i \in 1..7 |-> FoldFunctionOnSet(LAMBDA a, b : a + b, 1, s, 1..(i - 1))] : s \in MCSteps}
=============================================================================
