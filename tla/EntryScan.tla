------------------------------- MODULE EntryScan -------------------------------
(***************************************************************************)
(* StrategyEngine.scan_all and the RiskManager it works on: which of the     *)
(* candidates of a scan become buy signals.  A buy takes a place of its      *)
(* sector, is refused beside too many correlated positions, and is itself    *)
(* registered for the candidates after it.                                  *)
(*                                                                         *)
(* One engine serves the scans of a process, those that run on after their   *)
(* request gave up among them, and the requests that analyse one paper:      *)
(* sectors are counted per scan, the registered positions are shared.        *)
(* Scores and sizes are abstracted to whether a candidate passes.            *)
(***************************************************************************)
EXTENDS RiskLevels, Sequences, SequencesExt

CONSTANTS
    Scans,          \* threads that scan
    Requesters,     \* threads of api_analyze
    NPapers,        \* the papers of a scan, numbered in the order of its data
    SectorOf,       \* SECTOR_MAP, 0 for a paper without a sector
    Correlations,   \* pairs of papers at or above the correlation threshold
    SectorLimit,    \* max_sector_cap_pct over max_position_cap_pct, at least 1
    ClusterLimit,   \* correlation_max_cluster
    HistoryLimit,   \* _portfolio_history_limit
    ActiveSets      \* bound on the papers the database has active positions of

Papers == 1..NPapers

ASSUME EntryAssumption ==
    /\ {NPapers, SectorLimit, ClusterLimit, HistoryLimit} \subseteq Nat /\ SectorLimit > 0 /\ NPapers > 0
    /\ SectorOf \in [Papers -> Nat] /\ Correlations \subseteq SUBSET Papers
    /\ ActiveSets \subseteq SUBSET Papers /\ Scans \cap Requesters = {}

VARIABLES
    held,        \* get_active_position_tickers
    registered,  \* the keys of _portfolio_history in their order
    memo,        \* _corr_memo_frame is that of today and these papers
    thread       \* what a thread is doing

entryVars == <<held, registered, memo, thread>>

Threads == Scans \cup Requesters
NoThread == [pc |-> "idle", at |-> 0, taken |-> {}, buys |-> <<>>, alone |-> TRUE]

EntryTypeOK ==
    /\ held \in ActiveSets /\ memo \in BOOLEAN
    /\ registered \in Seq(Papers) /\ IsInjective(registered)
    /\ \A t \in Threads :
        /\ thread[t].pc \in {"idle", "restore", "score", "cluster", "model", "done"}
        /\ thread[t].at \in 0..(NPapers + 1) /\ thread[t].taken \subseteq Papers
        /\ thread[t].buys \in Seq(Papers) /\ thread[t].alone \in BOOLEAN

EntryInit ==
    /\ held \in ActiveSets /\ registered = <<>> /\ memo = FALSE
    /\ thread = [t \in Threads |-> NoThread]

\* A thread begins; it and those at work meanwhile are not alone.
Joins(t, began) ==
    LET others == {u \in Threads \ {t} : thread[u].pc # "idle"}
    IN  thread' = [u \in Threads |->
            IF u = t THEN [began EXCEPT !.alone = (others = {})]
            ELSE IF u \in others THEN [thread[u] EXCEPT !.alone = FALSE] ELSE thread[u]]

Alike(p, q) == p = q \/ {p, q} \in Correlations

\* A form with a plausible bug: the keys are kept in a list, where one registered again stands twice.
RegisterAsList(ps) ==
    LET all == registered \o SetToSeq(ps)
        excess == Len(all) - HistoryLimit
    IN  IF HistoryLimit > 0 /\ excess > 0 THEN SubSeq(all, excess + 1, Len(all)) ELSE all

\* register_position, of those that are not registered yet and in one order (that of their names,
\* which is not that of the scan), and its limit: the oldest are dropped.
Register(ps) ==
    LET all == registered \o SetToSeq(ps \ ToSet(registered))
        excess == Len(all) - HistoryLimit
    IN  IF HistoryLimit > 0 /\ excess > 0 THEN SubSeq(all, excess + 1, Len(all)) ELSE all

-----------------------------------------------------------------------------
\* A form with a plausible bug: the sectors are counted in one place for all.
ScanBeginsForAll(t) ==
    /\ thread[t].pc = "idle"
    /\ thread' = [u \in Threads |-> IF u = t THEN [NoThread EXCEPT !.pc = "restore"]
                                    ELSE [thread[u] EXCEPT !.taken = {}]]
    /\ registered' = <<>>
    /\ UNCHANGED <<held, memo>>

\* scan_all resets the portfolio for everyone, and counts its sectors for itself.
ScanBegins(t) ==
    /\ thread[t].pc = "idle"
    /\ Joins(t, [NoThread EXCEPT !.pc = "restore"])
    /\ registered' = <<>>
    /\ UNCHANGED <<held, memo>>

\* build_global_correlation_cache: the correlations come from the memo or are computed, and the
\* active positions that the scan has data of are registered again.
Restores(t) ==
    /\ thread[t].pc = "restore"
    /\ registered' = Register(held)
    /\ memo' = TRUE
    /\ thread' = [thread EXCEPT ![t].pc = "score", ![t].at = 1]
    /\ UNCHANGED held

\* api_analyze has a signal made for one paper, without a look at its sector.
AnalysisBegins(t, p) ==
    /\ thread[t].pc = "idle"
    /\ Joins(t, [NoThread EXCEPT !.pc = "score", !.at = p])
    /\ UNCHANGED <<held, registered, memo>>

\* The next paper of a scan; an analysis has one.
Onward(t) == IF t \in Scans /\ thread[t].at < NPapers THEN "score" ELSE "done"
PassesOn(t) == thread' = [thread EXCEPT ![t].pc = Onward(t), ![t].at = @ + 1]

\* The score makes no buy of a paper.
NoBuy(t) ==
    /\ thread[t].pc = "score" /\ PassesOn(t)
    /\ UNCHANGED <<held, registered, memo>>

\* check_sector_limit: a place of the sector is taken, and is not given back.
TakesPlace(t) ==
    LET p == thread[t].at
        full == /\ t \in Scans /\ SectorOf[p] # 0
                /\ Cardinality({q \in thread[t].taken : SectorOf[q] = SectorOf[p]}) >= SectorLimit
    IN  /\ thread[t].pc = "score"
        /\ IF full THEN PassesOn(t)
           ELSE thread' = [thread EXCEPT ![t].pc = "cluster",
                                         ![t].taken = IF t \in Scans THEN @ \cup {p} ELSE @]
        /\ UNCHANGED <<held, registered, memo>>

\* apply_portfolio_risk.
LooksAtCluster(t) ==
    LET alike == {q \in ToSet(registered) : Alike(thread[t].at, q)}
    IN  /\ thread[t].pc = "cluster"
        /\ IF Cardinality(alike) > ClusterLimit THEN PassesOn(t)
           ELSE thread' = [thread EXCEPT ![t].pc = "model"]
        /\ UNCHANGED <<held, registered, memo>>

\* Sizing, the meta model or the confluence of timeframes make no buy of it after all.
TurnedDown(t) ==
    /\ thread[t].pc = "model" /\ PassesOn(t)
    /\ UNCHANGED <<held, registered, memo>>

\* A buy signal, registered for those after it.
Buys(t) ==
    /\ thread[t].pc = "model"
    /\ registered' = Register({thread[t].at})
    /\ thread' = [thread EXCEPT ![t].pc = Onward(t), ![t].at = @ + 1,
                                ![t].buys = Append(@, thread[t].at)]
    /\ UNCHANGED <<held, memo>>

\* The macro regime may turn all buys into radar; then the signals are handed over.
HandsOver(t, bear) ==
    /\ thread[t].pc = "done"
    /\ thread' = IF bear /\ thread[t].buys # <<>> THEN [thread EXCEPT ![t].buys = <<>>]
                 ELSE [thread EXCEPT ![t] = NoThread]
    /\ UNCHANGED <<held, registered, memo>>

\* A scan raises: on the shared dictionary that another thread changes while it is read, or on
\* its data.
BreaksUp(t) ==
    /\ thread[t].pc \in {"restore", "score", "cluster", "model"}
    /\ thread' = [thread EXCEPT ![t] = NoThread]
    /\ UNCHANGED <<held, registered, memo>>

EntryNext ==
    \/ \E t \in Scans : ScanBegins(t) \/ Restores(t)
    \/ \E t \in Requesters, p \in Papers : AnalysisBegins(t, p)
    \/ \E t \in Threads :
        \/ NoBuy(t) \/ TakesPlace(t) \/ LooksAtCluster(t) \/ TurnedDown(t) \/ Buys(t)
        \/ BreaksUp(t) \/ \E bear \in BOOLEAN : HandsOver(t, bear)

EntrySpec == EntryInit /\ [][EntryNext]_entryVars

-----------------------------------------------------------------------------
\* No scan signals more buys of a sector than its limit, whatever scans and analyses share its
\* engine (check_sector_limit, sector_scan).
SectorWithinLimit ==
    \A t \in Scans : \A p \in ToSet(thread[t].buys) :
        SectorOf[p] # 0 =>
            Cardinality({q \in ToSet(thread[t].buys) : SectorOf[q] = SectorOf[p]}) <= SectorLimit

\* A scan that had the engine for itself signals no buy that is correlated with more than the
\* limit of active positions and earlier buys, unless these are more than are kept
\* (apply_portfolio_risk, _restore_persisted_positions).
ClusterWithinLimit ==
    \A t \in Scans :
        (thread[t].alone /\ Cardinality(held) + Len(thread[t].buys) <= HistoryLimit) =>
            \A i \in 1..Len(thread[t].buys) :
                Cardinality({q \in held \cup {thread[t].buys[j] : j \in 1..(i - 1)} :
                                Alike(thread[t].buys[i], q)}) <= ClusterLimit

\* The buys of a scan stay within the limits of sectors and of correlated positions (scan_all).
ScanWithinLimits == SectorWithinLimit /\ ClusterWithinLimit

\* The buys of a scan are within its limits, each sound in levels and size (scan_all, RiskManager).
BuysSound == SoundBuy /\ ScanWithinLimits
=============================================================================
