---------------------------- MODULE LedgerBackfill ----------------------------
(***************************************************************************)
(* The script backfill_trade_ledger: trades that stand in the paper_trades   *)
(* table, in the shadow service's CSV file or in its JSON file, and have no  *)
(* row in trade_ledger, get one.  Each source is read by itself, the rows    *)
(* are staged, and inserted at last in one transaction, while the bot goes   *)
(* on opening and closing trades and mirroring them, or failing to.          *)
(*                                                                         *)
(* The trades are of one ticker.  No constraint of the table keeps two rows  *)
(* of one trade apart.  The join with the signals is data; --limit is left   *)
(* out.                                                                     *)
(***************************************************************************)
EXTENDS Naturals, Sequences, FiniteSets

CONSTANTS
    Jobs,           \* runs of the script that may be under way together
    NPaperTrades,   \* bound on paper trades, numbered by their row id
    NShadowTrades,  \* bound on shadow trades, numbered by their entry time
    MaxTrades,      \* bound on the trades of both kinds
    Malformed,      \* the trades whose record does not pass validation
    MaxLedgerRows

PaperTrade(i) == <<"PAPER", i>>
ShadowTrade(i) == <<"SHADOW", i>>
PaperTradesAll == {PaperTrade(i) : i \in 1..NPaperTrades}
ShadowTradesAll == {ShadowTrade(i) : i \in 1..NShadowTrades}
AllTrades == PaperTradesAll \cup ShadowTradesAll

ASSUME LedgerBackfillAssumption ==
    /\ {NPaperTrades, NShadowTrades, MaxTrades, MaxLedgerRows} \subseteq Nat /\ Malformed \subseteq AllTrades

VARIABLES
    record,      \* where a trade stands in its source
    ledgerRows,  \* trade_ledger in the order of ids: the trade opened, the trade whose close it has
    job,         \* what a run of the script is doing
    touched,     \* history: trades written by another while a run was under way
    settled,     \* history: trades a finished run has seen
    unclosed     \* history: trades whose close was not mirrored

ledgerVars == <<record, ledgerRows, job, touched, settled, unclosed>>

NotClosed == <<"none", 0>>
Row(t, by) == [of |-> t, by |-> by]
NoJob == [pc |-> "idle", paperIds |-> {}, shadowOpen |-> {}, shadowClosed |-> {},
          seen |-> {}, staged |-> <<>>]

LedgerTypeOK ==
    /\ record \in [AllTrades -> {"none", "open", "closed", "lost"}]
    /\ Len(ledgerRows) <= MaxLedgerRows
    /\ \A i \in 1..Len(ledgerRows) : /\ ledgerRows[i].of \in AllTrades
                                     /\ ledgerRows[i].by \in AllTrades \cup {NotClosed}
    /\ \A j \in Jobs : job[j].pc \in {"idle", "paper", "csv", "open", "insert"}
    /\ UNION {touched, settled, unclosed} \subseteq AllTrades

LedgerInit ==
    /\ record = [t \in AllTrades |-> "none"] /\ ledgerRows = <<>>
    /\ job = [j \in Jobs |-> NoJob]
    /\ touched = {} /\ settled = {} /\ unclosed = {}

AtWork == {j \in Jobs : job[j].pc # "idle"}
Touches(t) == touched' = IF AtWork # {} THEN touched \cup {t} ELSE touched

-----------------------------------------------------------------------------
(* The bot. *)

\* close_entry: the newest open row is closed, of the paper trade or of the ticker.
CloseNewest(t, candidates) ==
    LET open == {i \in 1..Len(ledgerRows) : ledgerRows[i].by = NotClosed /\ ledgerRows[i].of \in candidates}
    IN  IF open = {} THEN ledgerRows
        ELSE [ledgerRows EXCEPT ![CHOOSE i \in open : \A k \in open : k <= i].by = t]

\* A trade is opened, mirrored or not (_record_ledger_open, _ledger_record_open).
OpensTrade(t, mirrored) ==
    /\ record[t] = "none" /\ Cardinality({u \in AllTrades : record[u] # "none"}) < MaxTrades
    /\ record' = [record EXCEPT ![t] = "open"]
    /\ Len(ledgerRows) < MaxLedgerRows
    /\ ledgerRows' = IF mirrored THEN Append(ledgerRows, Row(t, NotClosed)) ELSE ledgerRows
    /\ Touches(t)
    /\ UNCHANGED <<job, settled, unclosed>>

OpensPaper(i, mirrored) ==
    /\ \A k \in 1..(i - 1) : record[PaperTrade(k)] # "none"
    /\ OpensTrade(PaperTrade(i), mirrored)

\* One shadow trade of a ticker at a time.
OpensShadow(i, mirrored) ==
    /\ \A k \in 1..(i - 1) : record[ShadowTrade(k)] \notin {"none", "open"}
    /\ OpensTrade(ShadowTrade(i), mirrored)

ClosesPaper(i, mirrored) ==
    LET t == PaperTrade(i)
    IN  /\ record[t] = "open"
        /\ record' = [record EXCEPT ![t] = "closed"]
        /\ ledgerRows' = IF mirrored THEN CloseNewest(t, {t}) ELSE ledgerRows
        /\ unclosed' = IF mirrored THEN unclosed ELSE unclosed \cup {t}
        /\ Touches(t)
        /\ UNCHANGED <<job, settled>>

\* Closed for good, closed without its mirror, or gone with a crash between the two files.
ClosesShadow(i, how) ==
    LET t == ShadowTrade(i)
    IN  /\ record[t] = "open"
        /\ record' = [record EXCEPT ![t] = IF how = "lost" THEN "lost" ELSE "closed"]
        /\ ledgerRows' = IF how = "mirrored" THEN CloseNewest(t, ShadowTradesAll) ELSE ledgerRows
        /\ unclosed' = IF how = "mirrored" THEN unclosed ELSE unclosed \cup {t}
        /\ Touches(t)
        /\ UNCHANGED <<job, settled>>

-----------------------------------------------------------------------------
(* The script, source by source. *)

\* By row id, or by entry time.
InOrder(trades) ==
    CHOOSE order \in [1..Cardinality(trades) -> trades] :
        \A i, k \in 1..Cardinality(trades) : i < k => order[i][2] < order[k][2]
Steps(j, next) ==
    /\ job' = [job EXCEPT ![j] = next]
    /\ UNCHANGED <<record, ledgerRows, touched, settled, unclosed>>

RowKeys ==
    LET of(kind, open) == {ledgerRows[i] : i \in {k \in 1..Len(ledgerRows) :
                              /\ ledgerRows[k].of[1] = kind
                              /\ (ledgerRows[k].by = NotClosed) = open}}
    IN  [NoJob EXCEPT !.paperIds = {r.of : r \in of("PAPER", TRUE) \cup of("PAPER", FALSE)},
                      !.shadowOpen = {r.of : r \in of("SHADOW", TRUE)},
                      !.shadowClosed = of("SHADOW", FALSE)]

\* A form with a plausible bug: only the open rows of paper trades are known.
OpenRowKeys == [RowKeys EXCEPT !.paperIds = {t \in @ : \E i \in 1..Len(ledgerRows) :
                                                         ledgerRows[i] = Row(t, NotClosed)}]

\* _existing_keys: paper rows by their trade, open shadow rows by their entry, closed ones by
\* entry and exit.
ExistingKeys == RowKeys

ReadsKeys(j) == job[j].pc = "idle" /\ Steps(j, [ExistingKeys EXCEPT !.pc = "paper"])

\* Sound records of a source are seen, and staged if their key is not known.
StagesNew(j, pc, trades, known, close) ==
    LET sound == trades \ Malformed
        rows == [k \in 1..Cardinality(sound \ known) |->
                    LET t == InOrder(sound \ known)[k] IN Row(t, close[t])]
    IN  Steps(j, [job[j] EXCEPT !.pc = pc, !.seen = @ \cup sound, !.staged = @ \o rows])

\* Paper trades, open and closed, as their rows say now.
ReadsPaper(j) ==
    /\ job[j].pc = "paper"
    /\ StagesNew(j, "csv", {t \in PaperTradesAll : record[t] \in {"open", "closed"}}, job[j].paperIds,
              [t \in PaperTradesAll |-> IF record[t] = "closed" THEN t ELSE NotClosed])

\* Closed shadow trades of the CSV file.
ReadsCsv(j) ==
    LET done == {t \in ShadowTradesAll : record[t] = "closed"}
    IN  /\ job[j].pc = "csv"
        /\ StagesNew(j, "open", done, {t \in done : Row(t, t) \in job[j].shadowClosed},
                  [t \in ShadowTradesAll |-> t])

\* Open shadow trades of the JSON file.
ReadsOpen(j) ==
    /\ job[j].pc = "open"
    /\ StagesNew(j, "insert", {t \in ShadowTradesAll : record[t] = "open"}, job[j].shadowOpen,
              [t \in ShadowTradesAll |-> NotClosed])

\* One transaction inserts what was staged, whatever has been written meanwhile.
Inserts(j) ==
    LET staged == {job[j].staged[k].of : k \in 1..Len(job[j].staged)}
    IN  /\ job[j].pc = "insert" /\ Len(ledgerRows) + Len(job[j].staged) <= MaxLedgerRows
        /\ ledgerRows' = ledgerRows \o job[j].staged
        /\ settled' = settled \cup job[j].seen
        /\ touched' = IF AtWork # {j} THEN touched \cup staged ELSE touched
        /\ job' = [job EXCEPT ![j] = NoJob]
        /\ UNCHANGED <<record, unclosed>>

\* A dry run, or the script dies: nothing is inserted.
Aborts(j) == job[j].pc # "idle" /\ Steps(j, NoJob)

LedgerNext ==
    \/ \E i \in 1..NPaperTrades, mirrored \in BOOLEAN : OpensPaper(i, mirrored) \/ ClosesPaper(i, mirrored)
    \/ \E i \in 1..NShadowTrades :
        \/ \E mirrored \in BOOLEAN : OpensShadow(i, mirrored)
        \/ \E how \in {"mirrored", "unmirrored", "lost"} : ClosesShadow(i, how)
    \/ \E j \in Jobs : ReadsKeys(j) \/ ReadsPaper(j) \/ ReadsCsv(j) \/ ReadsOpen(j) \/ Inserts(j)
                       \/ Aborts(j)

LedgerSpec == LedgerInit /\ [][LedgerNext]_ledgerVars

-----------------------------------------------------------------------------
RowsOf(t) == {i \in 1..Len(ledgerRows) : ledgerRows[i].of = t}

\* Idempotence, however often the script runs or dies: a trade that was not written while it
\* ran has one row at most, and exactly one once a run has seen it, closed by the trade itself
\* when the trade is.  A shadow trade whose close was not mirrored is the exception: its open
\* row stays and the CSV file gives it another (run_backfill, _existing_keys).
BackfilledOnce ==
    \A t \in AllTrades \ touched :
        ~(t \in ShadowTradesAll /\ t \in unclosed) =>
            /\ Cardinality(RowsOf(t)) <= 1
            /\ t \in settled =>
                \E i \in RowsOf(t) :
                    t \in unclosed \/ ledgerRows[i].by = (IF record[t] = "closed" THEN t ELSE NotClosed)
=============================================================================
