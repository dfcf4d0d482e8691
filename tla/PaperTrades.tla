----------------------------- MODULE PaperTrades -----------------------------
(***************************************************************************)
(* PaperTradeService over PortfolioRepository and LedgerRepository: a paper *)
(* trade is queued for a signal and mirrored in the trade ledger, and the   *)
(* passes over the open trades close it and mirror the close.               *)
(*                                                                         *)
(* Several services work on one database, each with its own memory: that of *)
(* the scanner's process and one for every scan asked for over HTTP.  Every *)
(* repository call is a transaction of its own; the close reads its row and *)
(* then writes it, two steps where the database does not serialise them.    *)
(*                                                                         *)
(* Prices are abstracted to the reasons for a close that hold when a trade  *)
(* is looked at: which levels a price has crossed, the trailing stop among  *)
(* them, is data.  All trades are of one ticker: tickers meet in nothing    *)
(* but the order of a pass.                                                 *)
(***************************************************************************)
EXTENDS Naturals, Sequences

CONSTANTS
    Services,      \* the services at work
    NTrades,       \* bound on paper trades, numbered by their row id
    Reasons        \* bound on the reasons for a close that occur

\* The close reasons in the order in which they are tried.
Priority == <<"OPPOSITE_SIGNAL", "STOP_HIT", "TRAIL_STOP_HIT", "TARGET_HIT", "EOD_CLOSE">>

ASSUME PaperAssumption ==
    NTrades \in Nat /\ Reasons \subseteq {Priority[i] : i \in 1..5} /\ "EOD_CLOSE" \in Reasons

VARIABLES
    paper,    \* the rows of paper_trades: outcome and close_reason
    ledger,   \* the PAPER rows of trade_ledger, by paper_trade_id: status and close_reason
    task,     \* what a service is doing
    closers   \* history: the services that set out to close a trade

paperVars == <<paper, ledger, task, closers>>

Trades == 1..NTrades
NoRow == [status |-> "none", reason |-> "none"]
OpenRow == [status |-> "open", reason |-> "none"]
Closed(reason) == [status |-> "closed", reason |-> reason]
Rows == {NoRow, OpenRow} \cup {Closed(reason) : reason \in Reasons}
Idle == [pc |-> "idle", listed |-> {}, next |-> 0, eod |-> FALSE, reason |-> "none"]

PaperTypeOK ==
    /\ paper \in [Trades -> Rows] /\ ledger \in [Trades -> Rows]
    /\ task \in [Services -> [pc : {"idle", "queue", "pass", "close", "mirror"},
                              listed : SUBSET Trades, next : 0..(NTrades + 1),
                              eod : BOOLEAN, reason : Reasons \cup {"none"}]]
    /\ closers \in [Trades -> SUBSET Services]

PaperInit ==
    /\ paper = [t \in Trades |-> NoRow] /\ ledger = [t \in Trades |-> NoRow]
    /\ task = [s \in Services |-> Idle]
    /\ closers = [t \in Trades |-> {}]

-----------------------------------------------------------------------------
(* _queue_single_signal. *)

\* _is_in_paper_cooldown: recently closed, unless the look-up failed or it was long ago; an
\* open trade of the ticker is no obstacle.
CoolingDown == \E t \in Trades : paper[t].status = "closed"

\* The row is inserted.  CoolingDown is ignored when the look-up fails or the days have passed.
Queue(s, t, ignored) ==
    /\ task[s].pc = "idle" /\ paper[t].status = "none"
    /\ \A u \in Trades : u < t => paper[u].status # "none"
    /\ CoolingDown => ignored
    /\ paper' = [paper EXCEPT ![t] = OpenRow]
    /\ task' = [task EXCEPT ![s].pc = "queue", ![s].next = t]
    /\ UNCHANGED <<ledger, closers>>

\* _record_ledger_open: its failure is kept from the caller.
MirrorOpen(s) ==
    /\ task[s].pc = "queue"
    /\ ledger' = [ledger EXCEPT ![task[s].next] = OpenRow]
    /\ task' = [task EXCEPT ![s] = Idle]
    /\ UNCHANGED <<paper, closers>>

-----------------------------------------------------------------------------
(* update_open_trades. *)

\* The open trades are listed, oldest first, and their price is found in the scan's signals or
\* fetched; a pass without a price does nothing but count the misses.
StartPass(s, eod) ==
    LET open == {t \in Trades : paper[t].status = "open"}
    IN  /\ task[s].pc = "idle" /\ open # {}
        /\ task' = [task EXCEPT ![s] = [pc |-> "pass", listed |-> open, next |-> 1, eod |-> eod,
                                       reason |-> "none"]]
        /\ UNCHANGED <<paper, ledger, closers>>

\* The first reason, in the order of priority, of those that hold.
FirstOf(holding) ==
    Priority[CHOOSE i \in 1..5 : /\ Priority[i] \in holding
                                 /\ \A j \in 1..(i - 1) : Priority[j] \notin holding]

\* One trade of the list; the end of the day is a reason for every trade.
Consider(s, holding) ==
    LET t == task[s].next
    IN  /\ task[s].pc = "pass" /\ t \in task[s].listed
        /\ ("EOD_CLOSE" \in holding) = task[s].eod
        /\ IF holding = {}
           THEN task' = [task EXCEPT ![s].next = @ + 1] /\ UNCHANGED closers
           ELSE /\ task' = [task EXCEPT ![s].pc = "close", ![s].reason = FirstOf(holding)]
                /\ closers' = [closers EXCEPT ![t] = @ \cup {s}]
        /\ UNCHANGED <<paper, ledger>>

\* A trade that was not listed.
PassOver(s) ==
    /\ task[s].pc = "pass" /\ task[s].next \in Trades \ task[s].listed
    /\ task' = [task EXCEPT ![s].next = @ + 1]
    /\ UNCHANGED <<paper, ledger, closers>>

\* close_paper_trade by id: the row that is written was open when it was read, and may have
\* been closed since.
WriteClose(s) ==
    /\ task[s].pc = "close"
    /\ \/ paper' = [paper EXCEPT ![task[s].next] = Closed(task[s].reason)]
       \/ paper[task[s].next].status = "closed" /\ UNCHANGED paper
    /\ task' = [task EXCEPT ![s].pc = "mirror"]
    /\ UNCHANGED <<ledger, closers>>

\* A form with a plausible bug: the mirror is written first to last found open.
MirrorCloseOfNewest(s) ==
    LET open == {t \in Trades : ledger[t].status = "open"}
        newest == {t \in open : \A u \in open : u <= t}
    IN  /\ task[s].pc = "mirror"
        /\ ledger' = [t \in Trades |-> IF t \in newest THEN Closed(task[s].reason) ELSE ledger[t]]
        /\ task' = [task EXCEPT ![s].pc = "pass", ![s].next = @ + 1, ![s].reason = "none"]
        /\ UNCHANGED <<paper, closers>>

\* record_ledger_close by paper_trade_id, whether or not the close above found its row open.
MirrorClose(s) ==
    LET t == task[s].next
    IN  /\ task[s].pc = "mirror"
        /\ ledger' = IF ledger[t].status # "open" THEN ledger
                     ELSE [ledger EXCEPT ![t] = Closed(task[s].reason)]
        /\ task' = [task EXCEPT ![s].pc = "pass", ![s].next = @ + 1, ![s].reason = "none"]
        /\ UNCHANGED <<paper, closers>>

EndPass(s) ==
    /\ task[s].pc = "pass" /\ task[s].next > NTrades
    /\ task' = [task EXCEPT ![s] = Idle]
    /\ UNCHANGED <<paper, ledger, closers>>

\* A write of the ledger fails and is only logged.
MirrorFails(s) ==
    /\ task[s].pc \in {"queue", "mirror"}
    /\ task' = IF task[s].pc = "queue" THEN [task EXCEPT ![s] = Idle]
               ELSE [task EXCEPT ![s].pc = "pass", ![s].next = @ + 1, ![s].reason = "none"]
    /\ UNCHANGED <<paper, ledger, closers>>

\* A close raises and with it the pass ends, its failure reported.
PassFails(s) ==
    /\ task[s].pc = "close"
    /\ task' = [task EXCEPT ![s] = Idle]
    /\ UNCHANGED <<paper, ledger, closers>>

\* The process of a service dies; another takes its place.
ServiceCrash(s) ==
    /\ task[s].pc # "idle"
    /\ task' = [task EXCEPT ![s] = Idle]
    /\ UNCHANGED <<paper, ledger, closers>>

PaperNext ==
    \E s \in Services :
        \/ \E t \in Trades, ignored \in BOOLEAN : Queue(s, t, ignored)
        \/ \E eod \in BOOLEAN : StartPass(s, eod)
        \/ \E holding \in SUBSET Reasons : Consider(s, holding)
        \/ MirrorOpen(s) \/ PassOver(s) \/ WriteClose(s) \/ MirrorClose(s)
        \/ EndPass(s) \/ MirrorFails(s) \/ PassFails(s) \/ ServiceCrash(s)

PaperSpec == PaperInit /\ [][PaperNext]_paperVars

-----------------------------------------------------------------------------
\* The ledger closes no trade that the paper trades still hold open: the reports built on it
\* never count a result before there is one (_close_trade).
LedgerFollowsPaper ==
    \A t \in Trades : ledger[t].status = "closed" => paper[t].status = "closed"

\* Where one service alone set out to close a trade, its mirror tells the same reason, also
\* when a sibling of the same ticker is open (close by id, B3).
MirrorAgrees ==
    \A t \in Trades :
        (\E s \in Services : closers[t] = {s}) /\ ledger[t].status = "closed"
            => paper[t] = ledger[t]

\* An end-of-day pass that finds a price and comes to its end without a failure leaves none of
\* the trades it listed open, whatever else is written meanwhile (update_open_trades).
EodLeavesNoneOpen ==
    \A s \in Services :
        (task[s].pc = "pass" /\ task[s].next > NTrades /\ task[s].eod)
            => \A t \in task[s].listed : paper[t].status = "closed"

\* The three together.
PaperTradesAgree == LedgerFollowsPaper /\ MirrorAgrees /\ EodLeavesNoneOpen
=============================================================================
