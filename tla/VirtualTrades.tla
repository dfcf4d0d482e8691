----------------------------- MODULE VirtualTrades -----------------------------
(***************************************************************************)
(* The two services that follow a signal as if it had been traded:          *)
(* ShadowTradeService for signals below the threshold and                   *)
(* SignalOutcomeTracker for those above.  Both keep at most one position    *)
(* per ticker in a JSON file, report the end of one in a CSV file and       *)
(* mirror it in the database, the first in the SHADOW rows of trade_ledger, *)
(* the second in the row of the signal.                                     *)
(*                                                                         *)
(* A pass over one ticker is a step for every write.  Its lock is that of   *)
(* one service: every process, and every scan asked for over HTTP, has a    *)
(* service of its own over the same files.                                  *)
(***************************************************************************)
EXTENDS Naturals

CONSTANTS
    Books,       \* bound on the services looked at, of {"shadow", "outcome"}
    Passers,     \* the services at work
    MaxReports,  \* bound on the reports of one position
    NEntries     \* bound on positions, numbered in the order of their database rows

ASSUME VirtualAssumption == Books \subseteq {"shadow", "outcome"} /\ NEntries \in Nat /\ MaxReports \in Nat

VARIABLES
    book,        \* which of the two services
    onFile,      \* the position in the JSON file, 0 for none
    reports,     \* how often a position stands in the CSV file, and whether as a stop
    mirror,      \* the database rows
    closedFor,   \* the position for which a row was closed
    pass,        \* what a service is doing
    overlapped,  \* history: two services were at work at the same time
    unmirrored   \* history: a position was opened without a row

virtualVars == <<book, onFile, reports, mirror, closedFor, pass, overlapped, unmirrored>>

Entries == 1..NEntries
NoPass == [pc |-> "idle", holds |-> 0, closing |-> 0, hit |-> "none"]
Hits == {"stop", "other"}

VirtualTypeOK ==
    /\ book \in Books /\ onFile \in 0..NEntries
    /\ reports \in [Entries -> [times : 0..MaxReports, stopped : BOOLEAN]]
    /\ mirror \in [Entries -> {"none", "open", "closed"}]
    /\ closedFor \in [Entries -> 0..NEntries]
    /\ pass \in [Passers -> [pc : {"idle", "enter", "write", "append", "mirror"},
                             holds : 0..NEntries, closing : 0..NEntries, hit : Hits \cup {"none"}]]
    /\ {overlapped, unmirrored} \subseteq BOOLEAN

VirtualInit ==
    /\ book \in Books /\ onFile = 0
    /\ reports = [e \in Entries |-> [times |-> 0, stopped |-> FALSE]]
    /\ mirror = [e \in Entries |-> "none"] /\ closedFor = [e \in Entries |-> 0]
    /\ pass = [p \in Passers |-> NoPass]
    /\ overlapped = FALSE /\ unmirrored = FALSE

\* The number the next position gets: none before it has been used.
Used == {e \in Entries : mirror[e] # "none" \/ reports[e].times > 0 \/ onFile = e}
            \cup {pass[p].holds : p \in Passers} \cup {pass[p].closing : p \in Passers}
NextEntry == CHOOSE e \in 1..(NEntries + 1) : e \notin Used /\ \A u \in Used : u < e

-----------------------------------------------------------------------------
\* A pass begins: the file is read, and without a lock of the others.
Begin(p, doing) ==
    /\ pass[p].pc = "idle"
    /\ pass' = [pass EXCEPT ![p] = doing]
    /\ overlapped' = (overlapped \/ \E q \in Passers : pass[q].pc # "idle")
    /\ UNCHANGED <<book, onFile, reports, mirror, closedFor, unmirrored>>

\* _cooldown_tickers: a stop reported of late keeps the shadow service from the ticker.
Cooling == book = "shadow" /\ \E e \in Entries : reports[e].stopped

\* Nothing is due, or there is no price, and nothing is to be opened: the file is written as it
\* was read.
Keeps(p) == Begin(p, [NoPass EXCEPT !.pc = "write", !.holds = onFile])

\* _close_due_positions: the position goes out of the memory of the pass.
FindsDue(p, hit) ==
    /\ onFile # 0
    /\ Begin(p, [pc |-> "write", holds |-> 0, closing |-> onFile, hit |-> hit])

\* A candidate whose ticker has no position and is not cooling down, or did so long ago.
FindsCandidate(p, longAgo) ==
    /\ onFile = 0 /\ (Cooling => longAgo)
    /\ Begin(p, [NoPass EXCEPT !.pc = "enter"])

\* _ledger_record_open, before the file is written, or the row of the signal that save_signals
\* has written; there may be none.
Opens(p, mirrored) ==
    /\ pass[p].pc = "enter" /\ NextEntry \in Entries
    /\ pass' = [pass EXCEPT ![p].pc = "write", ![p].holds = NextEntry]
    /\ mirror' = IF mirrored THEN [mirror EXCEPT ![NextEntry] = "open"] ELSE mirror
    /\ unmirrored' = (unmirrored \/ ~mirrored)
    /\ UNCHANGED <<book, onFile, reports, closedFor, overlapped>>

\* _write_json, by way of a second file that replaces the first.
Writes(p) ==
    /\ pass[p].pc = "write"
    /\ onFile' = pass[p].holds
    /\ pass' = [pass EXCEPT ![p] = IF @.closing = 0 THEN NoPass ELSE [@ EXCEPT !.pc = "append"]]
    /\ UNCHANGED <<book, reports, mirror, closedFor, overlapped, unmirrored>>

\* _append_closed.
Reports(p) ==
    LET e == pass[p].closing
    IN  /\ pass[p].pc = "append" /\ reports[e].times < MaxReports
        /\ reports' = [reports EXCEPT ![e] = [times |-> @.times + 1,
                                              stopped |-> @.stopped \/ pass[p].hit = "stop"]]
        /\ pass' = [pass EXCEPT ![p].pc = "mirror"]
        /\ UNCHANGED <<book, onFile, mirror, closedFor, overlapped, unmirrored>>

OpenRows == {e \in Entries : mirror[e] = "open"}
OwnRow(p) == {e \in Entries : e = pass[p].closing /\ mirror[e] # "none"}

\* A form with a plausible bug: the oldest open row is taken.
OldestRow(p) ==
    IF book = "shadow" THEN {e \in OpenRows : \A o \in OpenRows : e <= o} ELSE OwnRow(p)

\* close_entry takes the newest open row of the ticker, update_outcomes the row of the signal.
RowToClose(p) ==
    IF book = "shadow" THEN {e \in OpenRows : \A o \in OpenRows : o <= e} ELSE OwnRow(p)

Mirrors(p) ==
    /\ pass[p].pc = "mirror"
    /\ \E e \in RowToClose(p) :
          /\ mirror' = [mirror EXCEPT ![e] = "closed"]
          /\ closedFor' = [closedFor EXCEPT ![e] = pass[p].closing]
    /\ pass' = [pass EXCEPT ![p] = NoPass]
    /\ UNCHANGED <<book, onFile, reports, overlapped, unmirrored>>

\* A write raises and the pass with it, or the row is not found or not written, or the process
\* dies: what was written stays.
BreaksOff(p) ==
    /\ pass[p].pc # "idle"
    /\ pass' = [pass EXCEPT ![p] = NoPass]
    /\ UNCHANGED <<book, onFile, reports, mirror, closedFor, overlapped, unmirrored>>

VirtualNext ==
    \E p \in Passers :
        \/ Keeps(p) \/ \E hit \in Hits : FindsDue(p, hit)
        \/ \E longAgo \in BOOLEAN : FindsCandidate(p, longAgo)
        \/ \E mirrored \in BOOLEAN : Opens(p, mirrored)
        \/ Writes(p) \/ Reports(p) \/ Mirrors(p) \/ BreaksOff(p)

VirtualSpec == VirtualInit /\ [][VirtualNext]_virtualVars

-----------------------------------------------------------------------------
\* The end of a position is reported at most once, wherever a pass breaks off, unless two
\* services were at work at the same time (process_scan writes the file before the report).
ReportedOnce == overlapped \/ \A e \in Entries : reports[e].times <= 1

\* A row of the database is closed with the result of the position it was opened for, although
\* a pass that breaks off leaves an open row behind, unless a row could not be written or two
\* services were at work (close_entry: "safe for SHADOW").
MirrorIsOwn ==
    overlapped \/ unmirrored \/ \A e \in Entries : closedFor[e] \in {0, e}

\* Both: what is reported and what is stored of a virtual position is its own, and once.
VirtualTradesOwn == ReportedOnce /\ MirrorIsOwn
=============================================================================
