--------------------------- MODULE AlgoLabBroker ---------------------------
(***************************************************************************)
(* Order submission through bist_bot.execution.algolab_broker: place_order *)
(* with its durable intent, the reconciliation of a submission whose       *)
(* outcome is unknown, the startup replay of unresolved intents, the       *)
(* accounting of a reconciled fill into the order and position ledgers,    *)
(* and the manual resolution endpoint.  Several threads run these          *)
(* procedures against one database and one broker; a crash loses the       *)
(* threads and nothing else.                                               *)
(*                                                                         *)
(* A POST creates at most one order, so the broker's id of an order is the *)
(* client id of the POST that created it.  Quantities are whole lots.      *)
(***************************************************************************)
EXTENDS OrderIntents

CONSTANTS
    Submitters,       \* threads that call place_order (scan, monitor, chat)
    Replayer,         \* the startup reconciliation thread
    Admin,            \* the thread serving the resolve endpoint
    Buys,             \* the client ids used for BUY orders
    Linked,           \* the client ids submitted with an order_db_id
    Qty,              \* the quantity of every order
    CancelsRemainder, \* ALGOLAB_RECONCILE_CANCEL_REMAINDER
    SendsClientId,    \* ALGOLAB_SEND_CLIENT_ID
    OrderedStartup,   \* no order is placed before the replay has made its list
    CarefulAdmin,     \* only intents nobody works on are resolved by hand
    MaxRestarts,      \* bound on the crashes of a run
    MaxResolutions    \* bound on the resolutions by hand of a run

ASSUME BrokerAssumption ==
    /\ Replayer \notin Submitters
    /\ Admin \notin Submitters \cup {Replayer}
    /\ Buys \subseteq Cids
    /\ Buys \subseteq Linked /\ Linked \subseteq Cids
    /\ Qty \in Nat \ {0}
    /\ CancelsRemainder \in BOOLEAN
    /\ SendsClientId \in BOOLEAN
    /\ OrderedStartup \in BOOLEAN /\ CarefulAdmin \in BOOLEAN
    /\ MaxRestarts \in Nat /\ MaxResolutions \in Nat

VARIABLES
    rows,       \* the orders table: the state column of the row of each order
    exits,      \* the orders table: the position_id of an exit order's row
    positions,  \* the live_positions table
    venue,      \* each order's request and its place in the broker's history
    th,         \* what each thread is doing
    replay,     \* intents listed by the replay and still to reconcile
    restarts,   \* crashes so far
    resolutions,\* resolutions by hand so far
    unnamed     \* history: orders whose answer carried no order id

vars == <<intents, rows, exits, positions, venue, th, replay, restarts, resolutions, unnamed>>

Threads == Submitters \cup {Replayer, Admin}

OpenStates == {"SENT", "PARTIAL"}
ListedStates == OpenStates \cup {"FILLED", "CANCELLED", "REJECTED"}
VenueStates == ListedStates \cup {"unsent", "inFlight", "lost", "refused"}

\* entry and exit are order rows (None when the caller passed no order_db_id);
\* n tells apart positions opened for the same entry order.  made and closer are
\* history: who opened the position (the accounting of a fill, the same after a
\* position read that failed, or the agent) and who closed it last (nobody yet,
\* the accounting of a sale that held its lock, the same for a released intent,
\* or the caller that sold it).
Position == [entry : Cids, n : Nat, qty : 1..Qty, exit : Cids \cup {None},
             made : {"accounting", "unread", "agent"},
             closer : {"nobody", "accounting", "admin", "caller"}]

ASSUME PositionAssumption == None \notin Position

PCs == {"idle", "check", "create", "send", "post", "await", "failed", "fetch",
        "cancel", "reread", "account", "write", "cas", "override", "resolve",
        "return", "keep", "start", "next", "done"}

\* m: the history order matched, or the order whose books are kept; seen: its fill
\* at the first read; qty: the fill to account; pos: the position to close; blind:
\* the position read failed; final: the intent status to write; res, ok: the state
\* and the accepted flag of the OrderResult given to the caller, or the exception.
ThreadState ==
    [pc : PCs, cid : Cids \cup {None}, m : Cids \cup {None}, seen : 0..Qty, qty : 0..Qty,
     pos : Position \cup {None}, blind : BOOLEAN, final : Statuses,
     res : ListedStates \cup {"none", "raise", "unmapped"}, ok : BOOLEAN]

Parked(pc) == [pc |-> pc, cid |-> None, m |-> None, seen |-> 0, qty |-> 0,
               pos |-> None, blind |-> FALSE, final |-> "new",
               res |-> "none", ok |-> FALSE]

ThreadsAtBoot == [t \in Threads |-> Parked(IF t = Replayer THEN "start" ELSE "idle")]

TypeOK ==
    /\ IntentsTypeOK
    /\ rows \in [Cids -> ListedStates \cup {"none", "CREATED"}]
    /\ exits \in [Cids -> Position \cup {None}]
    /\ positions \subseteq Position
    /\ venue \in [Cids -> [state : VenueStates, filled : 0..Qty]]
    /\ th \in [Threads -> ThreadState]
    /\ replay \subseteq Cids
    /\ restarts \in 0..MaxRestarts
    /\ resolutions \in 0..MaxResolutions
    /\ unnamed \subseteq Cids

Init ==
    /\ IntentsInit
    /\ rows = [c \in Cids |-> "none"]
    /\ exits = [c \in Cids |-> None]
    /\ positions = {}
    /\ venue = [c \in Cids |-> [state |-> "unsent", filled |-> 0]]
    /\ th = ThreadsAtBoot
    /\ replay = {}
    /\ restarts = 0
    /\ resolutions = 0
    /\ unnamed = {}

At(t, pc) == th[t].pc = pc
Goto(t, pc) == th' = [th EXCEPT ![t].pc = pc]

\* The end of place_order or of one replayed intent.  The replay only counts
\* what it is given, so it drops the result.
Finish(t, res, ok) ==
    th' = [th EXCEPT ![t] = IF t = Replayer
                            THEN Parked("next")
                            ELSE [Parked("return") EXCEPT !.cid = th[t].cid,
                                                          !.res = res, !.ok = ok]]
Raise(t) == Finish(t, "raise", FALSE)

Listed(v) == venue[v].state \in ListedStates
Open(v) == venue[v].state \in OpenStates
SameShape(v, c) == TickerOf[v] = TickerOf[c] /\ (v \in Buys <=> c \in Buys)

-----------------------------------------------------------------------------
(* The broker's side.                                                      *)

\* A request is accepted, rejected, refused (answered with accepted = false and
\* never listed), or lost on its way.
VenueDecides(v) ==
    /\ venue[v].state = "inFlight"
    /\ \E state \in {"SENT", "REJECTED", "refused", "lost"} :
         venue' = [venue EXCEPT ![v].state = state]
    /\ UNCHANGED <<intents, rows, exits, positions, th, replay, restarts, resolutions, unnamed>>

VenueFills(v) ==
    /\ Open(v)
    /\ \E q \in (venue[v].filled + 1)..Qty :
         venue' = [venue EXCEPT ![v] = [state |-> IF q = Qty THEN "FILLED" ELSE "PARTIAL",
                                        filled |-> q]]
    /\ UNCHANGED <<intents, rows, exits, positions, th, replay, restarts, resolutions, unnamed>>

\* The order expires, is cancelled in the broker's own UI, or a cancel request
\* whose caller timed out takes effect.
VenueCancels(v) ==
    /\ Open(v)
    /\ venue' = [venue EXCEPT ![v].state = "CANCELLED"]
    /\ UNCHANGED <<intents, rows, exits, positions, th, replay, restarts, resolutions, unnamed>>

-----------------------------------------------------------------------------
(* place_order and its callers.                                            *)

\* The orders of ExitService.exit_position: they sell one position by its id, and
\* place_order is given no order_db_id.
IsExit(c) == c \notin Buys /\ c \notin Linked

\* ExecutionService.execute_signal or ExitService.exit_position inserts the
\* CREATED row of an order and calls place_order.  Nothing in the code makes the
\* first order wait for the replay to have listed the intents to reconcile.  The
\* position of an exit was listed open some time before, and may be closed now.
Submit(t, c) ==
    /\ t \in Submitters /\ At(t, "idle")
    /\ OrderedStartup => ~At(Replayer, "start")
    /\ rows[c] = "none"
    /\ rows' = [rows EXCEPT ![c] = "CREATED"]
    /\ IF IsExit(c)
       THEN \E p \in positions : TickerOf[p.entry] = TickerOf[c]
                                /\ exits' = [exits EXCEPT ![c] = p]
       ELSE UNCHANGED exits
    /\ th' = [th EXCEPT ![t] = [Parked("check") EXCEPT !.cid = c]]
    /\ UNCHANGED <<intents, positions, venue, replay, restarts, resolutions, unnamed>>

CheckUnresolved(t) ==
    /\ At(t, "check")
    /\ IF Unresolved(TickerOf[th[t].cid]) THEN Raise(t) ELSE Goto(t, "create")
    /\ UNCHANGED <<intents, rows, exits, positions, venue, replay, restarts, resolutions, unnamed>>

\* Another thread can take the ticker between the check and the insert: the
\* unique index then raises IntegrityError.
CreateIntent(t) ==
    /\ At(t, "create")
    /\ \/ Create(th[t].cid) /\ Goto(t, "send")
       \/ Unresolved(TickerOf[th[t].cid]) /\ Raise(t) /\ UNCHANGED intents
    /\ UNCHANGED <<rows, exits, positions, venue, replay, restarts, resolutions, unnamed>>

MarkSent(t) ==
    /\ At(t, "send")
    /\ Update(th[t].cid, "sent", None, FALSE)
    /\ Goto(t, "post")
    /\ UNCHANGED <<rows, exits, positions, venue, replay, restarts, resolutions, unnamed>>

\* _request(retry_mode="place"): a 401 is retried once and creates nothing, so
\* at most one POST is processed.  Authentication may fail before anything is
\* sent, with a RequestException or with another exception, which leaves the
\* intent "sent".
Post(t) ==
    /\ At(t, "post")
    /\ \/ venue' = [venue EXCEPT ![th[t].cid].state = "inFlight"] /\ Goto(t, "await")
       \/ UNCHANGED venue /\ (Goto(t, "failed") \/ Raise(t))
    /\ UNCHANGED <<intents, rows, exits, positions, replay, restarts, resolutions, unnamed>>

\* The broker's answer.  The intent is updated and its lock released first, also
\* when the answer carries no order id; the state label of the payload is
\* converted afterwards and may be one that OrderState does not know.
Answer(t) ==
    LET c == th[t].cid
        state == venue[c].state
        accepted == state \notin {"refused", "REJECTED"}
        answers(boid) ==
            Update(c, IF accepted THEN "ack" ELSE "rejected", boid,
                   ReleasedBy(IF accepted THEN "ack" ELSE "rejected"))
    IN  /\ At(t, "await") /\ state \in ListedStates \cup {"refused"}
        /\ \/ Listed(c) /\ answers(c) /\ UNCHANGED unnamed
           \/ answers(None) /\ unnamed' = unnamed \cup {v \in {c} : Listed(v)}
        /\ \/ Finish(t, "unmapped", FALSE)
           \/ Finish(t, IF state = "refused" THEN "REJECTED" ELSE state, accepted)
        /\ UNCHANGED <<rows, exits, positions, venue, replay, restarts, resolutions>>

\* Mutant of AnswerLost: a request that timed out is sent again.
AnswerLostRetry(t) ==
    /\ At(t, "await")
    /\ Goto(t, "post")
    /\ UNCHANGED <<intents, rows, exits, positions, venue, replay, restarts, resolutions, unnamed>>

\* A timeout, a 5xx or a lost connection, whatever the broker has done or will
\* still do with the request; or a payload that is not an object, which is not
\* a RequestException and leaves the intent "sent".
AnswerLost(t) ==
    /\ At(t, "await")
    /\ Goto(t, "failed") \/ Raise(t)
    /\ UNCHANGED <<intents, rows, exits, positions, venue, replay, restarts, resolutions, unnamed>>

\* Mutant of MarkUnknown: an unknown outcome releases the lock.
MarkUnknownReleases(t) ==
    /\ At(t, "failed")
    /\ Update(th[t].cid, "unknown", None, TRUE)
    /\ Goto(t, "fetch")
    /\ UNCHANGED <<rows, exits, positions, venue, replay, restarts, resolutions, unnamed>>

MarkUnknown(t) ==
    /\ At(t, "failed")
    /\ Update(th[t].cid, "unknown", None, FALSE)
    /\ Goto(t, "fetch")
    /\ UNCHANGED <<rows, exits, positions, venue, replay, restarts, resolutions, unnamed>>

\* The caller handles the result or the exception: execute_signal stores the
\* state in its row, REJECTED for any exception; exit_position stores SENT for
\* an accepted order that the result names, and nothing otherwise.  The agent
\* goes on to its books for an exit, and for an entry that is not dead.
Return(t) ==
    LET c == th[t].cid
        failed == th[t].res \in {"raise", "unmapped"}
        kept == IsExit(c) \/ (c \in Buys /\ th[t].res \notin {"CANCELLED", "REJECTED"})
    IN  /\ At(t, "return")
        /\ rows' = [rows EXCEPT ![c] =
                      IF c \in Linked
                      THEN IF failed THEN "REJECTED" ELSE th[t].res
                      ELSE IF th[t].ok /\ c \notin unnamed THEN "SENT" ELSE @]
        /\ th' = [th EXCEPT ![t] = IF th[t].ok /\ kept
                                   THEN [Parked("keep") EXCEPT !.m = c]
                                   ELSE Parked("idle")]
        /\ UNCHANGED <<intents, exits, positions, venue, replay, restarts, resolutions, unnamed>>

\* open_position: a plain INSERT.  close_position: an UPDATE by id, whatever the
\* row's state has become; it logs its own failure and returns normally.
OpenPosition(c, qty, made) ==
    positions' = positions \cup
        {[entry |-> c, n |-> Cardinality({p \in positions : p.entry = c}), qty |-> qty,
          exit |-> None, made |-> made, closer |-> "nobody"]}

SameRow(p, q) == p.entry = q.entry /\ p.n = q.n

ClosePosition(p, exit, closer) ==
    positions' = {q \in positions : ~SameRow(p, q)} \cup
        {[p EXCEPT !.exit = exit, !.closer = closer]}

\* What the agent does with an order that was accepted, whatever the accounting
\* has done in line: it opens a position for an entry, and closes by its id the
\* position an exit sold.  Both may fail and are only
\* logged; a scan outside the agent opens nothing, /close closes nothing.
KeepBooks(t) ==
    LET c == th[t].m
    IN  /\ At(t, "keep")
        /\ \/ c \in Buys /\ OpenPosition(c, Qty, "agent")
           \/ IsExit(c) /\ ClosePosition(exits[c], None, "caller")
           \/ UNCHANGED positions
        /\ th' = [th EXCEPT ![t] = Parked("idle")]
        /\ UNCHANGED <<intents, rows, exits, venue, replay, restarts, resolutions, unnamed>>

\* process_pending_exits: a later cycle finds an exit order over, stores its
\* state, and closes the position once more when the order was filled.
PendingExit(t, c) ==
    /\ t \in Submitters /\ At(t, "idle")
    /\ IsExit(c) /\ rows[c] = "SENT"
    /\ Listed(c) /\ ~Open(c)
    /\ rows' = [rows EXCEPT ![c] = venue[c].state]
    /\ th' = [th EXCEPT ![t] = IF venue[c].state = "FILLED"
                               THEN [Parked("keep") EXCEPT !.m = c]
                               ELSE Parked("idle")]
    /\ UNCHANGED <<intents, exits, positions, venue, replay, restarts, resolutions, unnamed>>

-----------------------------------------------------------------------------
(* _reconcile_order, by the submitting thread or by the replay.            *)

\* _keep_reconcile_unknown: the update is unconditional and keeps the lock.
KeepUnknown(t) ==
    /\ Update(th[t].cid, "unknown", None, FALSE)
    /\ Raise(t)

\* A terminal order without fills: the intent is rejected and released.
Dead(m) == venue[m].state \in {"CANCELLED", "REJECTED"} /\ venue[m].filled = 0
SettleDead(t, m) ==
    /\ Update(th[t].cid, "rejected", m, TRUE)
    /\ Finish(t, venue[m].state, FALSE)

\* The history orders that can be taken for the order of intent c: not bound to
\* another intent, and echoing its client id or else of the same shape within
\* the time window.  Which orders of that shape fall into the window is left
\* open; the day's history is complete and holds the order itself.
\* Mutant of Candidates: orders bound to other intents are not excluded.
CandidatesBound(c) == {v \in Cids : Listed(v) /\ SameShape(v, c)}

Candidates(c) == {v \in Cids : Listed(v) /\ ~BoundToOther(v, c) /\ SameShape(v, c)}
Matches(c) ==
    IF SendsClientId /\ c \in Candidates(c)
    THEN {{c}}
    ELSE {M \in SUBSET Candidates(c) : c \in Candidates(c) => c \in M}

\* The label the history gives an order: FILLED may stand over a quantity that
\* is only part of the order.  Such a read, like that of an open order, leaves
\* a remainder that may be live.
Labels(m) == {venue[m].state} \cup (IF venue[m].filled \in 1..(Qty - 1) THEN {"FILLED"} ELSE {})
Remains(label, qty) == label \in OpenStates \/ (label = "FILLED" /\ qty < Qty)

\* The first read.  The history may be unavailable, the match missing or
\* ambiguous, its state label or fill data unusable: all keep the intent unknown.
FetchHistory(t) ==
    LET c == th[t].cid
        go(pc, m, label) == th' = [th EXCEPT ![t].pc = pc, ![t].m = m,
                                             ![t].seen = venue[m].filled,
                                             ![t].qty = venue[m].filled,
                                             ![t].res = label]
        live(m, label) == CancelsRemainder /\ Remains(label, venue[m].filled)
    IN  /\ At(t, "fetch")
        /\ \/ KeepUnknown(t)
           \/ \E m \in Cids :
                /\ {m} \in Matches(c)
                /\ \/ Dead(m) /\ SettleDead(t, m)
                   \/ \E label \in Labels(m) :
                        /\ \/ live(m, label) /\ go("cancel", m, label)
                           \/ /\ venue[m].filled > 0 /\ ~live(m, label)
                              /\ go("account", m, label)
                        /\ UNCHANGED intents
        /\ UNCHANGED <<rows, exits, positions, venue, replay, restarts, resolutions, unnamed>>

\* _try_cancel_remainder: success, 404 or failure, the caller goes on to re-read.
CancelRemainder(t) ==
    /\ At(t, "cancel")
    /\ \/ Open(th[t].m) /\ venue' = [venue EXCEPT ![th[t].m].state = "CANCELLED"]
       \/ UNCHANGED venue
    /\ Goto(t, "reread")
    /\ UNCHANGED <<intents, rows, exits, positions, replay, restarts, resolutions, unnamed>>

\* The second read decides.  After a first read without fills a FILLED label
\* over a partial quantity is invalid.
RereadHistory(t) ==
    LET m == th[t].m
    IN  /\ At(t, "reread")
        /\ \/ KeepUnknown(t)
           \/ th[t].seen = 0 /\ Dead(m) /\ SettleDead(t, m)
           \/ /\ Listed(m) /\ venue[m].filled > 0
              /\ \E label \in Labels(m) :
                   /\ th[t].seen = 0 => label # "FILLED" \/ venue[m].filled = Qty
                   /\ th' = [th EXCEPT ![t].pc = "account",
                                       ![t].qty = venue[m].filled,
                                       ![t].res = label]
              /\ UNCHANGED intents
        /\ UNCHANGED <<rows, exits, positions, venue, replay, restarts, resolutions, unnamed>>

-----------------------------------------------------------------------------
(* ReconcileAccountingService.record_fill, then the intent's transition.   *)

IsOpen(p) == p.closer = "nobody"

\* Mutants of OpenPositions: the status filter is missing, or inverted.
OpenPositionsAnyStatus(k) == {p \in positions : TickerOf[p.entry] = k}
OpenPositionsClosed(k) == {p \in positions : ~IsOpen(p) /\ TickerOf[p.entry] = k}

OpenPositions(k) == {p \in positions : IsOpen(p) /\ TickerOf[p.entry] = k}
ClosedBy(c) == {p \in positions : ~IsOpen(p) /\ p.exit = c}

\* Where a thread goes with the accounting outcome.
Accounted(t, final) ==
    th' = [th EXCEPT ![t].final = final, ![t].pos = None, ![t].blind = FALSE,
                     ![t].pc = IF t = Admin THEN "resolve" ELSE "cas"]

\* Up to the read of the position.  A missing average price or signal snapshot,
\* or a failing orders update, ends it unaccounted.  get_position swallows its own
\* failure and then answers, as for a ticker without an open position, None.
RecordFill(t) ==
    LET c == th[t].cid
        pass(p, blind) == th' = [th EXCEPT ![t].pc = "write", ![t].pos = p,
                                           ![t].blind = blind]
        label == IF t = Admin THEN "FILLED" ELSE th[t].res
        found(open, blind) ==
            \/ /\ c \in Buys
               /\ \/ \E p \in open : p.entry = c /\ Accounted(t, "ack")
                  \/ (open = {} \/ \E p \in open : p.entry # c) /\ pass(None, blind)
            \/ /\ c \notin Buys /\ open = {}
               /\ c \in Linked /\ Cardinality(ClosedBy(c)) = 1
               /\ Accounted(t, "ack")
            \/ /\ c \notin Buys
               /\ \E p \in open : p.qty = th[t].qty /\ pass(p, blind)
    IN  /\ At(t, "account")
        /\ \/ Accounted(t, "ack_unaccounted") /\ UNCHANGED rows
           \/ /\ rows' = IF c \in Linked THEN [rows EXCEPT ![c] = label] ELSE rows
              /\ \/ Accounted(t, "ack_unaccounted")
                 \/ found(OpenPositions(TickerOf[c]), FALSE)
                 \/ found({}, TRUE)
        /\ UNCHANGED <<intents, exits, positions, venue, replay, restarts, resolutions, unnamed>>

WritePosition(t) ==
    LET c == th[t].cid
    IN  /\ At(t, "write")
        /\ \/ /\ c \in Buys
              /\ \/ /\ OpenPosition(c, th[t].qty, IF th[t].blind THEN "unread" ELSE "accounting")
                    /\ Accounted(t, "ack")
                 \/ UNCHANGED positions /\ Accounted(t, "ack_unaccounted")
           \/ /\ c \notin Buys
              /\ \/ ClosePosition(th[t].pos, IF c \in Linked THEN c ELSE None,
                                  IF intents[c].locked THEN "accounting" ELSE "admin")
                 \/ UNCHANGED positions
              /\ Accounted(t, "ack")
        /\ UNCHANGED <<intents, rows, exits, venue, replay, restarts, resolutions, unnamed>>

\* Only when the first read showed fills does the caller look at the state that
\* the second read found.
RemainderOpen(t) == CancelsRemainder /\ th[t].seen > 0 /\ Remains(th[t].res, th[t].qty)

\* Mutant of SettleIntent: the default release of a terminal status is left in.
SettleIntentReleases(t) ==
    /\ At(t, "cas")
    /\ UpdateConditional(th[t].cid, th[t].final, InFlightStatuses, th[t].m,
                         ReleasedBy(th[t].final))
    /\ IF RemainderOpen(t) THEN Goto(t, "override") ELSE Finish(t, th[t].res, TRUE)
    /\ UNCHANGED <<rows, exits, positions, venue, replay, restarts, resolutions, unnamed>>

\* The compare-and-set of _settle_matched_fill; it keeps the lock.
SettleIntent(t) ==
    /\ At(t, "cas")
    /\ UpdateConditional(th[t].cid, th[t].final, InFlightStatuses, th[t].m, FALSE)
    /\ IF RemainderOpen(t) THEN Goto(t, "override") ELSE Finish(t, th[t].res, TRUE)
    /\ UNCHANGED <<rows, exits, positions, venue, replay, restarts, resolutions, unnamed>>

\* Fills accounted, remainder still open: the second, unconditional update.
MarkRemainderOpen(t) ==
    /\ At(t, "override")
    /\ Update(th[t].cid, "ack_unaccounted", None, FALSE)
    /\ Finish(t, th[t].res, TRUE)
    /\ UNCHANGED <<rows, exits, positions, venue, replay, restarts, resolutions, unnamed>>

-----------------------------------------------------------------------------
(* The startup replay, a crash, and manual resolution.                     *)

ListReconcilable ==
    /\ At(Replayer, "start")
    /\ replay' = Reconcilable
    /\ Goto(Replayer, "next")
    /\ UNCHANGED <<intents, rows, exits, positions, venue, restarts, resolutions, unnamed>>

ReplayNext(c) ==
    /\ At(Replayer, "next") /\ c \in replay
    /\ replay' = replay \ {c}
    /\ th' = [th EXCEPT ![Replayer] = [Parked("fetch") EXCEPT !.cid = c]]
    /\ UNCHANGED <<intents, rows, exits, positions, venue, restarts, resolutions, unnamed>>

ReplayDone ==
    /\ At(Replayer, "next") /\ replay = {}
    /\ Goto(Replayer, "done")
    /\ UNCHANGED <<intents, rows, exits, positions, venue, replay, restarts, resolutions, unnamed>>

\* The process dies (or a database fault makes the replay terminate it) and the
\* supervisor starts it again.  A request in flight stays in flight.
Crash ==
    /\ restarts < MaxRestarts
    /\ restarts' = restarts + 1
    /\ th' = ThreadsAtBoot
    /\ replay' = {}
    /\ UNCHANGED <<intents, rows, exits, positions, venue, resolutions, unnamed>>

\* POST /api/orders/intents/<id>/resolve, on any intent, a released one too.
\* A rejection needs the history to show a dead order.  An ack that the history
\* confirms is accounted first; anything else becomes ack_unaccounted, with the
\* id the administrator typed.
AdminDecides(c) ==
    LET become(pc, m, q, final) ==
            th' = [th EXCEPT ![Admin] = [Parked(pc) EXCEPT !.cid = c, !.m = m,
                                                           !.qty = q, !.final = final]]
    IN  /\ At(Admin, "idle")
        /\ intents[c].status # "new"
        /\ resolutions < MaxResolutions /\ resolutions' = resolutions + 1
        /\ CarefulAdmin => /\ ~At(Replayer, "start") /\ c \notin replay
                           /\ venue[c].state # "inFlight"
                           /\ \A t \in Threads : th[t].cid # c
        /\ \/ Listed(c) /\ Dead(c) /\ become("resolve", c, 0, "rejected")
           \/ Listed(c) /\ venue[c].filled > 0 /\ become("account", c, venue[c].filled, "new")
           \/ Listed(c) /\ venue[c].filled = 0 /\ become("resolve", c, 0, "ack")
           \/ become("resolve", IF Listed(c) THEN c ELSE None, 0, "ack_unaccounted")
        /\ UNCHANGED <<intents, rows, exits, positions, venue, replay, restarts, unnamed>>

AdminResolves ==
    LET a == th[Admin]
    IN  /\ At(Admin, "resolve")
        /\ Update(a.cid, a.final, IF a.m = None THEN Manual ELSE a.m, TRUE)
        /\ th' = [th EXCEPT ![Admin] = Parked("idle")]
        /\ UNCHANGED <<rows, exits, positions, venue, replay, restarts, resolutions, unnamed>>

-----------------------------------------------------------------------------
VenueStep(v) == VenueDecides(v) \/ VenueFills(v) \/ VenueCancels(v)

PlaceStep(t) ==
    \/ CheckUnresolved(t) \/ CreateIntent(t) \/ MarkSent(t) \/ Post(t)
    \/ Answer(t) \/ AnswerLost(t) \/ MarkUnknown(t) \/ Return(t) \/ KeepBooks(t)

ReconcileStep(t) ==
    \/ FetchHistory(t) \/ CancelRemainder(t) \/ RereadHistory(t)
    \/ RecordFill(t) \/ WritePosition(t) \/ SettleIntent(t) \/ MarkRemainderOpen(t)

ReplayStep == ListReconcilable \/ ReplayDone \/ \E c \in Cids : ReplayNext(c)

AdminStep == AdminResolves \/ \E c \in Cids : AdminDecides(c)

Next ==
    \/ \E v \in Cids : VenueStep(v)
    \/ \E t \in Submitters, c \in Cids : Submit(t, c) \/ PendingExit(t, c)
    \/ \E t \in Threads : PlaceStep(t) \/ ReconcileStep(t)
    \/ ReplayStep \/ AdminStep \/ Crash

Spec == Init /\ [][Next]_vars

-----------------------------------------------------------------------------
(* Properties.  Those marked (procedure) rely on the operating procedure.  *)

\* The operating procedure, which the code does not enforce.
Disciplined == OrderedStartup /\ CarefulAdmin

\* The ticker's lock excludes: two intents never hold the lock of one ticker,
\* although two threads can both have found it free (create, active_key).
LockExclusive ==
    \A c, d \in Cids :
        c # d /\ intents[c].locked /\ intents[d].locked => TickerOf[c] # TickerOf[d]

\* Some order of this ticker and side was answered without an id: it is in the
\* broker's history bound to no intent, and can be taken for another's order.
Astray(c) == \E v \in unnamed : SameShape(v, c)

\* (procedure) Nothing the broker may still execute, or has executed, is out of
\* sight: its intent holds the lock or names the order, across timeouts, late
\* requests and crashes (place_order, _reconcile_order).  Only an answer that
\* names no order puts orders of its ticker and side out of sight.
NoOrphanOrder ==
    \A c \in Cids :
        venue[c].state = "inFlight" \/ Open(c) \/ venue[c].filled > 0
        => intents[c].locked \/ intents[c].boid = c \/ Astray(c)

\* (procedure) Matching history by shape never binds an intent to an order that
\* another submission created, unless an order of that shape was left unnamed
\* (_reconcile_order, is_broker_order_bound).
BoundToOwnOrder == \A c \in Cids : intents[c].boid \in {None, Manual, c} \/ Astray(c)

\* The ticker has a position of another order, which the read may return instead.
SharesTicker(c) == \E r \in positions : r.entry # c /\ TickerOf[r.entry] = TickerOf[c]

\* (procedure) A second accounting of the same intent, by the replay after a
\* crash or by a resolution, opens no second position beside an open one, unless
\* the ticker also has a position of another order or a read of the positions
\* failed (record_fill's idempotency check).
AccountedOnce ==
    \A p, q \in positions :
        /\ p.entry = q.entry /\ p # q
        /\ IsOpen(p) /\ p.made = "accounting" /\ IsOpen(q) /\ q.made = "accounting"
        => SharesTicker(p.entry)

\* (procedure) A released intent is history: no thread that still holds an older
\* view of it writes it again (update, update_conditional).  The resolve endpoint
\* can, at the hand of an administrator who names that intent.
ReleasedIsFinal ==
    [][\A c \in Cids :
         intents[c].status # "new" /\ ~intents[c].locked
         => intents'[c] = intents[c] \/ (At(Admin, "resolve") /\ th[Admin].cid = c)]_vars

\* (procedure) The lock of an intent whose fill was booked as a position by
\* reconciliation is released by an administrator only (_settle_matched_fill),
\* unless an unnamed order was taken for the intent's own.
BookedReleasedByAdmin ==
    [][\A p \in positions :
         LET c == p.entry
         IN  p.made # "agent" /\ intents[c].locked /\ ~intents'[c].locked
             => (At(Admin, "resolve") /\ th[Admin].cid = c) \/ Astray(c)]_vars

\* (procedure) The exit and the realised profit that the accounting of a sale has
\* written are not written again by any accounting, of this sale or another,
\* although a close is an UPDATE by id (the replay of a SELL finds it by
\* exit_order_id).  Two writes do replace them: the agent's own close of the
\* position it sold, and that of a resolution that accounts a released intent.
ClosedIsFinal ==
    [][\A p \in positions :
         p.closer = "accounting" =>
           \/ p \in positions'
           \/ \E q \in positions' : SameRow(p, q) /\ q.closer \in {"caller", "admin"}]_vars

\* The gate the detailed protocol implements (procedure).
Fate == [c \in Cids |-> IF intents[c].status = "new" THEN "new"
                        ELSE IF intents[c].locked THEN "ambiguous" ELSE "known"]
Request == [c \in Cids |-> IF venue[c].state \in {"unsent", "inFlight"}
                           THEN venue[c].state ELSE "over"]
KindOf == [c \in Cids |-> <<TickerOf[c], c \in Buys>>]
Gate == INSTANCE OrderGate WITH fate <- Fate, request <- Request,
                                blurred <- {KindOf[c] : c \in unnamed}
GateRefined == Gate!GateSpec

\* What the documentation says and the code does not do.

\* Two reconciles of one intent must not duplicate accounting.
OnePositionPerEntry ==
    \A p, q \in positions :
        p.entry = q.entry /\ p.made = "accounting" /\ q.made = "accounting" => p = q

\* An order that is still open after the cancel and the second read leaves its
\* intent unknown, not acknowledged.
AckHasNoOpenRemainder ==
    \A c \in Cids :
        intents[c].status = "ack" /\ intents[c].locked /\ (\A t \in Threads : th[t].cid # c)
        => ~Open(intents[c].boid)

\* A raw broker state that cannot be mapped leaves the lock held.
UnmappedKeepsLock ==
    \A t \in Threads :
        At(t, "return") /\ th[t].res = "unmapped" => intents[th[t].cid].locked
=============================================================================
