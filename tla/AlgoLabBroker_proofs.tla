----------------------- MODULE AlgoLabBroker_proofs -----------------------
(***************************************************************************)
(* The proofs about order submission.  Types, for any number of orders,     *)
(* tickers, threads and restarts, with or without the operating procedure;  *)
(* the lock of a ticker excludes; and, under the operating procedure, no   *)
(* order of the broker is out of sight and intents are bound to their own  *)
(* orders, unless an answer left an order unnamed; released intents are    *)
(* written again by an administrator only; order submission implements     *)
(* OrderGate; and the accounting of fills and sales does not double what   *)
(* it can see.                                                             *)
(***************************************************************************)
EXTENDS AlgoLabBroker, FiniteSetTheorems, TLAPS

----
(* The inductive invariant of order submission under the operating         *)
(* procedure (Disciplined), which every step is shown to preserve.          *)
ParkedPCs == {"idle", "start", "next", "done", "keep"}
WorkPCs == {"send", "post", "await", "failed", "fetch", "cancel", "reread",
            "account", "write", "cas", "override", "resolve"}
ResultPCs == {"account", "write", "cas", "override", "return"}
MatchedPCs == {"cancel", "reread", "account", "write", "cas", "override"}

RolePCs(t) ==
    CASE t = Replayer -> {"start", "next", "done", "fetch"} \cup MatchedPCs
      [] t = Admin -> {"idle", "account", "write", "resolve"}
      [] OTHER -> PCs \ {"start", "next", "done", "resolve"}

\* A thread has an order exactly while it works on one.
Roles ==
    \A t \in Threads :
        /\ th[t].pc \in RolePCs(t)
        /\ th[t].pc \in ParkedPCs <=> th[t].cid = None

\* No order is in two hands.
OneWorker ==
    /\ \A t, u \in Threads : t # u /\ th[t].cid # None => th[t].cid # th[u].cid
    /\ \A c \in replay : \A t \in Threads : th[t].cid # c
    /\ th[Replayer].pc = "start" => \A t \in Threads : th[t].cid = None

\* Who works on an intent finds it locked, the administrator perhaps released;
\* before its creation it is new.
Held ==
    /\ \A t \in Threads :
         /\ th[t].pc \in WorkPCs => IF t = Admin
                                    THEN intents[th[t].cid].status # "new"
                                    ELSE intents[th[t].cid].locked
         /\ th[t].pc \in {"check", "create"} => intents[th[t].cid].status = "new"
         /\ th[t].pc \in {"send", "post"} => venue[th[t].cid].state = "unsent"
         /\ th[t].pc \in {"cas", "override", "resolve"} => th[t].final # "new"
         /\ th[t].pc \in ResultPCs /\ t # Admin => th[t].res # "none"
    /\ \A c \in replay : intents[c].locked

\* An order nobody submitted has left no trace, and a new intent no request.
Fresh ==
    \A c \in Cids :
        /\ rows[c] = "none" => /\ intents[c].status = "new"
                               /\ \A t \in Threads : th[t].cid # c
        /\ intents[c].status = "new" => /\ ~intents[c].locked
                                        /\ venue[c].state = "unsent"
                                        /\ intents[c].boid = None

\* What reconciliation works with is the order of the intent itself, unless an
\* order of its kind was left unnamed.
OwnMatch ==
    \A t \in Threads :
        LET c == th[t].cid
        IN  /\ th[t].pc \in MatchedPCs => (th[t].m = c /\ Listed(c)) \/ (t # Admin /\ Astray(c))
            /\ th[t].pc = "resolve" => \/ th[t].m = c /\ Listed(c)
                                       \/ /\ th[t].m = None
                                          /\ venue[c].state \in {"unsent", "lost", "refused"}

Sight ==
    \A c \in Cids :
        /\ venue[c].state = "inFlight" => intents[c].locked \/ Astray(c)
        /\ Listed(c) => intents[c].locked \/ intents[c].boid = c \/ Astray(c)
        /\ intents[c].boid \in {None, Manual, c} \/ Astray(c)
        /\ venue[c].filled > 0 => Listed(c)

IInv == Roles /\ OneWorker /\ Held /\ Fresh /\ OwnMatch /\ Sight

----
(* What the books of the positions rest on.                                *)

\* The stations before an order of the thread can have been booked.
UnbookedPCs == {"check", "create", "send", "post", "await"}

\* The position of a fill that an accounting has booked.
BookedFill(c) == \E p \in positions : p.entry = c /\ p.made # "agent"

\* Such a position is of a submitted BUY that was filled, unless it was taken for
\* the fill of an unnamed order.
Booked ==
    \A p \in positions :
        p.made # "agent" => /\ p.entry \in Buys /\ rows[p.entry] # "none"
                            /\ venue[p.entry].filled > 0 \/ Astray(p.entry)

\* A copy of a position keeps naming a row, whatever was written to the row since.
Recorded(p) == \E q \in positions : SameRow(p, q) /\ q.made = p.made

\* What a thread has read of the positions is still so when it writes them.
Reads(t) ==
    LET c == th[t].cid
    IN  /\ th[t].pc \in UnbookedPCs => ~BookedFill(c)
        /\ th[t].pc \in {"account", "write"} => venue[c].filled > 0 \/ Astray(c)
        /\ th[t].pc = "write" /\ c \in Buys /\ ~th[t].blind =>
              \A p \in positions : p.entry = c /\ IsOpen(p) /\ p.made = "accounting"
                                  => SharesTicker(c)
        /\ th[t].pc = "write" /\ c \notin Buys =>
              /\ Recorded(th[t].pos) /\ TickerOf[th[t].pos.entry] = TickerOf[c]
              /\ \A q \in positions : SameRow(th[t].pos, q) /\ q.closer = "accounting"
                                      => ~intents[c].locked

\* The positions of an entry order are numbered.
PositionsOf(c) == {p \in positions : p.entry = c}
Numbered ==
    /\ \A p, q \in positions : p.entry = q.entry /\ p.n = q.n => p = q
    /\ \A p \in positions : p.n < Cardinality(PositionsOf(p.entry))

BookInv == /\ Booked /\ (\A t \in Threads : Reads(t)) /\ Numbered /\ AccountedOnce
           /\ \A c \in Cids : exits[c] # None => Recorded(exits[c])

----
(* Type correctness of order submission.                                    *)
\* The fields a step reads have been set by the steps before it.
Prepared ==
    \A t \in Threads :
        /\ th[t].pc \in ParkedPCs \/ th[t].cid \in Cids
        /\ th[t].pc \in {"cancel", "reread", "keep"} => th[t].m \in Cids
        /\ th[t].pc = "account" /\ t # Admin => th[t].res \in ListedStates
        /\ th[t].pc \in {"account", "write"} => th[t].qty > 0
        /\ th[t].pc = "write" /\ th[t].cid \notin Buys => th[t].pos \in Position

TInv == TypeOK /\ IsFiniteSet(positions) /\ Prepared

\* Every thread keeps to its part of the program, and an exit order that was
\* submitted names the position it sells.
ExitsKnown ==
    /\ \A t \in Threads : th[t].pc \in RolePCs(t)
    /\ \A c \in Cids : IsExit(c) /\ rows[c] # "none" => exits[c] \in Position
    /\ \A t \in Submitters :
         /\ th[t].pc \notin ParkedPCs /\ IsExit(th[t].cid) => exits[th[t].cid] \in Position
         /\ th[t].pc = "keep" /\ IsExit(th[t].m) => exits[th[t].m] \in Position

LEMMA UpdateType ==
    ASSUME IntentsTypeOK, NEW c \in Cids \cup {None}, NEW s \in Statuses,
           NEW b \in Cids \cup {None, Manual}, NEW r \in BOOLEAN,
           Update(c, s, b, r)
    PROVE  IntentsTypeOK'
BY DEF IntentsTypeOK, Update, Row

LEMMA TInvInit == Init => TInv
<1> SUFFICES ASSUME Init PROVE TInv
  OBVIOUS
<1>1. IsFiniteSet(positions)
  BY FS_EmptySet DEF Init
<1>2. TypeOK
  BY IntentAssumption, BrokerAssumption DEF Init, TypeOK, IntentsInit, IntentsTypeOK, Row,
     Statuses, VenueStates, ListedStates, OpenStates, ThreadsAtBoot, Parked, ThreadState, PCs
<1>3. Prepared
  BY IntentAssumption, BrokerAssumption DEF Init, Prepared, ThreadsAtBoot, Parked, ParkedPCs
<1> QED BY <1>1, <1>2, <1>3 DEF TInv

\* A step of the broker changes only the venue.
LEMMA TInvVenue ==
    ASSUME TInv, NEW v \in Cids, VenueStep(v)
    PROVE  TInv'
<1> USE IntentAssumption, BrokerAssumption
<1>1. venue' \in [Cids -> [state : VenueStates, filled : 0..Qty]]
  <2>1. CASE VenueDecides(v)
    BY <2>1 DEF VenueDecides, TInv, TypeOK, VenueStates, ListedStates, OpenStates
  <2>2. CASE VenueFills(v)
    BY <2>2 DEF VenueFills, TInv, TypeOK, VenueStates, ListedStates, OpenStates
  <2>3. CASE VenueCancels(v)
    BY <2>3 DEF VenueCancels, TInv, TypeOK, VenueStates, ListedStates, OpenStates
  <2> QED BY <2>1, <2>2, <2>3 DEF VenueStep
<1>2. UNCHANGED <<intents, rows, exits, positions, th, replay, restarts, resolutions, unnamed>>
  BY DEF VenueStep, VenueDecides, VenueFills, VenueCancels
<1> QED BY <1>1, <1>2 DEF TInv, TypeOK, Prepared, IntentsTypeOK

\* A thread between two orders.
LEMMA ParkedFields ==
    ASSUME NEW pc \in PCs
    PROVE  Parked(pc) \in ThreadState /\ Parked(pc).pc = pc
  BY BrokerAssumption DEF Parked, ThreadState, PCs, Statuses

\* How a step leaves the table of threads well formed.
LEMMA ThreadWrite ==
    ASSUME TInv, NEW t \in Threads, NEW x \in ThreadState,
           th' = [th EXCEPT ![t] = x],
           \/ x.pc \in ParkedPCs /\ (x.pc = "keep" => x.m \in Cids)
           \/ /\ x.cid \in Cids
              /\ x.pc \in {"cancel", "reread", "keep"} => x.m \in Cids
              /\ x.pc = "account" /\ t # Admin => x.res \in ListedStates
              /\ x.pc \in {"account", "write"} => x.qty > 0
              /\ x.pc = "write" /\ x.cid \notin Buys => x.pos \in Position
    PROVE  th' \in [Threads -> ThreadState] /\ Prepared'
<1>1. th' \in [Threads -> ThreadState]
  BY DEF TInv, TypeOK
<1>2. \A u \in Threads : th'[u] = IF u = t THEN x ELSE th[u]
  BY DEF TInv, TypeOK
<1> QED BY <1>1, <1>2 DEF TInv, Prepared, ParkedPCs

LEMMA GotoType ==
    ASSUME TInv, NEW t \in Threads, NEW pc \in PCs \ {"cancel", "account", "write"},
           pc \in {"reread", "keep"} => th[t].m \in Cids,
           pc \in ParkedPCs \/ th[t].cid \in Cids,
           Goto(t, pc)
    PROVE  th' \in [Threads -> ThreadState] /\ Prepared'
<1> DEFINE x == [th[t] EXCEPT !.pc = pc]
<1>1. x \in ThreadState /\ x.pc = pc /\ x.cid = th[t].cid /\ x.m = th[t].m
  BY DEF TInv, TypeOK, ThreadState
<1>2. th' = [th EXCEPT ![t] = x]
  BY DEF Goto
<1> HIDE DEF x
<1> QED BY <1>1, <1>2, ThreadWrite

LEMMA FinishType ==
    ASSUME TInv, NEW t \in Threads, th[t].cid \in Cids, NEW ok \in BOOLEAN,
           NEW res \in ListedStates \cup {"none", "raise", "unmapped"},
           Finish(t, res, ok)
    PROVE  th' \in [Threads -> ThreadState] /\ Prepared'
<1> DEFINE y == [Parked("return") EXCEPT !.cid = th[t].cid, !.res = res, !.ok = ok]
           x == IF t = Replayer THEN Parked("next") ELSE y
<1>0. Parked("next") \in ThreadState /\ Parked("return") \in ThreadState
  BY ParkedFields DEF PCs
<1>1. y \in ThreadState /\ y.pc = "return" /\ y.cid = th[t].cid
  BY <1>0 DEF ThreadState, Parked
<1>2. th' = [th EXCEPT ![t] = x]
  BY DEF Finish
<1> HIDE DEF y
<1>3. x \in ThreadState
  BY <1>0, <1>1
<1>4. x.pc \in ParkedPCs \ {"keep"} \/ (x.pc = "return" /\ x.cid \in Cids)
  BY <1>1 DEF Parked, ParkedPCs
<1> HIDE DEF x
<1> QED BY <1>2, <1>3, <1>4, ThreadWrite

LEMMA ParkType ==
    ASSUME TInv, NEW t \in Threads, NEW pc \in ParkedPCs \ {"keep"},
           th' = [th EXCEPT ![t] = Parked(pc)]
    PROVE  th' \in [Threads -> ThreadState] /\ Prepared'
<1>1. Parked(pc) \in ThreadState /\ Parked(pc).pc = pc
  BY BrokerAssumption DEF ThreadState, Parked, PCs, Statuses, ParkedPCs
<1> QED BY <1>1, ThreadWrite

LEMMA KeepType ==
    ASSUME TInv, NEW t \in Threads, NEW c \in Cids,
           th' = [th EXCEPT ![t] = [Parked("keep") EXCEPT !.m = c]]
    PROVE  th' \in [Threads -> ThreadState] /\ Prepared'
<1> DEFINE x == [Parked("keep") EXCEPT !.m = c]
<1>1. Parked("keep") \in ThreadState
  BY ParkedFields DEF PCs
<1>2. x \in ThreadState /\ x.pc = "keep" /\ x.m = c
  BY <1>1 DEF ThreadState, Parked
<1>3. th' = [th EXCEPT ![t] = x]
  OBVIOUS
<1> HIDE DEF x
<1> QED BY <1>2, <1>3, ThreadWrite DEF ParkedPCs

\* What the two writes of position_manager leave of the table.
LEMMA OpenType ==
    ASSUME TInv, NEW c \in Cids, NEW q \in 1..Qty, NEW made \in {"accounting", "unread", "agent"},
           OpenPosition(c, q, made)
    PROVE  positions' \subseteq Position /\ IsFiniteSet(positions')
<1> USE IntentAssumption, BrokerAssumption
<1> DEFINE n == Cardinality({p \in positions : p.entry = c})
           new == [entry |-> c, n |-> n, qty |-> q, exit |-> None, made |-> made,
                   closer |-> "nobody"]
<1>1. IsFiniteSet({p \in positions : p.entry = c})
  BY FS_Subset DEF TInv
<1>2. n \in Nat
  BY <1>1, FS_CardinalityType
<1> HIDE DEF n
<1>3. new \in Position
  BY <1>2 DEF Position
<1>4. positions' = positions \cup {new}
  BY DEF OpenPosition, n
<1> HIDE DEF new
<1>5. IsFiniteSet(positions \cup {new})
  BY FS_AddElement DEF TInv
<1> QED BY <1>3, <1>4, <1>5 DEF TInv, TypeOK

LEMMA CloseType ==
    ASSUME TInv, NEW p \in Position, NEW e \in Cids \cup {None},
           NEW closer \in {"nobody", "accounting", "admin", "caller"},
           ClosePosition(p, e, closer)
    PROVE  positions' \subseteq Position /\ IsFiniteSet(positions')
<1> USE IntentAssumption, BrokerAssumption
<1> DEFINE kept == {q \in positions : ~SameRow(p, q)}
           new == [p EXCEPT !.exit = e, !.closer = closer]
<1>1. new \in Position
  BY DEF Position
<1>2. positions' = kept \cup {new}
  BY DEF ClosePosition
<1> HIDE DEF new
<1>3. IsFiniteSet(kept)
  BY FS_Subset DEF TInv
<1>4. IsFiniteSet(kept \cup {new})
  BY <1>3, FS_AddElement
<1> QED BY <1>1, <1>2, <1>4 DEF TInv, TypeOK

\* The steps of place_order, and what its callers do with the result.
LEMMA TInvPlace ==
    ASSUME TInv, ExitsKnown, NEW t \in Threads, PlaceStep(t)
    PROVE  TInv'
<1> USE IntentAssumption, BrokerAssumption
<1> DEFINE c == th[t].cid
<1>0. c \in Cids \/ KeepBooks(t)
  BY DEF TInv, Prepared, ParkedPCs, At, PlaceStep, CheckUnresolved, CreateIntent, MarkSent,
     Post, Answer, AnswerLost, MarkUnknown, Return
<1>a. c \in Cids =>
      /\ \A pc \in {"create", "send", "post", "await", "failed", "fetch"} :
           Goto(t, pc) => th' \in [Threads -> ThreadState] /\ Prepared'
      /\ Raise(t) => th' \in [Threads -> ThreadState] /\ Prepared'
  BY GotoType, FinishType DEF PCs, Raise
<1>9. CASE KeepBooks(t)
  <2> DEFINE m == th[t].m
  <2>1. th' \in [Threads -> ThreadState] /\ Prepared'
    BY <1>9, ParkType DEF KeepBooks, ParkedPCs
  <2>2. m \in Cids
    BY <1>9 DEF KeepBooks, At, TInv, Prepared
  <2>3. IsExit(m) => exits[m] \in Position
    BY <1>9 DEF KeepBooks, At, ExitsKnown, RolePCs, Threads, MatchedPCs
  <2> HIDE DEF m
  <2>4. CASE m \in Buys /\ OpenPosition(m, Qty, "agent")
    BY <1>9, <2>1, <2>2, <2>4, OpenType DEF KeepBooks, TInv, TypeOK, IntentsTypeOK
  <2>5. CASE IsExit(m) /\ ClosePosition(exits[m], None, "caller")
    BY <1>9, <2>1, <2>3, <2>5, CloseType DEF KeepBooks, TInv, TypeOK, IntentsTypeOK
  <2>6. CASE UNCHANGED positions
    BY <1>9, <2>1, <2>6 DEF KeepBooks, TInv, TypeOK, IntentsTypeOK
  <2> QED BY <1>9, <2>4, <2>5, <2>6 DEF KeepBooks, m
<1> SUFFICES ASSUME c \in Cids, ~KeepBooks(t) PROVE TInv'
  BY <1>0, <1>9
<1> HIDE DEF c
<1>1. CASE CheckUnresolved(t)
  BY <1>1, <1>a DEF CheckUnresolved, TInv, TypeOK, IntentsTypeOK
<1>2. CASE CreateIntent(t)
  <2>1. intents' \in [Cids -> Row]
    <3>1. [status |-> "pending", locked |-> TRUE, boid |-> None] \in Row
      BY DEF Row, Statuses
    <3>2. CASE Create(c)
      BY <3>1, <3>2 DEF Create, TInv, TypeOK, IntentsTypeOK
    <3> QED BY <1>2, <3>2 DEF CreateIntent, TInv, TypeOK, IntentsTypeOK, c
  <2> QED BY <1>2, <2>1, <1>a DEF CreateIntent, TInv, TypeOK, IntentsTypeOK
<1>3. CASE MarkSent(t)
  <2>1. IntentsTypeOK'
    BY <1>3, UpdateType DEF MarkSent, TInv, TypeOK, Statuses, c
  <2> QED BY <1>3, <2>1, <1>a DEF MarkSent, TInv, TypeOK
<1>4. CASE Post(t)
  <2>1. venue' \in [Cids -> [state : VenueStates, filled : 0..Qty]]
    BY <1>4 DEF Post, TInv, TypeOK, VenueStates
  <2> QED BY <1>4, <2>1, <1>a DEF Post, TInv, TypeOK, IntentsTypeOK
<1>5. CASE Answer(t)
  <2> DEFINE state == venue[c].state
  <2>1. state \in ListedStates \cup {"refused"}
    BY <1>5 DEF Answer, c
  <2>2. IntentsTypeOK'
    <3> DEFINE s == IF state \notin {"refused", "REJECTED"} THEN "ack" ELSE "rejected"
    <3>1. \E b \in {c, None} : Update(c, s, b, ReleasedBy(s))
      BY <1>5 DEF Answer, c
    <3>2. s \in Statuses /\ ReleasedBy(s) \in BOOLEAN
      BY DEF Statuses, ReleasedBy
    <3> HIDE DEF s
    <3> QED BY <3>1, <3>2, UpdateType DEF TInv, TypeOK
  <2>3. th' \in [Threads -> ThreadState] /\ Prepared'
    <3>1. CASE Finish(t, "unmapped", FALSE)
      BY <3>1, FinishType DEF c
    <3>2. CASE Finish(t, IF state = "refused" THEN "REJECTED" ELSE state,
                      state \notin {"refused", "REJECTED"})
      <4> DEFINE r == IF state = "refused" THEN "REJECTED" ELSE state
      <4>1. r \in ListedStates \cup {"none", "raise", "unmapped"}
        BY <2>1 DEF ListedStates
      <4>2. Finish(t, r, state \notin {"refused", "REJECTED"})
        BY <3>2
      <4> HIDE DEF r
      <4> QED BY <4>1, <4>2, FinishType DEF c
    <3> QED BY <1>5, <3>1, <3>2 DEF Answer, c
  <2>4. unnamed' \subseteq Cids
    BY <1>5 DEF Answer, TInv, TypeOK, c
  <2> QED BY <1>5, <2>2, <2>3, <2>4 DEF Answer, TInv, TypeOK
<1>6. CASE AnswerLost(t)
  BY <1>6, <1>a DEF AnswerLost, TInv, TypeOK, IntentsTypeOK
<1>7. CASE MarkUnknown(t)
  <2>1. IntentsTypeOK'
    BY <1>7, UpdateType DEF MarkUnknown, TInv, TypeOK, Statuses, c
  <2> QED BY <1>7, <2>1, <1>a DEF MarkUnknown, TInv, TypeOK
<1>8. CASE Return(t)
  <2>1. th[t].res \in ListedStates \cup {"none", "raise", "unmapped"}
    BY DEF TInv, TypeOK, ThreadState
  <2>2. rows' \in [Cids -> ListedStates \cup {"none", "CREATED"}]
    BY <1>8, <2>1 DEF Return, TInv, TypeOK, ListedStates, OpenStates
  <2>3. th' \in [Threads -> ThreadState] /\ Prepared'
    BY <1>8, ParkType, KeepType DEF Return, ParkedPCs, c
  <2> QED BY <1>8, <2>2, <2>3 DEF Return, TInv, TypeOK, IntentsTypeOK
<1> QED BY <1>1, <1>2, <1>3, <1>4, <1>5, <1>6, <1>7, <1>8 DEF PlaceStep

\* The steps of reconciliation and accounting.
LEMMA TInvReconcile ==
    ASSUME TInv, NEW t \in Threads, ReconcileStep(t)
    PROVE  TInv'
<1> USE IntentAssumption, BrokerAssumption
<1> DEFINE c == th[t].cid
           ThOK == th' \in [Threads -> ThreadState] /\ Prepared'
<1>0. c \in Cids
  BY DEF TInv, Prepared, ParkedPCs, At, ReconcileStep, FetchHistory, CancelRemainder,
     RereadHistory, RecordFill, WritePosition, SettleIntent, MarkRemainderOpen
<1>t. th[t] \in ThreadState
  BY DEF TInv, TypeOK
<1>a. ASSUME KeepUnknown(t) PROVE IntentsTypeOK' /\ ThOK
  BY <1>a, <1>0, FinishType, UpdateType DEF KeepUnknown, Raise, TInv, TypeOK, Statuses, c
<1>b. ASSUME NEW m \in Cids, Dead(m), SettleDead(t, m) PROVE IntentsTypeOK' /\ ThOK
  BY <1>b, <1>0, FinishType, UpdateType
  DEF SettleDead, Dead, TInv, TypeOK, Statuses, ListedStates, c
<1>c. ASSUME NEW final \in Statuses, Accounted(t, final) PROVE ThOK
  <2> DEFINE x == [th[t] EXCEPT !.final = final, !.pos = None, !.blind = FALSE,
                               !.pc = IF t = Admin THEN "resolve" ELSE "cas"]
  <2>1. x \in ThreadState /\ x.cid = c /\ x.pc \in {"resolve", "cas"}
    BY <1>c, <1>t, ZenonT(60) DEF ThreadState, PCs, c
  <2>2. th' = [th EXCEPT ![t] = x]
    BY <1>c, <1>t DEF Accounted, TInv, TypeOK, ThreadState
  <2> HIDE DEF x
  <2> QED BY <2>1, <2>2, <1>0, ThreadWrite
<1> HIDE DEF c
<1>1. CASE FetchHistory(t)
  <2>1. CASE KeepUnknown(t)
    BY <1>1, <2>1, <1>a DEF FetchHistory, TInv, TypeOK
  <2>2. ASSUME NEW m \in Cids, Dead(m), SettleDead(t, m) PROVE TInv'
    BY <1>1, <2>2, <1>b DEF FetchHistory, TInv, TypeOK
  <2>3. ASSUME NEW m \in Cids, {m} \in Matches(c), NEW pc \in {"cancel", "account"},
               pc = "account" => venue[m].filled > 0, UNCHANGED intents, NEW label \in Labels(m),
               th' = [th EXCEPT ![t].pc = pc, ![t].m = m,
                                ![t].seen = venue[m].filled,
                                ![t].qty = venue[m].filled,
                                ![t].res = label]
        PROVE TInv'
    <3>1. Listed(m)
      BY <2>3 DEF Matches, Candidates
    <3>2. venue[m].filled \in 0..Qty
      BY DEF TInv, TypeOK
    <3> DEFINE x == [th[t] EXCEPT !.pc = pc, !.m = m, !.seen = venue[m].filled,
                                  !.qty = venue[m].filled, !.res = label]
    <3>3. th' = [th EXCEPT ![t] = x]
      BY <2>3
    <3>4. label \in ListedStates
      BY <2>3, <3>1 DEF Listed, Labels, ListedStates
    <3>6. /\ x \in ThreadState /\ x.cid = c /\ x.pc = pc /\ x.m = m
          /\ x.res = label /\ x.qty = venue[m].filled
      BY <3>2, <3>4, <1>t DEF ThreadState, PCs, c
    <3> HIDE DEF x
    <3>5. ThOK
      BY <2>3, <3>2, <3>3, <3>4, <3>6, <1>0, ThreadWrite
    <3> QED BY <1>1, <2>3, <3>5 DEF FetchHistory, TInv, TypeOK, IntentsTypeOK
  <2> QED BY <1>1, <2>1, <2>2, <2>3 DEF FetchHistory, c
<1>2. CASE CancelRemainder(t)
  <2>1. th[t].m \in Cids
    BY <1>2 DEF CancelRemainder, At, TInv, Prepared
  <2>2. ThOK
    BY <1>2, <2>1, <1>0, GotoType DEF CancelRemainder, PCs, c
  <2>3. venue' \in [Cids -> [state : VenueStates, filled : 0..Qty]]
    BY <1>2 DEF CancelRemainder, TInv, TypeOK, VenueStates, ListedStates, OpenStates
  <2> QED BY <1>2, <2>2, <2>3 DEF CancelRemainder, TInv, TypeOK, IntentsTypeOK
<1>3. CASE RereadHistory(t)
  <2> DEFINE m == th[t].m
  <2>0. m \in Cids
    BY <1>3 DEF RereadHistory, At, TInv, Prepared
  <2>1. CASE KeepUnknown(t)
    BY <1>3, <2>1, <1>a DEF RereadHistory, TInv, TypeOK
  <2>2. CASE Dead(m) /\ SettleDead(t, m)
    BY <1>3, <2>2, <2>0, <1>b DEF RereadHistory, TInv, TypeOK
  <2>3. ASSUME Listed(m), venue[m].filled > 0, NEW label \in Labels(m), UNCHANGED intents,
               th' = [th EXCEPT ![t].pc = "account", ![t].qty = venue[m].filled,
                                ![t].res = label]
        PROVE TInv'
    <3> DEFINE x == [th[t] EXCEPT !.pc = "account", !.qty = venue[m].filled,
                                  !.res = label]
    <3>1. label \in ListedStates /\ venue[m].filled \in 0..Qty
      BY <2>0, <2>3 DEF Listed, Labels, ListedStates, TInv, TypeOK
    <3>2. x \in ThreadState /\ x.cid = c /\ x.pc = "account" /\ x.res \in ListedStates
            /\ x.qty > 0
      BY <3>1, <2>3, <1>t DEF ThreadState, PCs, c
    <3>3. th' = [th EXCEPT ![t] = x]
      BY <2>3
    <3> HIDE DEF x
    <3>4. ThOK
      BY <3>2, <3>3, <1>0, ThreadWrite
    <3> QED BY <1>3, <2>3, <3>4 DEF RereadHistory, TInv, TypeOK, IntentsTypeOK
  <2> QED BY <1>3, <2>1, <2>2, <2>3 DEF RereadHistory
<1>4. CASE RecordFill(t)
  <2>1. rows' \in [Cids -> ListedStates \cup {"none", "CREATED"}]
    <3>1. (IF t = Admin THEN "FILLED" ELSE th[t].res) \in ListedStates
      BY <1>4 DEF RecordFill, At, TInv, Prepared, ListedStates
    <3> QED BY <1>4, <3>1, <1>0, ZenonT(60) DEF RecordFill, TInv, TypeOK
  <2>2. ThOK
    <3>1. CASE \E final \in {"ack", "ack_unaccounted"} : Accounted(t, final)
      BY <3>1, <1>c DEF Statuses
    <3>2. ASSUME NEW p \in positions \cup {None},
                 NEW blind \in BOOLEAN,
                 th' = [th EXCEPT ![t].pc = "write", ![t].pos = p, ![t].blind = blind],
                 c \in Buys \/ p \in positions
          PROVE ThOK
      <4> DEFINE x == [th[t] EXCEPT !.pc = "write", !.pos = p, !.blind = blind]
      <4>1. x \in ThreadState /\ x.cid = c /\ x.pc = "write" /\ x.pos = p
              /\ x.qty = th[t].qty
        BY <1>t DEF TInv, TypeOK, ThreadState, PCs, c
      <4>2. th' = [th EXCEPT ![t] = x]
        BY <3>2, <1>t DEF TInv, TypeOK, ThreadState
      <4>3. th[t].qty > 0
        BY <1>4 DEF RecordFill, At, TInv, Prepared
      <4>4. p \in Position \/ c \in Buys
        BY <3>2 DEF TInv, TypeOK
      <4> HIDE DEF x
      <4> QED BY <4>1, <4>2, <4>3, <4>4, <1>0, ThreadWrite
    <3> QED BY <1>4, <3>1, <3>2 DEF RecordFill, OpenPositions, c
  <2> QED BY <1>4, <2>1, <2>2 DEF RecordFill, TInv, TypeOK, IntentsTypeOK
<1>5. CASE WritePosition(t)
  <2>1. ThOK
    BY <1>5, <1>c DEF WritePosition, Statuses
  <2>2. positions' \subseteq Position /\ IsFiniteSet(positions')
    <3>1. CASE UNCHANGED positions
      BY <3>1 DEF TInv, TypeOK
    <3>2. CASE OpenPosition(c, th[t].qty, IF th[t].blind THEN "unread" ELSE "accounting")
      <4>1. th[t].qty \in 1..Qty
        BY <1>5, <1>t DEF WritePosition, At, TInv, Prepared, ThreadState
      <4> QED BY <4>1, <3>2, <1>0, OpenType
    <3>3. CASE c \notin Buys /\ ClosePosition(th[t].pos, IF c \in Linked THEN c ELSE None,
                                             IF intents[c].locked THEN "accounting" ELSE "admin")
      <4>1. th[t].pos \in Position
        BY <1>5, <3>3 DEF WritePosition, At, TInv, Prepared, c
      <4>2. (IF c \in Linked THEN c ELSE None) \in Cids \cup {None}
        BY <1>0
      <4> QED BY <4>1, <4>2, <3>3, CloseType
    <3> QED BY <1>5, <3>1, <3>2, <3>3 DEF WritePosition, c
  <2> QED BY <1>5, <2>1, <2>2 DEF WritePosition, TInv, TypeOK, IntentsTypeOK
<1>6. CASE SettleIntent(t)
  <2>1. IntentsTypeOK'
    <3>1. th[t].final \in Statuses /\ th[t].m \in Cids \cup {None, Manual}
      BY <1>t DEF ThreadState
    <3> QED
      BY <1>6, <3>1, <1>0, UpdateType
      DEF SettleIntent, UpdateConditional, TInv, TypeOK, IntentsTypeOK, c
  <2>2. ThOK
    <3>1. th[t].res \in ListedStates \cup {"none", "raise", "unmapped"}
      BY <1>t DEF ThreadState
    <3> QED BY <1>6, <3>1, <1>0, GotoType, FinishType DEF SettleIntent, PCs, c
  <2> QED BY <1>6, <2>1, <2>2 DEF SettleIntent, TInv, TypeOK
<1>7. CASE MarkRemainderOpen(t)
  <2>1. IntentsTypeOK'
    BY <1>7, <1>0, UpdateType DEF MarkRemainderOpen, TInv, TypeOK, Statuses, c
  <2>2. ThOK
    <3>1. th[t].res \in ListedStates \cup {"none", "raise", "unmapped"}
      BY <1>t DEF ThreadState
    <3> QED BY <1>7, <3>1, <1>0, FinishType DEF MarkRemainderOpen, c
  <2> QED BY <1>7, <2>1, <2>2 DEF MarkRemainderOpen, TInv, TypeOK
<1> QED BY <1>1, <1>2, <1>3, <1>4, <1>5, <1>6, <1>7, SMTT(30) DEF ReconcileStep

\* A thread taking up an order.
LEMMA TakeType ==
    ASSUME TInv, NEW t \in Threads, NEW c \in Cids, NEW pc \in {"check", "fetch"},
           th' = [th EXCEPT ![t] = [Parked(pc) EXCEPT !.cid = c]]
    PROVE  th' \in [Threads -> ThreadState] /\ Prepared'
<1> DEFINE x == [Parked(pc) EXCEPT !.cid = c]
<1>1. Parked(pc) \in ThreadState /\ Parked(pc).pc = pc
  BY ParkedFields DEF PCs
<1>2. x \in ThreadState /\ x.pc = pc /\ x.cid = c
  BY <1>1 DEF ThreadState
<1>3. th' = [th EXCEPT ![t] = x]
  OBVIOUS
<1> HIDE DEF x
<1> QED BY <1>2, <1>3, ThreadWrite

LEMMA BecomeType ==
    ASSUME TInv, Admin \in Threads, NEW c \in Cids, NEW m \in Cids \cup {None},
           NEW q \in 0..Qty, NEW final \in Statuses, NEW pc \in {"account", "resolve"},
           pc = "account" => q > 0,
           th' = [th EXCEPT ![Admin] = [Parked(pc) EXCEPT !.cid = c, !.m = m, !.qty = q,
                                                          !.final = final]]
    PROVE  th' \in [Threads -> ThreadState] /\ Prepared'
<1> DEFINE x == [Parked(pc) EXCEPT !.cid = c, !.m = m, !.qty = q, !.final = final]
<1>1. Parked(pc) \in ThreadState /\ Parked(pc).pc = pc
  BY ParkedFields DEF PCs
<1>2. x \in ThreadState /\ x.pc = pc /\ x.cid = c /\ x.qty = q
  BY <1>1 DEF ThreadState
<1>3. th' = [th EXCEPT ![Admin] = x]
  OBVIOUS
<1> HIDE DEF x
<1> QED BY <1>2, <1>3, ThreadWrite

LEMMA TInvSubmit ==
    ASSUME TInv, NEW t \in Submitters, NEW c \in Cids, Submit(t, c)
    PROVE  TInv'
<1>1. t \in Threads
  BY DEF Threads
<1>2. exits' \in [Cids -> Position \cup {None}]
  BY DEF Submit, TInv, TypeOK
<1>3. rows' \in [Cids -> ListedStates \cup {"none", "CREATED"}]
  BY DEF Submit, TInv, TypeOK
<1>4. th' \in [Threads -> ThreadState] /\ Prepared'
  BY <1>1, TakeType DEF Submit
<1> QED BY <1>2, <1>3, <1>4 DEF Submit, TInv, TypeOK, IntentsTypeOK

LEMMA TInvPendingExit ==
    ASSUME TInv, NEW t \in Submitters, NEW c \in Cids, PendingExit(t, c)
    PROVE  TInv'
<1>1. t \in Threads
  BY DEF Threads
<1>2. rows' \in [Cids -> ListedStates \cup {"none", "CREATED"}]
  BY DEF PendingExit, Listed, TInv, TypeOK
<1>3. th' \in [Threads -> ThreadState] /\ Prepared'
  BY <1>1, ParkType, KeepType DEF PendingExit, ParkedPCs
<1> QED BY <1>2, <1>3 DEF PendingExit, TInv, TypeOK, IntentsTypeOK

LEMMA TInvReplay ==
    ASSUME TInv, ReplayStep
    PROVE  TInv'
<1> USE BrokerAssumption
<1>0. Replayer \in Threads
  BY DEF Threads
<1>1. ASSUME NEW pc \in {"next", "done"}, Goto(Replayer, pc)
      PROVE  th' \in [Threads -> ThreadState] /\ Prepared'
  BY <1>0, <1>1, GotoType DEF PCs, ParkedPCs
<1>2. CASE ListReconcilable
  BY <1>1, <1>2 DEF ListReconcilable, Reconcilable, TInv, TypeOK, IntentsTypeOK
<1>3. CASE ReplayDone
  BY <1>1, <1>3 DEF ReplayDone, TInv, TypeOK, IntentsTypeOK
<1>4. ASSUME NEW c \in Cids, ReplayNext(c) PROVE TInv'
  <2>3. th' \in [Threads -> ThreadState] /\ Prepared'
    BY <1>0, <1>4, TakeType DEF ReplayNext
  <2> QED BY <1>4, <2>3 DEF ReplayNext, TInv, TypeOK, IntentsTypeOK
<1> QED BY <1>2, <1>3, <1>4 DEF ReplayStep

LEMMA TInvCrash ==
    ASSUME TInv, Crash
    PROVE  TInv'
<1>1. restarts' \in 0..MaxRestarts
  BY BrokerAssumption DEF Crash, TInv, TypeOK
<1>2. th' \in [Threads -> ThreadState]
  BY BrokerAssumption DEF Crash, ThreadsAtBoot, Parked, ThreadState, PCs, Statuses
<1>3. Prepared'
  BY DEF Crash, Prepared, ThreadsAtBoot, Parked, ParkedPCs
<1> QED BY <1>1, <1>2, <1>3 DEF Crash, TInv, TypeOK, IntentsTypeOK

LEMMA TInvAdmin ==
    ASSUME TInv, AdminStep
    PROVE  TInv'
<1> USE BrokerAssumption
<1>0. Admin \in Threads
  BY DEF Threads
<1>1. CASE AdminResolves
  <2> DEFINE a == th[Admin]
             b == IF a.m = None THEN Manual ELSE a.m
  <2>1. a.cid \in Cids \cup {None} /\ a.final \in Statuses /\ b \in Cids \cup {None, Manual}
    BY <1>0 DEF TInv, TypeOK, ThreadState
  <2>2. Update(a.cid, a.final, b, TRUE)
    BY <1>1 DEF AdminResolves
  <2> HIDE DEF b
  <2>3. IntentsTypeOK'
    BY <2>1, <2>2, UpdateType DEF TInv, TypeOK
  <2>4. th' \in [Threads -> ThreadState] /\ Prepared'
    BY <1>0, <1>1, ParkType DEF AdminResolves, ParkedPCs
  <2> QED BY <1>1, <2>3, <2>4 DEF AdminResolves, TInv, TypeOK
<1>2. ASSUME NEW c \in Cids, AdminDecides(c) PROVE TInv'
  <2> DEFINE become(pc, m, q, final) ==
               th' = [th EXCEPT ![Admin] = [Parked(pc) EXCEPT !.cid = c, !.m = m,
                                                              !.qty = q, !.final = final]]
  <2>1. \E pc \in {"account", "resolve"}, m \in Cids \cup {None}, q \in 0..Qty,
           final \in Statuses : become(pc, m, q, final) /\ (pc = "account" => q > 0)
    <3>1. venue[c].filled \in 0..Qty /\ 0 \in 0..Qty
      BY DEF TInv, TypeOK
    <3>2. {"rejected", "new", "ack", "ack_unaccounted"} \subseteq Statuses
      BY DEF Statuses
    <3>3. CASE become("resolve", c, 0, "rejected")
      BY <3>1, <3>2, <3>3, Zenon
    <3>4. CASE venue[c].filled > 0 /\ become("account", c, venue[c].filled, "new")
      BY <3>1, <3>2, <3>4, Zenon
    <3>5. CASE become("resolve", c, 0, "ack")
      BY <3>1, <3>2, <3>5, Zenon
    <3>6. CASE become("resolve", IF Listed(c) THEN c ELSE None, 0, "ack_unaccounted")
      <4> DEFINE b == IF Listed(c) THEN c ELSE None
      <4>1. b \in Cids \cup {None}
        OBVIOUS
      <4>2. become("resolve", b, 0, "ack_unaccounted")
        BY <3>6
      <4> HIDE DEF b
      <4> QED BY <4>1, <4>2, <3>1, <3>2, Zenon
    <3> QED BY <1>2, <3>3, <3>4, <3>5, <3>6 DEF AdminDecides
  <2>2. th' \in [Threads -> ThreadState] /\ Prepared'
    <3> PICK pc \in {"account", "resolve"}, m \in Cids \cup {None}, q \in 0..Qty,
              final \in Statuses : become(pc, m, q, final) /\ (pc = "account" => q > 0)
      BY <2>1
    <3> QED BY <1>0, BecomeType
  <2>3. resolutions' \in 0..MaxResolutions
    BY <1>2 DEF AdminDecides, TInv, TypeOK
  <2> QED BY <1>2, <2>2, <2>3 DEF AdminDecides, TInv, TypeOK, IntentsTypeOK
<1> QED BY <1>1, <1>2 DEF AdminStep

\* What a step leaves of what is known about the exits.
LEMMA ExitWrite ==
    ASSUME TInv, ExitsKnown, NEW t \in Threads, NEW x \in ThreadState,
           th' = [th EXCEPT ![t] = x], x.pc \in RolePCs(t), UNCHANGED exits,
           t \in Submitters /\ x.pc \notin ParkedPCs
             => th[t].pc \notin ParkedPCs /\ x.cid = th[t].cid,
           t \in Submitters /\ x.pc = "keep" /\ IsExit(x.m) => exits[x.m] \in Position,
           \A c \in Cids : IsExit(c) /\ rows[c] = "none"
                         => rows'[c] = "none" \/ exits[c] \in Position
    PROVE  ExitsKnown'
<1>1. \A u \in Threads : th'[u] = IF u = t THEN x ELSE th[u]
  BY DEF TInv, TypeOK
<1>2. \A c \in Cids : IsExit(c) /\ rows'[c] # "none" => exits'[c] \in Position
  BY DEF ExitsKnown
<1> QED BY <1>1, <1>2 DEF ExitsKnown, IsExit, Threads, RolePCs

LEMMA RoleOf ==
    ASSUME ExitsKnown, NEW t \in Threads
    PROVE  /\ th[t].pc \in RolePCs(t)
           /\ t \in Submitters <=> t \notin {Replayer, Admin}
           /\ t \in Submitters => RolePCs(t) = PCs \ {"start", "next", "done", "resolve"}
           /\ t = Replayer => RolePCs(t) = {"start", "next", "done", "fetch"} \cup MatchedPCs
           /\ t = Admin => RolePCs(t) = {"idle", "account", "write", "resolve"}
  BY BrokerAssumption DEF ExitsKnown, RolePCs, Threads

LEMMA ExitsKnownPlace ==
    ASSUME TInv, ExitsKnown, NEW t \in Threads, PlaceStep(t)
    PROVE  ExitsKnown'
<1> USE IntentAssumption, BrokerAssumption
<1>0. th[t] \in ThreadState
  BY DEF TInv, TypeOK
<1>1. t \in Submitters /\ RolePCs(t) = PCs \ {"start", "next", "done", "resolve"}
  BY RoleOf, ZenonT(60) DEF PlaceStep, CheckUnresolved, CreateIntent, MarkSent, Post, Answer, AnswerLost,
     MarkUnknown, Return, KeepBooks, At, MatchedPCs, Threads
<1>2. ASSUME NEW pc \in {"create", "send", "post", "await", "failed", "fetch"}, Goto(t, pc),
             th[t].pc \notin ParkedPCs, UNCHANGED <<rows, exits>>
      PROVE  ExitsKnown'
  <2> DEFINE x == [th[t] EXCEPT !.pc = pc]
  <2>1. x \in ThreadState /\ x.pc = pc /\ x.cid = th[t].cid /\ th' = [th EXCEPT ![t] = x]
    BY <1>0, <1>2 DEF Goto, ThreadState, PCs
  <2> HIDE DEF x
  <2> QED BY <2>1, <1>1, <1>2, ExitWrite DEF PCs, ParkedPCs
<1>3. ASSUME NEW res \in ListedStates \cup {"none", "raise", "unmapped"}, NEW ok \in BOOLEAN,
             Finish(t, res, ok), th[t].pc \notin ParkedPCs, UNCHANGED <<rows, exits>>
      PROVE  ExitsKnown'
  <2> DEFINE x == [Parked("return") EXCEPT !.cid = th[t].cid, !.res = res, !.ok = ok]
  <2>0. Parked("return") \in ThreadState
    BY ParkedFields DEF PCs
  <2>1. x \in ThreadState /\ x.pc = "return" /\ x.cid = th[t].cid
    BY <2>0, <1>0, ZenonT(60) DEF ThreadState, Parked
  <2>2. th' = [th EXCEPT ![t] = x]
    BY <1>3, <1>1 DEF Finish
  <2> HIDE DEF x
  <2> QED BY <2>1, <2>2, <1>1, <1>3, ExitWrite DEF PCs, ParkedPCs
<1>4. CASE CheckUnresolved(t) \/ CreateIntent(t) \/ MarkSent(t) \/ Post(t) \/ AnswerLost(t)
           \/ MarkUnknown(t)
  BY <1>4, <1>2, <1>3 DEF CheckUnresolved, CreateIntent, MarkSent, Post, AnswerLost,
     MarkUnknown, Raise, At, ParkedPCs
<1>5. CASE Answer(t)
  <2>1. venue[th[t].cid].state \in ListedStates \cup {"refused"}
    BY <1>5 DEF Answer
  <2> DEFINE state == venue[th[t].cid].state
             r == IF state = "refused" THEN "REJECTED" ELSE state
  <2>2. r \in ListedStates
    BY <2>1 DEF ListedStates
  <2>3. Finish(t, "unmapped", FALSE) \/ Finish(t, r, state \notin {"refused", "REJECTED"})
    BY <1>5 DEF Answer
  <2>4. th[t].pc \notin ParkedPCs /\ UNCHANGED <<rows, exits>>
    BY <1>5 DEF Answer, At, ParkedPCs
  <2> HIDE DEF r, state
  <2>5. (state \notin {"refused", "REJECTED"}) \in BOOLEAN
    OBVIOUS
  <2> QED BY <2>2, <2>3, <2>4, <2>5, <1>3
<1>6. CASE Return(t)
  <2> DEFINE c == th[t].cid
             x == IF th[t].ok /\ (IsExit(c) \/ (c \in Buys /\ th[t].res \notin {"CANCELLED", "REJECTED"}))
                  THEN [Parked("keep") EXCEPT !.m = c] ELSE Parked("idle")
  <2>1. c \in Cids /\ th[t].pc \notin ParkedPCs
    BY <1>6 DEF Return, At, ParkedPCs, TInv, Prepared
  <2>2. Parked("keep") \in ThreadState /\ Parked("idle") \in ThreadState
    BY ParkedFields DEF PCs
  <2>3. x \in ThreadState /\ x.pc \in {"keep", "idle"} /\ (x.pc = "keep" => x.m = c)
    BY <2>1, <2>2 DEF ThreadState, Parked
  <2>4. th' = [th EXCEPT ![t] = x]
    BY <1>6 DEF Return
  <2>5. IsExit(c) => exits[c] \in Position
    BY <2>1, <1>1 DEF ExitsKnown
  <2>6. \A d \in Cids : d # c => rows'[d] = rows[d]
    BY <1>6 DEF Return, TInv, TypeOK
  <2>7. UNCHANGED exits
    BY <1>6 DEF Return
  <2> HIDE DEF x, c
  <2> QED BY <2>1, <2>3, <2>4, <2>5, <2>6, <2>7, <1>1, ExitWrite DEF PCs, ParkedPCs
<1>7. CASE KeepBooks(t)
  <2>1. Parked("idle") \in ThreadState /\ Parked("idle").pc = "idle"
    BY ParkedFields DEF PCs
  <2>2. th' = [th EXCEPT ![t] = Parked("idle")] /\ UNCHANGED <<rows, exits>>
    BY <1>7 DEF KeepBooks
  <2> QED BY <2>1, <2>2, <1>1, ExitWrite DEF PCs, ParkedPCs
<1> QED BY <1>4, <1>5, <1>6, <1>7 DEF PlaceStep

LEMMA ExitsKnownReconcile ==
    ASSUME TInv, ExitsKnown, NEW t \in Threads, ReconcileStep(t)
    PROVE  ExitsKnown'
<1> USE IntentAssumption, BrokerAssumption
<1>0. th[t] \in ThreadState
  BY DEF TInv, TypeOK
<1>1. th[t].pc \notin ParkedPCs /\ UNCHANGED exits
  BY DEF ReconcileStep, FetchHistory, CancelRemainder, RereadHistory, RecordFill, WritePosition,
     SettleIntent, MarkRemainderOpen, At, ParkedPCs
<1>2. \A c \in Cids : IsExit(c) => rows'[c] = rows[c]
  BY DEF ReconcileStep, FetchHistory, CancelRemainder, RereadHistory, RecordFill, WritePosition,
     SettleIntent, MarkRemainderOpen, IsExit, TInv, TypeOK
<1>3. ASSUME NEW x \in ThreadState, th' = [th EXCEPT ![t] = x], x.cid = th[t].cid,
             x.pc \in RolePCs(t) \ ParkedPCs
      PROVE  ExitsKnown'
  BY <1>1, <1>2, <1>3, ExitWrite DEF ParkedPCs
<1>4. ASSUME NEW res, NEW ok, Finish(t, res, ok), t # Admin,
             res \in ListedStates \cup {"none", "raise", "unmapped"}, ok \in BOOLEAN
      PROVE  ExitsKnown'
  <2> DEFINE y == [Parked("return") EXCEPT !.cid = th[t].cid, !.res = res, !.ok = ok]
  <2>0. Parked("return") \in ThreadState /\ Parked("next") \in ThreadState
    BY ParkedFields DEF PCs
  <2>1. y \in ThreadState /\ y.pc = "return" /\ y.cid = th[t].cid
    BY <2>0, <1>0, <1>4, ZenonT(60) DEF ThreadState, Parked
  <2>2. th' = [th EXCEPT ![t] = IF t = Replayer THEN Parked("next") ELSE y]
    BY <1>4 DEF Finish
  <2> HIDE DEF y
  <2>3. CASE t = Replayer
    <3>1. Parked("next").pc = "next"
      BY DEF Parked
    <3> QED BY <2>0, <2>2, <2>3, <3>1, <1>1, <1>2, ExitWrite, RoleOf DEF ParkedPCs
  <2>4. CASE t # Replayer
    <3>1. "return" \in RolePCs(t) \ ParkedPCs
      BY <2>4, <1>4, RoleOf DEF PCs, ParkedPCs, Threads
    <3> QED BY <2>1, <2>2, <2>4, <3>1, <1>3
  <2> QED BY <2>3, <2>4
<1>5. th[t].pc \in {"fetch", "cancel", "reread", "cas", "override"} => t # Admin
  BY RoleOf
<1>6. {"cancel", "reread", "account", "cas", "override"} \subseteq RolePCs(t) \ ParkedPCs
        \/ t = Admin
  BY RoleOf DEF PCs, ParkedPCs, MatchedPCs, Threads
<1>7. "write" \in RolePCs(t) \ ParkedPCs /\ (t = Admin => "resolve" \in RolePCs(t) \ ParkedPCs)
  BY RoleOf DEF PCs, ParkedPCs, MatchedPCs, Threads
<1>8. ASSUME NEW pc \in {"reread", "cas", "override"}, t # Admin, Goto(t, pc)
      PROVE  ExitsKnown'
  <2> DEFINE x == [th[t] EXCEPT !.pc = pc]
  <2>1. x \in ThreadState /\ x.pc = pc /\ x.cid = th[t].cid /\ th' = [th EXCEPT ![t] = x]
    BY <1>0, <1>8 DEF Goto, ThreadState, PCs
  <2> HIDE DEF x
  <2> QED BY <2>1, <1>3, <1>6, <1>8
<1>9. ASSUME NEW final \in Statuses, Accounted(t, final)
      PROVE  ExitsKnown'
  <2> DEFINE x == [th[t] EXCEPT !.final = final, !.pos = None, !.blind = FALSE,
                               !.pc = IF t = Admin THEN "resolve" ELSE "cas"]
  <2>1. /\ x \in ThreadState /\ x.pc = (IF t = Admin THEN "resolve" ELSE "cas")
        /\ x.cid = th[t].cid
    BY <1>0, <1>9, ZenonT(60) DEF ThreadState, PCs
  <2>2. th' = [th EXCEPT ![t] = x]
    BY <1>0, <1>9 DEF Accounted, ThreadState
  <2> HIDE DEF x
  <2> QED BY <2>1, <2>2, <1>3, <1>6, <1>7
<1>a. th[t].res \in ListedStates \cup {"none", "raise", "unmapped"}
  BY <1>0 DEF ThreadState
<1>b. ASSUME NEW m \in Cids, Dead(m), SettleDead(t, m), t # Admin PROVE ExitsKnown'
  BY <1>b, <1>4 DEF SettleDead, Dead, ListedStates
<1>c. ASSUME KeepUnknown(t), t # Admin PROVE ExitsKnown'
  BY <1>c, <1>4 DEF KeepUnknown, Raise
<1>10. CASE FetchHistory(t)
  <2>0. t # Admin
    BY <1>10, <1>5 DEF FetchHistory, At
  <2>1. ASSUME NEW m \in Cids, {m} \in Matches(th[t].cid), NEW pc \in {"cancel", "account"},
               NEW label \in Labels(m),
               th' = [th EXCEPT ![t].pc = pc, ![t].m = m,
                                ![t].seen = venue[m].filled,
                                ![t].qty = venue[m].filled,
                                ![t].res = label]
        PROVE ExitsKnown'
    <3>a. Listed(m)
      BY <2>1 DEF Matches, Candidates
    <3>1. label \in ListedStates
      BY <2>1, <3>a DEF Listed, Labels, ListedStates
    <3>b. venue[m].filled \in 0..Qty
      BY DEF TInv, TypeOK
    <3> DEFINE x == [th[t] EXCEPT !.pc = pc, !.m = m, !.seen = venue[m].filled,
                                  !.qty = venue[m].filled, !.res = label]
    <3>c. th' = [th EXCEPT ![t] = x]
      BY <2>1
    <3>2. x \in ThreadState /\ x.pc = pc /\ x.cid = th[t].cid
      BY <1>0, <3>1, <3>b DEF ThreadState, PCs
    <3> HIDE DEF x
    <3> QED BY <2>0, <3>2, <3>c, <1>3, <1>6
  <2> QED BY <1>10, <2>0, <2>1, <1>b, <1>c DEF FetchHistory
<1>11. CASE CancelRemainder(t)
  BY <1>11, <1>5, <1>8 DEF CancelRemainder, At
<1>12. CASE RereadHistory(t)
  <2> DEFINE m == th[t].m
  <2>0. t # Admin /\ m \in Cids
    BY <1>12, <1>5 DEF RereadHistory, At, TInv, Prepared
  <2>1. ASSUME Listed(m), NEW label \in Labels(m),
               th' = [th EXCEPT ![t].pc = "account", ![t].qty = venue[m].filled,
                                ![t].res = label]
        PROVE ExitsKnown'
    <3>1. label \in ListedStates
      BY <2>1 DEF Listed, Labels, ListedStates
    <3>b. venue[m].filled \in 0..Qty
      BY <2>0 DEF TInv, TypeOK
    <3> DEFINE x == [th[t] EXCEPT !.pc = "account", !.qty = venue[m].filled, !.res = label]
    <3>c. th' = [th EXCEPT ![t] = x]
      BY <2>1
    <3>2. x \in ThreadState /\ x.pc = "account" /\ x.cid = th[t].cid
      BY <1>0, <3>1, <3>b DEF ThreadState, PCs
    <3> HIDE DEF x
    <3> QED BY <2>0, <3>2, <3>c, <1>3, <1>6
  <2> QED BY <1>12, <2>0, <2>1, <1>b, <1>c DEF RereadHistory
<1>13. CASE RecordFill(t)
  <2>1. ASSUME NEW p \in positions \cup {None}, NEW blind \in BOOLEAN,
               th' = [th EXCEPT ![t].pc = "write", ![t].pos = p, ![t].blind = blind]
        PROVE ExitsKnown'
    <3> DEFINE x == [th[t] EXCEPT !.pc = "write", !.pos = p, !.blind = blind]
    <3>1. x \in ThreadState /\ x.pc = "write" /\ x.cid = th[t].cid /\ th' = [th EXCEPT ![t] = x]
      BY <1>0, <2>1, ZenonT(60) DEF ThreadState, PCs, TInv, TypeOK
    <3> HIDE DEF x
    <3> QED BY <3>1, <1>3, <1>7
  <2>2. {"ack", "ack_unaccounted"} \subseteq Statuses
    BY DEF Statuses
  <2> QED BY <1>13, <2>1, <2>2, <1>9 DEF RecordFill, OpenPositions
<1>14. CASE WritePosition(t)
  <2>1. {"ack", "ack_unaccounted"} \subseteq Statuses
    BY DEF Statuses
  <2> QED BY <1>14, <2>1, <1>9 DEF WritePosition
<1>15. CASE SettleIntent(t) \/ MarkRemainderOpen(t)
  BY <1>15, <1>a, <1>4, <1>5, <1>8 DEF SettleIntent, MarkRemainderOpen, At
<1> QED BY <1>10, <1>11, <1>12, <1>13, <1>14, <1>15, SMTT(30) DEF ReconcileStep

LEMMA ExitsKnownSubmit ==
    ASSUME TInv, ExitsKnown, NEW t \in Submitters, NEW c \in Cids,
           Submit(t, c) \/ PendingExit(t, c)
    PROVE  ExitsKnown'
<1> USE IntentAssumption, BrokerAssumption
<1>0. t \in Threads /\ RolePCs(t) = PCs \ {"start", "next", "done", "resolve"}
  BY RoleOf DEF Threads
<1>1. CASE Submit(t, c)
  <2> DEFINE x == [Parked("check") EXCEPT !.cid = c]
  <2>1. \A u \in Threads : th'[u] = IF u = t THEN x ELSE th[u]
    BY <1>1 DEF Submit, TInv, TypeOK
  <2>2. x.pc = "check" /\ x.cid = c
    BY DEF Parked
  <2> HIDE DEF x
  <2>3. \A d \in Cids : exits[d] \in Position => exits'[d] \in Position
    BY <1>1 DEF Submit, TInv, TypeOK
  <2>4. IsExit(c) => exits'[c] \in Position
    BY <1>1 DEF Submit, TInv, TypeOK
  <2>5. \A d \in Cids \ {c} : rows'[d] = rows[d]
    BY <1>1 DEF Submit, TInv, TypeOK
  <2>6. \A u \in Threads : th'[u].pc \in RolePCs(u)
    BY <1>0, <2>1, <2>2 DEF ExitsKnown, PCs
  <2>7. \A d \in Cids : IsExit(d) /\ rows'[d] # "none" => exits'[d] \in Position
    BY <2>3, <2>4, <2>5 DEF ExitsKnown
  <2>8. \A u \in Submitters :
         /\ th'[u].pc \notin ParkedPCs /\ IsExit(th'[u].cid) => exits'[th'[u].cid] \in Position
         /\ th'[u].pc = "keep" /\ IsExit(th'[u].m) => exits'[th'[u].m] \in Position
    <3> TAKE u \in Submitters
    <3>1. CASE u = t
      BY <3>1, <1>0, <2>1, <2>2, <2>4
    <3>2. CASE u # t
      <4>1. u \in Threads /\ th'[u] = th[u]
        BY <3>2, <2>1 DEF Threads
      <4>2. /\ th[u].pc \notin ParkedPCs => th[u].cid \in Cids
            /\ th[u].pc = "keep" => th[u].m \in Cids
        BY <4>1 DEF TInv, Prepared
      <4> QED BY <4>1, <4>2, <2>3 DEF ExitsKnown
    <3> QED BY <3>1, <3>2
  <2> QED BY <2>6, <2>7, <2>8 DEF ExitsKnown
<1>2. CASE PendingExit(t, c)
  <2> DEFINE x == IF venue[c].state = "FILLED" THEN [Parked("keep") EXCEPT !.m = c]
                  ELSE Parked("idle")
  <2>1. Parked("keep") \in ThreadState /\ Parked("idle") \in ThreadState
    BY ParkedFields DEF PCs
  <2>2. x \in ThreadState /\ x.pc \in {"keep", "idle"} /\ (x.pc = "keep" => x.m = c)
    BY <2>1 DEF ThreadState, Parked
  <2>3. th' = [th EXCEPT ![t] = x] /\ UNCHANGED exits
    BY <1>2 DEF PendingExit
  <2> HIDE DEF x
  <2>4. exits[c] \in Position
    BY <1>2 DEF PendingExit, ExitsKnown
  <2>5. \A d \in Cids \ {c} : rows'[d] = rows[d]
    BY <1>2 DEF PendingExit, TInv, TypeOK
  <2> QED BY <1>0, <2>2, <2>3, <2>4, <2>5, ExitWrite DEF PCs, ParkedPCs
<1> QED BY <1>1, <1>2

LEMMA ExitsKnownStep ==
    ASSUME TInv, ExitsKnown, [Next]_vars
    PROVE  ExitsKnown'
<1> USE IntentAssumption, BrokerAssumption
<1>1. CASE UNCHANGED vars
  BY <1>1 DEF vars, ExitsKnown
<1>2. CASE \E v \in Cids : VenueStep(v)
  BY <1>2 DEF VenueStep, VenueDecides, VenueFills, VenueCancels, ExitsKnown
<1>3. ASSUME NEW t \in {Replayer, Admin}, NEW x, x.pc \in RolePCs(t),
             th' = [th EXCEPT ![t] = x], UNCHANGED <<rows, exits>>
      PROVE  ExitsKnown'
  <2>1. \A u \in Threads : th'[u] = IF u = t THEN x ELSE th[u]
    BY <1>3 DEF TInv, TypeOK
  <2> QED BY <1>3, <2>1 DEF ExitsKnown, Threads
<1>4. CASE ReplayStep
  <2>1. \A pc \in {"next", "done", "fetch"} : pc \in RolePCs(Replayer)
    BY DEF RolePCs
  <2>2. CASE ListReconcilable \/ ReplayDone
    <3> PICK pc \in {"next", "done"} : Goto(Replayer, pc)
      BY <2>2 DEF ListReconcilable, ReplayDone
    <3> DEFINE x == [th[Replayer] EXCEPT !.pc = pc]
    <3>1. x.pc = pc
      BY DEF TInv, TypeOK, ThreadState, Threads
    <3>2. th' = [th EXCEPT ![Replayer] = x]
      BY DEF Goto
    <3>3. UNCHANGED <<rows, exits>>
      BY <2>2 DEF ListReconcilable, ReplayDone
    <3> HIDE DEF x
    <3> QED BY <3>1, <3>2, <3>3, <2>1, <1>3
  <2>3. CASE \E c \in Cids : ReplayNext(c)
    <3> PICK c \in Cids : ReplayNext(c)
      BY <2>3
    <3> DEFINE x == [Parked("fetch") EXCEPT !.cid = c]
    <3>1. x.pc = "fetch"
      BY DEF Parked
    <3>2. th' = [th EXCEPT ![Replayer] = x] /\ UNCHANGED <<rows, exits>>
      BY DEF ReplayNext
    <3> HIDE DEF x
    <3> QED BY <3>1, <3>2, <2>1, <1>3
  <2> QED BY <1>4, <2>2, <2>3 DEF ReplayStep
<1>5. CASE AdminStep
  <2>1. \A pc \in {"idle", "account", "resolve"} : pc \in RolePCs(Admin)
    BY SMTT(30) DEF RolePCs
  <2>2. UNCHANGED <<rows, exits>>
    BY <1>5 DEF AdminStep, AdminResolves, AdminDecides
  <2>3. CASE AdminResolves
    <3>1. Parked("idle").pc = "idle"
      BY DEF Parked
    <3> QED BY <2>1, <2>2, <2>3, <3>1, <1>3 DEF AdminResolves
  <2>4. ASSUME NEW pc \in {"account", "resolve"}, NEW c, NEW m, NEW q, NEW final,
               th' = [th EXCEPT ![Admin] = [Parked(pc) EXCEPT !.cid = c, !.m = m, !.qty = q,
                                                              !.final = final]]
        PROVE ExitsKnown'
    <3> DEFINE x == [Parked(pc) EXCEPT !.cid = c, !.m = m, !.qty = q, !.final = final]
    <3>1. x.pc = pc
      BY DEF Parked
    <3>2. th' = [th EXCEPT ![Admin] = x]
      BY <2>4
    <3> HIDE DEF x
    <3> QED BY <3>1, <3>2, <2>1, <2>2, <1>3
  <2>5. CASE \E c \in Cids : AdminDecides(c)
    BY <2>4, <2>5 DEF AdminDecides
  <2> QED BY <1>5, <2>3, <2>5 DEF AdminStep
<1>6. CASE Crash
  BY <1>6 DEF Crash, ExitsKnown, ThreadsAtBoot, Parked, RolePCs, PCs, Threads, ParkedPCs
<1> QED
  BY <1>1, <1>2, <1>4, <1>5, <1>6, ExitsKnownSubmit, ExitsKnownPlace, ExitsKnownReconcile DEF Next

LEMMA TInvStep == TInv /\ ExitsKnown /\ [Next]_vars => TInv'
<1> SUFFICES ASSUME TInv, ExitsKnown, [Next]_vars PROVE TInv'
  OBVIOUS
<1>1. CASE UNCHANGED vars
  BY <1>1 DEF vars, TInv, TypeOK, IntentsTypeOK, Prepared
<1> QED
  BY <1>1, TInvVenue, TInvSubmit, TInvPendingExit, TInvPlace, TInvReconcile, TInvReplay,
     TInvAdmin, TInvCrash DEF Next

LEMMA ExitsKnownInit == Init => ExitsKnown
  BY BrokerAssumption DEF Init, ExitsKnown, ThreadsAtBoot, Parked, RolePCs, PCs, Threads, ParkedPCs

LEMMA TypesAlways == Spec => [](TInv /\ ExitsKnown)
  BY TInvInit, TInvStep, ExitsKnownInit, ExitsKnownStep, PTL DEF Spec

LEMMA TInvAlways == Spec => []TInv
  BY TypesAlways, PTL

\* Every row, thread and history entry stays well formed, for any number of
\* orders, threads and restarts and with or without the operating procedure.
THEOREM TypeCorrect == Spec => []TypeOK
<1>1. TInv => TypeOK
  BY DEF TInv
<1> QED BY <1>1, TInvAlways, PTL

----
\* What update() does to each row of the log.
LEMMA UpdateEffect ==
    ASSUME IntentsTypeOK, NEW c \in Cids, NEW s, NEW b, NEW r \in BOOLEAN,
           Update(c, s, b, r)
    PROVE  /\ \A d \in Cids \ {c} : intents'[d] = intents[d]
           /\ intents'[c].status = s
           /\ intents'[c].locked <=> intents[c].locked /\ ~r
           /\ b = None => intents'[c].boid = intents[c].boid
           /\ b # None => intents'[c].boid = b
BY DEF IntentsTypeOK, Update, Row

\* An update never takes a lock.
LEMMA UpdateTakesNoLock ==
    ASSUME IntentsTypeOK, NEW c \in Cids \cup {None}, NEW s, NEW b, NEW r \in BOOLEAN,
           Update(c, s, b, r)
    PROVE  \A d \in Cids : intents'[d].locked => intents[d].locked
BY DEF IntentsTypeOK, Update, Row

----
(* Mutual exclusion by the lock of a ticker.                               *)

\* A lock is taken by create(), on a free ticker, and by nothing else.
LEMMA LocksTaken ==
    ASSUME TInv, Next
    PROVE  \/ \A d \in Cids : intents'[d].locked => intents[d].locked
           \/ \E t \in Threads : At(t, "create") /\ Create(th[t].cid)
<1> DEFINE Kept == \A d \in Cids : intents'[d].locked => intents[d].locked
<1>0. IntentsTypeOK /\ \A t \in Threads : th[t] \in ThreadState
  BY DEF TInv, TypeOK
<1>1. UNCHANGED intents => Kept
  OBVIOUS
<1>2. ASSUME NEW t \in Threads, NEW s, NEW b, NEW r \in BOOLEAN, Update(th[t].cid, s, b, r)
      PROVE  Kept
  BY <1>0, <1>2, UpdateTakesNoLock, SMTT(30) DEF ThreadState
<1> HIDE DEF Kept
<1>3. ASSUME NEW t \in Threads, PlaceStep(t)
      PROVE  Kept \/ (At(t, "create") /\ Create(th[t].cid))
  <2>1. CASE CheckUnresolved(t) \/ Post(t) \/ AnswerLost(t) \/ Return(t) \/ KeepBooks(t)
    BY <2>1, <1>1 DEF CheckUnresolved, Post, AnswerLost, Return, KeepBooks
  <2>2. CASE CreateIntent(t)
    BY <2>2, <1>1 DEF CreateIntent
  <2>3. CASE MarkSent(t) \/ MarkUnknown(t)
    BY <2>3, <1>2 DEF MarkSent, MarkUnknown
  <2>4. CASE Answer(t)
    <3> DEFINE s == IF venue[th[t].cid].state \notin {"refused", "REJECTED"}
                    THEN "ack" ELSE "rejected"
    <3>1. \E b \in {th[t].cid, None} : Update(th[t].cid, s, b, ReleasedBy(s))
      BY <2>4 DEF Answer
    <3>2. ReleasedBy(s) \in BOOLEAN
      BY DEF ReleasedBy
    <3> HIDE DEF s
    <3> QED BY <3>1, <3>2, <1>2
  <2> QED BY <1>3, <2>1, <2>2, <2>3, <2>4 DEF PlaceStep
<1>4. ASSUME NEW t \in Threads, ReconcileStep(t)
      PROVE  Kept
  <2>1. CASE CancelRemainder(t) \/ RecordFill(t) \/ WritePosition(t)
    BY <2>1, <1>1 DEF CancelRemainder, RecordFill, WritePosition
  <2>2. CASE FetchHistory(t) \/ RereadHistory(t)
    BY <2>2, <1>1, <1>2 DEF FetchHistory, RereadHistory, KeepUnknown, SettleDead
  <2>3. CASE SettleIntent(t) \/ MarkRemainderOpen(t)
    BY <2>3, <1>1, <1>2 DEF SettleIntent, UpdateConditional, MarkRemainderOpen
  <2> QED BY <1>4, <2>1, <2>2, <2>3 DEF ReconcileStep
<1>5. CASE ReplayStep \/ Crash \/ \E v \in Cids : VenueStep(v)
  BY <1>5, <1>1 DEF ReplayStep, ListReconcilable, ReplayDone, ReplayNext, Crash, VenueStep,
     VenueDecides, VenueFills, VenueCancels
<1>6. CASE \E t \in Submitters, c \in Cids : Submit(t, c) \/ PendingExit(t, c)
  BY <1>6, <1>1 DEF Submit, PendingExit
<1>7. ASSUME AdminStep PROVE Kept
  <2>1. Admin \in Threads
    BY DEF Threads
  <2>2. CASE AdminResolves
    <3> DEFINE b == IF th[Admin].m = None THEN Manual ELSE th[Admin].m
    <3>1. Update(th[Admin].cid, th[Admin].final, b, TRUE)
      BY <2>2 DEF AdminResolves
    <3> HIDE DEF b
    <3> QED BY <2>1, <3>1, <1>2
  <2>3. CASE \E c \in Cids : AdminDecides(c)
    BY <2>3, <1>1 DEF AdminDecides
  <2> QED BY <1>7, <2>2, <2>3 DEF AdminStep
<1> QED BY <1>3, <1>4, <1>5, <1>6, <1>7 DEF Next, Kept

LEMMA LockExclusiveStep ==
    ASSUME TInv, LockExclusive, [Next]_vars
    PROVE  LockExclusive'
<1>1. CASE UNCHANGED vars
  BY <1>1 DEF vars, LockExclusive
<1>2. CASE \A d \in Cids : intents'[d].locked => intents[d].locked
  BY <1>2 DEF LockExclusive
<1>3. ASSUME NEW t \in Threads, At(t, "create"), Create(th[t].cid)
      PROVE  LockExclusive'
  <2>1. th[t].cid \in Cids
    BY <1>3 DEF At, TInv, Prepared, ParkedPCs
  <2>2. \A d \in Cids : d # th[t].cid => intents'[d] = intents[d]
    BY <1>3, <2>1 DEF Create, TInv, TypeOK, IntentsTypeOK
  <2>3. \A d \in Cids : intents[d].locked => TickerOf[d] # TickerOf[th[t].cid]
    BY <1>3 DEF Create, Unresolved
  <2> QED BY <2>1, <2>2, <2>3 DEF LockExclusive
<1> QED BY <1>1, <1>2, <1>3, LocksTaken

\* Two intents never hold the lock of one ticker, however the threads
\* interleave, and whether or not the operators keep to the procedure.
THEOREM TickerLockExcludes == Spec => []LockExclusive
<1>1. Init => LockExclusive
  BY DEF Init, IntentsInit, LockExclusive
<1> QED BY <1>1, LockExclusiveStep, TInvAlways, PTL DEF Spec

----
(* The inductive invariant of the operating procedure.                     *)

\* What the invariant says of one thread t, its record x, the order c it works on,
\* and the order's intent i, history entry v and row r; a tells whether an order of
\* its kind was left unnamed.
OrderOK(t, c, x, i, v, r, a) ==
    /\ x.pc \in RolePCs(t) \ {"start"}
    /\ x.pc \in ParkedPCs => x.cid = None
    /\ x.pc \notin ParkedPCs => x.cid = c
    /\ x.pc \in WorkPCs => IF t = Admin THEN i.status # "new" ELSE i.locked
    /\ x.pc \in {"check", "create"} => i.status = "new"
    /\ x.pc \in {"send", "post"} => v.state = "unsent"
    /\ x.pc \in {"cas", "override", "resolve"} => x.final # "new"
    /\ x.pc \in ResultPCs /\ t # Admin => x.res # "none"
    /\ x.pc \in MatchedPCs => (x.m = c /\ v.state \in ListedStates) \/ (t # Admin /\ a)
    /\ x.pc = "resolve" => \/ x.m = c /\ v.state \in ListedStates
                           \/ x.m = None /\ v.state \in {"unsent", "lost", "refused"}
    /\ r # "none"
    /\ i.status = "new" => ~i.locked /\ v.state = "unsent" /\ i.boid = None
    /\ v.state = "inFlight" => i.locked \/ a
    /\ v.state \in ListedStates => i.locked \/ i.boid = c \/ a
    /\ i.boid \in {None, Manual, c} \/ a
    /\ v.filled > 0 => v.state \in ListedStates

\* The invariant gives it for a thread that works on an order.
LEMMA OrderNow ==
    ASSUME IInv, NEW t \in Threads, th[t].cid \in Cids
    PROVE  OrderOK(t, th[t].cid, th[t], intents[th[t].cid], venue[th[t].cid], rows[th[t].cid],
                   Astray(th[t].cid))
<1> DEFINE c == th[t].cid
<1>1. th[t].pc \notin ParkedPCs /\ th[t].pc \in RolePCs(t)
  BY IntentAssumption DEF IInv, Roles
<1>2. /\ th[t].pc \in WorkPCs => IF t = Admin THEN intents[c].status # "new"
                                             ELSE intents[c].locked
      /\ th[t].pc \in {"check", "create"} => intents[c].status = "new"
      /\ th[t].pc \in {"send", "post"} => venue[c].state = "unsent"
      /\ th[t].pc \in {"cas", "override", "resolve"} => th[t].final # "new"
      /\ th[t].pc \in ResultPCs /\ t # Admin => th[t].res # "none"
  BY DEF IInv, Held
<1>3. /\ th[t].pc \in MatchedPCs => \/ th[t].m = c /\ venue[c].state \in ListedStates
                                    \/ t # Admin /\ Astray(c)
      /\ th[t].pc = "resolve" => \/ th[t].m = c /\ venue[c].state \in ListedStates
                                 \/ /\ th[t].m = None
                                    /\ venue[c].state \in {"unsent", "lost", "refused"}
  BY DEF IInv, OwnMatch, Listed
<1>4. /\ rows[c] # "none"
      /\ intents[c].status = "new" => /\ ~intents[c].locked
                                      /\ venue[c].state = "unsent"
                                      /\ intents[c].boid = None
  BY DEF IInv, Fresh
<1>5. /\ venue[c].state = "inFlight" => intents[c].locked \/ Astray(c)
      /\ venue[c].state \in ListedStates => intents[c].locked \/ intents[c].boid = c \/ Astray(c)
      /\ intents[c].boid \in {None, Manual, c} \/ Astray(c)
      /\ venue[c].filled > 0 => venue[c].state \in ListedStates
  BY DEF IInv, Sight, Listed
<1> QED BY <1>1, <1>2, <1>3, <1>4, <1>5 DEF OrderOK, ParkedPCs

\* Orders stay unnamed.
AstrayNext(c) == \E v \in unnamed' : SameShape(v, c)
LEMMA AstrayStays ==
    ASSUME unnamed \subseteq unnamed', NEW c
    PROVE  Astray(c) => AstrayNext(c)
BY DEF Astray, AstrayNext

\* A step of one thread on its own order preserves the invariant if it leaves that
\* order in order; it may cancel another one, which stays in the history.
LEMMA WorkerStep ==
    ASSUME TInv, IInv, NEW t \in Threads, NEW c \in Cids, th[t].cid = c,
           \A u \in Threads \ {t} : th'[u] = th[u],
           \A d \in Cids \ {c} :
              /\ intents'[d] = intents[d] /\ rows'[d] = rows[d]
              /\ venue'[d].filled = venue[d].filled
              /\ \/ venue'[d].state = venue[d].state
                 \/ venue[d].state \in ListedStates /\ venue'[d].state \in ListedStates,
           replay' = replay, unnamed \subseteq unnamed',
           OrderOK(t, c, th'[t], intents'[c], venue'[c], rows'[c], AstrayNext(c))
    PROVE  IInv'
<1> USE IntentAssumption, BrokerAssumption
<1> DEFINE x == th'[t]
<1>0. c # None /\ Replayer \in Threads
  BY DEF Threads
<1>a. \A d \in Cids \ {c} :
        /\ venue'[d].state = "unsent" <=> venue[d].state = "unsent"
        /\ venue'[d].state = "inFlight" <=> venue[d].state = "inFlight"
        /\ venue'[d].state \in {"unsent", "lost", "refused"}
             <=> venue[d].state \in {"unsent", "lost", "refused"}
        /\ venue'[d].state \in ListedStates <=> venue[d].state \in ListedStates
  BY DEF ListedStates, OpenStates
<1>b. \A d : Astray(d) => AstrayNext(d)
  BY AstrayStays
<1>1. /\ x.pc \in RolePCs(t) /\ x.pc # "start"
      /\ x.pc \in ParkedPCs <=> x.cid = None
      /\ x.cid \in {c, None}
  BY <1>0 DEF OrderOK
<1>2. \A u \in Threads \ {t} : th[u].cid # c
  BY <1>0 DEF IInv, OneWorker
<1>3. c \notin replay
  BY DEF IInv, OneWorker
<1>4. Roles'
  BY <1>1 DEF IInv, Roles
<1>5. OneWorker'
  <2>1. th[Replayer].pc # "start"
    BY <1>0 DEF IInv, OneWorker
  <2>2. \A u, w \in Threads : u # w /\ th'[u].cid # None => th'[u].cid # th'[w].cid
    <3>1. \A u, w \in Threads \ {t} : u # w /\ th[u].cid # None => th[u].cid # th[w].cid
      BY DEF IInv, OneWorker
    <3>2. \A u \in Threads \ {t} : x.cid # None => x.cid # th[u].cid
      BY <1>1, <1>2
    <3> QED BY <3>1, <3>2
  <2>3. \A d \in replay' : \A u \in Threads : th'[u].cid # d
    BY <1>0, <1>1, <1>3 DEF IInv, OneWorker, TInv, TypeOK
  <2>4. th'[Replayer].pc # "start"
    BY <1>0, <1>1, <2>1
  <2> QED BY <2>2, <2>3, <2>4 DEF OneWorker
<1>6. Held'
  <2>1. \A u \in Threads \ {t} : th[u].pc \in WorkPCs \cup {"check", "create"} =>
           th[u].cid \in Cids \ {c}
    BY <1>2 DEF TInv, Prepared, ParkedPCs, WorkPCs
  <2>2. \A u \in Threads \ {t} :
         /\ th'[u].pc \in WorkPCs => IF u = Admin THEN intents'[th'[u].cid].status # "new"
                                                ELSE intents'[th'[u].cid].locked
         /\ th'[u].pc \in {"check", "create"} => intents'[th'[u].cid].status = "new"
         /\ th'[u].pc \in {"send", "post"} => venue'[th'[u].cid].state = "unsent"
         /\ th'[u].pc \in {"cas", "override", "resolve"} => th'[u].final # "new"
         /\ th'[u].pc \in ResultPCs /\ u # Admin => th'[u].res # "none"
    BY <2>1, <1>a DEF IInv, Held, WorkPCs
  <2>3. /\ x.pc \in WorkPCs => IF t = Admin THEN intents'[x.cid].status # "new"
                                          ELSE intents'[x.cid].locked
        /\ x.pc \in {"check", "create"} => intents'[x.cid].status = "new"
        /\ x.pc \in {"send", "post"} => venue'[x.cid].state = "unsent"
        /\ x.pc \in {"cas", "override", "resolve"} => x.final # "new"
        /\ x.pc \in ResultPCs /\ t # Admin => x.res # "none"
    BY DEF OrderOK, WorkPCs, ParkedPCs
  <2>4. \A d \in replay' : intents'[d].locked
    BY <1>3 DEF TInv, TypeOK, IInv, Held
  <2> QED BY <2>2, <2>3, <2>4 DEF Held
<1>7. Fresh'
  <2>1. rows'[c] # "none"
    BY DEF OrderOK
  <2>2. \A d \in Cids \ {c} : x.cid # d
    BY <1>0, <1>1
  <2>3. intents'[c].status = "new" => /\ ~intents'[c].locked
                                      /\ venue'[c].state = "unsent"
                                      /\ intents'[c].boid = None
    BY DEF OrderOK
  <2> QED BY <2>1, <2>2, <2>3, <1>a DEF IInv, Fresh
<1>8. OwnMatch'
  <2>1. \A u \in Threads \ {t} : th[u].pc \in MatchedPCs \cup {"resolve"} =>
           th[u].cid \in Cids \ {c}
    BY <1>2 DEF TInv, Prepared, ParkedPCs, MatchedPCs
  <2>2. \A u \in Threads \ {t} :
         /\ th'[u].pc \in MatchedPCs =>
              \/ th'[u].m = th'[u].cid /\ venue'[th'[u].cid].state \in ListedStates
              \/ u # Admin /\ AstrayNext(th'[u].cid)
         /\ th'[u].pc = "resolve" =>
              \/ th'[u].m = th'[u].cid /\ venue'[th'[u].cid].state \in ListedStates
              \/ th'[u].m = None /\ venue'[th'[u].cid].state \in {"unsent", "lost", "refused"}
    BY <2>1, <1>a, <1>b DEF IInv, OwnMatch, Listed
  <2>3. /\ x.pc \in MatchedPCs => \/ x.m = x.cid /\ venue'[x.cid].state \in ListedStates
                                  \/ t # Admin /\ x.cid = c /\ AstrayNext(c)
        /\ x.pc = "resolve" =>
              \/ x.m = x.cid /\ venue'[x.cid].state \in ListedStates
              \/ x.m = None /\ venue'[x.cid].state \in {"unsent", "lost", "refused"}
    BY DEF OrderOK, MatchedPCs, ParkedPCs
  <2> QED BY <2>2, <2>3 DEF OwnMatch, Listed, Astray, AstrayNext
<1>9. Sight'
  BY <1>a, <1>b DEF OrderOK, IInv, Sight, Listed, Astray, AstrayNext
<1> QED BY <1>4, <1>5, <1>6, <1>7, <1>8, <1>9 DEF IInv

\* What the steps of a thread do to the table of threads.
LEMMA GotoEffect ==
    ASSUME TInv, NEW t \in Threads, NEW pc, Goto(t, pc)
    PROVE  /\ \A u \in Threads \ {t} : th'[u] = th[u]
           /\ th'[t].pc = pc /\ th'[t].cid = th[t].cid /\ th'[t].m = th[t].m
           /\ th'[t].final = th[t].final /\ th'[t].res = th[t].res
BY DEF TInv, TypeOK, ThreadState, Goto

LEMMA FinishEffect ==
    ASSUME TInv, NEW t \in Threads, NEW res, NEW ok, Finish(t, res, ok)
    PROVE  /\ \A u \in Threads \ {t} : th'[u] = th[u]
           /\ t = Replayer => th'[t].pc = "next" /\ th'[t].cid = None
           /\ t # Replayer => /\ th'[t].pc = "return" /\ th'[t].cid = th[t].cid
                               /\ th'[t].res = res
BY DEF TInv, TypeOK, ThreadState, Finish, Parked

\* A thread that is not the replay and not the administrator may be anywhere in
\* place_order or in reconciliation.
LEMMA RoleFacts ==
    ASSUME NEW t \in Threads
    PROVE  /\ t = Replayer => RolePCs(t) = {"start", "next", "done", "fetch"} \cup MatchedPCs
           /\ t = Admin => RolePCs(t) = {"idle", "account", "write", "resolve"}
           /\ t \notin {Replayer, Admin} => RolePCs(t) = PCs \ {"start", "next", "done", "resolve"}
BY BrokerAssumption DEF RolePCs

\* place_order by one thread.
LEMMA PlaceIInv ==
    ASSUME TInv, IInv, NEW t \in Threads, PlaceStep(t), ~KeepBooks(t)
    PROVE  IInv'
<1> USE IntentAssumption, BrokerAssumption
<1> DEFINE c == th[t].cid
           Others == \A u \in Threads \ {t} : th'[u] = th[u]
           OK == OrderOK(t, c, th'[t], intents'[c], venue'[c], rows'[c], AstrayNext(c))
<1>0. c \in Cids
  BY DEF TInv, Prepared, ParkedPCs, At, PlaceStep, CheckUnresolved, CreateIntent, MarkSent,
     Post, Answer, AnswerLost, MarkUnknown, Return
<1>1. OrderOK(t, c, th[t], intents[c], venue[c], rows[c], Astray(c))
  BY <1>0, OrderNow
<1>2. IntentsTypeOK /\ th \in [Threads -> ThreadState] /\ DOMAIN venue = Cids /\ DOMAIN rows = Cids
  BY DEF TInv, TypeOK
<1>u. unnamed \subseteq unnamed' /\ (Astray(c) => AstrayNext(c))
  <2>1. unnamed \subseteq unnamed'
    BY DEF PlaceStep, CheckUnresolved, CreateIntent, MarkSent, Post, Answer, AnswerLost,
       MarkUnknown, Return
  <2> QED BY <2>1, AstrayStays
<1>3. /\ RolePCs(t) = PCs \ {"start", "next", "done", "resolve"}
      /\ t # Replayer /\ t # Admin
  <2>1. th[t].pc \in {"check", "create", "send", "post", "await", "failed", "return"}
          \/ (th[t].pc = "idle")
    BY DEF PlaceStep, At, CheckUnresolved, CreateIntent, MarkSent, Post, Answer,
       AnswerLost, MarkUnknown, Return
  <2>2. th[t].pc \in {"check", "create", "send", "post", "await", "failed", "return"}
    BY <1>0, <1>1, <2>1 DEF OrderOK, ParkedPCs
  <2> QED BY <2>2, <1>1, RoleFacts DEF OrderOK, MatchedPCs
<1>4. ASSUME NEW pc, Goto(t, pc)
      PROVE  Others /\ th'[t].pc = pc /\ th'[t].cid = c /\ th'[t].m = th[t].m
               /\ th'[t].final = th[t].final /\ th'[t].res = th[t].res
  BY <1>4, GotoEffect
<1>5. ASSUME NEW res, NEW ok, Finish(t, res, ok)
      PROVE  Others /\ th'[t].pc = "return" /\ th'[t].cid = c /\ th'[t].res = res
  BY <1>5, <1>3, FinishEffect
<1>6. ASSUME NEW ok, Finish(t, "raise", ok), intents' = intents, rows' = rows, venue' = venue
      PROVE  OK
  BY <1>0, <1>1, <1>u, <1>3, <1>5, <1>6 DEF OrderOK, PCs, ParkedPCs, WorkPCs, MatchedPCs, ResultPCs
<1>7. ASSUME Others, OK, replay' = replay,
             \A d \in Cids \ {c} : intents'[d] = intents[d] /\ venue'[d] = venue[d]
                                     /\ rows'[d] = rows[d]
      PROVE  IInv'
  BY <1>0, <1>u, <1>7, WorkerStep
<1> HIDE DEF c, OK
<1>a. CASE CheckUnresolved(t)
  <2>1. CASE Raise(t)
    BY <1>a, <2>1, <1>5, <1>6, <1>7 DEF CheckUnresolved, Raise
  <2>2. CASE Goto(t, "create")
    <3>1. OK
      BY <1>a, <2>2, <1>0, <1>1, <1>u, <1>3, <1>4
      DEF CheckUnresolved, At, OrderOK, PCs, ParkedPCs, WorkPCs, MatchedPCs, ResultPCs, OK
    <3> QED BY <1>a, <2>2, <3>1, <1>4, <1>7 DEF CheckUnresolved
  <2> QED BY <1>a, <2>1, <2>2 DEF CheckUnresolved
<1>b. CASE CreateIntent(t)
  <2>1. CASE Raise(t) /\ UNCHANGED intents
    BY <1>b, <2>1, <1>5, <1>6, <1>7 DEF CreateIntent, Raise
  <2>2. CASE Create(c) /\ Goto(t, "send")
    <3>1. /\ intents'[c].status = "pending" /\ intents'[c].locked /\ intents'[c].boid = None
          /\ \A d \in Cids \ {c} : intents'[d] = intents[d]
      BY <2>2, <1>0, <1>2 DEF Create, IntentsTypeOK
    <3>2. th[t].pc = "create"
      BY <1>b DEF CreateIntent, At
    <3>3. OK
      BY <1>b, <2>2, <3>1, <3>2, <1>0, <1>1, <1>u, <1>3, <1>4
      DEF CreateIntent, OrderOK, PCs, ParkedPCs, WorkPCs, MatchedPCs, ResultPCs, OK, ListedStates, OpenStates
    <3> QED BY <1>b, <2>2, <3>1, <3>3, <1>4, <1>7 DEF CreateIntent
  <2> QED BY <1>b, <2>1, <2>2 DEF CreateIntent, c
<1>c. CASE MarkSent(t) \/ MarkUnknown(t)
  <2>1. PICK s \in {"sent", "unknown"} : Update(c, s, None, FALSE)
    BY <1>c DEF MarkSent, MarkUnknown, c
  <2>2. /\ \A d \in Cids \ {c} : intents'[d] = intents[d]
        /\ intents'[c].status = s /\ intents'[c].boid = intents[c].boid
        /\ intents'[c].locked <=> intents[c].locked
    BY <2>1, <1>0, <1>2, UpdateEffect
  <2>3. th[t].pc \in {"send", "failed"}
    BY <1>c DEF MarkSent, MarkUnknown, At
  <2>4. PICK pc \in {"post", "fetch"} : Goto(t, pc) /\ (pc = "post" => th[t].pc = "send")
    BY <1>c DEF MarkSent, MarkUnknown, At
  <2>6. rows' = rows /\ venue' = venue /\ replay' = replay
    BY <1>c DEF MarkSent, MarkUnknown
  <2>5. OK
    BY <2>2, <2>3, <2>4, <2>6, <1>0, <1>1, <1>u, <1>3, <1>4
    DEF OrderOK, PCs, ParkedPCs, WorkPCs, MatchedPCs, ResultPCs, OK
  <2> QED BY <2>2, <2>4, <2>5, <2>6, <1>4, <1>7
<1>d. CASE Post(t)
  <2>0. th[t].pc = "post" /\ intents' = intents /\ rows' = rows /\ replay' = replay
    BY <1>d DEF Post, At
  <2>1. CASE Raise(t) /\ UNCHANGED venue
    BY <2>0, <2>1, <1>5, <1>6, <1>7 DEF Raise
  <2>2. CASE Goto(t, "failed") /\ UNCHANGED venue
    <3>1. OK
      BY <2>0, <2>2, <1>0, <1>1, <1>u, <1>3, <1>4
      DEF OrderOK, PCs, ParkedPCs, WorkPCs, MatchedPCs, ResultPCs, OK
    <3> QED BY <2>0, <2>2, <3>1, <1>4, <1>7
  <2>3. CASE venue' = [venue EXCEPT ![c].state = "inFlight"] /\ Goto(t, "await")
    <3>1. venue[c] \in [state : VenueStates, filled : 0..Qty]
      BY <1>0 DEF TInv, TypeOK
    <3>2. venue'[c].state = "inFlight" /\ venue'[c].filled = venue[c].filled
      BY <2>3, <3>1, <1>0, <1>2
    <3>3. \A d \in Cids \ {c} : venue'[d] = venue[d]
      BY <2>3, <1>2
    <3>4. venue[c].filled = 0 /\ intents[c].locked
      BY <2>0, <3>1, <1>1, <1>3 DEF OrderOK, ListedStates, OpenStates, WorkPCs
    <3>5. OK
      BY <2>0, <2>3, <3>2, <3>4, <1>0, <1>1, <1>u, <1>3, <1>4
      DEF OrderOK, PCs, ParkedPCs, WorkPCs, MatchedPCs, ResultPCs, OK, ListedStates, OpenStates
    <3> QED BY <2>0, <2>3, <3>3, <3>5, <1>4, <1>7
  <2> QED BY <1>d, <2>1, <2>2, <2>3 DEF Post, c
<1>e. CASE Answer(t)
  <2> DEFINE state == venue[c].state
             s == IF state \notin {"refused", "REJECTED"} THEN "ack" ELSE "rejected"
  <2>1. /\ state \in ListedStates \cup {"refused"}
        /\ rows' = rows /\ venue' = venue /\ replay' = replay
    BY <1>e DEF Answer, c
  <2>2. s \in {"ack", "rejected"} /\ ReleasedBy(s) \in BOOLEAN
    BY DEF ReleasedBy
  <2>3. PICK b \in {c, None} : /\ Update(c, s, b, ReleasedBy(s))
                              /\ (b = c => Listed(c))
                              /\ (b = None => unnamed' = unnamed \cup {v \in {c} : Listed(v)})
    BY <1>e, <1>0 DEF Answer, c
  <2>4. /\ \A d \in Cids \ {c} : intents'[d] = intents[d]
        /\ intents'[c].status = s
        /\ b = None => intents'[c].boid = intents[c].boid
        /\ b = c => intents'[c].boid = c
    <3> HIDE DEF s
    <3> QED BY <2>2, <2>3, <1>0, <1>2, UpdateEffect
  <2>5. b = None /\ state \in ListedStates => AstrayNext(c)
    <3> SUFFICES ASSUME b = None, state \in ListedStates PROVE AstrayNext(c)
      OBVIOUS
    <3>1. c \in unnamed'
      BY <2>3 DEF Listed
    <3> QED BY <3>1, <1>0 DEF AstrayNext, SameShape
  <2>6. Others /\ th'[t].pc = "return" /\ th'[t].cid = c /\ th'[t].res # "none"
    <3>1. \E res \in ListedStates \cup {"unmapped"}, ok \in BOOLEAN : Finish(t, res, ok)
      <4>1. (state \notin {"refused", "REJECTED"}) \in BOOLEAN
        OBVIOUS
      <4>2. (IF state = "refused" THEN "REJECTED" ELSE state) \in ListedStates
        BY <2>1 DEF ListedStates
      <4> QED BY <1>e, <4>1, <4>2, Zenon DEF Answer, c
    <3> QED BY <3>1, <1>5 DEF ListedStates, OpenStates
  <2>7. OK
    BY <2>1, <2>2, <2>3, <2>4, <2>5, <2>6, <1>0, <1>1, <1>u, <1>3
    DEF OrderOK, PCs, ParkedPCs, WorkPCs, MatchedPCs, ResultPCs, OK, ListedStates, OpenStates
  <2> QED BY <2>1, <2>4, <2>6, <2>7, <1>7
<1>f. CASE AnswerLost(t)
  <2>0. th[t].pc = "await" /\ UNCHANGED <<intents, venue, rows, replay>>
    BY <1>f DEF AnswerLost, At
  <2>1. CASE Raise(t)
    BY <2>0, <2>1, <1>5, <1>6, <1>7 DEF Raise
  <2>2. CASE Goto(t, "failed")
    <3>1. OK
      BY <2>0, <2>2, <1>0, <1>1, <1>u, <1>3, <1>4
      DEF OrderOK, PCs, ParkedPCs, WorkPCs, MatchedPCs, ResultPCs, OK
    <3> QED BY <2>0, <2>2, <3>1, <1>4, <1>7
  <2> QED BY <1>f, <2>1, <2>2 DEF AnswerLost
<1>g. CASE Return(t)
  <2>0. /\ UNCHANGED <<intents, venue, replay>>
        /\ \/ th' = [th EXCEPT ![t] = Parked("idle")]
           \/ th' = [th EXCEPT ![t] = [Parked("keep") EXCEPT !.m = c]]
    BY <1>g DEF Return, c
  <2>1. Others /\ th'[t].pc \in {"idle", "keep"} /\ th'[t].cid = None
    BY <2>0, <1>2 DEF Parked
  <2>2. \A d \in Cids \ {c} : rows'[d] = rows[d]
    BY <1>g, <1>2 DEF Return, c
  <2>3. rows'[c] # "none"
    <3>1. rows[c] # "none"
      BY <1>1 DEF OrderOK
    <3>2. th[t].res \in ListedStates \cup {"none", "raise", "unmapped"}
      BY <1>2 DEF ThreadState
    <3>3. th[t].res # "none"
      BY <1>g, <1>1, <1>3 DEF Return, At, OrderOK, ResultPCs
    <3> QED BY <1>g, <3>1, <3>2, <3>3, <1>0, <1>2 DEF Return, c, ListedStates, OpenStates
  <2>4. OK
    BY <2>0, <2>1, <2>3, <1>0, <1>1, <1>u, <1>3
    DEF OrderOK, PCs, ParkedPCs, WorkPCs, MatchedPCs, ResultPCs, OK
  <2> QED BY <2>0, <2>1, <2>2, <2>4, <1>7
<1> QED BY <1>a, <1>b, <1>c, <1>d, <1>e, <1>f, <1>g DEF PlaceStep

\* What the agent does after an order, and a later cycle about a pending exit: no
\* intent is touched and no order is taken up or given back.
LEMMA ParkedIInv ==
    ASSUME TInv, IInv, NEW t \in Submitters, th[t].pc \in ParkedPCs,
           th'[t].pc \in {"idle", "keep"}, th'[t].cid = None,
           \A u \in Threads \ {t} : th'[u] = th[u],
           UNCHANGED <<intents, venue, replay, unnamed>>,
           \A c \in Cids : rows'[c] = "none" => rows[c] = "none"
    PROVE  IInv'
<1> USE IntentAssumption, BrokerAssumption
<1>1. \A u \in Threads : th'[u] = IF u = t THEN th'[t] ELSE th[u]
  OBVIOUS
<1>2. t \in Threads /\ t # Replayer /\ t # Admin
  BY DEF Threads
<1>3. Roles'
  BY <1>1, <1>2, RoleFacts DEF IInv, Roles, PCs, ParkedPCs
<1>4. OneWorker'
  <2>1. \A u \in Threads : th'[u].cid # None => u # t /\ th'[u].cid = th[u].cid
    BY <1>1
  <2>2. \A d \in replay : d # None
    BY DEF TInv, TypeOK
  <2>3. \A u, w \in Threads : u # w /\ th'[u].cid # None => th'[u].cid # th'[w].cid
    BY <2>1, <1>1 DEF IInv, OneWorker
  <2>4. \A d \in replay' : \A u \in Threads : th'[u].cid # d
    BY <2>2, <1>1 DEF IInv, OneWorker
  <2>5. th'[Replayer].pc = "start" => \A u \in Threads : th'[u].cid = None
    BY <1>1, <1>2 DEF IInv, OneWorker, Threads
  <2> QED BY <2>3, <2>4, <2>5 DEF OneWorker
<1>5. Held'
  BY <1>1, <1>2 DEF IInv, Held, WorkPCs, ResultPCs
<1>6. Fresh'
  BY <1>1 DEF IInv, Fresh
<1>7. OwnMatch'
  BY <1>1 DEF IInv, OwnMatch, MatchedPCs, Listed, Astray
<1>8. Sight'
  BY DEF IInv, Sight, Listed, Astray
<1> QED BY <1>3, <1>4, <1>5, <1>6, <1>7, <1>8 DEF IInv

LEMMA KeepIInv ==
    ASSUME TInv, IInv, NEW t \in Threads, KeepBooks(t)
    PROVE  IInv'
<1>1. th[t].pc = "keep" /\ th' = [th EXCEPT ![t] = Parked("idle")]
        /\ UNCHANGED <<intents, venue, replay, unnamed, rows>>
  BY DEF KeepBooks, At
<1>2. t \in Submitters
  BY <1>1, RoleFacts DEF IInv, Roles, MatchedPCs, Threads
<1>3. /\ th'[t].pc = "idle" /\ th'[t].cid = None
      /\ \A u \in Threads \ {t} : th'[u] = th[u]
  BY <1>1 DEF Parked, TInv, TypeOK
<1> QED BY <1>1, <1>2, <1>3, ParkedIInv DEF ParkedPCs

LEMMA PendingExitIInv ==
    ASSUME TInv, IInv, NEW t \in Submitters, NEW c \in Cids, PendingExit(t, c)
    PROVE  IInv'
<1> DEFINE x == IF venue[c].state = "FILLED" THEN [Parked("keep") EXCEPT !.m = c]
                ELSE Parked("idle")
<1>1. th[t].pc = "idle" /\ th' = [th EXCEPT ![t] = x] /\ UNCHANGED <<intents, venue, replay, unnamed>>
  BY DEF PendingExit, At
<1>2. x.pc \in {"idle", "keep"} /\ x.cid = None
  BY DEF Parked
<1>3. venue[c].state # "none"
  BY DEF PendingExit, Listed, ListedStates, OpenStates
<1>4. \A d \in Cids : rows'[d] = "none" => rows[d] = "none"
  BY <1>3 DEF PendingExit, TInv, TypeOK
<1> HIDE DEF x
<1>5. t \in Threads /\ th'[t] = x /\ \A u \in Threads \ {t} : th'[u] = th[u]
  BY <1>1 DEF Threads, TInv, TypeOK
<1> QED BY <1>1, <1>2, <1>4, <1>5, ParkedIInv DEF ParkedPCs

\* The heart of reconciliation: the only history order that can be taken for an
\* intent's order is that order.  Another order of the same shape either belongs to
\* an intent that holds the lock of the same ticker, or is bound to its intent, or
\* one of its kind was left unnamed.
LEMMA MatchIsOwn ==
    ASSUME IInv, LockExclusive, NEW c \in Cids, intents[c].locked,
           NEW m \in Cids, {m} \in Matches(c)
    PROVE  Listed(m) /\ (m = c \/ Astray(c))
<1>1. m \in Candidates(c)
  BY DEF Matches
<1>2. Listed(m) /\ ~BoundToOther(m, c) /\ SameShape(m, c)
  BY <1>1 DEF Candidates
<1>3. intents[m].locked \/ intents[m].boid = m \/ Astray(m)
  BY <1>2 DEF IInv, Sight
<1>4. Astray(m) => Astray(c)
  BY <1>2 DEF Astray, SameShape
<1> QED BY <1>2, <1>3, <1>4 DEF BoundToOther, LockExclusive, SameShape

\* Reconciliation and accounting by one thread.
LEMMA ReconcileIInv ==
    ASSUME TInv, IInv, LockExclusive, NEW t \in Threads, ReconcileStep(t)
    PROVE  IInv'
<1> USE IntentAssumption, BrokerAssumption
<1> DEFINE c == th[t].cid
           Others == \A u \in Threads \ {t} : th'[u] = th[u]
           OK == OrderOK(t, c, th'[t], intents'[c], venue'[c], rows'[c], AstrayNext(c))
<1>0. c \in Cids
  BY DEF TInv, Prepared, ParkedPCs, At, ReconcileStep, FetchHistory, CancelRemainder,
     RereadHistory, RecordFill, WritePosition, SettleIntent, MarkRemainderOpen
<1>1. OrderOK(t, c, th[t], intents[c], venue[c], rows[c], Astray(c))
  BY <1>0, OrderNow
<1>2. IntentsTypeOK /\ th \in [Threads -> ThreadState] /\ DOMAIN venue = Cids /\ DOMAIN rows = Cids
  BY DEF TInv, TypeOK
<1>3. /\ t = Replayer => RolePCs(t) = {"start", "next", "done", "fetch"} \cup MatchedPCs
      /\ t = Admin => RolePCs(t) = {"idle", "account", "write", "resolve"}
      /\ t \notin {Replayer, Admin} => RolePCs(t) = PCs \ {"start", "next", "done", "resolve"}
  BY RoleFacts
<1>u. unnamed' = unnamed /\ (Astray(c) => AstrayNext(c))
  <2>1. unnamed' = unnamed
    BY DEF ReconcileStep, FetchHistory, CancelRemainder, RereadHistory, RecordFill,
       WritePosition, SettleIntent, MarkRemainderOpen
  <2> QED BY <2>1, AstrayStays, SMTT(30)
<1>l. (t # Admin => intents[c].locked) /\ intents[c].status # "new"
  <2>1. th[t].pc \in WorkPCs
    BY DEF ReconcileStep, At, WorkPCs, FetchHistory, CancelRemainder,
       RereadHistory, RecordFill, WritePosition, SettleIntent, MarkRemainderOpen
  <2> QED BY <2>1, <1>1, SMTT(30) DEF OrderOK
<1>4. ASSUME NEW pc, Goto(t, pc)
      PROVE  Others /\ th'[t].pc = pc /\ th'[t].cid = c /\ th'[t].m = th[t].m
               /\ th'[t].final = th[t].final /\ th'[t].res = th[t].res
  BY <1>4, GotoEffect
<1>5. ASSUME NEW res, NEW ok, Finish(t, res, ok), res # "none", th[t].pc \notin {"resolve"},
             t # Admin
      PROVE  /\ Others
             /\ th'[t].pc \in RolePCs(t) \ {"start"}
             /\ th'[t].pc \in {"next", "return"}
             /\ th'[t].pc = "next" => th'[t].cid = None
             /\ th'[t].pc = "return" => th'[t].cid = c /\ th'[t].res # "none"
  BY <1>3, <1>5, FinishEffect DEF PCs
<1>7. ASSUME Others, OK, replay' = replay,
             \A d \in Cids \ {c} : intents'[d] = intents[d] /\ venue'[d] = venue[d]
                                     /\ rows'[d] = rows[d]
      PROVE  IInv'
  BY <1>0, <1>u, <1>7, WorkerStep
<1> HIDE DEF c, OK
\* The steps that end the reconciliation write the intent.
<1>8. ASSUME NEW s \in Statuses \ {"new"}, NEW b \in Cids \cup {None}, NEW r \in BOOLEAN,
             Update(c, s, b, r), b \in {None, c} \/ Astray(c),
             r => (b = c /\ Listed(c)) \/ Astray(c),
             NEW res, NEW ok, Finish(t, res, ok), res # "none",
             th[t].pc # "resolve", t # Admin, UNCHANGED <<rows, venue, replay>>
      PROVE  IInv'
  <2>1. /\ \A d \in Cids \ {c} : intents'[d] = intents[d]
        /\ intents'[c].status = s
        /\ intents'[c].locked <=> intents[c].locked /\ ~r
        /\ b = None => intents'[c].boid = intents[c].boid
        /\ b # None => intents'[c].boid = b
    BY <1>0, <1>2, <1>8, UpdateEffect
  <2>2. OK
    BY <2>1, <1>0, <1>1, <1>u, <1>5, <1>8, <1>l
    DEF OrderOK, OK, ParkedPCs, WorkPCs, MatchedPCs, ResultPCs, Listed, ListedStates, OpenStates
  <2> QED BY <2>1, <2>2, <1>5, <1>7, <1>8
<1>9. ASSUME KeepUnknown(t), th[t].pc # "resolve", t # Admin, UNCHANGED <<rows, venue, replay>>
      PROVE  IInv'
  BY <1>8, <1>9 DEF KeepUnknown, Raise, Statuses, c
<1>10. ASSUME NEW m \in Cids, Dead(m), SettleDead(t, m), m = c \/ Astray(c), th[t].pc # "resolve", t # Admin,
              UNCHANGED <<rows, venue, replay>>
       PROVE  IInv'
  <2>1. venue[m].state # "none" /\ Listed(m)
    BY <1>10 DEF Dead, Listed, ListedStates
  <2>2. Update(c, "rejected", m, TRUE) /\ Finish(t, venue[m].state, FALSE)
    BY <1>10 DEF SettleDead, c
  <2>3. "rejected" \in Statuses \ {"new"} /\ TRUE \in BOOLEAN
    BY DEF Statuses
  <2> QED BY <2>1, <2>2, <2>3, <1>8, <1>10
<1>a. CASE FetchHistory(t)
  <2>1. th[t].pc = "fetch" /\ t # Admin /\ UNCHANGED <<rows, venue, replay>>
    BY <1>a, <1>1, <1>3 DEF FetchHistory, At, OrderOK
  <2>2. CASE KeepUnknown(t)
    BY <2>1, <2>2, <1>9
  <2>3. ASSUME NEW m \in Cids, {m} \in Matches(c), Dead(m), SettleDead(t, m) PROVE IInv'
    BY <2>1, <2>3, <1>0, <1>l, <1>10, MatchIsOwn
  <2>4. ASSUME NEW m \in Cids, {m} \in Matches(c), NEW pc \in {"cancel", "account"},
               UNCHANGED intents, NEW label \in Labels(m),
               th' = [th EXCEPT ![t].pc = pc, ![t].m = m,
                                ![t].seen = venue[m].filled,
                                ![t].qty = venue[m].filled,
                                ![t].res = label]
        PROVE IInv'
    <3>1. Listed(m) /\ (m = c \/ Astray(c))
      BY <2>1, <2>4, <1>0, <1>l, MatchIsOwn
    <3>4. label # "none"
      BY <2>4, <3>1 DEF Labels, Listed, ListedStates, OpenStates
    <3>2. Others /\ th'[t].pc = pc /\ th'[t].cid = c /\ th'[t].m = m
            /\ th'[t].res = label
      BY <2>4, <3>1, <1>2 DEF ThreadState, c
    <3>3. OK
      BY <2>1, <2>4, <3>1, <3>2, <3>4, <1>0, <1>1, <1>u, <1>3, <1>l
      DEF OrderOK, OK, PCs, ParkedPCs, WorkPCs, MatchedPCs, ResultPCs, Listed, ListedStates,
          OpenStates
    <3> QED BY <2>1, <2>4, <3>2, <3>3, <1>7
  <2> QED BY <1>a, <2>2, <2>3, <2>4 DEF FetchHistory, c
<1>b. CASE CancelRemainder(t)
  <2> DEFINE m == th[t].m
  <2>1. /\ th[t].pc = "cancel" /\ m \in Cids /\ Goto(t, "reread") /\ t # Admin
        /\ (m = c /\ Listed(c)) \/ Astray(c)
        /\ UNCHANGED <<intents, rows, replay>>
    BY <1>b, <1>1, <1>3 DEF CancelRemainder, At, OrderOK, MatchedPCs, Listed, TInv, Prepared
  <2>2. \A d \in Cids : /\ venue'[d].filled = venue[d].filled
                        /\ \/ venue'[d].state = venue[d].state
                           \/ venue[d].state \in ListedStates /\ venue'[d].state \in ListedStates
    <3>1. venue \in [Cids -> [state : VenueStates, filled : 0..Qty]]
      BY DEF TInv, TypeOK
    <3>2. CASE Open(m) /\ venue' = [venue EXCEPT ![m].state = "CANCELLED"]
      BY <2>1, <3>1, <3>2 DEF Open, ListedStates, OpenStates
    <3> QED BY <1>b, <3>2 DEF CancelRemainder
  <2>3. OK
    BY <2>1, <2>2, <1>0, <1>1, <1>u, <1>3, <1>4, <1>l
    DEF OrderOK, OK, PCs, ParkedPCs, WorkPCs, MatchedPCs, ResultPCs, Listed, ListedStates, OpenStates
  <2> HIDE DEF OK
  <2>4. Others
    BY <2>1, <1>4
  <2>5. \A d \in Cids \ {c} : intents'[d] = intents[d] /\ rows'[d] = rows[d]
    BY <2>1
  <2> QED BY <2>1, <2>2, <2>3, <2>4, <2>5, <1>0, <1>u, WorkerStep DEF OK, c
<1>c. CASE RereadHistory(t)
  <2>1. /\ th[t].pc = "reread" /\ t # Admin /\ th[t].m \in Cids
        /\ (th[t].m = c /\ Listed(c)) \/ Astray(c)
        /\ UNCHANGED <<rows, venue, replay>>
    BY <1>c, <1>1, <1>3 DEF RereadHistory, At, OrderOK, MatchedPCs, Listed, TInv, Prepared
  <2>2. CASE KeepUnknown(t)
    BY <2>1, <2>2, <1>9
  <2>3. CASE Dead(th[t].m) /\ SettleDead(t, th[t].m)
    BY <2>1, <2>3, <1>10
  <2>4. ASSUME Listed(th[t].m), UNCHANGED intents, NEW label \in Labels(th[t].m),
               th' = [th EXCEPT ![t].pc = "account", ![t].qty = venue[th[t].m].filled,
                                ![t].res = label]
        PROVE IInv'
    <3>1. label # "none"
      BY <2>4 DEF Labels, Listed, ListedStates, OpenStates
    <3>2. Others /\ th'[t].pc = "account" /\ th'[t].cid = c /\ th'[t].m = th[t].m
            /\ th'[t].res = label
      BY <2>4, <2>1, <1>2 DEF ThreadState, c
    <3>3. OK
      BY <2>1, <2>4, <3>1, <3>2, <1>0, <1>1, <1>u, <1>3, <1>l
      DEF OrderOK, OK, PCs, ParkedPCs, WorkPCs, MatchedPCs, ResultPCs, Listed, ListedStates,
          OpenStates
    <3> QED BY <2>1, <2>4, <3>2, <3>3, <1>7
  <2> QED BY <1>c, <2>2, <2>3, <2>4 DEF RereadHistory
<1>A. ASSUME NEW final \in {"ack", "ack_unaccounted"}, Accounted(t, final),
             th[t].pc \in {"account", "write"}, UNCHANGED <<intents, venue, replay>>,
             \A d \in Cids \ {c} : rows'[d] = rows[d], rows'[c] # "none"
      PROVE  IInv'
  <2>1. /\ Others
        /\ th'[t].pc = IF t = Admin THEN "resolve" ELSE "cas"
        /\ th'[t].cid = c /\ th'[t].m = th[t].m /\ th'[t].final = final
        /\ th'[t].res = th[t].res
    BY <1>A, <1>2 DEF Accounted, ThreadState, c
  <2>2. OK
    BY <1>A, <2>1, <1>0, <1>1, <1>u, <1>3, <1>l
    DEF OrderOK, OK, PCs, ParkedPCs, WorkPCs, MatchedPCs, ResultPCs
  <2> QED BY <1>A, <2>1, <2>2, <1>7
<1>d. CASE RecordFill(t)
  <2>1. th[t].pc = "account" /\ UNCHANGED <<intents, venue, replay>>
    BY <1>d DEF RecordFill, At
  <2>2. \A d \in Cids \ {c} : rows'[d] = rows[d]
    BY <1>d, <1>2 DEF RecordFill, c
  <2>3. rows'[c] # "none"
    <3>1. (IF t = Admin THEN "FILLED" ELSE th[t].res) # "none"
      BY <2>1, <1>1 DEF OrderOK, ResultPCs
    <3>2. rows[c] # "none"
      BY <1>1 DEF OrderOK
    <3> QED BY <1>d, <3>1, <3>2, <1>0, <1>2 DEF RecordFill, c
  <2>4. CASE \E final \in {"ack", "ack_unaccounted"} : Accounted(t, final)
    BY <2>1, <2>2, <2>3, <2>4, <1>A
  <2>5. ASSUME NEW p, NEW blind,
               th' = [th EXCEPT ![t].pc = "write", ![t].pos = p, ![t].blind = blind]
        PROVE  IInv'
    <3>1. Others /\ th'[t].pc = "write" /\ th'[t].cid = c /\ th'[t].m = th[t].m
            /\ th'[t].res = th[t].res
      BY <2>5, <1>2 DEF ThreadState, c
    <3>2. OK
      BY <2>1, <2>3, <3>1, <1>0, <1>1, <1>u, <1>3, <1>l
      DEF OrderOK, OK, PCs, ParkedPCs, WorkPCs, MatchedPCs, ResultPCs
    <3> QED BY <2>1, <2>2, <3>1, <3>2, <1>7
  <2> QED BY <1>d, <2>4, <2>5 DEF RecordFill
<1>e. CASE WritePosition(t)
  <2>1. rows[c] # "none"
    BY <1>1 DEF OrderOK
  <2>2. \E final \in {"ack", "ack_unaccounted"} : Accounted(t, final)
    BY <1>e DEF WritePosition
  <2>3. th[t].pc = "write" /\ UNCHANGED <<intents, venue, replay, rows>>
    BY <1>e DEF WritePosition, At
  <2> QED BY <2>1, <2>2, <2>3, <1>A
<1>f. CASE SettleIntent(t)
  <2> DEFINE s == th[t].final
  <2>1. /\ th[t].pc = "cas" /\ t # Admin /\ s # "new" /\ th[t].res # "none"
        /\ th[t].m = c \/ Astray(c)
        /\ UNCHANGED <<rows, venue, replay>>
    BY <1>f, <1>1, <1>3 DEF SettleIntent, At, OrderOK, MatchedPCs, ResultPCs
  <2>2. s \in Statuses /\ th[t].m \in Cids \cup {None}
    BY <1>2 DEF ThreadState
  <2>3. \/ Update(c, s, th[t].m, FALSE)
        \/ UNCHANGED intents
    BY <1>f, <2>1 DEF SettleIntent, UpdateConditional, c
  <2>4. CASE Finish(t, th[t].res, TRUE)
    <3>1. CASE Update(c, s, th[t].m, FALSE)
      <4>1. FALSE \in BOOLEAN /\ TRUE \in BOOLEAN
        OBVIOUS
      <4> HIDE DEF s
      <4> QED BY <2>1, <2>2, <2>4, <3>1, <4>1, <1>8
    <3>2. CASE UNCHANGED intents
      <4>1. OK
        BY <2>1, <2>4, <3>2, <1>0, <1>1, <1>u, <1>5, <1>l
        DEF OrderOK, OK, ParkedPCs, WorkPCs, MatchedPCs, ResultPCs
      <4> QED BY <2>1, <2>4, <3>2, <4>1, <1>5, <1>7
    <3> QED BY <2>3, <3>1, <3>2
  <2>5. CASE Goto(t, "override")
    <3>1. /\ \A d \in Cids \ {c} : intents'[d] = intents[d]
          /\ intents'[c].status # "new" /\ (intents'[c].locked <=> intents[c].locked)
          /\ intents'[c].boid \in {intents[c].boid, c} \/ Astray(c)
      BY <2>1, <2>3, <1>0, <1>2, <1>l, UpdateEffect, ZenonT(60)
    <3>2. OK
      BY <2>1, <2>5, <3>1, <1>0, <1>1, <1>u, <1>3, <1>4, <1>l
      DEF OrderOK, OK, PCs, ParkedPCs, WorkPCs, MatchedPCs, ResultPCs
    <3> QED BY <2>1, <2>5, <3>1, <3>2, <1>4, <1>7
  <2> QED BY <1>f, <2>4, <2>5 DEF SettleIntent
<1>g. CASE MarkRemainderOpen(t)
  <2>1. th[t].pc = "override" /\ t # Admin /\ th[t].res # "none" /\ UNCHANGED <<rows, venue, replay>>
    BY <1>g, <1>1, <1>3 DEF MarkRemainderOpen, At, OrderOK, MatchedPCs, ResultPCs
  <2>2. Update(c, "ack_unaccounted", None, FALSE) /\ Finish(t, th[t].res, TRUE)
    BY <1>g DEF MarkRemainderOpen, c
  <2>3. "ack_unaccounted" \in Statuses \ {"new"} /\ FALSE \in BOOLEAN
    BY DEF Statuses
  <2> QED BY <2>1, <2>2, <2>3, <1>8
<1> QED BY <1>a, <1>b, <1>c, <1>d, <1>e, <1>f, <1>g, SMTT(30) DEF ReconcileStep

\* The broker decides, fills or cancels at any time.
LEMMA VenueIInv ==
    ASSUME TInv, IInv, NEW v \in Cids, VenueStep(v)
    PROVE  IInv'
<1>1. UNCHANGED <<intents, rows, th, replay, unnamed>>
  BY DEF VenueStep, VenueDecides, VenueFills, VenueCancels
<1>2. \A d \in Cids \ {v} : venue'[d] = venue[d]
  BY DEF TInv, TypeOK, VenueStep, VenueDecides, VenueFills, VenueCancels
<1>3. venue[v] \in [state : VenueStates, filled : 0..Qty]
  BY DEF TInv, TypeOK
<1>4. /\ venue[v].state = "inFlight" \/ Open(v)
      /\ venue'[v].state \in ListedStates \cup {"refused", "lost"}
      /\ Open(v) => venue'[v].state \in ListedStates
      /\ venue'[v].filled > 0 => venue'[v].state \in ListedStates
  <2>1. CASE VenueDecides(v)
    <3>1. venue[v].filled = 0
      BY <2>1, <1>3 DEF VenueDecides, IInv, Sight, Listed, ListedStates, OpenStates
    <3> QED BY <2>1, <3>1, <1>3 DEF VenueDecides, TInv, TypeOK, ListedStates, OpenStates, Open
  <2>2. CASE VenueFills(v)
    BY <2>2, <1>3 DEF VenueFills, TInv, TypeOK, ListedStates, OpenStates, Open
  <2>3. CASE VenueCancels(v)
    BY <2>3, <1>3 DEF VenueCancels, TInv, TypeOK, ListedStates, OpenStates, Open
  <2> QED BY <2>1, <2>2, <2>3 DEF VenueStep
<1>5. venue[v].state \notin {"unsent", "lost", "refused"}
  BY <1>4 DEF Open, OpenStates
<1>6. Roles' /\ OneWorker'
  BY <1>1 DEF IInv, Roles, OneWorker
<1>7. Held'
  BY <1>1, <1>2, <1>5 DEF IInv, Held, TInv, Prepared, ParkedPCs
<1>8. Fresh'
  BY <1>1, <1>2, <1>5 DEF IInv, Fresh
<1>9. OwnMatch'
  <2>1. \A c \in Cids : /\ Listed(c) => Listed(c)'
                        /\ venue[c].state \in {"unsent", "lost", "refused"}
                             => venue'[c].state = venue[c].state
    BY <1>2, <1>4, <1>5 DEF Listed, Open, ListedStates, OpenStates
  <2>2. \A t \in Threads : th[t].pc \in MatchedPCs \cup {"resolve"} => th[t].cid \in Cids
    BY DEF TInv, Prepared, ParkedPCs, MatchedPCs
  <2> QED BY <1>1, <2>1, <2>2 DEF IInv, OwnMatch, Astray
<1>10. Sight'
  <2>1. intents[v].locked \/ intents[v].boid = v \/ Astray(v)
    BY <1>4 DEF IInv, Sight, Listed, Open, ListedStates
  <2>2. \A c \in Cids : Astray(c) => AstrayNext(c)
    BY <1>1, AstrayStays
  <2>3. \A c \in Cids :
          /\ venue'[c].state = "inFlight" => intents[c].locked \/ AstrayNext(c)
          /\ Listed(c)' => intents[c].locked \/ intents[c].boid = c \/ AstrayNext(c)
          /\ intents[c].boid \in {None, Manual, c} \/ AstrayNext(c)
          /\ venue'[c].filled > 0 => Listed(c)'
    BY <1>2, <1>4, <2>1, <2>2 DEF IInv, Sight, Listed, ListedStates, OpenStates
  <2> QED BY <1>1, <2>3 DEF Sight, Astray, AstrayNext
<1> QED BY <1>6, <1>7, <1>8, <1>9, <1>10 DEF IInv

\* A thread that has nothing to do takes up an order that is in no hands.
LEMMA TakeUp ==
    ASSUME TInv, IInv, NEW t \in Threads, NEW c \in Cids, th[t].cid = None,
           \A u \in Threads : th[u].cid # c,
           th[Replayer].pc # "start", th'[t].pc # "start",
           c \notin replay', replay' \subseteq replay,
           \A u \in Threads \ {t} : th'[u] = th[u],
           th'[t].pc \notin ParkedPCs, th'[t].cid = c,
           intents' = intents, venue' = venue, unnamed' = unnamed,
           \A d \in Cids \ {c} : rows'[d] = rows[d],
           OrderOK(t, c, th'[t], intents[c], venue[c], rows'[c], Astray(c))
    PROVE  IInv'
<1> USE IntentAssumption, BrokerAssumption
<1> DEFINE x == th'[t]
<1>0. c # None /\ Replayer \in Threads
  BY DEF Threads
<1>1. Roles'
  BY <1>0 DEF IInv, Roles, OrderOK
<1>2. OneWorker'
  <2>1. \A u, w \in Threads \ {t} : u # w /\ th[u].cid # None => th[u].cid # th[w].cid
    BY DEF IInv, OneWorker
  <2>2. \A u, w \in Threads : u # w /\ th'[u].cid # None => th'[u].cid # th'[w].cid
    BY <2>1, <1>0
  <2>3. \A d \in replay' : \A u \in Threads : th'[u].cid # d
    BY DEF IInv, OneWorker
  <2>4. th'[Replayer].pc # "start"
    BY <1>0
  <2> QED BY <2>2, <2>3, <2>4 DEF OneWorker
<1>3. Held'
  BY DEF IInv, Held, OrderOK
<1>4. Fresh'
  <2>1. rows'[c] # "none"
    BY DEF OrderOK
  <2> QED BY <2>1 DEF IInv, Fresh
<1>5. OwnMatch'
  BY DEF IInv, OwnMatch, OrderOK, Listed, Astray
<1>6. Sight'
  BY DEF IInv, Sight, Listed, Astray
<1> QED BY <1>1, <1>2, <1>3, <1>4, <1>5, <1>6 DEF IInv

\* A new order; the procedure makes it wait for the replay's list.
LEMMA SubmitIInv ==
    ASSUME TInv, IInv, Disciplined, NEW t \in Submitters, NEW c \in Cids, Submit(t, c)
    PROVE  IInv'
<1> USE IntentAssumption, BrokerAssumption
<1>0. t \in Threads /\ t \notin {Replayer, Admin}
  BY DEF Threads
<1>1. /\ th[t].cid = None
      /\ th[Replayer].pc # "start"
      /\ rows[c] = "none"
  BY <1>0 DEF Disciplined, Submit, At, IInv, Roles, ParkedPCs
<1>2. /\ \A u \in Threads : th[u].cid # c
      /\ intents[c].status = "new" /\ ~intents[c].locked
      /\ venue[c].state = "unsent" /\ intents[c].boid = None
  BY <1>1 DEF IInv, Fresh
<1>3. c \notin replay
  BY <1>2 DEF IInv, Held
<1>4. /\ \A u \in Threads \ {t} : th'[u] = th[u]
      /\ th'[t].pc = "check" /\ th'[t].cid = c
  BY <1>0 DEF Submit, TInv, TypeOK, Parked
<1>5. rows'[c] = "CREATED" /\ \A d \in Cids \ {c} : rows'[d] = rows[d]
  BY DEF Submit, TInv, TypeOK
<1>6. venue[c].filled = 0
  <2>1. venue[c].filled \in 0..Qty
    BY DEF TInv, TypeOK
  <2> QED BY <1>2, <2>1 DEF IInv, Sight, Listed, ListedStates, OpenStates
<1>7. OrderOK(t, c, th'[t], intents[c], venue[c], rows'[c], Astray(c))
  BY <1>0, <1>2, <1>4, <1>5, <1>6, RoleFacts
  DEF OrderOK, PCs, ParkedPCs, WorkPCs, MatchedPCs, ResultPCs, ListedStates, OpenStates
<1> QED BY <1>0, <1>1, <1>2, <1>3, <1>4, <1>5, <1>7, TakeUp DEF Submit, ParkedPCs

\* The startup replay.
LEMMA ReplayIInv ==
    ASSUME TInv, IInv, ReplayStep
    PROVE  IInv'
<1> USE IntentAssumption, BrokerAssumption
<1>0. Replayer \in Threads
  BY DEF Threads
<1>1. /\ RolePCs(Replayer) = {"start", "next", "done", "fetch"} \cup MatchedPCs
  BY <1>0, RoleFacts
<1>2. ASSUME NEW pc \in {"next", "done"}, Goto(Replayer, pc),
             th[Replayer].pc \in {"start", "next"},
             UNCHANGED <<intents, rows, venue, unnamed>>,
             \/ replay' = replay
             \/ th[Replayer].pc = "start" /\ \A c \in replay' : c \in Cids /\ intents[c].locked
      PROVE  IInv'
  <2>1. /\ \A u \in Threads \ {Replayer} : th'[u] = th[u]
        /\ th'[Replayer].pc = pc /\ th'[Replayer].cid = th[Replayer].cid
    BY <1>0, <1>2, GotoEffect
  <2>2. th[Replayer].cid = None
    BY <1>0, <1>2 DEF IInv, Roles, ParkedPCs
  <2>3. Roles'
    BY <1>1, <1>2, <2>1, <2>2 DEF IInv, Roles, ParkedPCs
  <2>4. \A u \in Threads : th'[u].cid = th[u].cid
    BY <2>1
  <2>5. \A c \in replay' : \A u \in Threads : th[u].cid # c
    BY <1>2 DEF IInv, OneWorker
  <2>6. OneWorker'
    BY <1>2, <2>1, <2>4, <2>5 DEF IInv, OneWorker
  <2>7. Held'
    BY <1>2, <2>1, <2>4 DEF IInv, Held, WorkPCs, ResultPCs
  <2>8. Fresh' /\ Sight'
    BY <1>2, <2>4 DEF IInv, Fresh, Sight, Listed, Astray
  <2>9. OwnMatch'
    BY <1>2, <2>1 DEF IInv, OwnMatch, MatchedPCs, Listed, Astray
  <2> QED BY <2>3, <2>6, <2>7, <2>8, <2>9 DEF IInv
<1>3. CASE ListReconcilable
  BY <1>2, <1>3 DEF ListReconcilable, Reconcilable, At
<1>4. CASE ReplayDone
  BY <1>2, <1>4 DEF ReplayDone, At
<1>5. ASSUME NEW c \in Cids, ReplayNext(c) PROVE IInv'
  <2>1. /\ th[Replayer].pc = "next" /\ th[Replayer].cid = None
        /\ intents[c].locked /\ \A u \in Threads : th[u].cid # c
    BY <1>0, <1>5 DEF ReplayNext, At, IInv, Roles, ParkedPCs, Held, OneWorker
  <2>2. /\ \A u \in Threads \ {Replayer} : th'[u] = th[u]
        /\ th'[Replayer].pc = "fetch" /\ th'[Replayer].cid = c
    BY <1>0, <1>5 DEF ReplayNext, TInv, TypeOK, Parked
  <2>3. rows[c] # "none" /\ intents[c].status # "new"
    BY <2>1 DEF IInv, Fresh
  <2>4. OrderOK(Replayer, c, th'[Replayer], intents[c], venue[c], rows[c], Astray(c))
    BY <1>1, <2>1, <2>2, <2>3
    DEF OrderOK, ParkedPCs, WorkPCs, MatchedPCs, ResultPCs, IInv, Sight, Listed
  <2>5. replay' = replay \ {c} /\ UNCHANGED <<intents, rows, venue, unnamed>>
    BY <1>5 DEF ReplayNext
  <2> QED BY <1>0, <2>1, <2>2, <2>4, <2>5, TakeUp DEF ParkedPCs
<1> QED BY <1>3, <1>4, <1>5 DEF ReplayStep

LEMMA CrashIInv ==
    ASSUME TInv, IInv, Crash
    PROVE  IInv'
<1> USE IntentAssumption, BrokerAssumption
<1>1. /\ \A t \in Threads : /\ th'[t].cid = None
                            /\ th'[t].pc = IF t = Replayer THEN "start" ELSE "idle"
      /\ replay' = {} /\ UNCHANGED <<intents, rows, venue, unnamed>>
  BY DEF Crash, ThreadsAtBoot, Parked
<1>2. \A t \in Threads : th'[t].pc \in RolePCs(t) /\ th'[t].pc \in ParkedPCs
  BY <1>1, RoleFacts DEF PCs, ParkedPCs
<1>3. Roles' /\ OneWorker'
  BY <1>1, <1>2 DEF Roles, OneWorker
<1>4. Held' /\ OwnMatch'
  BY <1>1, <1>2 DEF Held, OwnMatch, ParkedPCs, WorkPCs, MatchedPCs, ResultPCs
<1>5. Fresh' /\ Sight'
  BY <1>1 DEF IInv, Fresh, Sight, Listed, Astray
<1> QED BY <1>3, <1>4, <1>5 DEF IInv

\* Manual resolution, of an intent that nobody works on.
LEMMA AdminIInv ==
    ASSUME TInv, IInv, Disciplined, AdminStep
    PROVE  IInv'
<1> USE IntentAssumption, BrokerAssumption
<1>0. Admin \in Threads /\ Admin # Replayer
  BY DEF Threads
<1>1. RolePCs(Admin) = {"idle", "account", "write", "resolve"}
  BY <1>0, RoleFacts
<1>2. CASE AdminResolves
  <2> DEFINE c == th[Admin].cid
             s == th[Admin].final
             b == IF th[Admin].m = None THEN Manual ELSE th[Admin].m
  <2>1. th[Admin].pc = "resolve"
    BY <1>2 DEF AdminResolves, At
  <2>2. c \in Cids
    BY <1>0, <2>1 DEF TInv, Prepared, ParkedPCs
  <2>3. OrderOK(Admin, c, th[Admin], intents[c], venue[c], rows[c], Astray(c))
    BY <1>0, <2>2, OrderNow
  <2>4. \/ b = c /\ venue[c].state \in ListedStates
        \/ b = Manual /\ venue[c].state \in {"unsent", "lost", "refused"}
    BY <2>1, <2>2, <2>3 DEF OrderOK
  <2>5. Update(c, s, b, TRUE) /\ s # "new" /\ b # None
    BY <1>2, <2>1, <2>2, <2>3, <2>4 DEF AdminResolves, OrderOK
  <2> HIDE DEF b, s
  <2>6. /\ \A d \in Cids \ {c} : intents'[d] = intents[d]
        /\ intents'[c].status = s /\ ~intents'[c].locked /\ intents'[c].boid = b
    <3>1. IntentsTypeOK /\ TRUE \in BOOLEAN
      BY DEF TInv, TypeOK
    <3> QED BY <2>2, <2>5, <3>1, UpdateEffect, ZenonT(60)
  <2>7. /\ \A u \in Threads \ {Admin} : th'[u] = th[u]
        /\ th'[Admin].pc = "idle" /\ th'[Admin].cid = None
        /\ UNCHANGED <<rows, venue, replay, unnamed>>
    BY <1>0, <1>2 DEF AdminResolves, TInv, TypeOK, Parked
  <2>8. OrderOK(Admin, c, th'[Admin], intents'[c], venue'[c], rows'[c], AstrayNext(c))
    BY <1>1, <2>2, <2>3, <2>4, <2>5, <2>6, <2>7, AstrayStays
    DEF OrderOK, ParkedPCs, WorkPCs, MatchedPCs, ResultPCs, ListedStates, OpenStates
  <2> QED BY <1>0, <2>2, <2>6, <2>7, <2>8, WorkerStep
<1>3. ASSUME NEW c \in Cids, AdminDecides(c) PROVE IInv'
  <2>1. /\ th[Admin].pc = "idle" /\ th[Admin].cid = None
        /\ intents[c].status # "new" /\ c \notin replay /\ th[Replayer].pc # "start"
        /\ venue[c].state # "inFlight" /\ \A u \in Threads : th[u].cid # c
        /\ UNCHANGED <<intents, rows, venue, replay, unnamed>>
    BY <1>0, <1>3 DEF Disciplined, AdminDecides, At, IInv, Roles, ParkedPCs
  <2>2. /\ \A u \in Threads \ {Admin} : th'[u] = th[u]
        /\ th'[Admin].cid = c
        /\ \/ th'[Admin].pc = "account" /\ th'[Admin].m = c /\ Listed(c)
           \/ /\ th'[Admin].pc = "resolve"
              /\ th'[Admin].m = IF Listed(c) THEN c ELSE None
              /\ th'[Admin].final # "new"
    <3>1. ASSUME NEW pc \in PCs, NEW m, NEW q, NEW final,
                 th' = [th EXCEPT ![Admin] = [Parked(pc) EXCEPT !.cid = c, !.m = m,
                                                                !.qty = q, !.final = final]]
          PROVE  /\ \A u \in Threads \ {Admin} : th'[u] = th[u]
                 /\ th'[Admin].cid = c /\ th'[Admin].pc = pc
                 /\ th'[Admin].m = m /\ th'[Admin].final = final
      <4>1. Parked(pc) \in ThreadState /\ Parked(pc).pc = pc
        BY ParkedFields
      <4>2. DOMAIN th = Threads
        BY SMTT(30) DEF TInv, TypeOK
      <4> QED BY <1>0, <3>1, <4>1, <4>2 DEF ThreadState
    <3> DEFINE decided(pc, m, q, final) ==
                 th' = [th EXCEPT ![Admin] = [Parked(pc) EXCEPT !.cid = c, !.m = m,
                                                                !.qty = q, !.final = final]]
    <3>2. \E pc \in {"account", "resolve"}, final \in Statuses,
             m \in {c, None}, q \in {0, venue[c].filled} :
            /\ decided(pc, m, q, final)
            /\ pc = "account" => m = c /\ Listed(c)
            /\ pc = "resolve" => m = (IF Listed(c) THEN c ELSE None) /\ final # "new"
      <4>1. {"rejected", "new", "ack", "ack_unaccounted"} \subseteq Statuses
        BY DEF Statuses
      <4>2. CASE Listed(c) /\ decided("resolve", c, 0, "rejected")
        BY <4>1, <4>2, Zenon
      <4>3. CASE Listed(c) /\ decided("account", c, venue[c].filled, "new")
        BY <4>1, <4>3, Zenon
      <4>4. CASE Listed(c) /\ decided("resolve", c, 0, "ack")
        BY <4>1, <4>4, Zenon
      <4>5. CASE decided("resolve", IF Listed(c) THEN c ELSE None, 0, "ack_unaccounted")
        BY <4>1, <4>5, Zenon
      <4> QED BY <1>3, <4>2, <4>3, <4>4, <4>5 DEF AdminDecides
    <3>3. PICK pc \in {"account", "resolve"}, final \in Statuses,
               m \in {c, None}, q \in {0, venue[c].filled} :
            /\ decided(pc, m, q, final)
            /\ pc = "account" => m = c /\ Listed(c)
            /\ pc = "resolve" => m = (IF Listed(c) THEN c ELSE None) /\ final # "new"
      BY <3>2
    <3>4. /\ \A u \in Threads \ {Admin} : th'[u] = th[u]
          /\ th'[Admin].cid = c /\ th'[Admin].pc = pc
          /\ th'[Admin].m = m /\ th'[Admin].final = final
      <4>1. pc \in PCs
        BY DEF PCs
      <4> QED BY <3>1, <3>3, <4>1, Zenon
    <3> QED BY <3>3, <3>4
  <2>3. rows[c] # "none" /\ intents[c].status # "new"
    BY <2>1 DEF IInv, Fresh
  <2>4. ~Listed(c) => venue[c].state \in {"unsent", "lost", "refused"}
    <3>1. venue[c].state \in VenueStates
      BY DEF TInv, TypeOK
    <3> QED BY <2>1, <3>1 DEF Listed, VenueStates
  <2>5. OrderOK(Admin, c, th'[Admin], intents[c], venue[c], rows[c], Astray(c))
    BY <1>1, <2>1, <2>2, <2>3, <2>4
    DEF OrderOK, ParkedPCs, WorkPCs, MatchedPCs, ResultPCs, IInv, Sight, Listed
  <2> QED BY <1>0, <2>1, <2>2, <2>5, TakeUp DEF ParkedPCs
<1> QED BY <1>2, <1>3 DEF AdminStep

LEMMA IInvStep ==
    ASSUME TInv, LockExclusive, IInv, Disciplined, [Next]_vars
    PROVE  IInv'
<1>1. CASE UNCHANGED vars
  <2>1. Roles' /\ OneWorker' /\ Held'
    BY <1>1 DEF vars, IInv, Roles, OneWorker, Held
  <2>2. Fresh' /\ OwnMatch' /\ Sight'
    BY <1>1 DEF vars, IInv, Fresh, OwnMatch, Sight, Listed, Astray
  <2> QED BY <2>1, <2>2 DEF IInv
<1> QED
  BY <1>1, VenueIInv, SubmitIInv, PendingExitIInv, PlaceIInv, KeepIInv, ReconcileIInv,
     ReplayIInv, AdminIInv, CrashIInv
  DEF Next

LEMMA IInvInit == Init => IInv
<1> SUFFICES ASSUME Init PROVE IInv
  OBVIOUS
<1> USE IntentAssumption, BrokerAssumption
<1>1. /\ \A t \in Threads : /\ th[t].cid = None
                            /\ th[t].pc = IF t = Replayer THEN "start" ELSE "idle"
      /\ replay = {}
      /\ \A c \in Cids : /\ intents[c].status = "new" /\ ~intents[c].locked
                         /\ intents[c].boid = None
                         /\ venue[c].state = "unsent" /\ venue[c].filled = 0
  BY DEF Init, IntentsInit, ThreadsAtBoot, Parked
<1>2. \A t \in Threads : th[t].pc \in RolePCs(t) /\ th[t].pc \in ParkedPCs
  BY <1>1, RoleFacts DEF PCs, ParkedPCs
<1>3. Roles /\ OneWorker
  BY <1>1, <1>2 DEF Roles, OneWorker
<1>4. Held /\ OwnMatch
  BY <1>1, <1>2 DEF Held, OwnMatch, ParkedPCs, WorkPCs, MatchedPCs, ResultPCs
<1>5. Fresh /\ Sight
  BY <1>1 DEF Fresh, Sight, Listed, ListedStates, OpenStates
<1> QED BY <1>3, <1>4, <1>5 DEF IInv

\* The inductive invariant: under the operating procedure every order is in at
\* most one hand, whoever works on an intent finds it locked (the administrator
\* perhaps released) and works with its own broker order, and no order of the broker
\* is out of sight; an answer that names no order gives up the last two for orders of
\* its ticker and side, and for nothing else.
THEOREM ProcedureInvariant == Disciplined => (Spec => []IInv)
<1> SUFFICES ASSUME Disciplined PROVE Spec => []IInv
  OBVIOUS
<1>1. TInv /\ LockExclusive /\ IInv /\ [Next]_vars => IInv'
  BY IInvStep
<1> QED BY <1>1, IInvInit, TInvAlways, TickerLockExcludes, PTL DEF Spec

\* Under the operating procedure, whatever the broker may still execute or has
\* executed is locked or named by its intent, across lost answers, late requests,
\* crashes and manual resolutions, unless the broker left an order of that ticker and
\* side unnamed.
THEOREM NothingOutOfSight == Disciplined => (Spec => []NoOrphanOrder)
<1>1. IInv => NoOrphanOrder
  BY DEF IInv, Sight, NoOrphanOrder, Listed, Open, ListedStates
<1> QED BY <1>1, ProcedureInvariant, PTL

\* Under the operating procedure, matching the history by shape binds every intent
\* to the order its own submission created, although the history does not say
\* which submission that was, unless an order of its shape was left unnamed.
THEOREM IntentsBoundToOwnOrder == Disciplined => (Spec => []BoundToOwnOrder)
<1>1. IInv => BoundToOwnOrder
  BY DEF IInv, Sight, BoundToOwnOrder
<1> QED BY <1>1, ProcedureInvariant, PTL

----
(* What each step does to the intent log and to the broker's requests. *)

\* The steps, as seen by the gate: an intent is created on a free ticker, its
\* request is sent or arrives, the intent is written by whoever holds its lock or by
\* an administrator, its order is answered and left unnamed, or nothing the gate sees
\* changes.
Created(c) ==
    /\ intents[c].status = "new" /\ ~Unresolved(TickerOf[c])
    /\ intents'[c].status # "new" /\ intents'[c].locked
    /\ \A d \in Cids \ {c} : intents'[d] = intents[d]
    /\ venue' = venue /\ unnamed' = unnamed

Sent(c) ==
    /\ intents[c].locked /\ intents[c].status # "new" /\ venue[c].state = "unsent"
    /\ venue'[c].state = "inFlight"
    /\ \A d \in Cids \ {c} : venue'[d] = venue[d]
    /\ intents' = intents /\ unnamed' = unnamed

Written(c) ==
    /\ intents[c].status # "new" /\ intents'[c].status # "new"
    /\ intents[c].locked \/ (At(Admin, "resolve") /\ th[Admin].cid = c)
    /\ intents'[c].locked => intents[c].locked
    /\ ~intents'[c].locked => venue[c].state # "inFlight" \/ Astray(c)
    /\ \A d \in Cids \ {c} : intents'[d] = intents[d]
    /\ venue' = venue /\ unnamed' = unnamed

LeftUnnamed(c) ==
    /\ intents[c].locked /\ intents[c].status # "new" /\ intents'[c].status # "new"
    /\ ~intents'[c].locked /\ Listed(c)
    /\ \A d \in Cids \ {c} : intents'[d] = intents[d]
    /\ venue' = venue /\ unnamed' = unnamed \cup {c}

Moved(c) ==
    /\ venue[c].state # "unsent" /\ venue'[c].state \notin {"unsent", "inFlight"}
    /\ \A d \in Cids \ {c} : venue'[d] = venue[d]
    /\ intents' = intents /\ unnamed' = unnamed

\* Each write to the log is one of these.
LEMMA Writes ==
    ASSUME TInv, IInv, NEW t \in Threads, th[t].cid \in Cids, th[t].pc \in WorkPCs,
           NEW s, s # "new", NEW b, NEW r \in BOOLEAN, Update(th[t].cid, s, b, r),
           r => venue[th[t].cid].state # "inFlight" \/ Astray(th[t].cid),
           t = Admin => At(Admin, "resolve"),
           venue' = venue, unnamed' = unnamed
    PROVE  Written(th[t].cid)
<1> DEFINE c == th[t].cid
<1>1. /\ intents[c].status # "new"
      /\ intents[c].locked \/ (At(Admin, "resolve") /\ th[Admin].cid = c)
  BY DEF IInv, Held, Fresh
<1>2. /\ \A d \in Cids \ {c} : intents'[d] = intents[d]
      /\ intents'[c].status = s /\ (intents'[c].locked <=> intents[c].locked /\ ~r)
  <2>1. IntentsTypeOK
    BY DEF TInv, TypeOK
  <2> QED BY <2>1, UpdateEffect
<1>3. ~intents'[c].locked => ~intents[c].locked \/ r
  BY <1>2
<1>4. ~intents[c].locked => venue[c].state # "inFlight" \/ Astray(c)
  BY DEF IInv, Sight
<1> QED BY <1>1, <1>2, <1>3, <1>4 DEF Written

Seen == \E c \in Cids : Created(c) \/ Sent(c) \/ Written(c) \/ LeftUnnamed(c) \/ Moved(c)
Unseen == intents' = intents /\ venue' = venue /\ unnamed' = unnamed

LEMMA PlaceSeen ==
    ASSUME TInv, IInv, NEW t \in Threads, PlaceStep(t), ~KeepBooks(t)
    PROVE  Seen \/ Unseen
<1> USE IntentAssumption, BrokerAssumption
<1> DEFINE c == th[t].cid
<1>0. c \in Cids
  BY DEF TInv, Prepared, ParkedPCs, At, PlaceStep, CheckUnresolved, CreateIntent, MarkSent,
     Post, Answer, AnswerLost, MarkUnknown, Return
<1>1. OrderOK(t, c, th[t], intents[c], venue[c], rows[c], Astray(c))
  BY <1>0, OrderNow
<1>a. t # Admin
  BY <1>1, RoleFacts
  DEF OrderOK, PlaceStep, CheckUnresolved, CreateIntent, MarkSent, Post, Answer, AnswerLost,
     MarkUnknown, Return, At
<1>2. CASE CheckUnresolved(t) \/ AnswerLost(t) \/ Return(t)
  BY <1>2 DEF CheckUnresolved, AnswerLost, Return, Unseen
<1>3. CASE CreateIntent(t)
  <2>1. CASE Create(c)
    <3>1. Created(c)
      BY <1>0, <1>1, <1>3, <2>1
      DEF CreateIntent, At, OrderOK, Create, Created, TInv, TypeOK, IntentsTypeOK
    <3> QED BY <1>0, <3>1 DEF Seen
  <2> QED BY <1>3, <2>1 DEF CreateIntent, Unseen
<1>4. CASE MarkSent(t) \/ MarkUnknown(t)
  <2>1. PICK s \in {"sent", "unknown"} : Update(c, s, None, FALSE)
    BY <1>4 DEF MarkSent, MarkUnknown
  <2>2. th[t].pc \in WorkPCs /\ venue' = venue /\ unnamed' = unnamed
    BY <1>4 DEF MarkSent, MarkUnknown, At, WorkPCs
  <2>3. Written(c)
    BY <1>0, <1>a, <2>1, <2>2, Writes
  <2> QED BY <1>0, <2>3 DEF Seen
<1>5. CASE Post(t)
  <2>1. th[t].pc = "post" /\ intents' = intents /\ unnamed' = unnamed
    BY <1>5 DEF Post, At
  <2>2. CASE venue' = [venue EXCEPT ![c].state = "inFlight"]
    <3>1. Sent(c)
      BY <1>0, <1>1, <1>a, <2>1, <2>2 DEF OrderOK, Sent, TInv, TypeOK, WorkPCs
    <3> QED BY <1>0, <3>1 DEF Seen
  <2> QED BY <1>5, <2>1, <2>2 DEF Post, Unseen
<1>6. CASE Answer(t)
  <2> DEFINE state == venue[c].state
             s == IF state \notin {"refused", "REJECTED"} THEN "ack" ELSE "rejected"
  <2>1. /\ state # "inFlight" /\ th[t].pc \in WorkPCs /\ th[t].pc = "await"
        /\ venue' = venue
    BY <1>6 DEF Answer, At, WorkPCs, ListedStates, OpenStates
  <2>2. s # "new" /\ ReleasedBy(s)
    BY DEF ReleasedBy
  <2>3. PICK b \in {c, None} :
          /\ Update(c, s, b, ReleasedBy(s))
          /\ unnamed' = unnamed \/ (unnamed' = unnamed \cup {c} /\ Listed(c))
    BY <1>6 DEF Answer
  <2> HIDE DEF s
  <2>4. CASE unnamed' = unnamed
    <3>1. Written(c)
      BY <1>0, <1>a, <2>1, <2>2, <2>3, <2>4, Writes
    <3> QED BY <1>0, <3>1 DEF Seen
  <2>5. CASE unnamed' = unnamed \cup {c} /\ Listed(c)
    <3>1. /\ \A d \in Cids \ {c} : intents'[d] = intents[d]
          /\ intents'[c].status = s
          /\ intents'[c].locked <=> intents[c].locked /\ ~ReleasedBy(s)
      <4>1. IntentsTypeOK /\ ReleasedBy(s) \in BOOLEAN
        BY DEF TInv, TypeOK, ReleasedBy
      <4> QED BY <4>1, <1>0, <2>3, UpdateEffect
    <3>2. intents[c].locked /\ intents[c].status # "new"
      BY <1>1, <1>a, <2>1 DEF OrderOK, WorkPCs
    <3>3. LeftUnnamed(c)
      BY <2>1, <2>2, <2>5, <3>1, <3>2 DEF LeftUnnamed
    <3> QED BY <1>0, <3>3 DEF Seen
  <2> QED BY <2>3, <2>4, <2>5
<1> QED BY <1>2, <1>3, <1>4, <1>5, <1>6 DEF PlaceStep

LEMMA ReconcileSeen ==
    ASSUME TInv, IInv, LockExclusive, NEW t \in Threads, ReconcileStep(t)
    PROVE  Seen \/ Unseen
<1> USE IntentAssumption, BrokerAssumption
<1> DEFINE c == th[t].cid
<1>0. c \in Cids
  BY DEF TInv, Prepared, ParkedPCs, At, ReconcileStep, FetchHistory, CancelRemainder,
     RereadHistory, RecordFill, WritePosition, SettleIntent, MarkRemainderOpen
<1>1. OrderOK(t, c, th[t], intents[c], venue[c], rows[c], Astray(c))
  BY <1>0, OrderNow
<1>u. unnamed' = unnamed
  BY DEF ReconcileStep, FetchHistory, CancelRemainder,
     RereadHistory, RecordFill, WritePosition, SettleIntent, MarkRemainderOpen
<1>2. th[t].pc \in WorkPCs /\ (t # Admin => intents[c].locked)
  <2>1. th[t].pc \in WorkPCs
    BY DEF ReconcileStep, At, WorkPCs, FetchHistory, CancelRemainder,
       RereadHistory, RecordFill, WritePosition, SettleIntent, MarkRemainderOpen
  <2> QED BY <2>1, <1>1 DEF OrderOK
<1>a. th[t].pc \in {"fetch", "cancel", "reread", "cas", "override"} => t # Admin
  BY <1>1, RoleFacts DEF OrderOK
<1>3. ASSUME NEW s, s # "new", NEW b, Update(c, s, b, FALSE), venue' = venue, t # Admin
      PROVE  Seen
  <2>1. Written(c)
    BY <1>0, <1>u, <1>2, <1>3, Writes
  <2> QED BY <1>0, <2>1 DEF Seen
<1>4. ASSUME NEW m \in Cids, Dead(m), SettleDead(t, m), m = c \/ Astray(c), venue' = venue,
             t # Admin
      PROVE  Seen
  <2>1. Update(c, "rejected", m, TRUE) /\ (venue[c].state # "inFlight" \/ Astray(c))
    BY <1>4 DEF SettleDead, Dead
  <2>2. Written(c)
    BY <1>0, <1>u, <1>2, <1>4, <2>1, Writes
  <2> QED BY <1>0, <2>2 DEF Seen
<1>5. CASE FetchHistory(t)
  <2>0. t # Admin
    BY <1>5, <1>a DEF FetchHistory, At
  <2>1. CASE KeepUnknown(t)
    BY <1>3, <1>5, <2>0, <2>1 DEF FetchHistory, KeepUnknown
  <2>2. ASSUME NEW m \in Cids, {m} \in Matches(c), Dead(m), SettleDead(t, m)
        PROVE  Seen
    BY <1>0, <1>2, <1>4, <1>5, <2>0, <2>2, MatchIsOwn DEF FetchHistory
  <2> QED BY <1>5, <1>u, <2>1, <2>2 DEF FetchHistory, Unseen
<1>6. CASE RereadHistory(t)
  <2>1. t # Admin /\ (th[t].m = c \/ Astray(c)) /\ th[t].m \in Cids
    BY <1>1, <1>a, <1>6 DEF RereadHistory, At, OrderOK, MatchedPCs, TInv, Prepared
  <2>2. CASE KeepUnknown(t)
    BY <1>3, <1>6, <2>1, <2>2 DEF RereadHistory, KeepUnknown
  <2>3. CASE Dead(th[t].m) /\ SettleDead(t, th[t].m)
    BY <1>4, <1>6, <2>1, <2>3 DEF RereadHistory
  <2> QED BY <1>6, <1>u, <2>2, <2>3 DEF RereadHistory, Unseen
<1>7. CASE CancelRemainder(t)
  <2> DEFINE m == th[t].m
  <2>1. m \in Cids /\ intents' = intents
    BY <1>7 DEF CancelRemainder, At, TInv, Prepared
  <2>2. CASE Open(m) /\ venue' = [venue EXCEPT ![m].state = "CANCELLED"]
    <3>1. Moved(m)
      BY <1>u, <2>1, <2>2 DEF Moved, Open, OpenStates, TInv, TypeOK
    <3> QED BY <2>1, <3>1 DEF Seen
  <2> QED BY <1>7, <1>u, <2>1, <2>2 DEF CancelRemainder, Unseen
<1>8. CASE RecordFill(t) \/ WritePosition(t)
  BY <1>8, <1>u DEF RecordFill, WritePosition, Unseen
<1>9. CASE SettleIntent(t)
  <2>1. th[t].final # "new" /\ venue' = venue /\ t # Admin
    BY <1>1, <1>a, <1>9 DEF SettleIntent, At, OrderOK
  <2> QED BY <1>3, <1>9, <1>u, <2>1 DEF SettleIntent, UpdateConditional, Unseen
<1>10. CASE MarkRemainderOpen(t)
  BY <1>3, <1>10, <1>a DEF MarkRemainderOpen, At
<1> QED BY <1>5, <1>6, <1>7, <1>8, <1>9, <1>10 DEF ReconcileStep

LEMMA StepSeen ==
    ASSUME TInv, IInv, LockExclusive, [Next]_vars
    PROVE  Seen \/ Unseen
<1> USE IntentAssumption, BrokerAssumption
<1>1. CASE UNCHANGED vars
  BY <1>1 DEF vars, Unseen
<1>2. ASSUME NEW v \in Cids, VenueStep(v) PROVE Seen
  <2>1. Moved(v)
    BY <1>2 DEF VenueStep, VenueDecides, VenueFills, VenueCancels, Moved, TInv, TypeOK,
       Open, OpenStates
  <2> QED BY <2>1 DEF Seen
<1>3. CASE \/ ReplayStep \/ Crash \/ \E t \in Threads : KeepBooks(t)
           \/ \E t \in Submitters, c \in Cids : Submit(t, c) \/ PendingExit(t, c)
  BY <1>3 DEF ReplayStep, ListReconcilable, ReplayDone, ReplayNext, Crash, Submit, PendingExit,
     KeepBooks, Unseen
<1>4. CASE AdminStep
  <2>0. Admin \in Threads
    BY DEF Threads
  <2>1. CASE AdminResolves
    <3> DEFINE c == th[Admin].cid
               s == th[Admin].final
               b == IF th[Admin].m = None THEN Manual ELSE th[Admin].m
    <3>1. th[Admin].pc = "resolve" /\ Update(c, s, b, TRUE) /\ venue' = venue
            /\ unnamed' = unnamed
      BY <2>1 DEF AdminResolves, At
    <3>2. c \in Cids
      BY <2>0, <3>1 DEF TInv, Prepared, ParkedPCs
    <3>3. OrderOK(Admin, c, th[Admin], intents[c], venue[c], rows[c], Astray(c))
      BY <2>0, <3>2, OrderNow
    <3>4. s # "new" /\ venue[c].state # "inFlight" /\ th[Admin].pc \in WorkPCs
      BY <3>1, <3>3 DEF OrderOK, WorkPCs, ListedStates, OpenStates
    <3> HIDE DEF s, b
    <3>5. Written(c)
      BY <2>0, <3>1, <3>2, <3>4, Writes DEF At
    <3> QED BY <3>2, <3>5 DEF Seen
  <2>2. CASE \E c \in Cids : AdminDecides(c)
    BY <2>2 DEF AdminDecides, Unseen
  <2> QED BY <1>4, <2>1, <2>2 DEF AdminStep
<1> QED BY <1>1, <1>2, <1>3, <1>4, PlaceSeen, ReconcileSeen DEF Next

\* Under the operating procedure a released intent is final: no thread that still
\* holds an older view of it writes it again, and an administrator only the intent
\* that the resolution names.
THEOREM ReleasedIntentsFinal == Disciplined => (Spec => ReleasedIsFinal)
<1> DEFINE Final == \A c \in Cids : intents[c].status # "new" /\ ~intents[c].locked
                      => intents'[c] = intents[c] \/ (At(Admin, "resolve") /\ th[Admin].cid = c)
<1>1. TInv /\ LockExclusive /\ IInv /\ [Next]_vars => Final
  <2> SUFFICES ASSUME TInv, LockExclusive, IInv, [Next]_vars PROVE Final
    OBVIOUS
  <2>1. CASE Unseen
    BY <2>1 DEF Unseen
  <2>2. ASSUME NEW d \in Cids,
               Created(d) \/ Sent(d) \/ Written(d) \/ LeftUnnamed(d) \/ Moved(d)
        PROVE  Final
    BY <2>2 DEF Created, Sent, Written, LeftUnnamed, Moved
  <2> QED BY <2>1, <2>2, StepSeen DEF Seen
<1>2. TInv /\ LockExclusive /\ IInv /\ [Next]_vars => [Final]_vars
  BY <1>1
<1> HIDE DEF Final
<1>3. ReleasedIsFinal <=> [][Final]_vars
  BY DEF ReleasedIsFinal, Final
<1> QED BY <1>2, <1>3, ProcedureInvariant, TInvAlways, TickerLockExcludes, PTL DEF Spec

----
(* Order submission implements the gate.                                   *)

LEMMA FateOf ==
    \A c \in Cids :
        /\ Fate[c] = IF intents[c].status = "new" THEN "new"
                     ELSE IF intents[c].locked THEN "ambiguous" ELSE "known"
        /\ Request[c] = IF venue[c].state \in {"unsent", "inFlight"}
                        THEN venue[c].state ELSE "over"
BY DEF Fate, Request

\* The gate's state follows a step pointwise.
LEMMA FateChange ==
    ASSUME NEW c \in Cids, \A d \in Cids \ {c} : intents'[d] = intents[d],
           NEW f, Fate'[c] = f
    PROVE  Fate' = [Fate EXCEPT ![c] = f]
BY DEF Fate

LEMMA RequestChange ==
    ASSUME NEW c \in Cids, \A d \in Cids \ {c} : venue'[d] = venue[d],
           NEW q, Request'[c] = q
    PROVE  Request' = [Request EXCEPT ![c] = q]
BY DEF Request

\* The kinds of the orders left unnamed.
Blurred == {KindOf[c] : c \in unnamed}

LEMMA GateStep ==
    ASSUME TInv, LockExclusive, IInv, [Next]_vars
    PROVE  Gate!GateNext \/ (Fate' = Fate /\ Request' = Request /\ Blurred' = Blurred)
<1>0. unnamed' = unnamed => Blurred' = Blurred
  BY DEF Blurred
<1>1. CASE Unseen
  BY <1>0, <1>1 DEF Unseen, Fate, Request
<1>2. ASSUME NEW c \in Cids, Created(c) PROVE Gate!Begin(c)
  <2>1. Fate'[c] = "ambiguous" /\ Fate[c] = "new"
    BY <1>2, FateOf DEF Created, Fate
  <2>2. Fate' = [Fate EXCEPT ![c] = "ambiguous"]
    BY <1>2, <2>1, FateChange DEF Created
  <2>3. \A d \in Cids : TickerOf[d] = TickerOf[c] => Fate[d] # "ambiguous"
    BY <1>2, FateOf DEF Created, Unresolved
  <2>4. Request' = Request
    BY <1>2 DEF Created, Request
  <2>5. Blurred' = Blurred
    BY <1>0, <1>2 DEF Created
  <2> QED BY <2>1, <2>2, <2>3, <2>4, <2>5 DEF Gate!Begin, Blurred
<1>3. ASSUME NEW c \in Cids, Sent(c) PROVE Gate!Send(c)
  <2>1. Fate[c] = "ambiguous" /\ Request[c] = "unsent" /\ Request'[c] = "inFlight"
    BY <1>3, FateOf DEF Sent, Request
  <2>2. Request' = [Request EXCEPT ![c] = "inFlight"]
    BY <1>3, <2>1, RequestChange DEF Sent
  <2>3. Fate' = Fate
    BY <1>3 DEF Sent, Fate
  <2>4. Blurred' = Blurred
    BY <1>0, <1>3 DEF Sent
  <2> QED BY <2>1, <2>2, <2>3, <2>4 DEF Gate!Send, Blurred
<1>4. ASSUME NEW c \in Cids, Written(c)
      PROVE  Gate!Conclude(c) \/ (Fate' = Fate /\ Request' = Request /\ Blurred' = Blurred)
  <2>0. Request' = Request /\ Blurred' = Blurred
    BY <1>0, <1>4 DEF Written, Request
  <2>1. CASE intents'[c].locked \/ ~intents[c].locked
    <3>1. Fate' = Fate
      BY <1>4, <2>1 DEF Written, Fate
    <3> QED BY <2>0, <3>1
  <2>2. CASE intents[c].locked /\ ~intents'[c].locked
    <3>1. Fate[c] = "ambiguous" /\ Fate'[c] = "known"
      BY <1>4, <2>2, FateOf DEF Written, Fate
    <3>3. Request[c] = "inFlight" => KindOf[c] \in Blurred
      <4>1. Request[c] = "inFlight" => Astray(c)
        BY <1>4, <2>2, FateOf DEF Written
      <4>2. ASSUME NEW v \in unnamed, SameShape(v, c) PROVE KindOf[c] \in Blurred
        <5>1. v \in Cids
          BY DEF TInv, TypeOK
        <5>2. KindOf[v] = KindOf[c]
          BY <4>2, <5>1 DEF SameShape, KindOf
        <5> QED BY <5>2 DEF Blurred
      <4> QED BY <4>1, <4>2 DEF Astray
    <3>2. Fate' = [Fate EXCEPT ![c] = "known"]
      BY <1>4, <3>1, FateChange DEF Written
    <3> QED BY <2>0, <3>1, <3>2, <3>3 DEF Gate!Conclude, Blurred
  <2> QED BY <2>1, <2>2
<1>6. ASSUME NEW c \in Cids, LeftUnnamed(c) PROVE Gate!Blur(c)
  <2>1. Fate[c] = "ambiguous" /\ Fate'[c] = "known"
    BY <1>6, FateOf DEF LeftUnnamed, Fate
  <2>2. Fate' = [Fate EXCEPT ![c] = "known"]
    BY <1>6, <2>1, FateChange DEF LeftUnnamed
  <2>3. Request' = Request /\ Request[c] = "over"
    BY <1>6, FateOf DEF LeftUnnamed, Listed, ListedStates, OpenStates, Request
  <2>4. Blurred' = Blurred \cup {KindOf[c]}
    BY <1>6 DEF LeftUnnamed, Blurred, KindOf
  <2> QED BY <2>1, <2>2, <2>3, <2>4 DEF Gate!Blur, Blurred
<1>5. ASSUME NEW c \in Cids, Moved(c)
      PROVE  Gate!Arrive(c) \/ (Fate' = Fate /\ Request' = Request /\ Blurred' = Blurred)
  <2>0. Fate' = Fate /\ Blurred' = Blurred
    BY <1>0, <1>5 DEF Moved, Fate
  <2>1. Request'[c] = "over"
    BY <1>5 DEF Moved, Request
  <2>2. CASE venue[c].state = "inFlight"
    <3>1. Request[c] = "inFlight"
      BY <2>2, FateOf
    <3>2. Request' = [Request EXCEPT ![c] = "over"]
      BY <1>5, <2>1, RequestChange DEF Moved
    <3> QED BY <2>0, <3>1, <3>2 DEF Gate!Arrive, Blurred
  <2>3. CASE venue[c].state # "inFlight"
    <3>1. Request' = Request
      BY <1>5, <2>3 DEF Moved, Request
    <3> QED BY <2>0, <3>1
  <2> QED BY <2>2, <2>3
<1> QED BY <1>1, <1>2, <1>3, <1>4, <1>5, <1>6, StepSeen DEF Seen, Gate!GateNext

\* The detailed protocol, with its lost answers, crashes and reconciliation,
\* implements the gate: an order is requested at most once, by the holder of its
\* ticker's gate, which opens only when the request is no longer on its way, unless
\* an answer without an order id has blurred that ticker and side.
THEOREM SubmissionImplementsGate == Disciplined => (Spec => GateRefined)
<1>1. Init => Gate!GateInit
  BY DEF Init, IntentsInit, Gate!GateInit, Fate, Request
<1>2. TInv /\ LockExclusive /\ IInv /\ [Next]_vars => [Gate!GateNext]_(Gate!gateVars)
  <2> SUFFICES ASSUME TInv, LockExclusive, IInv, [Next]_vars
               PROVE  [Gate!GateNext]_(Gate!gateVars)
    OBVIOUS
  <2>1. CASE Gate!GateNext
    BY <2>1
  <2>2. CASE Fate' = Fate /\ Request' = Request /\ Blurred' = Blurred
    BY <2>2 DEF Gate!gateVars, Blurred
  <2> QED BY <2>1, <2>2, GateStep
<1> QED
  BY <1>1, <1>2, ProcedureInvariant, TInvAlways, TickerLockExcludes, PTL
  DEF Spec, GateRefined, Gate!GateSpec

----
(* The books of the positions under the operating procedure: a fill is     *)
(* accounted once, what was booked is released by an administrator only,   *)
(* and no accounting overwrites what another one closed.                   *)
(*                                                                         *)
(* What a thread reads of the positions may be stale when it writes them.  *)
(* A row keeps its entry order and number for ever, so a stale copy still  *)
(* names its row; and what the accounting of a sale has closed is not      *)
(* closed by another accounting, because both hold the lock of the ticker  *)
(* from before the read to after the write (BookInv).                      *)

\* A step of a thread after which it has read no position, knows that its order
\* has none, or has found its order filled.
ReadsNothing(t) ==
    \/ th'[t] = th[t]
    \/ th'[t].pc \notin UnbookedPCs \cup {"account", "write"}
    \/ th'[t].pc \in UnbookedPCs /\ ~BookedFill(th'[t].cid)
    \/ th'[t].pc = "account" /\ (venue[th'[t].cid].filled > 0 \/ Astray(th'[t].cid))

\* What the books need of the rows, the fills, the orders left unnamed, the locks
\* and the positions sold.
BooksFrame ==
    /\ \A c \in Cids : rows[c] # "none" => rows'[c] # "none"
    /\ \A c \in Cids : venue[c].filled > 0 => venue'[c].filled > 0
    /\ unnamed \subseteq unnamed'
    /\ \A c \in Cids : intents'[c].locked => intents[c].locked \/ intents[c].status = "new"
    /\ \A c \in Cids : exits'[c] # None => exits'[c] = exits[c] \/ Recorded(exits'[c])

\* Steps that leave the positions alone keep the books.
LEMMA BookKept ==
    ASSUME TInv, TInv', IInv, BookInv, positions' = positions, BooksFrame,
           \A t \in Threads : ReadsNothing(t)
    PROVE  BookInv'
<1> USE IntentAssumption, BrokerAssumption
<1>1. Booked'
  <2> SUFFICES ASSUME NEW p \in positions, p.made # "agent"
               PROVE  /\ p.entry \in Buys /\ rows'[p.entry] # "none"
                      /\ venue'[p.entry].filled > 0 \/ \E v \in unnamed' : SameShape(v, p.entry)
    BY DEF Booked, Astray
  <2>1. /\ p.entry \in Buys /\ p.entry \in Cids /\ rows[p.entry] # "none"
        /\ venue[p.entry].filled > 0 \/ Astray(p.entry)
    BY DEF BookInv, Booked
  <2> QED BY <2>1 DEF BooksFrame, Astray
<1>2. ASSUME NEW t \in Threads PROVE Reads(t)'
  <2>1. th'[t].pc \in UnbookedPCs \cup {"account", "write"} => th'[t].cid \in Cids
    BY DEF TInv, Prepared, ParkedPCs, UnbookedPCs
  <2>2. Reads(t) /\ ReadsNothing(t)
    BY DEF BookInv
  <2>3. CASE th'[t] = th[t]
    <3> DEFINE c == th[t].cid
    <3>1. th[t].pc \in {"account", "write"} =>
            venue'[c].filled > 0 \/ \E v \in unnamed' : SameShape(v, c)
      BY <2>1, <2>2, <2>3 DEF Reads, BooksFrame, Astray
    <3>2. ASSUME th[t].pc = "write", c \notin Buys, NEW q \in positions,
                 SameRow(th[t].pos, q), q.closer = "accounting"
          PROVE  ~intents'[c].locked
      <4>1. ~intents[c].locked /\ c \in Cids
        BY <3>2, <2>1, <2>2, <2>3 DEF Reads
      <4>2. intents[c].status # "new"
        BY <3>2, <4>1 DEF IInv, Held, WorkPCs
      <4> QED BY <4>1, <4>2 DEF BooksFrame
    <3> QED BY <2>2, <2>3, <3>1, <3>2 DEF Reads, BookedFill, SharesTicker, Recorded, Astray
  <2>4. CASE th'[t].pc \notin UnbookedPCs \cup {"account", "write"}
    BY <2>4 DEF Reads
  <2>5. CASE th'[t].pc \in UnbookedPCs /\ ~BookedFill(th'[t].cid)
    BY <2>5 DEF Reads, BookedFill, UnbookedPCs
  <2>6. CASE th'[t].pc = "account" /\ (venue[th'[t].cid].filled > 0 \/ Astray(th'[t].cid))
    BY <2>1, <2>6 DEF Reads, UnbookedPCs, BooksFrame, Astray
  <2> QED BY <2>2, <2>3, <2>4, <2>5, <2>6 DEF ReadsNothing
<1>3. Numbered' /\ AccountedOnce'
  BY DEF BookInv, Numbered, PositionsOf, AccountedOnce, SharesTicker, IsOpen
<1>5. \A c \in Cids : exits'[c] # None => Recorded(exits'[c])
  BY DEF BookInv, BooksFrame
<1>6. \A c \in Cids : exits'[c] # None => \E q \in positions' : SameRow(exits'[c], q)
                                                              /\ q.made = exits'[c].made
  BY <1>5 DEF Recorded
<1> QED BY <1>1, <1>2, <1>3, <1>6 DEF BookInv, Recorded

----
(* The steps that leave the positions alone.                               *)

LEMMA VenueBooks ==
    ASSUME TInv, TInv', IInv, BookInv, NEW v \in Cids, VenueStep(v)
    PROVE  BookInv'
<1>1. UNCHANGED <<intents, rows, exits, positions, th, unnamed>>
  BY DEF VenueStep, VenueDecides, VenueFills, VenueCancels
<1>2. \A c \in Cids : venue[c].filled > 0 => venue'[c].filled > 0
  BY BrokerAssumption DEF VenueStep, VenueDecides, VenueFills, VenueCancels, TInv, TypeOK
<1> QED BY <1>1, <1>2, BookKept DEF ReadsNothing, BooksFrame

LEMMA SubmitBooks ==
    ASSUME TInv, TInv', IInv, BookInv, NEW t \in Submitters, NEW c \in Cids,
           Submit(t, c) \/ PendingExit(t, c)
    PROVE  BookInv'
<1>1. UNCHANGED <<intents, positions, venue, unnamed>>
  BY DEF Submit, PendingExit
<1>2. \A d \in Cids : rows[d] # "none" => rows'[d] # "none"
  <2>1. CASE Submit(t, c)
    BY <2>1 DEF Submit, TInv, TypeOK
  <2>2. CASE PendingExit(t, c)
    <3>1. venue[c].state # "none"
      BY <2>2 DEF PendingExit, Listed, ListedStates, OpenStates
    <3> QED BY <2>2, <3>1 DEF PendingExit, TInv, TypeOK
  <2> QED BY <2>1, <2>2
<1>3. \A d \in Cids : exits'[d] # None => exits'[d] = exits[d] \/ Recorded(exits'[d])
  BY DEF Submit, PendingExit, Recorded, SameRow, TInv, TypeOK
<1>4. \A u \in Threads : ReadsNothing(u)
  <2>1. CASE Submit(t, c)
    <3>1. ~BookedFill(c)
      BY <2>1 DEF Submit, BookInv, Booked, BookedFill
    <3>2. /\ \A u \in Threads \ {t} : th'[u] = th[u]
          /\ th'[t].pc = "check" /\ th'[t].cid = c
      BY <2>1 DEF Submit, Threads, TInv, TypeOK, Parked
    <3> QED BY <3>1, <3>2 DEF ReadsNothing, UnbookedPCs
  <2>2. CASE PendingExit(t, c)
    <3>1. /\ \A u \in Threads \ {t} : th'[u] = th[u]
          /\ th'[t].pc \in {"keep", "idle"}
      BY <2>2 DEF PendingExit, Threads, TInv, TypeOK, Parked
    <3> QED BY <3>1 DEF ReadsNothing, UnbookedPCs
  <2> QED BY <2>1, <2>2
<1> QED BY <1>1, <1>2, <1>3, <1>4, BookKept DEF BooksFrame

LEMMA PlaceBooks ==
    ASSUME TInv, TInv', IInv, BookInv, NEW t \in Threads, PlaceStep(t), ~KeepBooks(t)
    PROVE  BookInv'
<1> USE IntentAssumption, BrokerAssumption
<1> DEFINE c == th[t].cid
<1>0. c \in Cids /\ IntentsTypeOK
  BY DEF TInv, TypeOK, Prepared, ParkedPCs, At, PlaceStep, CheckUnresolved, CreateIntent,
     MarkSent, Post, Answer, AnswerLost, MarkUnknown, Return
<1>1. OrderOK(t, c, th[t], intents[c], venue[c], rows[c], Astray(c))
  BY <1>0, OrderNow
<1>2. th[t].pc \in UnbookedPCs => ~BookedFill(c)
  BY DEF BookInv, Reads
<1>3. ASSUME NEW pc \in {"create", "send", "post", "await", "failed", "fetch"}, Goto(t, pc),
             th[t].pc \in UnbookedPCs \/ pc \in {"failed", "fetch"}
      PROVE  \A u \in Threads : ReadsNothing(u)
  BY <1>2, <1>3, GotoEffect DEF ReadsNothing, UnbookedPCs
<1>4. ASSUME NEW res, NEW ok, Finish(t, res, ok)
      PROVE  \A u \in Threads : ReadsNothing(u)
  BY <1>4, FinishEffect DEF ReadsNothing, UnbookedPCs
<1>5. \A d \in Cids : rows[d] # "none" => rows'[d] # "none"
  <2>1. CASE Return(t)
    <3>1. t # Admin /\ th[t].res # "none"
      BY <2>1, <1>1, RoleFacts DEF Return, At, OrderOK, ResultPCs
    <3> QED BY <2>1, <3>1, <1>0 DEF Return, TInv, TypeOK
  <2>2. CASE ~Return(t)
    BY <2>2 DEF PlaceStep, CheckUnresolved, CreateIntent, MarkSent, Post, Answer, AnswerLost,
       MarkUnknown
  <2> QED BY <2>1, <2>2
<1>6. \A d \in Cids : venue[d].filled > 0 => venue'[d].filled > 0
  <2>1. venue' = venue \/ venue' = [venue EXCEPT ![c].state = "inFlight"]
    BY DEF PlaceStep, CheckUnresolved, CreateIntent, MarkSent, Post, Answer, AnswerLost,
       MarkUnknown, Return
  <2> QED BY <2>1, <1>0 DEF TInv, TypeOK
<1>7. \A d \in Cids : intents'[d].locked => intents[d].locked \/ intents[d].status = "new"
  <2>1. CASE CreateIntent(t)
    <3>1. intents[c].status = "new"
      BY <2>1, <1>1 DEF CreateIntent, At, OrderOK
    <3>2. Create(c) \/ intents' = intents
      BY <2>1 DEF CreateIntent
    <3> QED BY <3>1, <3>2, <1>0 DEF Create, IntentsTypeOK
  <2>2. ASSUME NEW s, NEW b, NEW r \in BOOLEAN, Update(c, s, b, r)
        PROVE  \A d \in Cids : intents'[d].locked => intents[d].locked
    BY <2>2, <1>0, UpdateTakesNoLock
  <2>3. CASE MarkSent(t) \/ MarkUnknown(t)
    BY <2>2, <2>3 DEF MarkSent, MarkUnknown
  <2>4. CASE Answer(t)
    <3>1. PICK s \in {"ack", "rejected"}, b \in {None, c} :
             Update(c, s, b, ReleasedBy(s)) /\ ReleasedBy(s) \in BOOLEAN
      BY <2>4 DEF Answer, ReleasedBy
    <3> QED BY <2>2, <3>1
  <2>5. CASE CheckUnresolved(t) \/ Post(t) \/ AnswerLost(t) \/ Return(t)
    BY <2>5 DEF CheckUnresolved, Post, AnswerLost, Return
  <2> QED BY <2>1, <2>3, <2>4, <2>5 DEF PlaceStep
<1>8. \A u \in Threads : ReadsNothing(u)
  <2>1. CASE CheckUnresolved(t)
    BY <2>1, <1>3, <1>4 DEF CheckUnresolved, Raise, At, UnbookedPCs
  <2>2. CASE CreateIntent(t)
    BY <2>2, <1>3, <1>4 DEF CreateIntent, Raise, At, UnbookedPCs
  <2>3. CASE MarkSent(t) \/ MarkUnknown(t)
    <3>1. \/ Goto(t, "post") /\ th[t].pc \in UnbookedPCs
          \/ Goto(t, "fetch")
      BY <2>3 DEF MarkSent, MarkUnknown, At, UnbookedPCs
    <3> QED BY <3>1, <1>3
  <2>6. CASE Post(t)
    <3>1. th[t].pc \in UnbookedPCs /\ (Goto(t, "await") \/ Goto(t, "failed") \/ Raise(t))
      BY <2>6 DEF Post, At, UnbookedPCs
    <3> QED BY <3>1, <1>3, <1>4 DEF Raise
  <2>7. CASE AnswerLost(t)
    <3>1. Goto(t, "failed") \/ Raise(t)
      BY <2>7 DEF AnswerLost
    <3> QED BY <3>1, <1>3, <1>4 DEF Raise
  <2>4. CASE Answer(t)
    BY <2>4, <1>4 DEF Answer
  <2>5. CASE Return(t)
    <3>1. /\ \A u \in Threads \ {t} : th'[u] = th[u]
          /\ th'[t].pc \in {"keep", "idle"}
      BY <2>5 DEF Return, Parked, TInv, TypeOK
    <3> QED BY <3>1 DEF ReadsNothing, UnbookedPCs
  <2> QED BY <2>1, <2>2, <2>3, <2>4, <2>5, <2>6, <2>7 DEF PlaceStep
<1>9. positions' = positions /\ exits' = exits /\ unnamed \subseteq unnamed'
  BY DEF PlaceStep, CheckUnresolved, CreateIntent, MarkSent, Post, Answer, AnswerLost,
     MarkUnknown, Return
<1> QED BY <1>5, <1>6, <1>7, <1>8, <1>9, BookKept DEF BooksFrame

\* An order that is being reconciled was created, and is locked unless an
\* administrator resolves it; the history order matched is its own, unless an
\* order of its kind was left unnamed.
LEMMA AtWorkLocked ==
    ASSUME TInv, IInv, NEW t \in Threads, ReconcileStep(t)
    PROVE  /\ th[t].cid \in Cids /\ intents[th[t].cid].status # "new"
           /\ t # Admin => intents[th[t].cid].locked
           /\ th[t].pc \in MatchedPCs =>
                (th[t].m = th[t].cid /\ Listed(th[t].cid)) \/ (t # Admin /\ Astray(th[t].cid))
<1>1. th[t].pc \in WorkPCs
  BY DEF ReconcileStep, At, WorkPCs, FetchHistory, CancelRemainder, RereadHistory,
     RecordFill, WritePosition, SettleIntent, MarkRemainderOpen
<1>2. th[t].cid \in Cids
  BY <1>1 DEF TInv, Prepared, ParkedPCs, WorkPCs
<1>3. th[t].cid # None
  BY <1>2, IntentAssumption
<1> QED BY <1>1, <1>2 DEF IInv, Held, OwnMatch, Fresh

\* The reconciliation up to a fill, and from the accounted fill on.
LEMMA ReconcileBooks ==
    ASSUME TInv, TInv', IInv, LockExclusive, BookInv, NEW t \in Threads, ReconcileStep(t),
           ~RecordFill(t), ~WritePosition(t)
    PROVE  BookInv'
<1> USE IntentAssumption, BrokerAssumption
<1> DEFINE c == th[t].cid
<1>0. c \in Cids /\ IntentsTypeOK
        /\ (th[t].pc \in MatchedPCs => th[t].m = c \/ Astray(c))
  BY AtWorkLocked DEF TInv, TypeOK
<1>1. ASSUME NEW res, NEW ok, Finish(t, res, ok)
      PROVE  \A u \in Threads : ReadsNothing(u)
  BY <1>1, FinishEffect DEF ReadsNothing, UnbookedPCs
<1>2. ASSUME NEW pc \in {"reread", "override"}, Goto(t, pc)
      PROVE  \A u \in Threads : ReadsNothing(u)
  BY <1>2, GotoEffect DEF ReadsNothing, UnbookedPCs
<1>3. ASSUME NEW s, NEW b, NEW r \in BOOLEAN, Update(c, s, b, r)
      PROVE  \A d \in Cids : intents'[d].locked => intents[d].locked
  BY <1>0, <1>3, UpdateTakesNoLock, SMTT(30)
<1>4. UNCHANGED <<rows, exits, positions, unnamed>>
  BY DEF ReconcileStep, FetchHistory, CancelRemainder, RereadHistory, SettleIntent,
     MarkRemainderOpen
<1>5. \A d \in Cids : venue[d].filled > 0 => venue'[d].filled > 0
  <2>1. venue' = venue \/ venue' = [venue EXCEPT ![th[t].m].state = "CANCELLED"]
    BY DEF ReconcileStep, FetchHistory, CancelRemainder, RereadHistory, SettleIntent,
       MarkRemainderOpen
  <2> QED BY <2>1, SMTT(30) DEF TInv, TypeOK
<1>6. ASSUME KeepUnknown(t)
      PROVE  /\ \A u \in Threads : ReadsNothing(u)
             /\ \A d \in Cids : intents'[d].locked => intents[d].locked
  BY <1>1, <1>3, <1>6 DEF KeepUnknown, Raise
<1>7. ASSUME NEW m, SettleDead(t, m)
      PROVE  /\ \A u \in Threads : ReadsNothing(u)
             /\ \A d \in Cids : intents'[d].locked => intents[d].locked
  BY <1>1, <1>3, <1>7 DEF SettleDead
<1>8. \A u \in Threads : ReadsNothing(u)
  <2>1. CASE FetchHistory(t)
    <3>0. t # Admin /\ intents[c].locked
      BY <2>1, AtWorkLocked, RoleFacts DEF FetchHistory, At, IInv, Roles
    <3>1. ASSUME NEW m \in Cids, {m} \in Matches(c), NEW pc \in {"cancel", "account"},
                 NEW label,
                 pc = "account" => venue[m].filled > 0,
                 th' = [th EXCEPT ![t].pc = pc, ![t].m = m, ![t].seen = venue[m].filled,
                                  ![t].qty = venue[m].filled, ![t].res = label]
          PROVE  \A u \in Threads : ReadsNothing(u)
      <4>1. m = c \/ Astray(c)
        BY <3>0, <3>1, <1>0, MatchIsOwn
      <4>2. /\ \A u \in Threads \ {t} : th'[u] = th[u]
            /\ th'[t].pc = pc /\ th'[t].cid = c
        BY <3>1 DEF TInv, TypeOK, ThreadState
      <4> QED BY <3>1, <4>1, <4>2 DEF ReadsNothing, UnbookedPCs
    <3>2. ASSUME ~KeepUnknown(t), \A m \in Cids : ~SettleDead(t, m)
          PROVE  \E m \in Cids : \E pc \in {"cancel", "account"}, label \in Labels(m) :
                   /\ {m} \in Matches(c)
                   /\ pc = "account" => venue[m].filled > 0
                   /\ th' = [th EXCEPT ![t].pc = pc, ![t].m = m, ![t].seen = venue[m].filled,
                                       ![t].qty = venue[m].filled, ![t].res = label]
      BY <2>1, <3>2, ZenonT(60) DEF FetchHistory
    <3> QED BY <3>1, <3>2, <1>6, <1>7, ZenonT(60)
  <2>2. CASE RereadHistory(t)
    <3>1. th[t].m = c \/ Astray(c)
      BY <2>2, <1>0 DEF RereadHistory, At, MatchedPCs
    <3>2. ASSUME NEW label, venue[th[t].m].filled > 0,
                 th' = [th EXCEPT ![t].pc = "account", ![t].qty = venue[th[t].m].filled,
                                  ![t].res = label]
          PROVE  \A u \in Threads : ReadsNothing(u)
      <4>1. /\ \A u \in Threads \ {t} : th'[u] = th[u]
            /\ th'[t].pc = "account" /\ th'[t].cid = c
        BY <3>2 DEF TInv, TypeOK, ThreadState
      <4> QED BY <3>1, <3>2, <4>1 DEF ReadsNothing
    <3> QED BY <2>2, <3>2, <1>6, <1>7, ZenonT(60) DEF RereadHistory
  <2>3. CASE CancelRemainder(t) \/ SettleIntent(t) \/ MarkRemainderOpen(t)
    BY <2>3, <1>1, <1>2 DEF CancelRemainder, SettleIntent, MarkRemainderOpen
  <2> QED BY <2>1, <2>2, <2>3 DEF ReconcileStep
<1>9. \A d \in Cids : intents'[d].locked => intents[d].locked
  <2>1. CASE FetchHistory(t) \/ RereadHistory(t)
    BY <2>1, <1>6, <1>7 DEF FetchHistory, RereadHistory
  <2>2. CASE CancelRemainder(t)
    BY <2>2 DEF CancelRemainder
  <2>3. CASE SettleIntent(t) \/ MarkRemainderOpen(t)
    BY <2>3, <1>3 DEF SettleIntent, UpdateConditional, MarkRemainderOpen
  <2> QED BY <2>1, <2>2, <2>3 DEF ReconcileStep
<1> QED BY <1>4, <1>5, <1>8, <1>9, BookKept DEF BooksFrame

\* The replay lists and takes up, the process dies, an administrator decides and
\* resolves.
LEMMA ReplayBooks ==
    ASSUME TInv, TInv', IInv, BookInv, ReplayStep \/ Crash
    PROVE  BookInv'
<1>0. Replayer \in Threads
  BY DEF Threads
<1>1. UNCHANGED <<intents, rows, exits, positions, venue, unnamed>>
  BY DEF ReplayStep, ListReconcilable, ReplayDone, ReplayNext, Crash
<1>a. BooksFrame
  BY <1>1 DEF BooksFrame
<1>2. CASE ListReconcilable \/ ReplayDone
  <2>1. \A u \in Threads : ReadsNothing(u)
    <3>1. PICK pc \in {"next", "done"} : Goto(Replayer, pc)
      BY <1>2 DEF ListReconcilable, ReplayDone
    <3> QED BY <1>0, <3>1, GotoEffect DEF ReadsNothing, UnbookedPCs
  <2> QED BY <1>1, <1>a, <2>1, BookKept
<1>3. ASSUME NEW c \in Cids, ReplayNext(c) PROVE BookInv'
  <2>1. /\ \A u \in Threads \ {Replayer} : th'[u] = th[u]
        /\ th'[Replayer].pc = "fetch"
    BY <1>0, <1>3 DEF ReplayNext, Parked, TInv, TypeOK
  <2>2. \A u \in Threads : ReadsNothing(u)
    BY <2>1 DEF ReadsNothing, UnbookedPCs
  <2> QED BY <1>1, <1>a, <2>2, BookKept
<1>4. CASE Crash
  <2>1. \A u \in Threads : ReadsNothing(u)
    BY <1>4 DEF Crash, ThreadsAtBoot, Parked, ReadsNothing, UnbookedPCs
  <2> QED BY <1>1, <1>a, <2>1, BookKept
<1> QED BY <1>2, <1>3, <1>4 DEF ReplayStep

LEMMA AdminBooks ==
    ASSUME TInv, TInv', IInv, BookInv, AdminStep
    PROVE  BookInv'
<1> USE BrokerAssumption
<1>0. Admin \in Threads /\ IntentsTypeOK /\ th[Admin] \in ThreadState
  BY SMTT(30) DEF Threads, TInv, TypeOK
<1>1. UNCHANGED <<rows, exits, positions, venue, unnamed>>
  BY DEF AdminStep, AdminResolves, AdminDecides
<1>2. CASE AdminResolves
  <2>1. PICK b : Update(th[Admin].cid, th[Admin].final, b, TRUE)
    BY <1>2 DEF AdminResolves
  <2>2. \A d \in Cids : intents'[d].locked => intents[d].locked
    BY <1>0, <2>1, UpdateTakesNoLock DEF ThreadState
  <2>3. \A u \in Threads : ReadsNothing(u)
    BY <1>0, <1>2 DEF AdminResolves, Parked, ReadsNothing, UnbookedPCs, TInv, TypeOK
  <2> QED BY <1>1, <2>2, <2>3, BookKept DEF BooksFrame
<1>3. ASSUME NEW c \in Cids, AdminDecides(c) PROVE BookInv'
  <2>1. /\ \A u \in Threads \ {Admin} : th'[u] = th[u]
        /\ \/ th'[Admin].pc = "resolve"
           \/ th'[Admin].pc = "account" /\ th'[Admin].cid = c /\ venue[c].filled > 0
    <3>1. PICK pc \in {"resolve", "account"} :
             /\ \E m, q, final :
                   th' = [th EXCEPT ![Admin] = [Parked(pc) EXCEPT !.cid = c, !.m = m,
                                                                  !.qty = q, !.final = final]]
             /\ pc = "account" => venue[c].filled > 0
      BY <1>3, Zenon DEF AdminDecides
    <3> QED BY <1>0, <3>1 DEF Parked, TInv, TypeOK
  <2>2. \A u \in Threads : ReadsNothing(u)
    BY <2>1 DEF ReadsNothing, UnbookedPCs
  <2>3. intents' = intents
    BY <1>3 DEF AdminDecides
  <2> QED BY <1>1, <2>2, <2>3, BookKept DEF BooksFrame
<1> QED BY <1>2, <1>3 DEF AdminStep

----
(* The steps that read the positions and write them.                       *)

\* Reading the positions finds open ones.
LEMMA RecordBooks ==
    ASSUME TInv, TInv', IInv, BookInv, NEW t \in Threads, RecordFill(t)
    PROVE  BookInv'
<1> USE IntentAssumption, BrokerAssumption
<1> DEFINE c == th[t].cid
           open == OpenPositions(TickerOf[c])
           Passes(p, blind) ==
             th' = [th EXCEPT ![t].pc = "write", ![t].pos = p, ![t].blind = blind]
<1>0. c \in Cids
  BY AtWorkLocked, SMTT(30) DEF ReconcileStep
<1>1. th[t].pc = "account" /\ (venue[c].filled > 0 \/ Astray(c))
  BY DEF RecordFill, At, BookInv, Reads
<1>2. UNCHANGED <<intents, exits, positions, venue, unnamed>>
  BY DEF RecordFill
<1>3. \A d \in Cids : rows[d] # "none" => rows'[d] # "none"
  <2>1. t # Admin => th[t].res # "none"
    BY <1>1 DEF TInv, Prepared, ListedStates, OpenStates
  <2> QED BY <2>1, <1>0 DEF RecordFill, TInv, TypeOK
<1>4. CASE \E final : Accounted(t, final)
  <2>1. \A u \in Threads : ReadsNothing(u)
    BY <1>4 DEF Accounted, ReadsNothing, UnbookedPCs, TInv, TypeOK, ThreadState
  <2> QED BY <1>2, <1>3, <2>1, BookKept DEF BooksFrame
<1>5. ASSUME NEW p, NEW blind, Passes(p, blind),
             c \in Buys /\ ~blind => open = {} \/ SharesTicker(c),
             c \notin Buys => p \in open
      PROVE  BookInv'
  <2>1. /\ \A u \in Threads \ {t} : th'[u] = th[u]
        /\ th'[t].pc = "write" /\ th'[t].cid = c /\ th'[t].pos = p /\ th'[t].blind = blind
    BY <1>5 DEF TInv, TypeOK, ThreadState
  <2>2. ASSUME NEW u \in Threads PROVE Reads(u)'
    <3>1. CASE u = t
      <4>1. c \in Buys /\ ~blind => \A q \in positions : q.entry = c /\ IsOpen(q)
                                                        => SharesTicker(c)
        BY <1>5 DEF OpenPositions
      <4>2. ASSUME c \notin Buys
            PROVE  /\ Recorded(p) /\ TickerOf[p.entry] = TickerOf[c]
                   /\ \A q \in positions : SameRow(p, q) => q.closer = "nobody"
        <5>1. p \in positions /\ IsOpen(p) /\ TickerOf[p.entry] = TickerOf[c]
          BY <4>2, <1>5 DEF OpenPositions
        <5> QED BY <5>1 DEF Recorded, SameRow, IsOpen, BookInv, Numbered
      <4> QED
        BY <2>1, <3>1, <4>1, <4>2, <1>1, <1>2
        DEF Reads, SharesTicker, Recorded, Astray, UnbookedPCs
    <3>2. CASE u # t
      <4>1. Reads(u)
        BY DEF BookInv
      <4> QED BY <2>1, <3>2, <4>1, <1>2 DEF Reads, BookedFill, SharesTicker, Recorded, Astray
    <3> QED BY <3>1, <3>2
  <2>3. Booked'
    BY <1>2, <1>3 DEF BookInv, Booked, Astray, TInv, TypeOK, Position
  <2>4. Numbered' /\ AccountedOnce' /\ (\A d \in Cids : exits[d] # None => Recorded(exits[d]))'
    BY <1>2 DEF BookInv, Numbered, PositionsOf, AccountedOnce, SharesTicker, Recorded
  <2> QED BY <2>2, <2>3, <2>4 DEF BookInv
<1>6. (\E p \in open : p.entry # c) => SharesTicker(c)
  BY DEF SharesTicker, OpenPositions
<1>7. \/ \E final : Accounted(t, final)
      \/ c \in Buys /\ (open = {} \/ \E p \in open : p.entry # c) /\ Passes(None, FALSE)
      \/ c \notin Buys /\ \E p \in open : Passes(p, FALSE)
      \/ c \in Buys /\ Passes(None, TRUE)
  BY ZenonT(60) DEF RecordFill
<1> QED BY <1>4, <1>5, <1>6, <1>7

\* A step of a thread that has written to the positions and leaves the rest alone.
Wrote(t) ==
    /\ UNCHANGED <<intents, rows, exits, venue, unnamed>>
    /\ \A u \in Threads \ {t} : th'[u] = th[u]
    /\ th'[t].pc \notin UnbookedPCs \cup {"account", "write"}

\* A new position is numbered after the others of its order.
LEMMA OpenBooks ==
    ASSUME TInv, TInv', IInv, BookInv, NEW t \in Threads, Wrote(t),
           NEW c \in Cids, NEW qty, NEW made, OpenPosition(c, qty, made),
           made # "agent" => /\ th[t].pc = "write" /\ th[t].cid = c /\ c \in Buys
                             /\ made = "accounting" => ~th[t].blind
    PROVE  BookInv'
<1> USE IntentAssumption, BrokerAssumption
<1> DEFINE n == Cardinality(PositionsOf(c))
           new == [entry |-> c, n |-> n, qty |-> qty, exit |-> None, made |-> made,
                   closer |-> "nobody"]
<1>1. positions' = positions \cup {new}
  BY DEF OpenPosition, PositionsOf
<1>2. UNCHANGED <<intents, rows, exits, venue, unnamed>>
  BY DEF Wrote
<1>3. IsFiniteSet(PositionsOf(c)) /\ n \in Nat
  BY FS_Subset, FS_CardinalityType DEF PositionsOf, TInv
<1>4. new.entry = c /\ new.n = n /\ new.made = made /\ new.closer = "nobody"
  OBVIOUS
<1>5. \A p \in positions : p.entry = c => p.n # n
  <2> SUFFICES ASSUME NEW p \in positions, p.entry = c PROVE p.n # n
    OBVIOUS
  <2>1. p.n < n /\ p.n \in Nat
    BY DEF BookInv, Numbered, TInv, TypeOK, Position
  <2> QED BY <2>1, <1>3
<1>6. new \notin positions
  BY <1>4, <1>5
<1> HIDE DEF new, n
<1>7. made = "accounting" =>
        \A p \in positions : p.entry = c /\ IsOpen(p) /\ p.made = "accounting" => SharesTicker(c)
  BY DEF BookInv, Reads
<1>8. \A x \in Cids : SharesTicker(x) => \E r \in positions' : r.entry # x
                                                           /\ TickerOf[r.entry] = TickerOf[x]
  BY <1>1 DEF SharesTicker
<1>a. \A p : Recorded(p) => \E q \in positions' : SameRow(p, q) /\ q.made = p.made
  BY <1>1 DEF Recorded
<1>9. Booked'
  <2>1. made # "agent" => rows[c] # "none" /\ (venue[c].filled > 0 \/ Astray(c))
    BY DEF IInv, Fresh, BookInv, Reads
  <2> QED BY <2>1, <1>1, <1>2, <1>4 DEF BookInv, Booked, Astray
<1>10. ASSUME NEW u \in Threads PROVE Reads(u)'
  <2>1. CASE u = t
    BY <2>1 DEF Wrote, Reads, UnbookedPCs
  <2>2. CASE u # t
    <3> DEFINE d == th[u].cid
    <3>1. th'[u] = th[u] /\ Reads(u)
      BY <2>2 DEF Wrote, BookInv
    <3>2. made # "agent" => d # c
      BY <2>2 DEF IInv, OneWorker
    <3>3. th[u].pc \in UnbookedPCs => ~\E p \in positions' : p.entry = d /\ p.made # "agent"
      BY <3>1, <3>2, <1>1, <1>4 DEF Reads, BookedFill
    <3>4. th[u].pc = "write" /\ d \in Buys /\ ~th[u].blind =>
            \A p \in positions' : p.entry = d /\ IsOpen(p) /\ p.made = "accounting" =>
              \E r \in positions' : r.entry # d /\ TickerOf[r.entry] = TickerOf[d]
      BY <3>1, <3>2, <1>1, <1>4, <1>8 DEF Reads
    <3>5. th[u].pc = "write" /\ d \notin Buys =>
            /\ \E q \in positions' : SameRow(th[u].pos, q) /\ q.made = th[u].pos.made
            /\ TickerOf[th[u].pos.entry] = TickerOf[d]
            /\ \A q \in positions' : SameRow(th[u].pos, q) /\ q.closer = "accounting"
                                     => ~intents[d].locked
      BY <3>1, <1>1, <1>4, <1>a DEF Reads
    <3>6. th[u].pc \in {"account", "write"} => venue[d].filled > 0 \/ Astray(d)
      BY <3>1 DEF Reads
    <3> QED
      BY <3>1, <3>3, <3>4, <3>5, <3>6, <1>2
      DEF Reads, BookedFill, SharesTicker, Recorded, Astray
  <2> QED BY <2>1, <2>2
<1>11. Numbered'
  <2>1. \A p, q \in positions' : p.entry = q.entry /\ p.n = q.n => p = q
    BY <1>1, <1>4, <1>5 DEF BookInv, Numbered
  <2> DEFINE After(d) == {p \in positions' : p.entry = d}
  <2>2. \A d : After(d) = IF d = c THEN PositionsOf(c) \cup {new} ELSE PositionsOf(d)
    BY <1>1, <1>4 DEF PositionsOf
  <2>3. Cardinality(After(c)) = n + 1
    <3>1. new \notin PositionsOf(c)
      BY <1>6 DEF PositionsOf
    <3>2. Cardinality(PositionsOf(c) \cup {new}) = n + 1
      BY <3>1, <1>3, FS_AddElement DEF n
    <3> QED BY <2>2, <3>2
  <2> HIDE DEF After
  <2>4. ASSUME NEW p \in positions' PROVE p.n < Cardinality(After(p.entry))
    <3>1. CASE p = new
      BY <2>3, <3>1, <1>3, <1>4
    <3>2. CASE p \in positions /\ p.entry = c
      <4>1. p.n < n /\ p.n \in Nat
        BY <3>2 DEF BookInv, Numbered, TInv, TypeOK, Position, n
      <4> QED BY <2>3, <3>2, <4>1, <1>3
    <3>3. CASE p \in positions /\ p.entry # c
      BY <2>2, <3>3 DEF BookInv, Numbered
    <3> QED BY <3>1, <3>2, <3>3, <1>1
  <2> QED BY <2>1, <2>4 DEF Numbered, PositionsOf, After
<1>12. AccountedOnce'
  <2> SUFFICES ASSUME NEW p \in positions', NEW q \in positions', p.entry = q.entry, p # q,
                      IsOpen(p), IsOpen(q), p.made = "accounting", q.made = "accounting"
               PROVE  \E r \in positions' : r.entry # p.entry
                                              /\ TickerOf[r.entry] = TickerOf[p.entry]
    BY DEF AccountedOnce, SharesTicker, IsOpen
  <2>0. p.entry \in Cids
    BY DEF TInv, TypeOK, Position
  <2>1. CASE p \in positions /\ q \in positions
    BY <2>0, <2>1, <1>8 DEF BookInv, AccountedOnce
  <2>2. CASE p = new \/ q = new
    <3>1. p.entry = c /\ made = "accounting"
      BY <2>2, <1>4
    <3>2. \E x \in positions : x.entry = c /\ IsOpen(x) /\ x.made = "accounting"
      BY <2>2, <3>1, <1>1
    <3> QED BY <3>1, <3>2, <1>7, <1>8
  <2> QED BY <2>1, <2>2, <1>1
<1>13. (\A d \in Cids : exits[d] # None => Recorded(exits[d]))'
  <2>1. \A d \in Cids : exits'[d] # None =>
          \E q \in positions' : SameRow(exits'[d], q) /\ q.made = exits'[d].made
    BY <1>2, <1>a DEF BookInv
  <2> QED BY <2>1 DEF Recorded
<1> QED BY <1>9, <1>10, <1>11, <1>12, <1>13 DEF BookInv

\* To exchange one element of a finite set for another keeps its size.
LEMMA SwapElement ==
    ASSUME NEW S, IsFiniteSet(S), NEW x \in S, NEW y, y \notin S \ {x}
    PROVE  Cardinality((S \ {x}) \cup {y}) = Cardinality(S)
<1>1. Cardinality(S) \in Nat
  BY FS_CardinalityType
<1>2. IsFiniteSet(S \ {x})
  BY FS_Subset
<1>3. Cardinality(S \ {x}) = Cardinality(S) - 1
  BY FS_RemoveElement
<1> DEFINE rest == S \ {x}
<1> HIDE DEF rest
<1>4. IsFiniteSet(rest) /\ y \notin rest
  BY <1>2 DEF rest
<1>5. Cardinality(rest \cup {y}) = Cardinality(rest) + 1
  BY <1>4, FS_AddElement
<1>6. Cardinality(rest) = Cardinality(S) - 1
  BY <1>3 DEF rest
<1>7. Cardinality(rest \cup {y}) = Cardinality(S)
  BY ONLY <1>1, <1>5, <1>6
<1> QED BY <1>7 DEF rest

\* A close exchanges one row for another of the same entry order and number.  By the
\* accounting of a sale that holds its lock, it is the row of a ticker on which no
\* other thread holds one.
LEMMA CloseBooks ==
    ASSUME TInv, TInv', IInv, LockExclusive, BookInv, NEW t \in Threads, Wrote(t),
           NEW pos \in Position, Recorded(pos), NEW exit,
           NEW closer \in {"accounting", "admin", "caller"}, ClosePosition(pos, exit, closer),
           closer = "accounting" => /\ th[t].cid \in Cids /\ intents[th[t].cid].locked
                                    /\ TickerOf[pos.entry] = TickerOf[th[t].cid]
    PROVE  BookInv'
<1> USE IntentAssumption, BrokerAssumption
<1> DEFINE new == [pos EXCEPT !.exit = exit, !.closer = closer]
<1>1. PICK row \in positions : SameRow(pos, row) /\ row.made = pos.made
  BY DEF Recorded
<1>2. UNCHANGED <<intents, rows, exits, venue, unnamed>>
  BY DEF Wrote
<1>3. /\ new.entry = row.entry /\ new.n = row.n /\ new.made = row.made
      /\ new.closer = closer /\ new.closer # "nobody" /\ row.entry \in Cids
      /\ pos.entry = row.entry /\ pos.n = row.n
  BY <1>1 DEF Position, SameRow, TInv, TypeOK
<1>4. positions' = (positions \ {row}) \cup {new}
  <2>1. \A q \in positions : SameRow(pos, q) <=> q = row
    BY <1>1, <1>3 DEF BookInv, Numbered, SameRow
  <2> QED BY <2>1 DEF ClosePosition
<1>5. new \notin positions \ {row}
  BY <1>1, <1>3 DEF BookInv, Numbered
<1> HIDE DEF new
<1>8. \A x \in Cids : SharesTicker(x) => \E r \in positions' : r.entry # x
                                                           /\ TickerOf[r.entry] = TickerOf[x]
  BY <1>3, <1>4 DEF SharesTicker
<1>a. \A p : Recorded(p) => \E q \in positions' : SameRow(p, q) /\ q.made = p.made
  BY <1>3, <1>4 DEF Recorded, SameRow
<1>b. \A p \in positions' : \E q \in positions : SameRow(p, q) /\ q.made = p.made
  BY <1>3, <1>4 DEF SameRow
<1>c. \A p \in positions' : IsOpen(p) => p \in positions
  BY <1>3, <1>4 DEF IsOpen
<1>6. Booked'
  BY <1>2, <1>b DEF BookInv, Booked, Astray, SameRow
<1>7. ASSUME NEW u \in Threads PROVE Reads(u)'
  <2>1. CASE u = t
    BY <2>1 DEF Wrote, Reads, UnbookedPCs
  <2>2. CASE u # t
    <3> DEFINE d == th[u].cid
    <3>1. th'[u] = th[u] /\ Reads(u)
      BY <2>2 DEF Wrote, BookInv
    <3>3. th[u].pc \in UnbookedPCs => ~\E p \in positions' : p.entry = d /\ p.made # "agent"
      BY <3>1, <1>b DEF Reads, BookedFill, SameRow
    <3>4. th[u].pc = "write" /\ d \in Buys /\ ~th[u].blind =>
            \A p \in positions' : p.entry = d /\ IsOpen(p) /\ p.made = "accounting" =>
              \E r \in positions' : r.entry # d /\ TickerOf[r.entry] = TickerOf[d]
      BY <3>1, <1>c, <1>8 DEF Reads
    <3>5. ASSUME th[u].pc = "write", d \notin Buys
          PROVE  /\ \E q \in positions' : SameRow(th[u].pos, q) /\ q.made = th[u].pos.made
                 /\ TickerOf[th[u].pos.entry] = TickerOf[d]
      BY <3>1, <3>5, <1>a DEF Reads
    <3>6. ASSUME th[u].pc = "write", d \notin Buys, NEW q \in positions',
                 SameRow(th[u].pos, q), q.closer = "accounting", intents[d].locked
          PROVE  FALSE
      <4>1. q = new
        BY <3>1, <3>6, <1>4 DEF Reads
      <4>2. TickerOf[th[u].pos.entry] = TickerOf[pos.entry] /\ closer = "accounting"
        BY <3>6, <4>1, <1>3 DEF SameRow
      <4>3. d \in Cids /\ d # th[t].cid
        BY <2>2, <3>6 DEF IInv, OneWorker, TInv, Prepared, ParkedPCs
      <4> QED BY <3>5, <3>6, <4>2, <4>3 DEF LockExclusive
    <3>7. th[u].pc \in {"account", "write"} => venue[d].filled > 0 \/ Astray(d)
      BY <3>1 DEF Reads
    <3> QED
      BY <3>1, <3>3, <3>4, <3>5, <3>6, <3>7, <1>2
      DEF Reads, BookedFill, SharesTicker, Recorded, Astray
  <2> QED BY <2>1, <2>2
<1>9. Numbered'
  <2>1. \A p, q \in positions' : p.entry = q.entry /\ p.n = q.n => p = q
    BY <1>3, <1>4 DEF BookInv, Numbered
  <2> DEFINE After(d) == {p \in positions' : p.entry = d}
             e == row.entry
  <2>2. /\ \A d : d # e => After(d) = PositionsOf(d)
        /\ After(e) = (PositionsOf(e) \ {row}) \cup {new}
    BY <1>3, <1>4 DEF PositionsOf
  <2>3. Cardinality(After(e)) = Cardinality(PositionsOf(e))
    <3> DEFINE S == PositionsOf(e)
    <3>1. IsFiniteSet(S) /\ row \in S /\ new \notin S \ {row}
      BY <1>5, FS_Subset DEF PositionsOf, TInv
    <3> HIDE DEF S
    <3>2. Cardinality((S \ {row}) \cup {new}) = Cardinality(S)
      BY <3>1, SwapElement
    <3> QED BY <2>2, <3>2 DEF S
  <2> HIDE DEF After, e
  <2>4. ASSUME NEW p \in positions' PROVE p.n < Cardinality(After(p.entry))
    <3>1. \E q \in positions : q.entry = p.entry /\ q.n = p.n
      BY <1>b DEF SameRow
    <3> QED BY <2>2, <2>3, <3>1 DEF BookInv, Numbered
  <2> QED BY <2>1, <2>4 DEF Numbered, PositionsOf, After
<1>10. AccountedOnce'
  <2> SUFFICES ASSUME NEW p \in positions', NEW q \in positions', p.entry = q.entry, p # q,
                      IsOpen(p), IsOpen(q), p.made = "accounting", q.made = "accounting"
               PROVE  \E r \in positions' : r.entry # p.entry
                                              /\ TickerOf[r.entry] = TickerOf[p.entry]
    BY DEF AccountedOnce, SharesTicker, IsOpen
  <2>1. p \in positions /\ q \in positions /\ p.entry \in Cids
    BY <1>c DEF TInv, TypeOK, Position
  <2> QED BY <2>1, <1>8 DEF BookInv, AccountedOnce
<1>11. (\A d \in Cids : exits[d] # None => Recorded(exits[d]))'
  <2>1. \A d \in Cids : exits'[d] # None =>
          \E q \in positions' : SameRow(exits'[d], q) /\ q.made = exits'[d].made
    BY <1>2, <1>a DEF BookInv
  <2> QED BY <2>1 DEF Recorded
<1> QED BY <1>6, <1>7, <1>9, <1>10, <1>11 DEF BookInv

\* What the thread of a write or of the caller's books becomes.
LEMMA AfterWrite ==
    ASSUME TInv, NEW t \in Threads, WritePosition(t) \/ KeepBooks(t)
    PROVE  Wrote(t)
<1>1. CASE WritePosition(t)
  <2>1. PICK final : Accounted(t, final)
    BY <1>1 DEF WritePosition
  <2> QED BY <1>1, <2>1 DEF WritePosition, Accounted, Wrote, UnbookedPCs, TInv, TypeOK, ThreadState
<1>2. CASE KeepBooks(t)
  BY <1>2 DEF KeepBooks, Parked, Wrote, UnbookedPCs, TInv, TypeOK
<1> QED BY <1>1, <1>2

LEMMA UnwrittenBooks ==
    ASSUME TInv, TInv', IInv, BookInv, NEW t \in Threads, Wrote(t), positions' = positions
    PROVE  BookInv'
<1>1. \A u \in Threads : ReadsNothing(u)
  BY DEF Wrote, ReadsNothing
<1> QED BY <1>1, BookKept DEF Wrote, BooksFrame

LEMMA WriteBooks ==
    ASSUME TInv, TInv', IInv, LockExclusive, BookInv, NEW t \in Threads, WritePosition(t)
    PROVE  BookInv'
<1> DEFINE c == th[t].cid
           made == IF th[t].blind THEN "unread" ELSE "accounting"
           closer == IF intents[c].locked THEN "accounting" ELSE "admin"
           exit == IF c \in Linked THEN c ELSE None
<1>0. c \in Cids /\ th[t].pc = "write" /\ Wrote(t)
  BY AtWorkLocked, AfterWrite DEF ReconcileStep, WritePosition, At
<1>1. CASE positions' = positions
  BY <1>0, <1>1, UnwrittenBooks
<1>2. CASE c \in Buys /\ OpenPosition(c, th[t].qty, made)
  <2>1. made = "accounting" => ~th[t].blind
    OBVIOUS
  <2> HIDE DEF made
  <2> QED BY <1>0, <1>2, <2>1, OpenBooks
<1>3. CASE c \notin Buys /\ ClosePosition(th[t].pos, exit, closer)
  <2>1. /\ th[t].pos \in Position /\ Recorded(th[t].pos)
        /\ TickerOf[th[t].pos.entry] = TickerOf[c]
    BY <1>0, <1>3 DEF TInv, Prepared, BookInv, Reads
  <2>2. closer \in {"accounting", "admin", "caller"} /\ (closer = "accounting" => intents[c].locked)
    OBVIOUS
  <2> HIDE DEF closer, exit
  <2> QED BY <1>0, <1>3, <2>1, <2>2, CloseBooks
<1> QED BY <1>1, <1>2, <1>3 DEF WritePosition

\* The books that the callers keep themselves.
LEMMA KeepBooksBooks ==
    ASSUME TInv, TInv', ExitsKnown, IInv, LockExclusive, BookInv, NEW t \in Threads, KeepBooks(t)
    PROVE  BookInv'
<1> USE IntentAssumption, BrokerAssumption
<1> DEFINE c == th[t].m
<1>0. c \in Cids /\ Wrote(t)
  BY AfterWrite DEF KeepBooks, At, TInv, Prepared
<1>1. CASE positions' = positions
  BY <1>0, <1>1, UnwrittenBooks
<1>2. CASE OpenPosition(c, Qty, "agent")
  BY <1>0, <1>2, OpenBooks
<1>3. CASE IsExit(c) /\ ClosePosition(exits[c], None, "caller")
  <2>1. exits[c] \in Position
    <3>1. t \in Submitters
      BY RoleFacts DEF KeepBooks, At, ExitsKnown, Threads, MatchedPCs
    <3> QED BY <3>1, <1>3 DEF ExitsKnown, KeepBooks, At
  <2>2. Recorded(exits[c])
    <3>1. exits[c] # None
      BY <2>1, PositionAssumption
    <3> QED BY <1>0, <3>1 DEF BookInv
  <2> QED BY <1>0, <1>3, <2>1, <2>2, CloseBooks
<1> QED BY <1>1, <1>2, <1>3 DEF KeepBooks

----
(* What follows.                                                           *)

LEMMA BookStep ==
    ASSUME TInv, TInv', ExitsKnown, IInv, LockExclusive, BookInv, [Next]_vars
    PROVE  BookInv'
<1>1. CASE UNCHANGED vars
  <2>1. \A u \in Threads : ReadsNothing(u)
    BY <1>1 DEF vars, ReadsNothing
  <2>2. BooksFrame /\ positions' = positions
    BY <1>1 DEF vars, BooksFrame
  <2> QED BY <2>1, <2>2, BookKept
<1>2. ASSUME NEW t \in Threads, ReconcileStep(t) PROVE BookInv'
  BY <1>2, ReconcileBooks, RecordBooks, WriteBooks
<1>3. ASSUME NEW t \in Threads, PlaceStep(t) PROVE BookInv'
  BY <1>3, PlaceBooks, KeepBooksBooks
<1> QED BY <1>1, <1>2, <1>3, VenueBooks, SubmitBooks, ReplayBooks, AdminBooks DEF Next

LEMMA BookInit == Init => BookInv
<1> SUFFICES ASSUME Init PROVE BookInv
  OBVIOUS
<1>1. /\ positions = {} /\ \A t \in Threads : th[t].pc \in {"idle", "start"}
      /\ \A c \in Cids : exits[c] = None
  BY DEF Init, ThreadsAtBoot, Parked
<1> QED BY <1>1 DEF BookInv, Booked, Reads, UnbookedPCs, Numbered, AccountedOnce

\* The invariant of the books: what was booked belongs to a filled BUY or to the
\* fill of an unnamed order, copies of positions name rows, and no thread is about
\* to book a second open position or to close over another accounting.
THEOREM BooksInvariant == Disciplined => (Spec => []BookInv)
<1> SUFFICES ASSUME Disciplined PROVE Spec => []BookInv
  OBVIOUS
<1>1. TInv /\ TInv' /\ ExitsKnown /\ IInv /\ LockExclusive /\ BookInv /\ [Next]_vars => BookInv'
  BY BookStep
<1> QED BY <1>1, BookInit, TypesAlways, ProcedureInvariant, TickerLockExcludes, PTL DEF Spec

\* Under the operating procedure, a fill that is accounted again, by the replay
\* after a crash or by an administrator, opens no second position beside an open
\* one, unless the ticker also has a position of another order or the position
\* read failed.
THEOREM FillsAccountedOnce == Disciplined => (Spec => []AccountedOnce)
<1>1. BookInv => AccountedOnce
  BY DEF BookInv
<1> QED BY <1>1, BooksInvariant, PTL

\* A lock is released by the answer to a request, by the discovery that the order
\* is dead, and by an administrator; the first two only where nothing was booked,
\* unless an unnamed order was taken for the intent's own.
LEMMA ReleaseStep ==
    ASSUME TInv, IInv, LockExclusive, BookInv, Next, NEW p \in positions, p.made # "agent",
           intents[p.entry].locked, ~intents'[p.entry].locked
    PROVE  (At(Admin, "resolve") /\ th[Admin].cid = p.entry) \/ Astray(p.entry)
<1> USE IntentAssumption, BrokerAssumption
<1> SUFFICES ASSUME ~Astray(p.entry)
             PROVE  At(Admin, "resolve") /\ th[Admin].cid = p.entry
  OBVIOUS
<1> DEFINE e == p.entry
<1>0. e \in Cids /\ venue[e].filled > 0 /\ venue[e].filled \in 0..Qty /\ BookedFill(e)
        /\ IntentsTypeOK
  BY DEF BookInv, Booked, BookedFill, TInv, TypeOK
<1>1. intents' # intents
  OBVIOUS
<1>2. ASSUME NEW c \in Cids, NEW s, NEW b, NEW r \in BOOLEAN, Update(c, s, b, r)
      PROVE  e = c /\ r
  BY <1>0, <1>2, UpdateEffect
<1>3. ASSUME NEW t \in Threads, PlaceStep(t) PROVE FALSE
  <2> DEFINE c == th[t].cid
  <2>a. ~KeepBooks(t)
    BY <1>1 DEF KeepBooks
  <2>0. c \in Cids
    BY <1>3, <2>a DEF TInv, Prepared, ParkedPCs, At, PlaceStep, CheckUnresolved, CreateIntent,
       MarkSent, Post, Answer, AnswerLost, MarkUnknown, Return
  <2>1. CASE Answer(t)
    <3>1. PICK s, b : Update(c, s, b, ReleasedBy(s)) /\ ReleasedBy(s) \in BOOLEAN
      BY <2>1 DEF Answer, ReleasedBy
    <3>2. e = c
      BY <2>0, <3>1, <1>2
    <3> QED BY <2>1, <3>2, <1>0 DEF Answer, At, BookInv, Reads, UnbookedPCs
  <2>2. CASE CreateIntent(t)
    <3>1. Create(c)
      BY <2>2, <1>1 DEF CreateIntent
    <3> QED BY <2>0, <3>1, <1>0 DEF Create, IntentsTypeOK
  <2>3. CASE MarkSent(t) \/ MarkUnknown(t)
    BY <2>0, <2>3, <1>2 DEF MarkSent, MarkUnknown
  <2> QED
    BY <2>1, <2>2, <2>3, <2>a, <1>1, <1>3
    DEF PlaceStep, CheckUnresolved, Post, AnswerLost, Return
<1>4. ASSUME NEW t \in Threads, ReconcileStep(t) PROVE FALSE
  <2> DEFINE c == th[t].cid
  <2>0. /\ c \in Cids /\ (t # Admin => intents[c].locked)
        /\ th[t].pc \in MatchedPCs => th[t].m = c \/ Astray(c)
    BY <1>4, AtWorkLocked
  <2>1. ~KeepUnknown(t)
    BY <2>0, <1>2 DEF KeepUnknown
  <2>2. ASSUME NEW m \in Cids, m = c \/ Astray(c), Dead(m), SettleDead(t, m) PROVE FALSE
    <3>1. e = c
      BY <2>0, <2>2, <1>2 DEF SettleDead
    <3> QED BY <2>2, <3>1, <1>0 DEF Dead
  <2>3. CASE FetchHistory(t)
    <3>1. PICK m \in Cids : {m} \in Matches(c) /\ Dead(m) /\ SettleDead(t, m)
      BY <2>1, <2>3, <1>1 DEF FetchHistory
    <3>2. t # Admin
      BY <2>3, RoleFacts DEF FetchHistory, At, IInv, Roles
    <3> QED BY <2>0, <2>2, <3>1, <3>2, MatchIsOwn, SMTT(30)
  <2>4. CASE RereadHistory(t)
    <3>1. th[t].m \in Cids /\ (th[t].m = c \/ Astray(c))
      BY <2>0, <2>4 DEF RereadHistory, At, MatchedPCs, TInv, Prepared
    <3> QED BY <2>1, <2>2, <2>4, <3>1, <1>1 DEF RereadHistory
  <2>5. CASE SettleIntent(t) \/ MarkRemainderOpen(t)
    BY <2>0, <2>5, <1>1, <1>2 DEF SettleIntent, UpdateConditional, MarkRemainderOpen
  <2> QED
    BY <2>3, <2>4, <2>5, <1>1, <1>4
    DEF ReconcileStep, CancelRemainder, RecordFill, WritePosition
<1>5. CASE AdminStep
  <2>1. AdminResolves
    BY <1>1, <1>5 DEF AdminStep, AdminDecides
  <2>2. Admin \in Threads /\ th[Admin].cid \in Cids
    BY <2>1 DEF AdminResolves, At, Threads, TInv, Prepared, ParkedPCs
  <2>3. PICK b : Update(th[Admin].cid, th[Admin].final, b, TRUE)
    BY <2>1 DEF AdminResolves
  <2> QED BY <2>1, <2>2, <2>3, <1>2 DEF AdminResolves
<1> QED
  BY <1>1, <1>3, <1>4, <1>5
  DEF Next, VenueStep, VenueDecides, VenueFills, VenueCancels, Submit, PendingExit,
      ReplayStep, ListReconcilable, ReplayDone, ReplayNext, Crash

\* Under the operating procedure, the lock of an intent whose fill reconciliation
\* has booked is released by an administrator and nobody else, unless an unnamed
\* order was taken for the intent's own.
THEOREM BookedReleases == Disciplined => (Spec => BookedReleasedByAdmin)
<1> SUFFICES ASSUME Disciplined PROVE Spec => BookedReleasedByAdmin
  OBVIOUS
<1>1. TInv /\ IInv /\ LockExclusive /\ BookInv /\ [Next]_vars =>
        [\A p \in positions :
           LET c == p.entry
           IN  p.made # "agent" /\ intents[c].locked /\ ~intents'[c].locked
               => (At(Admin, "resolve") /\ th[Admin].cid = c) \/ Astray(c)]_vars
  BY ReleaseStep
<1> QED
  BY <1>1, BooksInvariant, TInvAlways, ProcedureInvariant, TickerLockExcludes, PTL
  DEF Spec, BookedReleasedByAdmin

\* What a close leaves of the other rows, and of its own.
LEMMA CloseEffect ==
    ASSUME TInv, NEW p \in positions, NEW pos \in Position, NEW exit, NEW closer,
           ClosePosition(pos, exit, closer)
    PROVE  p \in positions' \/ (SameRow(pos, p) /\ \E q \in positions' : SameRow(p, q)
                                                                    /\ q.closer = closer)
<1> DEFINE new == [pos EXCEPT !.exit = exit, !.closer = closer]
<1>1. new.entry = pos.entry /\ new.n = pos.n /\ new.closer = closer
  BY DEF Position
<1>2. positions' = {q \in positions : ~SameRow(pos, q)} \cup {new}
  BY SMTT(30) DEF ClosePosition
<1> HIDE DEF new
<1> QED BY <1>1, <1>2 DEF SameRow

LEMMA CloseStep ==
    ASSUME TInv, ExitsKnown, IInv, BookInv, Next, NEW p \in positions, p.closer = "accounting"
    PROVE  \/ p \in positions'
           \/ \E q \in positions' : SameRow(p, q) /\ q.closer \in {"caller", "admin"}
<1>1. ASSUME NEW t \in Threads, WritePosition(t)
      PROVE  \/ p \in positions'
             \/ \E q \in positions' : SameRow(p, q) /\ q.closer = "admin"
  <2> DEFINE c == th[t].cid
             exit == IF c \in Linked THEN c ELSE None
             closer == IF intents[c].locked THEN "accounting" ELSE "admin"
  <2>1. th[t].pc = "write"
    BY <1>1 DEF WritePosition, At
  <2>2. CASE c \in Buys \/ positions' = positions
    BY <1>1, <2>2 DEF WritePosition, OpenPosition
  <2>3. CASE c \notin Buys /\ ClosePosition(th[t].pos, exit, closer)
    <3>1. th[t].pos \in Position
      BY <2>1, <2>3 DEF TInv, Prepared
    <3> HIDE DEF exit, closer
    <3>2. \/ p \in positions'
          \/ SameRow(th[t].pos, p) /\ \E q \in positions' : SameRow(p, q) /\ q.closer = closer
      BY <2>3, <3>1, CloseEffect
    <3>3. SameRow(th[t].pos, p) => ~intents[c].locked
      BY <2>1, <2>3 DEF BookInv, Reads
    <3> QED BY <3>2, <3>3 DEF closer
  <2> QED BY <1>1, <2>2, <2>3 DEF WritePosition
<1>2. ASSUME NEW t \in Threads, KeepBooks(t)
      PROVE  \/ p \in positions'
             \/ \E q \in positions' : SameRow(p, q) /\ q.closer = "caller"
  <2>1. CASE ~\E c \in Cids : IsExit(c) /\ c = th[t].m /\ ClosePosition(exits[c], None, "caller")
    BY <1>2, <2>1 DEF KeepBooks, OpenPosition, At, TInv, Prepared
  <2>2. ASSUME NEW c \in Cids, IsExit(c), c = th[t].m, ClosePosition(exits[c], None, "caller")
        PROVE  \/ p \in positions'
               \/ \E q \in positions' : SameRow(p, q) /\ q.closer = "caller"
    <3>1. t \in Submitters
      BY <1>2, RoleFacts DEF KeepBooks, At, ExitsKnown, Threads, MatchedPCs
    <3>2. exits[c] \in Position
      BY <1>2, <2>2, <3>1 DEF ExitsKnown, KeepBooks, At
    <3> QED BY <2>2, <3>2, CloseEffect
  <2> QED BY <2>1, <2>2
<1>3. CASE \E t \in Threads : PlaceStep(t)
  BY <1>2, <1>3 DEF PlaceStep, CheckUnresolved, CreateIntent, MarkSent, Post, Answer, AnswerLost,
     MarkUnknown, Return
<1>4. CASE \E t \in Threads : ReconcileStep(t)
  BY <1>1, <1>4, ZenonT(60) DEF ReconcileStep, FetchHistory, CancelRemainder, RereadHistory, RecordFill,
     SettleIntent, MarkRemainderOpen
<1> QED
  BY <1>3, <1>4
  DEF Next, VenueStep, VenueDecides, VenueFills, VenueCancels, Submit, PendingExit, ReplayStep,
      ListReconcilable, ReplayDone, ReplayNext, Crash, AdminStep, AdminDecides, AdminResolves

\* Under the operating procedure, what the accounting of a sale has closed is not
\* closed again by another accounting, although the update names an id and does not
\* look at the row's state; the agent's own close and the resolution of a released
\* intent are the two writes that do replace it.
THEOREM ClosedStaysClosed == Disciplined => (Spec => ClosedIsFinal)
<1> SUFFICES ASSUME Disciplined PROVE Spec => ClosedIsFinal
  OBVIOUS
<1>1. TInv /\ ExitsKnown /\ IInv /\ BookInv /\ [Next]_vars =>
        [\A p \in positions :
           p.closer = "accounting" =>
             \/ p \in positions'
             \/ \E q \in positions' : SameRow(p, q) /\ q.closer \in {"caller", "admin"}]_vars
  BY CloseStep
<1> QED
  BY <1>1, BooksInvariant, TypesAlways, ProcedureInvariant, PTL DEF Spec, ClosedIsFinal
=============================================================================
