-------------------------- MODULE TradingAgent_proofs --------------------------
(***************************************************************************)
(* Of every number of tickers, positions, threads, commands and faults: the *)
(* limits on positions and entries, one position per ticker, and no close   *)
(* without a sale.                                                          *)
(*                                                                         *)
(* The entry loop counts once and then trusts its slots: they stay within   *)
(* what the limits leave, because the scan's thread alone opens positions   *)
(* and everything that other threads and the clock do makes more room.      *)
(***************************************************************************)
EXTENDS TradingAgent, ScanRequests, FiniteSetTheorems, WellFoundedInduction, TLAPS

Row == [ticker : Tickers \cup {None}, state : {"none", "open", "closed"}]
Exit == [pos : Ids \cup {None}, row : OrderStates \cup {None}, broker : OrderStates \cup {None}]
Doing == [pc : PCs, todo : SUBSET (Ids \cup 1..MaxExits), signals : SUBSET Tickers, slots : Nat,
          cur : Ids \cup Tickers \cup {None}, gen : Nat]

\* The types the invariants need; what a thread works on by its place.
AgentTypes ==
    /\ generation \in Nat
    /\ positions \in [Ids -> Row] /\ today \subseteq Ids
    /\ exits \in [1..MaxExits -> Exit]
    /\ th \in [Threads -> Doing]
    /\ \A t \in Threads :
          /\ At(t, "exit") \/ At(t, "close") => th[t].todo \subseteq Ids
          /\ At(t, "close") \/ At(t, "manual") => th[t].cur \in Ids
          /\ At(t, "poll") => th[t].todo \subseteq 1..MaxExits
          /\ At(t, "open") => th[t].cur \in Tickers

\* The broker accepted an order to sell a position, or no more orders are followed.
Sold(p) == (\E e \in 1..MaxExits : exits[e].pos = p) \/ (\A e \in 1..MaxExits : exits[e].pos # None)

\* Whoever is about to record a close has sold.
SoldInv ==
    /\ AgentTypes
    /\ \A t \in Threads : At(t, "close") => Sold(th[t].cur)
    /\ ClosedWasSold

Entering == th[Scan].pc \in {"filter", "enter", "open"}

\* The slots of the entry loop are within what the limits leave.
SlotsLeft ==
    /\ Entering => /\ Cardinality(OpenIds) + th[Scan].slots <= MaxOpen
                   /\ Cardinality(today) + th[Scan].slots <= MaxDaily
    /\ At(Scan, "open") => th[Scan].slots > 0

LimitsInv == AgentTypes /\ WithinLimits /\ SlotsLeft

\* No ticker that may still be entered is held.
SignalsNotHeld ==
    /\ At(Scan, "enter") \/ At(Scan, "open") =>
          \A p \in OpenIds : positions[p].ticker \notin th[Scan].signals
    /\ At(Scan, "open") =>
          /\ th[Scan].cur \notin th[Scan].signals
          /\ \A p \in OpenIds : positions[p].ticker # th[Scan].cur

OneOpenInv == AgentTypes /\ SignalsNotHeld /\ OneOpenPerTicker

----
\* Less than on the natural numbers, of which the library knows that it is well-founded.
LessThan == {ss \in Nat \X Nat : ss[1] < ss[2]}

LEMMA LessThanWellFounded == IsWellFoundedOn(LessThan, Nat)
BY NatLessThanWellFounded, Zenon DEF LessThan, OpToRel

\* A set of natural numbers has a lowest element.
LEMMA LeastExists ==
    ASSUME NEW S \in SUBSET Nat, S # {}
    PROVE  \E x \in S : \A y \in S : x <= y
<1>1. PICK x \in S : \A y \in S : ~(<<y, x>> \in LessThan)
  BY WFMin, LessThanWellFounded
<1>2. ASSUME NEW y \in S PROVE x <= y
  <2>1. x \in Nat /\ y \in Nat /\ <<y, x>> \in Nat \X Nat
    OBVIOUS
  <2>2. ~(<<y, x>>[1] < <<y, x>>[2])
    BY <1>1, <2>1 DEF LessThan
  <2> QED BY <2>1, <2>2
<1> QED BY <1>2

LEMMA LowestIsIn ==
    ASSUME NEW S \in SUBSET Nat, S # {}
    PROVE  Lowest(S) \in S
BY LeastExists DEF Lowest

\* A bounded set of natural numbers has a highest element.
LEMMA HighestIsIn ==
    ASSUME NEW n \in Nat, NEW S \in SUBSET (1..n), S # {}
    PROVE  Highest(S) \in S
<1> DEFINE T == {x \in 0..n : n - x \in S}
<1>1. PICK x \in S : x \in 1..n
  OBVIOUS
<1>2. T \in SUBSET Nat /\ T # {}
  <2>1. n - x \in 0..n /\ n - (n - x) = x
    BY <1>1
  <2>2. n - x \in T
    BY <2>1
  <2>3. T \subseteq 0..n
    OBVIOUS
  <2>4. 0..n \subseteq Nat
    OBVIOUS
  <2> HIDE DEF T
  <2> QED BY <2>2, <2>3, <2>4
<1>3. PICK z \in T : \A y \in T : z <= y
  BY <1>2, LeastExists
<1>4. ASSUME NEW y \in S PROVE n - z >= y
  <2>1. y \in 1..n /\ n - y \in 0..n /\ n - (n - y) = y
    OBVIOUS
  <2>2. n - y \in T
    BY <2>1
  <2>3. z <= n - y /\ z \in 0..n
    BY <1>3, <2>2
  <2> QED BY <2>1, <2>3
<1>5. n - z \in S
  BY <1>3
<1> QED BY <1>4, <1>5 DEF Highest

\* The threads are threads.
LEMMA ThreadsAre ==
    /\ Scan \in Threads /\ Chat \in Threads /\ Monitors \subseteq Threads /\ Timers \subseteq Threads
    /\ Scan # Chat /\ Scan \notin Monitors /\ Scan \notin Timers
    /\ Chat \notin Monitors /\ Chat \notin Timers
BY AgentAssumption DEF Threads

\* The bounds and the limits are numbers.
LEMMA AgentConstants ==
    /\ MaxOpen \in Nat /\ MaxDaily \in Nat /\ MaxPositions \in Nat /\ MaxExits \in Nat
    /\ None \notin Nat /\ None \notin Ids /\ None \notin Tickers
BY AgentAssumption DEF Ids

\* An idle thread has the type of a thread.
LEMMA IdleTyped == Idle \in Doing
BY DEF Idle, Doing, PCs

\* Initially nothing is open, entered or sold, and every thread is idle.
LEMMA AgentInitially == Init => SoldInv /\ LimitsInv /\ OneOpenInv
<1> SUFFICES ASSUME Init PROVE SoldInv /\ LimitsInv /\ OneOpenInv
  OBVIOUS
<1>1. \A t \in Threads : th[t].pc = "idle"
  BY DEF Init, Idle
<1>2. \A p \in Ids : positions[p].state = "none"
  BY DEF Init
<1>3. OpenIds = {} /\ today = {}
  BY <1>2 DEF OpenIds, Init
<1>4. AgentTypes
  <2>1. positions \in [Ids -> Row] /\ exits \in [1..MaxExits -> Exit]
    BY DEF Init, Row, Exit
  <2>2. th \in [Threads -> Doing]
    BY IdleTyped DEF Init
  <2> QED BY <1>1, <2>1, <2>2 DEF AgentTypes, At, Init
<1>5. ClosedWasSold
  BY <1>2 DEF ClosedWasSold
<1>6. Cardinality(OpenIds) = 0 /\ Cardinality(today) = 0
  BY <1>3, FS_EmptySet
<1> QED BY <1>1, <1>3, <1>4, <1>5, <1>6, ThreadsAre, AgentConstants
        DEF SoldInv, LimitsInv, OneOpenInv, SlotsLeft, SignalsNotHeld, Entering, At,
            WithinLimits, OneOpenPerTicker

----
\* A thread that goes somewhere keeps what it carries.
LEMMA GotoTyped ==
    ASSUME AgentTypes, NEW t \in Threads, NEW pc \in PCs, Goto(t, pc)
    PROVE  /\ th' \in [Threads -> Doing] /\ th'[t] = [th[t] EXCEPT !.pc = pc]
           /\ th'[t].pc = pc /\ th'[t].todo = th[t].todo /\ th'[t].cur = th[t].cur
           /\ th'[t].slots = th[t].slots /\ th'[t].signals = th[t].signals
           /\ \A u \in Threads : u # t => th'[u] = th[u]
BY DEF AgentTypes, Goto, Doing

\* A thread that stops carries nothing.
LEMMA StopTyped ==
    ASSUME AgentTypes, NEW t \in Threads, Stop(t)
    PROVE  /\ th' \in [Threads -> Doing] /\ th'[t].pc = "idle"
           /\ \A u \in Threads : u # t => th'[u] = th[u]
BY IdleTyped DEF AgentTypes, Stop, Idle

\* The types survive when one thread moves on with what its new place calls for.
LEMMA TypesOfMove ==
    ASSUME AgentTypes, generation' \in Nat, positions' \in [Ids -> Row], today' \subseteq Ids,
           exits' \in [1..MaxExits -> Exit], th' \in [Threads -> Doing], NEW t \in Threads,
           \A u \in Threads : u # t => th'[u] = th[u] \/ th'[u].pc \in {"idle", "loop", "sleep"},
           th'[t].pc \in {"exit", "close"} => th'[t].todo \subseteq Ids,
           th'[t].pc \in {"close", "manual"} => th'[t].cur \in Ids,
           th'[t].pc = "poll" => th'[t].todo \subseteq 1..MaxExits,
           th'[t].pc = "open" => th'[t].cur \in Tickers
    PROVE  AgentTypes'
BY DEF AgentTypes, At

\* Reads of what is there, or of nothing.
LEMMA ReadsSubset == ASSUME NEW S, NEW r \in Reads(S) PROVE r \subseteq S
BY DEF Reads

\* A sale is of a position and leaves the orders that were followed before alone.
LEMMA SellsTyped ==
    ASSUME AgentTypes, NEW p \in Ids, Sells(p)
    PROVE  /\ exits' \in [1..MaxExits -> Exit]
           /\ \A e \in 1..MaxExits : exits[e].pos # None => exits'[e].pos = exits[e].pos
           /\ (Sold(p))'
<1> DEFINE free == {e \in 1..MaxExits : exits[e].pos = None}
<1>1. CASE free = {}
  <2>1. exits' = exits /\ \A e \in 1..MaxExits : exits[e].pos # None
    BY <1>1 DEF Sells
  <2> QED BY <2>1 DEF AgentTypes, Sold
<1>2. CASE free # {}
  <2>1. free \in SUBSET Nat
    BY AgentConstants
  <2>2. Lowest(free) \in free
    BY <1>2, <2>1, LowestIsIn
  <2>3. PICK b \in {"SENT", "FILLED"}, r \in {"SENT", "CREATED"} :
           exits' = [exits EXCEPT ![Lowest(free)] = [pos |-> p, row |-> r, broker |-> b]]
    BY <1>2 DEF Sells
  <2>4. [pos |-> p, row |-> r, broker |-> b] \in Exit
    BY DEF Exit, OrderStates
  <2>5. /\ exits' \in [1..MaxExits -> Exit] /\ exits'[Lowest(free)].pos = p
        /\ \A e \in 1..MaxExits : e # Lowest(free) => exits'[e] = exits[e]
    BY <2>2, <2>3, <2>4 DEF AgentTypes
  <2> QED BY <2>2, <2>5 DEF Sold
<1> QED BY <1>1, <1>2

\* What an open position is and where its row stands.
LEMMA OpensRowTyped ==
    ASSUME AgentTypes, NEW ticker \in Tickers, OpensRow(ticker)
    PROVE  /\ positions' \in [Ids -> Row] /\ today' \subseteq Ids
           /\ \E p \in Ids :
                 /\ positions' = [positions EXCEPT ![p] = [ticker |-> ticker, state |-> "open"]]
                 /\ today' = today \cup {p}
<1>1. FreeIds \in SUBSET Nat /\ FreeIds # {}
  BY AgentConstants DEF OpensRow, FreeIds, Ids
<1>2. Lowest(FreeIds) \in Ids
  BY <1>1, LowestIsIn DEF FreeIds
<1>3. [ticker |-> ticker, state |-> "open"] \in Row
  BY DEF Row
<1> QED BY <1>2, <1>3 DEF AgentTypes, OpensRow

----
\* What the steps other than those of the entry loop leave of the open positions, of the day's
\* entries and of the entry loop itself.
MakesRoom ==
    /\ \A p \in Ids : positions'[p].state = "open" =>
          positions[p].state = "open" /\ positions'[p].ticker = positions[p].ticker
    /\ today' \subseteq today
    /\ th'[Scan] = th[Scan] \/ th'[Scan].pc \notin {"filter", "enter", "open"}

\* An order that is followed is never forgotten, and closes are recorded by who has sold.
SellsFirst ==
    /\ \A e \in 1..MaxExits : exits[e].pos # None => exits'[e].pos = exits[e].pos
    /\ \A p \in Ids : positions'[p].state = "closed" =>
          \/ positions[p].state = "closed" \/ (Sold(p))'
          \/ \E t \in Threads : At(t, "close") /\ th[t].cur = p
    /\ \A t \in Threads : th'[t].pc = "close" =>
          \/ th[t].pc = "close" /\ th'[t].cur = th[t].cur
          \/ \E p \in Ids : th'[t].cur = p /\ (Sold(p))'

Effect == AgentTypes' /\ MakesRoom /\ SellsFirst

\* A thread that moves on to another place and leaves the ledger alone.
LEMMA MoveEffect ==
    ASSUME AgentTypes, UNCHANGED <<positions, today, exits>>, generation' \in Nat,
           th' \in [Threads -> Doing], NEW t \in Threads,
           \A u \in Threads : u # t => th'[u] = th[u] \/ th'[u].pc \in {"idle", "loop", "sleep"},
           th'[t].pc \notin {"filter", "enter", "open", "close"},
           th'[t].pc = "exit" => th'[t].todo \subseteq Ids,
           th'[t].pc = "manual" => th'[t].cur \in Ids,
           th'[t].pc = "poll" => th'[t].todo \subseteq 1..MaxExits
    PROVE  Effect
<1>1. AgentTypes'
  BY TypesOfMove DEF AgentTypes
<1>2. MakesRoom
  BY ThreadsAre DEF MakesRoom
<1>3. SellsFirst
  BY DEF SellsFirst
<1> QED BY <1>1, <1>2, <1>3 DEF Effect

\* A thread that goes to a place where it carries nothing of importance.
LEMMA GotoEffect ==
    ASSUME AgentTypes, UNCHANGED <<positions, today, exits>>, generation' \in Nat,
           NEW t \in Threads, NEW pc \in PCs \ {"filter", "enter", "open", "close", "exit", "manual", "poll"},
           Goto(t, pc)
    PROVE  Effect
BY GotoTyped, MoveEffect, ZenonT(60)

\* A thread that stops.
LEMMA StopEffect ==
    ASSUME AgentTypes, UNCHANGED <<positions, today, exits>>, generation' \in Nat,
           NEW t \in Threads, Stop(t)
    PROVE  Effect
BY StopTyped, MoveEffect

\* Threads stand still while the ledger makes room or an order changes its state.
LEMMA LedgerEffect ==
    ASSUME AgentTypes, UNCHANGED <<generation, positions, th>>, today' \subseteq today,
           exits' \in [1..MaxExits -> Exit], \A e \in 1..MaxExits : exits'[e].pos = exits[e].pos
    PROVE  Effect
<1>1. AgentTypes'
  BY DEF AgentTypes, At
<1>2. MakesRoom /\ SellsFirst
  BY DEF MakesRoom, SellsFirst
<1> QED BY <1>1, <1>2 DEF Effect

\* The environment: days, prices, the broker and the tracker.
LEMMA EnvironmentEffect == ASSUME AgentTypes, Environment PROVE Effect
<1>1. CASE NewDay
  BY <1>1, LedgerEffect DEF NewDay, control, AgentTypes
<1>2. ASSUME NEW p \in Ids, BecomesDue(p) PROVE Effect
  BY <1>2, LedgerEffect DEF BecomesDue, control, AgentTypes
<1>3. ASSUME NEW e \in 1..MaxExits, BrokerDecides(e) \/ TrackerPolls(e) PROVE Effect
  <2>1. PICK field \in {"row", "broker"}, s \in OrderStates \cup {None} :
           exits' = [exits EXCEPT ![e] = IF field = "row" THEN [@ EXCEPT !.row = s] ELSE [@ EXCEPT !.broker = s]]
    <3>1. CASE BrokerDecides(e)
      BY <3>1 DEF BrokerDecides, OrderStates
    <3>2. CASE TrackerPolls(e)
      BY <3>2 DEF TrackerPolls, AgentTypes, Exit
    <3> QED BY <1>3, <3>1, <3>2
  <2>2. exits' \in [1..MaxExits -> Exit] /\ \A o \in 1..MaxExits : exits'[o].pos = exits[o].pos
    BY <2>1 DEF AgentTypes, Exit
  <2> QED BY <1>3, <2>2, LedgerEffect DEF BrokerDecides, TrackerPolls, control
<1> QED BY <1>1, <1>2, <1>3 DEF Environment

\* The list of the positions to exit.
LEMMA ListExitsEffect == ASSUME AgentTypes, NEW t \in Threads, ListExits(t) PROVE Effect
<1>1. PICK wanted \in SUBSET Ids : th' = [th EXCEPT ![t].pc = "exit", ![t].todo = wanted]
  <2>1. PICK open \in Reads(OpenIds), missing \in SUBSET OpenIds :
           LET wanted == IF t = Chat THEN open ELSE open \cap due
           IN  th' = [th EXCEPT ![t].pc = "exit", ![t].todo = wanted \ missing]
    BY DEF ListExits
  <2>2. open \subseteq Ids
    BY ReadsSubset DEF OpenIds
  <2> QED BY <2>1, <2>2
<1>2. /\ th' \in [Threads -> Doing] /\ th'[t].pc = "exit" /\ th'[t].todo = wanted
      /\ \A u \in Threads : u # t => th'[u] = th[u]
  <2>1. wanted \in SUBSET (Ids \cup 1..MaxExits) /\ "exit" \in PCs
    BY DEF PCs
  <2> QED BY <1>1, <2>1, ZenonT(60) DEF AgentTypes, Doing
<1>3. UNCHANGED <<generation, positions, today, exits>>
  BY DEF ListExits, control, ledger
<1> QED BY <1>2, <1>3, MoveEffect DEF AgentTypes

\* An exit is placed, is refused, or ends the loop.
LEMMA PlaceExitEffect == ASSUME AgentTypes, NEW t \in Threads, PlaceExit(t) PROVE Effect
<1>1. /\ UNCHANGED <<generation, positions, today>> /\ th[t].todo \subseteq Ids /\ th[t] \in Doing
      /\ generation' \in Nat
  BY DEF PlaceExit, control, AgentTypes
<1>2. AfterExits(t) \in PCs \ {"filter", "enter", "open", "close", "exit", "manual", "poll"}
  BY DEF AfterExits, PCs
<1>3. CASE th[t].todo = {}
  BY <1>1, <1>2, <1>3, GotoEffect DEF PlaceExit
<1>4. CASE th[t].todo # {}
  <2>1. PICK p \in Ids : p = Highest(th[t].todo) /\ p \in th[t].todo
    BY <1>1, <1>4, HighestIsIn, AgentConstants DEF Ids
  <2>2. CASE th' = [th EXCEPT ![t].pc = "close", ![t].cur = p, ![t].todo = @ \ {p}] /\ Sells(p)
    <3>1. /\ th' \in [Threads -> Doing] /\ th'[t].pc = "close" /\ th'[t].cur = p
          /\ th'[t].todo = th[t].todo \ {p} /\ \A u \in Threads : u # t => th'[u] = th[u]
      BY <1>1, <2>1, <2>2 DEF AgentTypes, Doing, PCs
    <3>2. /\ exits' \in [1..MaxExits -> Exit]
          /\ \A e \in 1..MaxExits : exits[e].pos # None => exits'[e].pos = exits[e].pos
          /\ (Sold(p))'
      BY <2>1, <2>2, SellsTyped
    <3>3. AgentTypes'
      BY <1>1, <2>1, <3>1, <3>2, TypesOfMove DEF AgentTypes
    <3>4. MakesRoom
      BY <1>1, <3>1, ThreadsAre DEF MakesRoom
    <3>5. SellsFirst
      BY <1>1, <3>1, <3>2 DEF SellsFirst
    <3> QED BY <3>3, <3>4, <3>5 DEF Effect
  <2>3. CASE exits' = exits /\ th' = [th EXCEPT ![t].todo = @ \ {p}]
    <3>1. /\ th' \in [Threads -> Doing] /\ th'[t].pc = "exit" /\ th'[t].todo = th[t].todo \ {p}
          /\ \A u \in Threads : u # t => th'[u] = th[u]
      BY <1>1, <2>3 DEF AgentTypes, Doing, PlaceExit, At
    <3> QED BY <1>1, <2>3, <3>1, MoveEffect
  <2>4. CASE exits' = exits /\ th' = [th EXCEPT ![t].pc = AfterExits(t), ![t].todo = {}]
    <3>1. /\ th' \in [Threads -> Doing] /\ th'[t].pc = AfterExits(t)
          /\ \A u \in Threads : u # t => th'[u] = th[u]
      BY <1>1, <1>2, <2>4 DEF AgentTypes, Doing
    <3> QED BY <1>1, <1>2, <2>4, <3>1, MoveEffect
  <2> QED BY <1>4, <2>1, <2>2, <2>3, <2>4 DEF PlaceExit
<1> QED BY <1>3, <1>4

\* The close of an exited position is recorded, or not.
LEMMA CloseExitedEffect == ASSUME AgentTypes, NEW t \in Threads, CloseExited(t) PROVE Effect
<1>1. /\ UNCHANGED <<generation, today, exits>> /\ th[t].pc = "close" /\ th[t].cur \in Ids
      /\ th[t].todo \subseteq Ids /\ generation' \in Nat
  BY DEF CloseExited, control, AgentTypes, At
<1>2. /\ th' \in [Threads -> Doing] /\ th'[t].pc = "exit" /\ th'[t].todo = th[t].todo
      /\ \A u \in Threads : u # t => th'[u] = th[u]
  <2>1. th' = [th EXCEPT ![t].pc = "exit", ![t].cur = None] /\ "exit" \in PCs
    BY DEF CloseExited, PCs
  <2> QED BY <2>1, ZenonT(60) DEF AgentTypes, Doing
<1>3. /\ positions' \in [Ids -> Row]
      /\ \A p \in Ids : \/ positions'[p] = positions[p]
                        \/ p = th[t].cur /\ positions'[p].state = "closed"
  <2>1. CASE positions' = positions
    BY <2>1 DEF AgentTypes
  <2>2. CASE positions' = [positions EXCEPT ![th[t].cur].state = "closed"]
    BY <1>1, <2>2 DEF AgentTypes, Row
  <2> QED BY <2>1, <2>2 DEF CloseExited
<1>4. AgentTypes'
  BY <1>1, <1>2, <1>3, TypesOfMove DEF AgentTypes
<1>5. MakesRoom
  BY <1>1, <1>2, <1>3, ThreadsAre DEF MakesRoom
<1>6. SellsFirst
  BY <1>1, <1>2, <1>3 DEF SellsFirst, At
<1> QED BY <1>4, <1>5, <1>6 DEF Effect

\* The state of an exit order is copied, and with a fill the position is closed.
LEMMA PollPendingEffect == ASSUME AgentTypes, NEW t \in Threads, PollPending(t) PROVE Effect
<1>1. /\ UNCHANGED <<generation, today>> /\ th[t].todo \subseteq 1..MaxExits /\ th[t].pc = "poll"
      /\ generation' \in Nat
  BY DEF PollPending, control, AgentTypes, At
<1>2. CASE th[t].todo = {}
  <2>1. "loop" \in PCs \ {"filter", "enter", "open", "close", "exit", "manual", "poll"}
    BY DEF PCs
  <2> QED BY <1>1, <1>2, <2>1, GotoEffect DEF PollPending
<1>3. ASSUME NEW e \in th[t].todo, th' = [th EXCEPT ![t].todo = @ \ {e}],
             \/ /\ exits' = [exits EXCEPT ![e].row = exits[e].broker]
                /\ positions' = IF exits[e].broker = "FILLED"
                     THEN [positions EXCEPT ![exits[e].pos].state = "closed"] ELSE positions
             \/ UNCHANGED <<positions, exits>>
      PROVE  Effect
  <2>1. /\ th' \in [Threads -> Doing] /\ th'[t].pc = "poll" /\ th'[t].todo \subseteq 1..MaxExits
        /\ \A u \in Threads : u # t => th'[u] = th[u]
    BY <1>1, <1>3 DEF AgentTypes, Doing
  <2>2. /\ exits' \in [1..MaxExits -> Exit]
        /\ \A o \in 1..MaxExits : exits'[o].pos = exits[o].pos
    <3>1. e \in 1..MaxExits
      BY <1>1, <1>3
    <3>2. exits[e].broker \in OrderStates \cup {None}
      BY <3>1 DEF AgentTypes, Exit
    <3>3. CASE exits' = exits
      BY <3>3 DEF AgentTypes
    <3>4. CASE exits' = [exits EXCEPT ![e].row = exits[e].broker]
      BY <3>1, <3>2, <3>4 DEF AgentTypes, Exit
    <3> QED BY <1>3, <3>3, <3>4
  <2>3. /\ positions' \in [Ids -> Row]
        /\ \A p \in Ids : \/ positions'[p] = positions[p]
                          \/ p = exits[e].pos /\ positions'[p].state = "closed"
    <3>1. CASE positions' = positions
      BY <3>1 DEF AgentTypes
    <3>2. CASE positions' = [positions EXCEPT ![exits[e].pos].state = "closed"]
      BY <3>2 DEF AgentTypes, Row
    <3> QED BY <1>3, <3>1, <3>2
  <2>4. AgentTypes'
    BY <1>1, <2>1, <2>2, <2>3, TypesOfMove DEF AgentTypes
  <2>5. MakesRoom
    BY <1>1, <2>1, <2>3, ThreadsAre DEF MakesRoom
  <2>6. \A p \in Ids : p = exits[e].pos => (Sold(p))'
    BY <1>1, <1>3, <2>2 DEF Sold
  <2>7. SellsFirst
    BY <2>1, <2>2, <2>3, <2>6 DEF SellsFirst
  <2> QED BY <2>4, <2>5, <2>7 DEF Effect
<1> QED BY <1>2, <1>3 DEF PollPending

\* The monitor.
LEMMA MonitorEffect == ASSUME AgentTypes, NEW t \in Monitors, MonitorStep(t) PROVE Effect
<1>0. t \in Threads
  BY ThreadsAre
<1>1. CASE MonitorLoop(t)
  <2>1. UNCHANGED <<generation, positions, today, exits>> /\ generation' \in Nat
    BY <1>1 DEF MonitorLoop, control, ledger, AgentTypes
  <2>2. "exits" \in PCs \ {"filter", "enter", "open", "close", "exit", "manual", "poll"}
    BY DEF PCs
  <2> QED BY <1>0, <1>1, <2>1, <2>2, GotoEffect, StopEffect DEF MonitorLoop
<1>2. CASE ListPending(t)
  <2>1. UNCHANGED <<generation, positions, today, exits>> /\ generation' \in Nat
    BY <1>2 DEF ListPending, control, ledger, AgentTypes
  <2>2. PICK sent \in SUBSET (1..MaxExits) : th' = [th EXCEPT ![t].pc = "poll", ![t].todo = sent]
    BY <1>2 DEF ListPending
  <2>3. sent \in SUBSET (Ids \cup 1..MaxExits) /\ "poll" \in PCs
    BY DEF PCs
  <2>4. /\ th' \in [Threads -> Doing] /\ th'[t].pc = "poll" /\ th'[t].todo = sent
        /\ \A u \in Threads : u # t => th'[u] = th[u]
    BY <1>0, <2>2, <2>3, ZenonT(60) DEF AgentTypes, Doing
  <2> QED BY <1>0, <2>1, <2>4, MoveEffect
<1> QED BY <1>0, <1>1, <1>2, ListExitsEffect, PlaceExitEffect, CloseExitedEffect, PollPendingEffect
        DEF MonitorStep

\* Chat commands.
LEMMA ChatEffect == ASSUME AgentTypes, ChatStep PROVE Effect
<1>0. Chat \in Threads /\ Timers \subseteq Threads /\ Chat \notin Timers
  BY ThreadsAre
<1>1. ASSUME NEW cmd \in Commands, Command(cmd) PROVE Effect
  <2>1. UNCHANGED <<generation, positions, today, exits>> /\ generation' \in Nat
    BY <1>1 DEF Command, control, ledger, AgentTypes
  <2>2. CASE cmd = "close"
    <3>1. PICK p \in Ids : th' = [th EXCEPT ![Chat].pc = "manual", ![Chat].cur = p]
      BY <1>1, <2>2 DEF Command, OpenIds
    <3>2. /\ th' \in [Threads -> Doing] /\ th'[Chat].pc = "manual" /\ th'[Chat].cur = p
          /\ \A u \in Threads : u # Chat => th'[u] = th[u]
      <4>1. p \in Ids \cup Tickers \cup {None} /\ "manual" \in PCs
        BY DEF PCs
      <4> QED BY <1>0, <3>1, <4>1, ZenonT(60) DEF AgentTypes, Doing
    <3> QED BY <1>0, <2>1, <3>2, MoveEffect
  <2>3. CASE cmd # "close"
    <3>1. cmd \in PCs \ {"filter", "enter", "open", "close", "exit", "manual", "poll"}
      BY <2>3, AgentAssumption DEF PCs
    <3> QED BY <1>0, <1>1, <2>1, <2>3, <3>1, GotoEffect DEF Command
  <2> QED BY <2>2, <2>3
<1>2. CASE EmergencyStop
  <2>1. UNCHANGED <<positions, today, exits>> /\ generation' \in Nat
    BY <1>2 DEF EmergencyStop, ledger, AgentTypes
  <2>2. PICK pc \in {"exits", "idle"} : Goto(Chat, pc)
    BY <1>2 DEF EmergencyStop
  <2>3. pc \in PCs \ {"filter", "enter", "open", "close", "exit", "manual", "poll"}
    BY DEF PCs
  <2> QED BY <1>0, <2>1, <2>2, <2>3, GotoEffect
<1>3. CASE Pause
  <2>1. UNCHANGED <<positions, today, exits>> /\ generation' \in Nat /\ generation + 1 \in Nat
    BY <1>3 DEF Pause, ledger, AgentTypes
  <2>2. /\ th' \in [Threads -> Doing] /\ th'[Chat].pc = "arm"
        /\ \A u \in Threads : u # Chat => th'[u] = th[u]
    <3>1. th' = [th EXCEPT ![Chat].pc = "arm", ![Chat].gen = generation + 1] /\ "arm" \in PCs
      BY <1>3 DEF Pause, PCs
    <3> QED BY <1>0, <2>1, <3>1, ZenonT(60) DEF AgentTypes, Doing
  <2> QED BY <1>0, <2>1, <2>2, MoveEffect
<1>4. CASE ArmTimer
  <2>1. UNCHANGED <<generation, positions, today, exits>> /\ generation' \in Nat
    BY <1>4 DEF ArmTimer, control, ledger, AgentTypes
  <2>2. ASSUME NEW t \in Timers,
               th' = [th EXCEPT ![Chat] = Idle, ![t] = [Idle EXCEPT !.pc = "sleep", !.gen = th[Chat].gen]]
        PROVE  Effect
    <3>1. [Idle EXCEPT !.pc = "sleep", !.gen = th[Chat].gen] \in Doing
      BY <1>0, IdleTyped DEF AgentTypes, Doing, PCs
    <3>2. [Idle EXCEPT !.pc = "sleep", !.gen = th[Chat].gen].pc = "sleep" /\ Idle.pc = "idle"
      BY DEF Idle
    <3>3. /\ th' \in [Threads -> Doing] /\ th'[Chat].pc = "idle" /\ th'[t].pc = "sleep"
          /\ \A u \in Threads : u # Chat /\ u # t => th'[u] = th[u]
      BY <1>0, <2>2, <3>1, <3>2, IdleTyped DEF AgentTypes
    <3> QED BY <1>0, <2>1, <3>3, MoveEffect
  <2> QED BY <1>0, <1>4, <2>1, <2>2, StopEffect DEF ArmTimer
<1>5. CASE ManualClose
  <2>1. /\ UNCHANGED <<generation, positions, today>> /\ th[Chat].cur \in Ids /\ generation' \in Nat
    BY <1>0, <1>5 DEF ManualClose, control, AgentTypes
  <2>2. PICK p \in Ids : p = th[Chat].cur
    BY <2>1
  <2>3. /\ exits' \in [1..MaxExits -> Exit]
        /\ \A e \in 1..MaxExits : exits[e].pos # None => exits'[e].pos = exits[e].pos
    BY <1>5, <2>2, SellsTyped DEF ManualClose, AgentTypes
  <2>4. /\ th' \in [Threads -> Doing] /\ th'[Chat].pc = "idle"
        /\ \A u \in Threads : u # Chat => th'[u] = th[u]
    BY <1>0, <1>5, StopTyped DEF ManualClose
  <2>5. AgentTypes'
    BY <1>0, <2>1, <2>3, <2>4, TypesOfMove DEF AgentTypes
  <2>6. MakesRoom /\ SellsFirst
    BY <2>1, <2>3, <2>4, ThreadsAre DEF MakesRoom, SellsFirst
  <2> QED BY <2>5, <2>6 DEF Effect
<1> QED BY <1>0, <1>1, <1>2, <1>3, <1>4, <1>5, ListExitsEffect, PlaceExitEffect, CloseExitedEffect
        DEF ChatStep

\* Timers, and what a resume sets off.
LEMMA ResumeEffect ==
    ASSUME AgentTypes, NEW t \in Timers \cup {Chat}, ResumeStep(t) \/ (t \in Timers /\ TimerFires(t))
    PROVE  Effect
<1>0. t \in Threads /\ Monitors \subseteq Threads
  BY ThreadsAre
<1>1. {"resume", "ensure", "spawn"} \subseteq PCs \ {"filter", "enter", "open", "close", "exit", "manual", "poll"}
  BY DEF PCs
<1>2. CASE TimerFires(t)
  <2>1. UNCHANGED <<generation, positions, today, exits>> /\ generation' \in Nat
    BY <1>2 DEF TimerFires, control, ledger, AgentTypes
  <2> QED BY <1>0, <1>1, <1>2, <2>1, GotoEffect, StopEffect DEF TimerFires
<1>3. CASE Resume(t)
  <2>1. UNCHANGED <<positions, today, exits>> /\ generation' \in Nat
    BY <1>3 DEF Resume, ledger, AgentTypes
  <2> QED BY <1>0, <1>1, <1>3, <2>1, GotoEffect DEF Resume
<1>4. CASE EnsureMonitor(t)
  <2>1. UNCHANGED <<generation, positions, today, exits>> /\ generation' \in Nat
    BY <1>4 DEF EnsureMonitor, control, ledger, AgentTypes
  <2> QED BY <1>0, <1>1, <1>4, <2>1, GotoEffect, StopEffect DEF EnsureMonitor
<1>5. CASE SpawnMonitor(t)
  <2>1. UNCHANGED <<generation, positions, today, exits>> /\ generation' \in Nat
    BY <1>5 DEF SpawnMonitor, ledger, AgentTypes
  <2>2. PICK m \in Monitors : th' = [th EXCEPT ![t] = Idle, ![m].pc = "loop"]
    BY <1>5 DEF SpawnMonitor
  <2>3. Idle.pc = "idle" /\ "loop" \in PCs
    BY DEF Idle, PCs
  <2>4. m # t
    BY ThreadsAre, AgentAssumption
  <2>5. /\ th' \in [Threads -> Doing] /\ th'[t].pc = "idle" /\ th'[m].pc = "loop"
        /\ \A u \in Threads : u # t /\ u # m => th'[u] = th[u]
    BY <1>0, <2>2, <2>3, <2>4, IdleTyped DEF AgentTypes, Doing
  <2> QED BY <1>0, <2>1, <2>5, MoveEffect
<1> QED BY <1>2, <1>3, <1>4, <1>5 DEF ResumeStep

\* The scan's cycle outside the entry loop.
LEMMA CycleEffect ==
    ASSUME AgentTypes,
           \/ ScanCompleted \/ SetState \/ ListExits(Scan) \/ PlaceExit(Scan) \/ CloseExited(Scan)
           \/ CanTrade \/ FinishScan
    PROVE  Effect
<1>0. Scan \in Threads
  BY ThreadsAre
<1>1. {"exits", "count", "final"} \subseteq PCs \ {"filter", "enter", "open", "close", "exit", "manual", "poll"}
  BY DEF PCs
<1>2. CASE ScanCompleted
  <2>1. UNCHANGED <<generation, positions, today, exits>> /\ generation' \in Nat
    BY <1>2 DEF ScanCompleted, control, ledger, AgentTypes
  <2>2. PICK S \in SUBSET Tickers : th' = [th EXCEPT ![Scan] = [Idle EXCEPT !.pc = "set", !.signals = S]]
    BY <1>2 DEF ScanCompleted
  <2>3. /\ [Idle EXCEPT !.pc = "set", !.signals = S] \in Doing
        /\ [Idle EXCEPT !.pc = "set", !.signals = S].pc = "set"
    BY DEF Idle, Doing, PCs
  <2>4. /\ th' \in [Threads -> Doing] /\ th'[Scan].pc = "set"
        /\ \A u \in Threads : u # Scan => th'[u] = th[u]
    BY <1>0, <2>2, <2>3 DEF AgentTypes
  <2> QED BY <1>0, <2>1, <2>4, MoveEffect
<1>3. CASE SetState
  <2>1. UNCHANGED <<generation, positions, today, exits>> /\ generation' \in Nat
    BY <1>3 DEF SetState, ledger, AgentTypes
  <2> QED BY <1>0, <1>1, <1>3, <2>1, GotoEffect DEF SetState
<1>4. CASE CanTrade
  <2>1. UNCHANGED <<generation, positions, today, exits>> /\ generation' \in Nat
    BY <1>4 DEF CanTrade, control, ledger, AgentTypes
  <2> QED BY <1>0, <1>1, <1>4, <2>1, GotoEffect DEF CanTrade
<1>5. CASE FinishScan
  <2>1. UNCHANGED <<generation, positions, today, exits>> /\ generation' \in Nat
    BY <1>5 DEF FinishScan, ledger, AgentTypes
  <2> QED BY <1>0, <1>5, <2>1, StopEffect DEF FinishScan
<1> QED BY <1>0, <1>2, <1>3, <1>4, <1>5, ListExitsEffect, PlaceExitEffect, CloseExitedEffect

EntryStep == CountSlots \/ FilterSignals \/ EnterNext \/ OpenEntered

\* Outside the entry loop every step makes room.
LEMMA OtherEffect == ASSUME AgentTypes, [Next]_vars, ~EntryStep PROVE Effect
<1>1. CASE UNCHANGED vars
  <2>1. UNCHANGED <<generation, positions, th, today, exits>>
    BY <1>1 DEF vars, control, ledger
  <2> QED BY <2>1, LedgerEffect DEF AgentTypes
<1> QED BY <1>1, EnvironmentEffect, MonitorEffect, ChatEffect, ResumeEffect, CycleEffect
        DEF Next, ScanStep, EntryStep

----
\* What the four steps of the entry loop do to its thread.
LEMMA EntryTyped ==
    ASSUME AgentTypes, EntryStep
    PROVE  /\ AgentTypes' /\ SellsFirst
           /\ \A u \in Threads : u # Scan => th'[u] = th[u]
<1>0. Scan \in Threads /\ th[Scan] \in Doing /\ generation \in Nat /\ MaxOpen \in Nat /\ MaxDaily \in Nat
  BY ThreadsAre, AgentConstants DEF AgentTypes
<1>1. {"final", "filter", "enter", "open"} \subseteq PCs
  BY DEF PCs
<1>2. CASE CountSlots
  <2>1. UNCHANGED <<generation, positions, today, exits>>
    BY <1>2 DEF CountSlots, control, ledger
  <2>2. /\ th' \in [Threads -> Doing] /\ th'[Scan].pc \in {"final", "filter"}
        /\ \A u \in Threads : u # Scan => th'[u] = th[u]
    <3>1. CASE Goto(Scan, "final")
      BY <1>0, <1>1, <3>1, GotoTyped
    <3>2. CASE ~Goto(Scan, "final")
      <4>1. PICK open \in Reads(OpenIds), day \in Reads(today) :
               /\ ~(Cardinality(day) >= MaxDaily \/ Cardinality(open) >= MaxOpen)
               /\ th' = [th EXCEPT ![Scan].pc = "filter",
                                   ![Scan].slots = LeastOf(MaxDaily - Cardinality(day),
                                                           MaxOpen - Cardinality(open))]
        BY <1>2, <3>2 DEF CountSlots
      <4>2. Cardinality(day) \in Nat /\ Cardinality(open) \in Nat
        <5>1. day \subseteq Ids /\ open \subseteq Ids
          BY ReadsSubset DEF AgentTypes, OpenIds
        <5>2. IsFiniteSet(Ids)
          BY FS_Interval, AgentConstants DEF Ids
        <5> QED BY <5>1, <5>2, FS_Subset, FS_CardinalityType
      <4>3. LeastOf(MaxDaily - Cardinality(day), MaxOpen - Cardinality(open)) \in Nat
        BY <1>0, <4>1, <4>2 DEF LeastOf
      <4> QED BY <1>0, <1>1, <4>1, <4>3 DEF AgentTypes, Doing
    <3> QED BY <3>1, <3>2
  <2>3. AgentTypes'
    BY <1>0, <2>1, <2>2, TypesOfMove DEF AgentTypes
  <2>4. SellsFirst
    BY <2>1, <2>2 DEF SellsFirst
  <2> QED BY <2>2, <2>3, <2>4
<1>3. CASE FilterSignals
  <2>1. UNCHANGED <<generation, positions, today, exits>>
    BY <1>3 DEF FilterSignals, control, ledger
  <2>2. PICK held : th' = [th EXCEPT ![Scan].pc = "enter", ![Scan].signals = @ \ held]
    BY <1>3 DEF FilterSignals
  <2>3. /\ th' \in [Threads -> Doing] /\ th'[Scan].pc = "enter"
        /\ \A u \in Threads : u # Scan => th'[u] = th[u]
    <3>1. th[Scan].signals \ held \in SUBSET Tickers
      BY <1>0 DEF Doing
    <3> QED BY <1>0, <1>1, <2>2, <3>1 DEF AgentTypes, Doing
  <2>4. AgentTypes'
    BY <1>0, <2>1, <2>3, TypesOfMove DEF AgentTypes
  <2>5. SellsFirst
    BY <2>1, <2>3 DEF SellsFirst
  <2> QED BY <2>3, <2>4, <2>5
<1>4. ASSUME UNCHANGED <<generation, exits>>, th' \in [Threads -> Doing],
             \A u \in Threads : u # Scan => th'[u] = th[u],
             th'[Scan].pc \in {"final", "idle", "enter"} \/ (th'[Scan].pc = "open" /\ th'[Scan].cur \in Tickers),
             UNCHANGED <<positions, today>> \/ \E s \in Tickers : OpensRow(s)
      PROVE  AgentTypes' /\ SellsFirst
  <2>1. /\ positions' \in [Ids -> Row] /\ today' \subseteq Ids
        /\ \A p \in Ids : positions'[p].state = "closed" => positions[p].state = "closed"
    <3>1. CASE UNCHANGED <<positions, today>>
      BY <3>1 DEF AgentTypes
    <3>2. ASSUME NEW s \in Tickers, OpensRow(s)
          PROVE  /\ positions' \in [Ids -> Row] /\ today' \subseteq Ids
                 /\ \A p \in Ids : positions'[p].state = "closed" => positions[p].state = "closed"
      BY <3>2, OpensRowTyped DEF AgentTypes
    <3> QED BY <1>4, <3>1, <3>2
  <2>2. AgentTypes'
    BY <1>0, <1>4, <2>1, TypesOfMove DEF AgentTypes
  <2>3. SellsFirst
    BY <1>4, <2>1, SMTT(30) DEF SellsFirst
  <2> QED BY <2>2, <2>3
<1>5. CASE EnterNext
  <2>1. UNCHANGED <<generation, exits>>
    BY <1>5 DEF EnterNext, control
  <2>2. CASE (Goto(Scan, "final") \/ Stop(Scan)) /\ UNCHANGED <<positions, today>>
    BY <1>0, <1>1, <1>4, <2>1, <2>2, GotoTyped, StopTyped
  <2>3. ASSUME NEW s \in th[Scan].signals, NEW ready \in BOOLEAN,
               th' = [th EXCEPT ![Scan].pc = IF ready THEN "open" ELSE "enter",
                                ![Scan].cur = IF ready THEN s ELSE None,
                                ![Scan].signals = @ \ {s}],
               (Reconciles /\ OpensRow(s)) \/ UNCHANGED <<positions, today>>
        PROVE  /\ AgentTypes' /\ SellsFirst
               /\ \A u \in Threads : u # Scan => th'[u] = th[u]
    <3>1. s \in Tickers /\ th[Scan].signals \ {s} \in SUBSET Tickers
      BY <1>0 DEF Doing
    <3>2. /\ th' \in [Threads -> Doing] /\ \A u \in Threads : u # Scan => th'[u] = th[u]
          /\ th'[Scan].pc = "enter" \/ (th'[Scan].pc = "open" /\ th'[Scan].cur \in Tickers)
      BY <1>0, <1>1, <2>3, <3>1 DEF AgentTypes, Doing
    <3> QED BY <1>4, <2>1, <2>3, <3>1, <3>2
  <2> QED BY <1>0, <1>1, <1>5, <2>2, <2>3, GotoTyped, StopTyped DEF EnterNext
<1>6. CASE OpenEntered
  <2>1. UNCHANGED <<generation, exits>> /\ th[Scan].cur \in Tickers
    BY <1>0, <1>6 DEF OpenEntered, control, AgentTypes
  <2>2. /\ th' \in [Threads -> Doing] /\ th'[Scan].pc = "enter"
        /\ \A u \in Threads : u # Scan => th'[u] = th[u]
    BY <1>0, <1>1, <1>6, SMTT(30) DEF OpenEntered, AgentTypes, Doing
  <2> QED BY <1>4, <1>6, <2>1, <2>2 DEF OpenEntered
<1> QED BY <1>2, <1>3, <1>5, <1>6 DEF EntryStep

----
(* No close without a sale.                                                *)

\* What is sold stays sold, so that closes recorded by who has sold are sound.
LEMMA SoldStays ==
    ASSUME SellsFirst, NEW p \in Ids, Sold(p)
    PROVE  (Sold(p))'
BY DEF SellsFirst, Sold

LEMMA SoldKept == ASSUME SoldInv, [Next]_vars PROVE SoldInv'
<1>1. AgentTypes' /\ SellsFirst
  BY OtherEffect, EntryTyped DEF SoldInv, Effect
<1>2. ASSUME NEW t \in Threads, th'[t].pc = "close" PROVE (Sold(th[t].cur))'
  <2>1. CASE th[t].pc = "close" /\ th'[t].cur = th[t].cur
    <3>1. PICK p \in Ids : p = th[t].cur
      BY <2>1 DEF SoldInv, AgentTypes, At
    <3>2. Sold(p)
      BY <2>1, <3>1 DEF SoldInv, At
    <3>3. (Sold(p))'
      BY <1>1, <3>2, SoldStays
    <3> QED BY <2>1, <3>1, <3>3 DEF Sold
  <2>2. CASE \E p \in Ids : th'[t].cur = p /\ (Sold(p))'
    BY <2>2 DEF Sold
  <2> QED BY <1>1, <1>2, <2>1, <2>2 DEF SellsFirst
<1>3. ASSUME NEW p \in Ids, positions'[p].state = "closed" PROVE (Sold(p))'
  <2>1. CASE positions[p].state = "closed"
    <3>1. Sold(p)
      BY <2>1 DEF SoldInv, ClosedWasSold, Sold
    <3> QED BY <1>1, <3>1, SoldStays
  <2>2. ASSUME NEW t \in Threads, At(t, "close") /\ th[t].cur = p PROVE (Sold(p))'
    <3>1. Sold(p)
      BY <2>2 DEF SoldInv
    <3> QED BY <1>1, <3>1, SoldStays
  <2> QED BY <1>1, <1>3, <2>1, <2>2 DEF SellsFirst
<1>4. ClosedWasSold'
  BY <1>3 DEF ClosedWasSold, Sold
<1> QED BY <1>1, <1>2, <1>4 DEF SoldInv, At

\* In every behaviour a position is recorded as closed only when the broker accepted an order to
\* sell it (or the orders followed are used up): _check_exits, emergency_stop and
\* process_pending_exits place the order, then close, whatever the other threads do in between.
THEOREM ClosesWereSold == Spec => []ClosedWasSold
<1>1. Init => SoldInv
  BY AgentInitially
<1>2. SoldInv /\ [Next]_vars => SoldInv'
  BY SoldKept
<1>3. SoldInv => ClosedWasSold
  BY DEF SoldInv
<1> QED BY <1>1, <1>2, <1>3, PTL DEF Spec

----
(* The limits.                                                             *)

\* The open positions and the day's entries are finitely many.
LEMMA LedgerFinite ==
    ASSUME NEW S \in SUBSET Ids
    PROVE  IsFiniteSet(S) /\ Cardinality(S) \in Nat
<1>1. MaxPositions \in Int /\ 1 \in Int
  BY AgentConstants
<1>2. IsFiniteSet(Ids)
  BY <1>1, FS_Interval DEF Ids
<1> QED BY <1>2, FS_Subset, FS_CardinalityType

LEMMA LimitsByOthers == ASSUME LimitsInv, [Next]_vars, ~EntryStep PROVE LimitsInv'
<1>1. Effect
  BY OtherEffect DEF LimitsInv
<1>2. OpenIds' \subseteq OpenIds /\ today' \subseteq today /\ OpenIds \subseteq Ids /\ today \subseteq Ids
  BY <1>1 DEF Effect, MakesRoom, OpenIds, LimitsInv, AgentTypes
<1>3. Cardinality(OpenIds') <= Cardinality(OpenIds) /\ Cardinality(today') <= Cardinality(today)
  BY <1>2, LedgerFinite, FS_Subset
<1>4. /\ Cardinality(OpenIds) \in Nat /\ Cardinality(OpenIds') \in Nat
      /\ Cardinality(today) \in Nat /\ Cardinality(today') \in Nat
  <2>1. OpenIds' \in SUBSET Ids /\ today' \in SUBSET Ids /\ OpenIds \in SUBSET Ids /\ today \in SUBSET Ids
    BY <1>2
  <2> QED BY <2>1, LedgerFinite
<1>5. WithinLimits'
  BY <1>3, <1>4, AgentConstants DEF LimitsInv, WithinLimits
<1>6. SlotsLeft'
  <2>1. CASE th'[Scan] = th[Scan]
    <3>1. th[Scan].slots \in Nat
      BY ThreadsAre DEF LimitsInv, AgentTypes, Doing
    <3> QED BY <1>3, <1>4, <2>1, <3>1, AgentConstants DEF LimitsInv, SlotsLeft, Entering, At
  <2>2. CASE th'[Scan].pc \notin {"filter", "enter", "open"}
    BY <2>2 DEF SlotsLeft, Entering, At
  <2> QED BY <1>1, <2>1, <2>2 DEF Effect, MakesRoom
<1> QED BY <1>1, <1>5, <1>6 DEF LimitsInv, Effect

\* A row more is at most one more to count.
LEMMA OneMore ==
    ASSUME NEW S \in SUBSET Ids, NEW p \in Ids, NEW T \in SUBSET (S \cup {p})
    PROVE  Cardinality(T) <= Cardinality(S) + 1
<1>1. S \cup {p} \in SUBSET Ids
  OBVIOUS
<1>2. IsFiniteSet(S) /\ IsFiniteSet(S \cup {p})
  BY <1>1, LedgerFinite
<1>3. Cardinality(S \cup {p}) <= Cardinality(S) + 1
  BY <1>2, LedgerFinite, FS_AddElement
<1>4. Cardinality(T) <= Cardinality(S \cup {p})
  BY <1>2, FS_Subset
<1>5. T \in SUBSET Ids
  BY <1>1
<1> QED BY <1>1, <1>3, <1>4, <1>5, LedgerFinite

\* Entering a ticker takes at most one place.
LEMMA OpensOne ==
    ASSUME AgentTypes, NEW s \in Tickers, OpensRow(s) \/ UNCHANGED <<positions, today>>
    PROVE  /\ Cardinality(OpenIds') <= Cardinality(OpenIds) + 1
           /\ Cardinality(today') <= Cardinality(today) + 1
           /\ \A q \in OpenIds' : \/ q \in OpenIds /\ positions'[q] = positions[q]
                                  \/ positions'[q].ticker = s
           /\ \A q, r \in OpenIds' : q # r => (q \in OpenIds /\ positions'[q] = positions[q])
                                              \/ (r \in OpenIds /\ positions'[r] = positions[r])
<1>0. OpenIds \in SUBSET Ids /\ today \in SUBSET Ids
  BY DEF OpenIds, AgentTypes
<1>1. CASE UNCHANGED <<positions, today>>
  <2>1. OpenIds' = OpenIds
    BY <1>1 DEF OpenIds
  <2> QED BY <1>0, <1>1, <2>1, LedgerFinite
<1>2. CASE OpensRow(s)
  <2>1. PICK p \in Ids : /\ positions' = [positions EXCEPT ![p] = [ticker |-> s, state |-> "open"]]
                         /\ today' = today \cup {p}
    BY <1>2, OpensRowTyped
  <2>2. /\ positions'[p].ticker = s
        /\ \A q \in Ids : q # p => positions'[q] = positions[q]
    BY <2>1 DEF AgentTypes
  <2>3. OpenIds' \in SUBSET (OpenIds \cup {p}) /\ today' \in SUBSET (today \cup {p})
    BY <2>1, <2>2 DEF OpenIds
  <2>4. Cardinality(OpenIds') <= Cardinality(OpenIds) + 1
    BY <1>0, <2>3, OneMore
  <2>5. Cardinality(today') <= Cardinality(today) + 1
    BY <1>0, <2>3, OneMore
  <2>6. \A q \in OpenIds' : q # p => q \in OpenIds /\ positions'[q] = positions[q]
    BY <1>0, <2>2, <2>3
  <2> QED BY <2>2, <2>4, <2>5, <2>6
<1> QED BY <1>1, <1>2

LEMMA LimitsByEntry ==
    ASSUME LimitsInv, EntryStep, ~ReadFaults, ~Reconciles
    PROVE  LimitsInv'
<1>0. AgentTypes /\ AgentTypes' /\ th[Scan] \in Doing /\ th[Scan].slots \in Nat
  BY EntryTyped, ThreadsAre DEF LimitsInv, AgentTypes, Doing
<1>1. Scan \in Threads /\ MaxOpen \in Nat /\ MaxDaily \in Nat
  BY ThreadsAre, AgentConstants
<1>2. Cardinality(OpenIds) \in Nat /\ Cardinality(today) \in Nat
  <2>1. OpenIds \in SUBSET Ids /\ today \in SUBSET Ids
    BY <1>0 DEF OpenIds, AgentTypes
  <2> QED BY <2>1, LedgerFinite
<1>3. Cardinality(OpenIds') \in Nat /\ Cardinality(today') \in Nat
  <2>1. OpenIds' \in SUBSET Ids /\ today' \in SUBSET Ids
    BY <1>0 DEF OpenIds, AgentTypes
  <2> QED BY <2>1, LedgerFinite
<1>4. {"final", "filter", "enter", "open"} \subseteq PCs
  BY DEF PCs
<1>5. ASSUME UNCHANGED <<positions, today>>, (SlotsLeft)' PROVE LimitsInv'
  <2>1. OpenIds' = OpenIds
    BY <1>5 DEF OpenIds
  <2> QED BY <1>0, <1>5, <2>1 DEF LimitsInv, WithinLimits
<1>6. CASE CountSlots
  <2>1. UNCHANGED <<positions, today>>
    BY <1>6 DEF CountSlots, ledger
  <2>2. OpenIds' = OpenIds
    BY <2>1 DEF OpenIds
  <2>3. CASE Goto(Scan, "final")
    <3>1. th'[Scan].pc = "final"
      BY <1>0, <1>1, <1>4, <2>3, GotoTyped
    <3> QED BY <1>5, <2>1, <3>1 DEF SlotsLeft, Entering, At
  <2>4. CASE ~Goto(Scan, "final")
    <3>1. /\ ~(Cardinality(today) >= MaxDaily \/ Cardinality(OpenIds) >= MaxOpen)
          /\ th' = [th EXCEPT ![Scan].pc = "filter",
                              ![Scan].slots = LeastOf(MaxDaily - Cardinality(today),
                                                      MaxOpen - Cardinality(OpenIds))]
      BY <1>6, <2>4 DEF CountSlots, Reads
    <3>2. th'[Scan].pc = "filter" /\ th'[Scan].slots = LeastOf(MaxDaily - Cardinality(today),
                                                              MaxOpen - Cardinality(OpenIds))
      BY <1>0, <1>1, <3>1 DEF AgentTypes, Doing
    <3>3. /\ Cardinality(OpenIds) + th'[Scan].slots <= MaxOpen
          /\ Cardinality(today) + th'[Scan].slots <= MaxDaily
      BY <1>1, <1>2, <3>1, <3>2 DEF LeastOf
    <3>4. (SlotsLeft)'
      BY <2>1, <2>2, <3>2, <3>3 DEF SlotsLeft, Entering, At
    <3> QED BY <1>5, <2>1, <3>4
  <2> QED BY <2>3, <2>4
<1>7. ASSUME Entering, th'[Scan].slots = th[Scan].slots, UNCHANGED <<positions, today>>,
             th'[Scan].pc = "open" => th[Scan].slots > 0
      PROVE  LimitsInv'
  <2>1. OpenIds' = OpenIds
    BY <1>7 DEF OpenIds
  <2>2. (SlotsLeft)'
    BY <1>7, <2>1 DEF LimitsInv, SlotsLeft, At
  <2> QED BY <1>5, <1>7, <2>2
<1>8. CASE FilterSignals
  <2>1. Entering /\ UNCHANGED <<positions, today>>
    BY <1>8 DEF FilterSignals, ledger, Entering, At
  <2>2. PICK held : th' = [th EXCEPT ![Scan].pc = "enter", ![Scan].signals = @ \ held]
    BY <1>8 DEF FilterSignals
  <2>3. th'[Scan].pc = "enter" /\ th'[Scan].slots = th[Scan].slots
    BY <1>0, <1>1, <2>2 DEF AgentTypes, Doing
  <2> QED BY <1>7, <2>1, <2>3
<1>9. CASE EnterNext
  <2>1. Entering /\ UNCHANGED <<positions, today>>
    BY <1>9 DEF EnterNext, Entering, At
  <2>2. CASE Goto(Scan, "final")
    <3>1. th'[Scan].pc = "final"
      BY <1>0, <1>1, <1>4, <2>2, GotoTyped
    <3> QED BY <1>5, <2>1, <3>1 DEF SlotsLeft, Entering, At
  <2>3. CASE Stop(Scan)
    <3>1. th'[Scan].pc = "idle"
      BY <1>0, <1>1, <2>3, StopTyped
    <3> QED BY <1>5, <2>1, <3>1 DEF SlotsLeft, Entering, At
  <2>4. ASSUME NEW s \in th[Scan].signals, NEW ready \in BOOLEAN, th[Scan].slots > 0,
               th' = [th EXCEPT ![Scan].pc = IF ready THEN "open" ELSE "enter",
                                ![Scan].cur = IF ready THEN s ELSE None,
                                ![Scan].signals = @ \ {s}]
        PROVE  LimitsInv'
    <3>1. th'[Scan].slots = th[Scan].slots
      BY <1>0, <1>1, <2>4 DEF AgentTypes, Doing
    <3> QED BY <1>7, <2>1, <2>4, <3>1
  <2> QED BY <1>9, <2>2, <2>3, <2>4 DEF EnterNext
<1>10. CASE OpenEntered
  <2>1. th[Scan].cur \in Tickers /\ Entering /\ th[Scan].slots > 0
    BY <1>0, <1>1, <1>10 DEF OpenEntered, AgentTypes, LimitsInv, SlotsLeft, Entering, At
  <2>2. /\ Cardinality(OpenIds') <= Cardinality(OpenIds) + 1
        /\ Cardinality(today') <= Cardinality(today) + 1
    BY <1>0, <1>10, <2>1, OpensOne DEF OpenEntered
  <2>3. th'[Scan].pc = "enter" /\ th'[Scan].slots = th[Scan].slots - 1
    BY <1>0, <1>1, <1>10 DEF OpenEntered, AgentTypes, Doing
  <2>4. /\ Cardinality(OpenIds) + th[Scan].slots <= MaxOpen
        /\ Cardinality(today) + th[Scan].slots <= MaxDaily
    BY <2>1 DEF LimitsInv, SlotsLeft
  <2>5. /\ Cardinality(OpenIds') + th'[Scan].slots <= MaxOpen
        /\ Cardinality(today') + th'[Scan].slots <= MaxDaily
    BY <1>0, <1>1, <1>2, <1>3, <2>1, <2>2, <2>3, <2>4
  <2>6. WithinLimits'
    BY <1>0, <1>1, <1>2, <1>3, <2>1, <2>2, <2>4 DEF WithinLimits
  <2>7. (SlotsLeft)'
    BY <2>3, <2>5 DEF SlotsLeft, Entering, At
  <2> QED BY <1>0, <2>6, <2>7 DEF LimitsInv
<1> QED BY <1>6, <1>8, <1>9, <1>10 DEF EntryStep

LEMMA LimitsKept ==
    ASSUME ~ReadFaults, ~Reconciles, LimitsInv, [Next]_vars
    PROVE  LimitsInv'
BY LimitsByOthers, LimitsByEntry

\* When the ledger can be read and orders are answered directly, _check_entries respects
\* MAX_OPEN_POSITIONS and MAX_DAILY_TRADES in every behaviour: counting once before the loop is
\* enough, for every number of threads, tickers and commands.
THEOREM LimitsHold ==
    ASSUME ~ReadFaults, ~Reconciles
    PROVE  Spec => []WithinLimits
<1>1. Init => LimitsInv
  BY AgentInitially
<1>2. LimitsInv /\ [Next]_vars => LimitsInv'
  BY LimitsKept
<1>3. LimitsInv => WithinLimits
  BY DEF LimitsInv
<1> QED BY <1>1, <1>2, <1>3, PTL DEF Spec

----
(* One position per ticker.                                                *)

LEMMA OneOpenByOthers == ASSUME OneOpenInv, [Next]_vars, ~EntryStep PROVE OneOpenInv'
<1>1. Effect
  BY OtherEffect DEF OneOpenInv
<1>2. \A p \in OpenIds' : p \in OpenIds /\ positions'[p].ticker = positions[p].ticker
  BY <1>1 DEF Effect, MakesRoom, OpenIds
<1>3. OneOpenPerTicker'
  BY <1>2 DEF OneOpenInv, OneOpenPerTicker
<1>4. SignalsNotHeld'
  <2>1. CASE th'[Scan] = th[Scan]
    BY <1>2, <2>1 DEF OneOpenInv, SignalsNotHeld, At
  <2>2. CASE th'[Scan].pc \notin {"filter", "enter", "open"}
    BY <2>2 DEF SignalsNotHeld, At
  <2> QED BY <1>1, <2>1, <2>2 DEF Effect, MakesRoom
<1> QED BY <1>1, <1>3, <1>4 DEF OneOpenInv, Effect

LEMMA OneOpenByEntry ==
    ASSUME OneOpenInv, EntryStep, ~ReadFaults, ~Reconciles
    PROVE  OneOpenInv'
<1>0. AgentTypes /\ AgentTypes' /\ Scan \in Threads /\ th[Scan] \in Doing
  BY EntryTyped, ThreadsAre DEF OneOpenInv, AgentTypes
<1>1. {"final", "filter", "enter", "open"} \subseteq PCs
  BY DEF PCs
<1>2. ASSUME UNCHANGED <<positions, today>>, (SignalsNotHeld)' PROVE OneOpenInv'
  <2>1. OpenIds' = OpenIds
    BY <1>2 DEF OpenIds
  <2> QED BY <1>0, <1>2, <2>1 DEF OneOpenInv, OneOpenPerTicker
<1>3. CASE CountSlots
  <2>1. UNCHANGED <<positions, today>>
    BY <1>3 DEF CountSlots, ledger
  <2>2. th'[Scan].pc \in {"final", "filter"}
    BY <1>0, <1>3 DEF CountSlots, Goto, AgentTypes, Doing
  <2> QED BY <1>2, <2>1, <2>2 DEF SignalsNotHeld, At
<1>4. CASE FilterSignals
  <2>1. UNCHANGED <<positions, today>>
    BY <1>4 DEF FilterSignals, ledger
  <2>2. th' = [th EXCEPT ![Scan].pc = "enter",
                         ![Scan].signals = @ \ {positions[p].ticker : p \in OpenIds}]
    BY <1>4 DEF FilterSignals, Reads
  <2>3. /\ th'[Scan].pc = "enter"
        /\ th'[Scan].signals = th[Scan].signals \ {positions[p].ticker : p \in OpenIds}
    BY <1>0, <2>2 DEF AgentTypes, Doing
  <2>4. (SignalsNotHeld)'
    BY <2>1, <2>3, SMTT(30) DEF SignalsNotHeld, At, OpenIds
  <2> QED BY <1>2, <2>1, <2>4
<1>5. CASE EnterNext
  <2>1. At(Scan, "enter") /\ UNCHANGED <<positions, today>>
    BY <1>5 DEF EnterNext
  <2>2. OpenIds' = OpenIds
    BY <2>1 DEF OpenIds
  <2>3. \A p \in OpenIds : positions[p].ticker \notin th[Scan].signals
    BY <2>1 DEF OneOpenInv, SignalsNotHeld
  <2>4. CASE Goto(Scan, "final")
    <3>1. th'[Scan].pc = "final"
      BY <1>0, <1>1, <2>4, GotoTyped
    <3> QED BY <1>2, <2>1, <3>1 DEF SignalsNotHeld, At
  <2>5. CASE Stop(Scan)
    <3>1. th'[Scan].pc = "idle"
      BY <1>0, <2>5, StopTyped
    <3> QED BY <1>2, <2>1, <3>1 DEF SignalsNotHeld, At
  <2>6. ASSUME NEW s \in th[Scan].signals, NEW ready \in BOOLEAN,
               th' = [th EXCEPT ![Scan].pc = IF ready THEN "open" ELSE "enter",
                                ![Scan].cur = IF ready THEN s ELSE None,
                                ![Scan].signals = @ \ {s}]
        PROVE  OneOpenInv'
    <3>1. /\ th'[Scan].signals = th[Scan].signals \ {s}
          /\ th'[Scan].pc = (IF ready THEN "open" ELSE "enter")
          /\ th'[Scan].cur = (IF ready THEN s ELSE None)
      BY <1>0, <2>6 DEF AgentTypes, Doing
    <3>2. (SignalsNotHeld)'
      BY <2>1, <2>2, <2>3, <3>1 DEF SignalsNotHeld, At
    <3> QED BY <1>2, <2>1, <3>2
  <2> QED BY <1>5, <2>4, <2>5, <2>6 DEF EnterNext
<1>6. CASE OpenEntered
  <2>1. At(Scan, "open") /\ th[Scan].cur \in Tickers
    BY <1>0, <1>6 DEF OpenEntered, AgentTypes
  <2>2. /\ th'[Scan].pc = "enter" /\ th'[Scan].signals = th[Scan].signals
    BY <1>0, <1>6 DEF OpenEntered, AgentTypes, Doing
  <2>3. /\ th[Scan].cur \notin th[Scan].signals
        /\ \A p \in OpenIds : /\ positions[p].ticker # th[Scan].cur
                              /\ positions[p].ticker \notin th[Scan].signals
    BY <2>1 DEF OneOpenInv, SignalsNotHeld
  <2>4. PICK s \in Tickers : s = th[Scan].cur
    BY <2>1
  <2>5. OpensRow(s) \/ UNCHANGED <<positions, today>>
    BY <1>6, <2>4 DEF OpenEntered
  <2>6. /\ \A q \in OpenIds' : \/ q \in OpenIds /\ positions'[q] = positions[q]
                               \/ positions'[q].ticker = s
        /\ \A q, r \in OpenIds' : q # r => (q \in OpenIds /\ positions'[q] = positions[q])
                                           \/ (r \in OpenIds /\ positions'[r] = positions[r])
    BY <1>0, <2>5, OpensOne
  <2>7. OneOpenPerTicker'
    BY <2>3, <2>4, <2>6 DEF OneOpenInv, OneOpenPerTicker
  <2>8. (SignalsNotHeld)'
    BY <2>2, <2>3, <2>4, <2>6 DEF SignalsNotHeld, At
  <2> QED BY <1>0, <2>7, <2>8 DEF OneOpenInv
<1> QED BY <1>3, <1>4, <1>5, <1>6 DEF EntryStep

LEMMA OneOpenKept ==
    ASSUME ~ReadFaults, ~Reconciles, OneOpenInv, [Next]_vars
    PROVE  OneOpenInv'
BY OneOpenByOthers, OneOpenByEntry

\* Under the same conditions no ticker ever has two open positions, although _check_entries reads
\* the tickers held once, before its first entry.
THEOREM OnePositionPerTicker ==
    ASSUME ~ReadFaults, ~Reconciles
    PROVE  Spec => []OneOpenPerTicker
<1>1. Init => OneOpenInv
  BY AgentInitially
<1>2. OneOpenInv /\ [Next]_vars => OneOpenInv'
  BY OneOpenKept
<1>3. OneOpenInv => OneOpenPerTicker
  BY DEF OneOpenInv
<1> QED BY <1>1, <1>2, <1>3, PTL DEF Spec

----
(* Of every number of requests and every setting of the timeouts and of the *)
(* breaker: a scan that was not told to abort runs alone, what a scan told  *)
(* to abort leaves behind, and the cooldown of a tripped breaker.           *)
(*                                                                         *)
(* That scans exclude each other rests on time: no request waits longer     *)
(* than its timeout, the timeout is shorter than the lease, and so the      *)
(* lease of a request that waits has never run out.                         *)

Waits(r) == request[r].pc = "waiting"

\* No request waits longer than its timeout.
WaitsInTime ==
    \A r \in Requests : Waits(r) => request[r].since <= clock /\ clock - request[r].since <= ScanTimeout

\* A scan whose request has gone was told to abort.
DesertedIsTold == \A r \in Requests : (ScanRunning(r) /\ ~scan[r].abort) => Waits(r)

\* The lease is that of the request that waits, and only one does.
LeaseOfWaiting == mislaid \/ \A r \in Requests : Waits(r) => lease = request[r].since
OneWaits == mislaid \/ \A r, s \in Requests : (Waits(r) /\ Waits(s)) => r = s

LeaseInv == ScanTypeOK /\ WaitsInTime /\ DesertedIsTold /\ LeaseOfWaiting /\ OneWaits

\* What a scan has left behind by the stage it is in.
LeftByStage ==
    \A r \in Requests :
        /\ scan[r].stage \in {"none", "admit", "fetch", "analyse"} => scan[r].left = {}
        /\ scan[r].stage = "save" => scan[r].left \subseteq {"shadow"}
        /\ scan[r].stage = "notify" => "notified" \notin scan[r].left

\* A scan told to abort goes no further than the next boundary, and only once told.
ToldAtStage ==
    \A r \in Requests :
        /\ scan[r].told \in {"admit", "fetch", "analyse"} =>
               scan[r].abort /\ scan[r].stage \in {"admit", "fetch", "analyse", "over"}
        /\ scan[r].told = "save" => scan[r].abort /\ scan[r].stage \in {"save", "over"}
        /\ scan[r].abort => request[r].pc = "answered"
        /\ request[r].pc = "idle" => scan[r] = NoScan

DiscardInv == ScanTypeOK /\ LeftByStage /\ ToldAtStage /\ StrictDiscard

\* A half open breaker has rested.
BreakerInv ==
    /\ ScanTypeOK
    /\ breaker.openedAt <= clock
    /\ breaker.state = "HALF_OPEN" => clock - breaker.openedAt >= BreakerCooldown

----
BreakerType ==
    [state : {"CLOSED", "OPEN", "HALF_OPEN"}, errors : Nat, openedAt : 0..ScanHorizon,
     probes : 0..(MaxProbes - 1)]
ScanType == [stage : Stages, abort : BOOLEAN, told : Stages, left : SUBSET Effects]

\* The assumptions, one by one.
LEMMA ScanConstants ==
    /\ NRequests \in Nat /\ ScanTimeout \in Nat /\ LeaseTime \in Nat /\ BreakerCooldown \in Nat
    /\ MaxErrors \in Nat /\ MaxProbes \in Nat /\ ScanHorizon \in Nat
    /\ 0 < ScanTimeout /\ ScanTimeout < LeaseTime
    /\ 0 < MaxErrors /\ 0 < MaxProbes /\ 0 < BreakerCooldown
BY ScanAssumption

\* Each of the breaker's operations keeps its type.
LEMMA BreakerTypes ==
    ASSUME ScanTypeOK
    PROVE  Rested \in BreakerType /\ WithError \in BreakerType /\ WithSuccess \in BreakerType
<1>0. breaker \in BreakerType /\ clock \in 0..ScanHorizon
  BY DEF ScanTypeOK, BreakerType
<1>1. 0 \in 0..(MaxProbes - 1) /\ 0 \in Nat /\ breaker.errors + 1 \in Nat
  BY <1>0, ScanConstants DEF BreakerType
<1>2. breaker.probes + 1 < MaxProbes => breaker.probes + 1 \in 0..(MaxProbes - 1)
  BY <1>0, ScanConstants DEF BreakerType
<1>3. Rested \in BreakerType
  BY <1>0, <1>1 DEF Rested, BreakerType
<1>4. WithError \in BreakerType
  BY <1>0, <1>1 DEF WithError, BreakerType
<1>5. WithSuccess \in BreakerType
  BY <1>0, <1>1, <1>2 DEF WithSuccess, BreakerType
<1> QED BY <1>3, <1>4, <1>5

\* The initial state has its type.
LEMMA ScanInitTypes == ScanInit => ScanTypeOK
<1> SUFFICES ASSUME ScanInit PROVE ScanTypeOK
  OBVIOUS
<1>1. 0 \in 0..ScanHorizon /\ 0 \in 0..(MaxProbes - 1) /\ Free \in 0..Free
  BY ScanConstants DEF Free
<1>2. ClosedBreaker \in BreakerType
  BY <1>1 DEF ClosedBreaker, BreakerType
<1>3. NoScan \in ScanType /\ NoRequest \in [pc : {"idle", "waiting", "answered"}, since : 0..ScanHorizon]
  BY <1>1 DEF NoScan, NoRequest, ScanType, Stages, Effects
<1> QED BY <1>1, <1>2, <1>3 DEF ScanInit, ScanTypeOK, BreakerType, ScanType

\* A step of a scan that moves it to a stage and adds to what it has left keeps the type.
LEMMA ScanStepTypes ==
    ASSUME ScanTypeOK, NEW r \in Requests, StageStep(r)
    PROVE  ScanTypeOK'
<1>1. ASSUME NEW stage \in Stages, NEW effects \in SUBSET Effects,
             scan' = [scan EXCEPT ![r].stage = stage, ![r].left = @ \cup effects],
             breaker' \in {breaker, Rested, WithError, WithSuccess},
             UNCHANGED <<clock, lease, request, mislaid>>
      PROVE  ScanTypeOK'
  <2>1. breaker' \in BreakerType
    BY <1>1, BreakerTypes DEF ScanTypeOK, BreakerType
  <2>2. scan' \in [Requests -> ScanType]
    BY <1>1, ZenonT(60) DEF ScanTypeOK, ScanType
  <2> QED BY <1>1, <2>1, <2>2 DEF ScanTypeOK, BreakerType, ScanType
<1>2. CASE Admitted(r) \/ FetchesNothing(r)
  <2>1. PICK stage \in Stages : scan' = [scan EXCEPT ![r].stage = stage]
    BY <1>2 DEF Admitted, FetchesNothing, Stages
  <2>2. scan' \in [Requests -> ScanType]
    BY <2>1 DEF ScanTypeOK, ScanType
  <2>3. breaker' \in BreakerType
    BY <1>2, BreakerTypes DEF Admitted, FetchesNothing, ScanTypeOK, BreakerType
  <2> QED BY <1>2, <2>2, <2>3 DEF Admitted, FetchesNothing, ScanTypeOK, BreakerType, ScanType
<1>3. /\ {"fetch", "analyse", "save", "notify", "over"} \subseteq Stages
      /\ {} \in SUBSET Effects /\ {"shadow"} \in SUBSET Effects /\ {"signals"} \in SUBSET Effects
      /\ {"notified"} \in SUBSET Effects
      /\ SUBSET {"signals"} \subseteq SUBSET Effects /\ SUBSET {"notified"} \subseteq SUBSET Effects
  BY DEF Stages, Effects
<1>4. ASSUME NEW effects \in SUBSET Effects, Raises(r, effects) PROVE ScanTypeOK'
  <2>1. "over" \in Stages
    BY <1>3
  <2> QED BY <1>1, <1>4, <2>1 DEF Raises
<1>5. ASSUME NEW stage \in Stages, NEW effects \in SUBSET Effects, PassesBoundary(r, stage, effects)
      PROVE  ScanTypeOK'
  BY <1>1, <1>4, <1>5 DEF PassesBoundary
<1>6. CASE Fetches(r)
  BY <1>3, <1>5, <1>6 DEF Fetches
<1>7. CASE Analyses(r)
  BY <1>3, <1>5, <1>7 DEF Analyses
<1>8. CASE Saves(r)
  BY <1>3, <1>5, <1>8 DEF Saves
<1>9. CASE Notifies(r)
  BY <1>1, <1>3, <1>9 DEF Notifies
<1>10. CASE BreaksDown(r)
  BY <1>3, <1>4, <1>10 DEF BreaksDown
<1> QED BY <1>2, <1>6, <1>7, <1>8, <1>9, <1>10 DEF StageStep

\* A step of a request keeps the type.
LEMMA RequestStepTypes ==
    ASSUME ScanTypeOK, NEW r \in Requests, RequestStep(r)
    PROVE  ScanTypeOK'
<1>1. clock \in 0..Free /\ Free \in 0..Free
  BY ScanConstants DEF ScanTypeOK, Free
<1>2. /\ request \in [Requests -> [pc : {"idle", "waiting", "answered"}, since : 0..ScanHorizon]]
      /\ scan \in [Requests -> ScanType] /\ clock \in 0..ScanHorizon
  BY DEF ScanTypeOK, ScanType
<1>3. /\ request' \in [Requests -> [pc : {"idle", "waiting", "answered"}, since : 0..ScanHorizon]]
      /\ lease' \in 0..Free
  <2>1. CASE TakesLease(r)
    BY <1>1, <1>2, <2>1 DEF TakesLease
  <2>2. CASE Refused(r) \/ CannotBuild(r) \/ AnswersScan(r) \/ TimesOut(r)
    <3>1. request' = [request EXCEPT ![r].pc = "answered"] /\ lease' \in {lease, Free}
      BY <2>2 DEF Refused, CannotBuild, AnswersScan, TimesOut
    <3> QED BY <1>1, <1>2, <3>1 DEF ScanTypeOK
  <2> QED BY <2>1, <2>2 DEF RequestStep
<1>4. scan' \in [Requests -> ScanType]
  <2>1. CASE TakesLease(r)
    <3>1. "admit" \in Stages
      BY DEF Stages
    <3> QED BY <1>2, <2>1, <3>1 DEF TakesLease, ScanType
  <2>2. CASE TimesOut(r)
    <3>1. scan[r].stage \in Stages
      BY <1>2 DEF ScanType
    <3> QED BY <1>2, <2>2, <3>1, ZenonT(60) DEF TimesOut, ScanType
  <2> QED BY <1>2, <2>1, <2>2 DEF RequestStep, Refused, CannotBuild, AnswersScan
<1>5. UNCHANGED <<clock, breaker>> /\ mislaid' \in BOOLEAN
  BY DEF ScanTypeOK, RequestStep, TakesLease, Refused, CannotBuild, AnswersScan, TimesOut
<1> QED BY <1>3, <1>4, <1>5 DEF ScanTypeOK, ScanType

\* Every step keeps the type.
LEMMA ScanNextTypes == ScanTypeOK /\ [ScanNext]_scanVars => ScanTypeOK'
<1> SUFFICES ASSUME ScanTypeOK, [ScanNext]_scanVars PROVE ScanTypeOK'
  OBVIOUS
<1>1. CASE LookAtBreaker
  BY <1>1, BreakerTypes DEF ScanTypeOK, LookAtBreaker, BreakerType
<1>2. CASE ScanClockTicks
  BY <1>2, ScanConstants DEF ScanTypeOK, ScanClockTicks
<1>3. CASE UNCHANGED scanVars
  BY <1>3 DEF ScanTypeOK, scanVars
<1> QED BY <1>1, <1>2, <1>3, ScanStepTypes, RequestStepTypes DEF ScanNext

\* Requests, scans, lease and breaker always have their type (api_scan, scan_once and
\* CircuitBreaker).
THEOREM ScanTypeCorrect == ScanSpec => []ScanTypeOK
BY ScanInitTypes, ScanNextTypes, PTL DEF ScanSpec

----
\* Initially no request waits and no scan runs.
LEMMA LeaseInitially == ScanInit => LeaseInv
<1> SUFFICES ASSUME ScanInit PROVE LeaseInv
  OBVIOUS
<1>1. ScanTypeOK
  BY ScanInitTypes
<1>2. \A r \in Requests : ~Waits(r) /\ ~ScanRunning(r)
  BY DEF ScanInit, Waits, ScanRunning, NoScan, NoRequest
<1> QED BY <1>1, <1>2 DEF LeaseInv, WaitsInTime, DesertedIsTold, LeaseOfWaiting, OneWaits

\* A scan goes to another stage, with what it leaves behind.
MovesOn(r, stage, effects) ==
    \/ scan' = [scan EXCEPT ![r].stage = stage]
    \/ scan' = [scan EXCEPT ![r].stage = stage, ![r].left = @ \cup effects]

\* A step of a scan leaves requests, lease and clock alone, starts no scan and calls none back.
LEMMA ScanStepFrame ==
    ASSUME ScanTypeOK, NEW r \in Requests, StageStep(r)
    PROVE  /\ UNCHANGED <<clock, lease, request, mislaid>>
           /\ \A s \in Requests : scan'[s].abort = scan[s].abort
           /\ \A s \in Requests : (scan'[s].stage \notin {"none", "over"}) => ScanRunning(s)
<1>1. UNCHANGED <<clock, lease, request, mislaid>>
  BY DEF StageStep, Admitted, FetchesNothing, Notifies, Fetches, Analyses, Saves, BreaksDown,
         PassesBoundary, Raises
<1>2. ScanRunning(r)
  BY DEF StageStep, Admitted, FetchesNothing, Notifies, Fetches, Analyses, Saves, BreaksDown, ScanRunning
<1>3. PICK stage, effects : MovesOn(r, stage, effects)
  <2>1. CASE Admitted(r)
    BY <2>1, Zenon DEF Admitted, MovesOn
  <2>2. CASE FetchesNothing(r)
    BY <2>2, Zenon DEF FetchesNothing, MovesOn
  <2>3. CASE Fetches(r)
    BY <2>3, Zenon DEF Fetches, PassesBoundary, Raises, MovesOn
  <2>4. CASE Analyses(r)
    BY <2>4, Zenon DEF Analyses, PassesBoundary, Raises, MovesOn
  <2>5. CASE Saves(r)
    BY <2>5, Zenon DEF Saves, PassesBoundary, Raises, MovesOn
  <2>6. CASE Notifies(r)
    BY <2>6, Zenon DEF Notifies, MovesOn
  <2>7. CASE BreaksDown(r)
    BY <2>7, Zenon DEF BreaksDown, Raises, MovesOn
  <2> QED BY <2>1, <2>2, <2>3, <2>4, <2>5, <2>6, <2>7 DEF StageStep
<1>4. scan \in [Requests -> ScanType]
  BY DEF ScanTypeOK, ScanType
<1>5. \A s \in Requests : s # r => scan'[s] = scan[s]
  BY <1>3, <1>4 DEF MovesOn
<1>6. scan'[r].abort = scan[r].abort
  BY <1>3, <1>4 DEF MovesOn, ScanType
<1> QED BY <1>1, <1>2, <1>5, <1>6 DEF ScanRunning

\* While a request waits, no other finds the lease free or run out.
LEMMA WaitingHoldsLease ==
    ASSUME LeaseInv, ~mislaid, NEW r \in Requests, Waits(r)
    PROVE  lease # Free /\ LeaseHeld
<1>1. lease = request[r].since /\ lease <= clock /\ clock - lease <= ScanTimeout
  BY DEF LeaseInv, LeaseOfWaiting, WaitsInTime
<1>2. request[r].since \in 0..ScanHorizon /\ clock \in 0..ScanHorizon
  BY DEF LeaseInv, ScanTypeOK
<1> QED BY <1>1, <1>2, ScanConstants DEF LeaseHeld, Free

\* The lease invariant survives a step of a request.
LEMMA RequestKeepsLease ==
    ASSUME LeaseInv, NEW r \in Requests, RequestStep(r)
    PROVE  LeaseInv'
<1> USE DEF Waits, ScanTypeOK
<1>0. ScanTypeOK /\ ScanTypeOK'
  BY RequestStepTypes DEF LeaseInv
<1>1. CASE TakesLease(r)
  <2>1. mislaid \/ \A s \in Requests : ~Waits(s)
    BY <1>1, WaitingHoldsLease DEF TakesLease
  <2>2. /\ clock' = clock /\ mislaid' = mislaid /\ lease' = clock
        /\ request'[r] = [pc |-> "waiting", since |-> clock]
        /\ \A s \in Requests : s # r => request'[s] = request[s] /\ scan'[s] = scan[s]
    BY <1>0, <1>1 DEF TakesLease
  <2>3. WaitsInTime'
    BY <1>0, <2>2, ScanConstants DEF LeaseInv, WaitsInTime
  <2>4. DesertedIsTold'
    BY <1>0, <2>2 DEF LeaseInv, DesertedIsTold, ScanRunning
  <2>5. mislaid' \/ \A s \in Requests : Waits(s)' => s = r
    BY <2>1, <2>2
  <2>6. lease' = request'[r].since
    BY <2>2
  <2>7. LeaseOfWaiting' /\ OneWaits'
    BY <2>5, <2>6 DEF LeaseOfWaiting, OneWaits
  <2> QED BY <1>0, <2>3, <2>4, <2>7 DEF LeaseInv
<1>2. CASE Refused(r)
  <2>1. /\ UNCHANGED <<clock, lease, scan, mislaid>>
        /\ request[r].pc = "idle" /\ request'[r].pc = "answered"
        /\ \A s \in Requests : s # r => request'[s] = request[s]
    BY <1>0, <1>2 DEF Refused, Arrives
  <2>2. \A s \in Requests : Waits(s) <=> Waits(s)'
    BY <2>1
  <2>3. \A s \in Requests : Waits(s) => request'[s].since = request[s].since
    BY <2>1
  <2>4. WaitsInTime' /\ LeaseOfWaiting'
    BY <2>1, <2>2, <2>3 DEF LeaseInv, WaitsInTime, LeaseOfWaiting
  <2>5. DesertedIsTold' /\ OneWaits'
    BY <2>1, <2>2 DEF LeaseInv, DesertedIsTold, OneWaits, ScanRunning
  <2> QED BY <1>0, <2>4, <2>5 DEF LeaseInv
<1>3. CASE CannotBuild(r)
  <2>1. /\ UNCHANGED <<clock, scan>>
        /\ request[r].pc = "idle" /\ request'[r].pc = "answered"
        /\ \A s \in Requests : s # r => request'[s] = request[s]
    BY <1>0, <1>3 DEF CannotBuild, Arrives
  <2>2. mislaid' \/ \A s \in Requests : ~Waits(s)
    BY <1>3, WaitingHoldsLease DEF CannotBuild
  <2>3. WaitsInTime' /\ DesertedIsTold'
    BY <1>0, <2>1 DEF LeaseInv, WaitsInTime, DesertedIsTold, ScanRunning
  <2>4. LeaseOfWaiting' /\ OneWaits'
    BY <2>1, <2>2 DEF LeaseOfWaiting, OneWaits
  <2> QED BY <1>0, <2>3, <2>4 DEF LeaseInv
<1>4. CASE AnswersScan(r) \/ TimesOut(r)
  <2>1. /\ UNCHANGED <<clock, mislaid>>
        /\ Waits(r) /\ request'[r].pc = "answered"
        /\ \A s \in Requests : s # r => request'[s] = request[s] /\ scan'[s] = scan[s]
        /\ scan'[r].abort \/ scan'[r].stage = "over"
    BY <1>0, <1>4 DEF AnswersScan, TimesOut
  <2>2. mislaid \/ \A s \in Requests : ~(Waits(s)')
    BY <2>1 DEF LeaseInv, OneWaits
  <2>3. WaitsInTime'
    BY <2>1 DEF LeaseInv, WaitsInTime
  <2>4. DesertedIsTold'
    BY <2>1 DEF LeaseInv, DesertedIsTold, ScanRunning
  <2>5. LeaseOfWaiting' /\ OneWaits'
    BY <2>1, <2>2 DEF LeaseOfWaiting, OneWaits
  <2> QED BY <1>0, <2>3, <2>4, <2>5 DEF LeaseInv
<1> QED BY <1>1, <1>2, <1>3, <1>4 DEF RequestStep

\* The lease invariant survives every step.
LEMMA LeaseKept == LeaseInv /\ [ScanNext]_scanVars => LeaseInv'
<1> SUFFICES ASSUME LeaseInv, [ScanNext]_scanVars PROVE LeaseInv'
  OBVIOUS
<1>0. ScanTypeOK /\ ScanTypeOK'
  BY ScanNextTypes DEF LeaseInv
<1>1. ASSUME NEW r \in Requests, StageStep(r) PROVE LeaseInv'
  BY <1>0, <1>1, ScanStepFrame
  DEF LeaseInv, WaitsInTime, DesertedIsTold, LeaseOfWaiting, OneWaits, Waits, ScanRunning
<1>2. CASE LookAtBreaker
  BY <1>0, <1>2
  DEF LookAtBreaker, LeaseInv, WaitsInTime, DesertedIsTold, LeaseOfWaiting, OneWaits, Waits, ScanRunning
<1>3. CASE ScanClockTicks
  <2>1. WaitsInTime'
    BY <1>0, <1>3, ScanConstants DEF ScanClockTicks, LeaseInv, WaitsInTime, Waits, ScanTypeOK
  <2> QED BY <1>0, <1>3, <2>1
          DEF ScanClockTicks, LeaseInv, DesertedIsTold, LeaseOfWaiting, OneWaits, Waits, ScanRunning
<1>4. CASE UNCHANGED scanVars
  BY <1>0, <1>4
  DEF scanVars, LeaseInv, WaitsInTime, DesertedIsTold, LeaseOfWaiting, OneWaits, Waits, ScanRunning
<1> QED BY <1>1, <1>2, <1>3, <1>4, RequestKeepsLease DEF ScanNext

\* At most one scan runs that was not told to abort, unless a request ended a lease that was
\* not its own (_acquire_scan_lock, _release_scan_lock and the timeout of api_scan).
THEOREM ScansExclude == ScanSpec => []ScansExclusive
<1>1. LeaseInv => ScansExclusive
  BY DEF LeaseInv, DesertedIsTold, OneWaits, ScansExclusive
<1> QED BY <1>1, LeaseInitially, LeaseKept, PTL DEF ScanSpec

----
\* Initially no scan has left or been told anything.
LEMMA DiscardInitially == ScanInit => DiscardInv
<1> SUFFICES ASSUME ScanInit PROVE DiscardInv
  OBVIOUS
<1>1. ScanTypeOK
  BY ScanInitTypes
<1>2. \A r \in Requests : scan[r] = NoScan /\ request[r].pc = "idle"
  BY DEF ScanInit, NoRequest
<1> QED BY <1>1, <1>2 DEF DiscardInv, LeftByStage, ToldAtStage, StrictDiscard, NoScan

\* A scan keeps to what its stage and the word to abort allow.
LEMMA ScanKeepsDiscard ==
    ASSUME DiscardInv, NEW r \in Requests, StageStep(r)
    PROVE  DiscardInv'
<1> USE DEF ScanTypeOK, Effects
<1>0. ScanTypeOK /\ ScanTypeOK'
  BY ScanStepTypes DEF DiscardInv
<1>1. request' = request /\ request[r].pc # "idle"
  BY <1>0, ScanStepFrame
  DEF DiscardInv, ToldAtStage, NoScan, StageStep, Admitted, FetchesNothing, Fetches, Analyses, Saves,
      Notifies, BreaksDown
<1>2. ASSUME NEW stage, NEW effects,
             scan' = [scan EXCEPT ![r].stage = stage, ![r].left = @ \cup effects],
             \/ scan[r].stage = "fetch" /\ stage = "analyse" /\ effects = {} /\ ~scan[r].abort
             \/ scan[r].stage = "analyse" /\ stage = "save" /\ effects = {"shadow"} /\ ~scan[r].abort
             \/ scan[r].stage = "save" /\ stage = "notify" /\ effects = {"signals"} /\ ~scan[r].abort
             \/ scan[r].stage = "analyse" /\ stage = "over" /\ effects = {"shadow"}
             \/ scan[r].stage \in {"fetch", "analyse"} /\ stage = "over" /\ effects = {}
             \/ scan[r].stage = "save" /\ stage = "over" /\ effects \subseteq {"signals"}
             \/ scan[r].stage = "notify" /\ stage = "over" /\ effects \subseteq {"notified"}
      PROVE  DiscardInv'
  <2>1. /\ scan'[r] = [scan[r] EXCEPT !.stage = stage, !.left = @ \cup effects]
        /\ \A s \in Requests : s # r => scan'[s] = scan[s]
    BY <1>0, <1>2
  <2>2. scan[r] \in [stage : Stages, abort : BOOLEAN, told : Stages, left : SUBSET Effects]
    BY <1>0
  <2>3. /\ scan'[r].stage = stage /\ scan'[r].left = scan[r].left \cup effects
        /\ scan'[r].told = scan[r].told /\ scan'[r].abort = scan[r].abort
    BY <2>1, <2>2
  <2>4. LeftByStage'
    BY <1>2, <2>1, <2>3 DEF DiscardInv, LeftByStage
  <2>5. ToldAtStage'
    BY <1>1, <1>2, <2>1, <2>3 DEF DiscardInv, ToldAtStage
  <2>6. StrictDiscard'
    BY <1>2, <2>1, <2>3 DEF DiscardInv, LeftByStage, ToldAtStage, StrictDiscard
  <2> QED BY <1>0, <2>4, <2>5, <2>6 DEF DiscardInv
<1>3. CASE Admitted(r) \/ FetchesNothing(r)
  <2>1. PICK stage \in {"fetch", "over"} : scan' = [scan EXCEPT ![r].stage = stage]
    BY <1>3 DEF Admitted, FetchesNothing
  <2>2. scan[r].stage \in {"admit", "fetch"}
    BY <1>3 DEF Admitted, FetchesNothing
  <2>3. /\ scan'[r].stage = stage /\ scan'[r].left = scan[r].left
        /\ scan'[r].told = scan[r].told /\ scan'[r].abort = scan[r].abort
        /\ \A s \in Requests : s # r => scan'[s] = scan[s]
    BY <1>0, <2>1
  <2>4. LeftByStage' /\ StrictDiscard'
    BY <2>1, <2>2, <2>3 DEF DiscardInv, LeftByStage, StrictDiscard
  <2>5. ToldAtStage'
    BY <1>1, <2>1, <2>2, <2>3 DEF DiscardInv, ToldAtStage
  <2> QED BY <1>0, <2>4, <2>5 DEF DiscardInv
<1>4. CASE Fetches(r) \/ Analyses(r) \/ Saves(r)
  BY <1>2, <1>4 DEF Fetches, Analyses, Saves, PassesBoundary, Raises
<1>5. CASE Notifies(r)
  BY <1>2, <1>5 DEF Notifies
<1>6. CASE BreaksDown(r)
  BY <1>2, <1>6 DEF BreaksDown, Raises
<1> QED BY <1>3, <1>4, <1>5, <1>6 DEF StageStep

\* A request tells its own scan once, while it waits for it.
LEMMA RequestKeepsDiscard ==
    ASSUME DiscardInv, NEW r \in Requests, RequestStep(r)
    PROVE  DiscardInv'
<1> USE DEF ScanTypeOK
<1>0. ScanTypeOK /\ ScanTypeOK'
  BY RequestStepTypes DEF DiscardInv
<1>1. CASE TakesLease(r)
  <2>1. /\ scan[r] = NoScan /\ scan'[r] = [scan[r] EXCEPT !.stage = "admit"]
        /\ request'[r].pc = "waiting"
        /\ \A s \in Requests : s # r => scan'[s] = scan[s] /\ request'[s] = request[s]
    BY <1>0, <1>1 DEF TakesLease, Arrives, DiscardInv, ToldAtStage
  <2>2. /\ scan'[r].stage = "admit" /\ scan'[r].left = {}
        /\ scan'[r].told = "none" /\ scan'[r].abort = FALSE
    BY <2>1 DEF NoScan
  <2>3. LeftByStage' /\ StrictDiscard'
    BY <2>1, <2>2 DEF DiscardInv, LeftByStage, StrictDiscard
  <2>4. ToldAtStage'
    BY <2>1, <2>2 DEF DiscardInv, ToldAtStage
  <2> QED BY <1>0, <2>3, <2>4 DEF DiscardInv
<1>2. CASE Refused(r) \/ CannotBuild(r) \/ AnswersScan(r)
  <2>1. /\ scan' = scan /\ request'[r].pc = "answered"
        /\ \A s \in Requests : s # r => request'[s] = request[s]
    BY <1>0, <1>2 DEF Refused, CannotBuild, AnswersScan
  <2> QED BY <1>0, <2>1 DEF DiscardInv, LeftByStage, ToldAtStage, StrictDiscard
<1>3. CASE TimesOut(r)
  <2>1. /\ scan'[r].stage = scan[r].stage /\ scan'[r].left = scan[r].left
        /\ scan'[r].abort /\ scan'[r].told = scan[r].stage
        /\ request[r].pc = "waiting" /\ request'[r].pc = "answered"
        /\ \A s \in Requests : s # r => scan'[s] = scan[s] /\ request'[s] = request[s]
    BY <1>0, <1>3 DEF TimesOut
  <2>2. scan[r].stage # "over"
    BY <1>3 DEF TimesOut
  <2>3. LeftByStage'
    BY <2>1 DEF DiscardInv, LeftByStage
  <2>4. ToldAtStage'
    BY <2>1, <2>2 DEF DiscardInv, ToldAtStage
  <2>5. StrictDiscard'
    BY <2>1 DEF DiscardInv, LeftByStage, StrictDiscard
  <2> QED BY <1>0, <2>3, <2>4, <2>5 DEF DiscardInv
<1> QED BY <1>1, <1>2, <1>3 DEF RequestStep

\* "Strict discard": a scan told to abort before boundary 2 writes nothing but the shadow
\* ledger, and one told to abort before boundary 3 does not send its results (scan_once).
THEOREM DiscardsStrictly == ScanSpec => []StrictDiscard
<1>1. DiscardInv /\ [ScanNext]_scanVars => DiscardInv'
  <2> SUFFICES ASSUME DiscardInv, [ScanNext]_scanVars PROVE DiscardInv'
    OBVIOUS
  <2>1. CASE LookAtBreaker \/ ScanClockTicks \/ UNCHANGED scanVars
    <3>1. ScanTypeOK' /\ UNCHANGED <<scan, request>>
      BY <2>1, ScanNextTypes DEF DiscardInv, LookAtBreaker, ScanClockTicks, scanVars
    <3> QED BY <3>1 DEF DiscardInv, LeftByStage, ToldAtStage, StrictDiscard
  <2> QED BY <2>1, ScanKeepsDiscard, RequestKeepsDiscard DEF ScanNext
<1>2. DiscardInv => StrictDiscard
  BY DEF DiscardInv
<1> QED BY <1>1, <1>2, DiscardInitially, PTL DEF ScanSpec

----
\* What a step does to the breaker: nothing, or one of its four operations.
LEMMA BreakerSteps ==
    ASSUME [ScanNext]_scanVars
    PROVE  \/ clock' = clock /\ breaker' \in {breaker, Rested, WithError, WithSuccess}
           \/ clock' = clock + 1 /\ breaker' = breaker
<1>1. ASSUME NEW r \in Requests, StageStep(r)
      PROVE  clock' = clock /\ breaker' \in {breaker, Rested, WithError, WithSuccess}
  BY <1>1
  DEF StageStep, Admitted, FetchesNothing, Fetches, Analyses, Saves, Notifies, BreaksDown,
      PassesBoundary, Raises
<1>2. ASSUME NEW r \in Requests, RequestStep(r) PROVE clock' = clock /\ breaker' = breaker
  BY <1>2 DEF RequestStep, TakesLease, Refused, CannotBuild, AnswersScan, TimesOut
<1> QED BY <1>1, <1>2 DEF ScanNext, LookAtBreaker, ScanClockTicks, scanVars

\* A tripped breaker is closed by nothing before its cooldown is over: not by the success of
\* a scan that was admitted before the trip, and not while no one has found it half open.
THEOREM TripsHold == ScanSpec => TripHolds
<1>1. ScanInit => BreakerInv
  BY ScanInitTypes, ScanConstants DEF ScanInit, BreakerInv, ClosedBreaker, ScanTypeOK
<1>2. BreakerInv /\ [ScanNext]_scanVars => BreakerInv'
  <2> SUFFICES ASSUME BreakerInv, [ScanNext]_scanVars PROVE BreakerInv'
    OBVIOUS
  <2>1. ScanTypeOK /\ ScanTypeOK'
    BY ScanNextTypes DEF BreakerInv
  <2>2. CASE clock' = clock + 1 /\ breaker' = breaker
    BY <2>1, <2>2, ScanConstants DEF BreakerInv, ScanTypeOK
  <2>3. CASE clock' = clock /\ breaker' \in {breaker, Rested, WithError, WithSuccess}
    <3>1. breaker \in BreakerType /\ clock \in Nat
      BY <2>1 DEF ScanTypeOK, BreakerType
    <3>2. CASE breaker' = Rested
      BY <2>1, <2>3, <3>1, <3>2 DEF BreakerInv, BreakerType, Rested
    <3>3. CASE breaker' = WithError
      BY <2>1, <2>3, <3>1, <3>3 DEF BreakerInv, BreakerType, WithError
    <3>4. CASE breaker' = WithSuccess
      BY <2>1, <2>3, <3>1, <3>4 DEF BreakerInv, BreakerType, WithSuccess
    <3>5. CASE breaker' = breaker
      BY <2>1, <2>3, <3>5 DEF BreakerInv
    <3> QED BY <2>3, <3>2, <3>3, <3>4, <3>5
  <2> QED BY <2>2, <2>3, BreakerSteps
<1>3. BreakerInv /\ [ScanNext]_scanVars
          => [(breaker.state # "CLOSED" /\ breaker'.state = "CLOSED")
                => clock - breaker.openedAt >= BreakerCooldown]_scanVars
  <2> SUFFICES ASSUME BreakerInv, [ScanNext]_scanVars, breaker.state # "CLOSED", breaker'.state = "CLOSED"
               PROVE  clock - breaker.openedAt >= BreakerCooldown
    OBVIOUS
  <2> QED BY BreakerSteps DEF BreakerInv, ScanTypeOK, Rested, WithError, WithSuccess
<1> QED BY <1>1, <1>2, <1>3, PTL DEF ScanSpec, TripHolds
=============================================================================
