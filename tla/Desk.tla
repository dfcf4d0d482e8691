-------------------------------- MODULE Desk --------------------------------
(***************************************************************************)
(* The paper broker, which keeps cash, positions and orders in memory only,  *)
(* the two services that submit orders to it and write their rows, and the   *)
(* tracker that carries the broker's orders over to the rows.  One ticker.   *)
(***************************************************************************)
EXTENDS Integers, Sequences, FiniteSets

CONSTANTS
    NOrders,        \* bound on the orders
    Quantities,     \* what an order may be for
    Lots,           \* what a partial fill may bring
    Prices,
    InitialCash,
    BuyCostPct, SellCostPct,
    DeskFaults      \* bound on the writes of order rows that fail and the restarts of the process

\* Both services refuse a quantity that is not positive (resolve_quantity).
ASSUME DeskAssumption ==
    /\ {NOrders, InitialCash, BuyCostPct, SellCostPct, DeskFaults} \subseteq Nat
    /\ Quantities \subseteq Nat \ {0} /\ Lots \subseteq Int /\ Prices \subseteq Nat

VARIABLES
    manualConfirm,  \* manual_confirm of the broker
    cash, fees, position,
    orders,         \* the broker's orders, those a restart has forgotten among them
    rows,           \* order rows, with the order each stands for
    routing,        \* the submission under way
    polling,        \* the tracker: pending rows it has still to look at, and the status it holds
    fills,          \* history: the fills since the last restart
    deskFaults

brokerVars == <<cash, fees, position, orders, fills>>
deskVars == <<manualConfirm, cash, fees, position, orders, rows, routing, polling, fills, deskFaults>>

Final == {"FILLED", "CANCELLED", "REJECTED"}
NotRouting == [pc |-> "idle", via |-> "executor", side |-> "BUY", qty |-> 0, kind |-> "MARKET", price |-> 0,
               row |-> 0, order |-> 0, state |-> "CREATED"]
NotPolling == [pc |-> "idle", todo |-> {}, state |-> "SENT", filled |-> 0]

DeskTypeOK ==
    /\ manualConfirm \in BOOLEAN /\ fees \in Nat /\ position \in Nat
    /\ \A i \in 1..Len(orders) : orders[i].state \in {"CREATED", "SENT", "PARTIAL"} \cup Final
    /\ \A r \in 1..Len(rows) : rows[r].state \in {"CREATED", "SENT", "PARTIAL"} \cup Final
    /\ routing.pc \in {"idle", "place", "record"} /\ polling.pc \in {"idle", "ask", "write"}

DeskInit ==
    /\ manualConfirm \in BOOLEAN
    /\ cash = InitialCash /\ fees = 0 /\ position = 0
    /\ orders = <<>> /\ rows = <<>> /\ fills = <<>>
    /\ routing = NotRouting /\ polling = NotPolling
    /\ deskFaults = 0

-----------------------------------------------------------------------------
(* PaperBroker *)

Remaining(o) == o.qty - o.filled

\* A form with a plausible bug: a fill is not cut to what the order still wants.
FillQuantityAsGiven(o, qty) == qty

FillQuantity(o, qty) == IF qty < Remaining(o) THEN qty ELSE Remaining(o)

\* _fill_order and _apply_fill.  A sale of more than is held, or of nothing, brings its cash and
\* ends the position.
FillsOrder(book, i, qty, price) ==
    LET o == book[i]
        q == FillQuantity(o, qty)
        notional == q * price
        fee == (notional * (IF o.side = "BUY" THEN BuyCostPct ELSE SellCostPct)) \div 100
    IN  IF o.state \in Final \/ q <= 0 THEN orders' = book /\ UNCHANGED <<cash, fees, position, fills>>
        ELSE /\ orders' = [book EXCEPT ![i].filled = @ + q,
                              ![i].state = IF o.filled + q = o.qty THEN "FILLED" ELSE "PARTIAL"]
             /\ cash' = IF o.side = "BUY" THEN cash - notional - fee ELSE cash + notional - fee
             /\ fees' = fees + fee
             /\ position' = IF o.side = "BUY" THEN position + q
                            ELSE IF position > q THEN position - q ELSE 0
             /\ fills' = Append(fills, [order |-> i, qty |-> q, price |-> price, after |-> o.state])

\* place_order: a market order without manual confirmation is filled at once.
PlacesOrder(o) ==
    LET placed == Append(orders, [o EXCEPT !.state = IF manualConfirm THEN "CREATED" ELSE "SENT"])
    IN  IF ~manualConfirm /\ o.kind = "MARKET" THEN FillsOrder(placed, Len(placed), o.qty, o.price)
        ELSE orders' = placed /\ UNCHANGED <<cash, fees, position, fills>>

Known(i) == i \in 1..Len(orders) /\ ~orders[i].forgotten
KeepRows == UNCHANGED <<manualConfirm, rows, routing, polling, deskFaults>>

\* confirm_order: a limit order confirmed without a price waits for its fill.
Confirms(i) ==
    /\ Known(i) /\ orders[i].state = "CREATED"
    /\ LET sent == [orders EXCEPT ![i].state = "SENT"]
       IN  \/ \E price \in Prices : FillsOrder(sent, i, Remaining(orders[i]), price)
           \/ /\ orders[i].kind = "MARKET"
              /\ FillsOrder(sent, i, Remaining(orders[i]), orders[i].price)
           \/ orders[i].kind = "LIMIT" /\ orders' = sent /\ UNCHANGED <<cash, fees, position, fills>>
    /\ KeepRows

\* cancel_order, reject_order.
EndsOrder(i) ==
    /\ Known(i) /\ orders[i].state \notin Final
    /\ \E state \in {"CANCELLED", "REJECTED"} : orders' = [orders EXCEPT ![i].state = state]
    /\ UNCHANGED <<cash, fees, position, fills>> /\ KeepRows

\* partial_fill, and fill_order for the rest; neither waits for a confirmation.
Fills(i) ==
    /\ Known(i) /\ orders[i].state \notin Final
    /\ \E qty \in Lots \cup {Remaining(orders[i])}, price \in Prices : FillsOrder(orders, i, qty, price)
    /\ KeepRows

-----------------------------------------------------------------------------
(* OrderExecutor and ExecutionService *)

Faults == deskFaults < DeskFaults /\ deskFaults' = deskFaults + 1
NewOrder(s) == [side |-> s.side, qty |-> s.qty, kind |-> s.kind, price |-> s.price, state |-> "SENT", filled |-> 0,
                forgotten |-> FALSE]

\* The executor hands over the price of the signal, the service none, which counts as zero.  If
\* the row cannot be created the executor goes on without one and the service gives up.
Submits(via, side, qty, kind, price) ==
    /\ routing.pc = "idle" /\ Len(orders) < NOrders
    /\ via = "service" => kind = "MARKET" /\ price = 0
    /\ via = "executor" => price \in Prices
    /\ LET s == [NotRouting EXCEPT !.pc = "place", !.via = via, !.side = side, !.qty = qty, !.kind = kind,
                                   !.price = price]
       IN  \/ /\ rows' = Append(rows, [order |-> 0, side |-> side, qty |-> qty, state |-> "CREATED", filled |-> 0,
                                       failed |-> FALSE])
              /\ routing' = [s EXCEPT !.row = Len(rows) + 1]
              /\ UNCHANGED deskFaults
           \/ Faults /\ via = "executor" /\ routing' = s /\ UNCHANGED rows
    /\ UNCHANGED <<manualConfirm, brokerVars, polling>>

\* The first call of the service, with order_db_id, raises a TypeError and changes nothing.
Places ==
    /\ routing.pc = "place"
    /\ PlacesOrder(NewOrder(routing))
    /\ routing' = IF routing.row = 0 THEN NotRouting
                  ELSE [routing EXCEPT !.pc = "record", !.order = Len(orders'),
                                       !.state = orders'[Len(orders')].state]
    /\ UNCHANGED <<manualConfirm, rows, polling, deskFaults>>

\* If the row cannot be written the executor leaves it and the service marks it REJECTED.
Records ==
    LET s == routing IN
    /\ s.pc = "record"
    /\ routing' = NotRouting
    /\ \/ /\ rows' = [rows EXCEPT ![s.row].order = s.order, ![s.row].state = s.state]
          /\ UNCHANGED deskFaults
       \/ /\ Faults
          /\ rows' = [rows EXCEPT ![s.row].failed = TRUE,
                                  ![s.row].state = IF s.via = "service" THEN "REJECTED" ELSE @]
    /\ UNCHANGED <<manualConfirm, brokerVars, polling>>

-----------------------------------------------------------------------------
(* OrderTracker, and the process *)

\* get_pending_orders, the oldest first; rows without a broker id are passed over.
Oldest(pending) == CHOOSE r \in pending : \A q \in pending : r <= q

ListsPending ==
    /\ polling.pc = "idle"
    /\ LET pending == {r \in 1..Len(rows) : rows[r].state \in {"SENT", "PARTIAL"} /\ rows[r].order # 0}
       IN  pending # {} /\ polling' = [NotPolling EXCEPT !.pc = "ask", !.todo = pending]
    /\ UNCHANGED <<manualConfirm, brokerVars, rows, routing, deskFaults>>

\* get_order_status; an order that a restart has forgotten ends the whole poll.
AsksStatus ==
    LET i == rows[Oldest(polling.todo)].order IN
    /\ polling.pc = "ask"
    /\ polling' = IF Known(i) THEN [polling EXCEPT !.pc = "write", !.state = orders[i].state, !.filled = orders[i].filled]
                  ELSE NotPolling
    /\ UNCHANGED <<manualConfirm, brokerVars, rows, routing, deskFaults>>

WritesStatus ==
    LET r == Oldest(polling.todo) rest == polling.todo \ {r} IN
    /\ polling.pc = "write"
    /\ \/ /\ rows' = [rows EXCEPT ![r].state = polling.state, ![r].filled = polling.filled]
          /\ polling' = IF rest = {} THEN NotPolling ELSE [NotPolling EXCEPT !.pc = "ask", !.todo = rest]
          /\ UNCHANGED deskFaults
       \/ Faults /\ polling' = NotPolling /\ UNCHANGED rows
    /\ UNCHANGED <<manualConfirm, brokerVars, routing>>

\* The broker starts anew, the rows remain.
DeskRestarted ==
    /\ Faults
    /\ cash' = InitialCash /\ fees' = 0 /\ position' = 0 /\ fills' = <<>>
    /\ orders' = [i \in 1..Len(orders) |-> [orders[i] EXCEPT !.forgotten = TRUE]]
    /\ routing' = NotRouting /\ polling' = NotPolling
    /\ UNCHANGED <<manualConfirm, rows>>

DeskNext ==
    \/ \E i \in 1..NOrders : Confirms(i) \/ EndsOrder(i) \/ Fills(i)
    \/ \E via \in {"executor", "service"}, side \in {"BUY", "SELL"}, qty \in Quantities,
          kind \in {"MARKET", "LIMIT"}, price \in Prices \cup {0} : Submits(via, side, qty, kind, price)
    \/ Places \/ Records \/ ListsPending \/ AsksStatus \/ WritesStatus \/ DeskRestarted

DeskSpec == DeskInit /\ [][DeskNext]_deskVars

-----------------------------------------------------------------------------
\* The sum of the first n of some numbers.
SumTo(values, n) ==
    LET sum[k \in 0..n] == IF k = 0 THEN 0 ELSE sum[k - 1] + values[k]
    IN  sum[n]

SignOf(side) == IF side = "BUY" THEN 1 ELSE -1
Spent == [k \in 1..Len(fills) |-> SignOf(orders[fills[k].order].side) * (fills[k].qty * fills[k].price)]
Acquired == [k \in 1..Len(fills) |-> SignOf(orders[fills[k].order].side) * fills[k].qty]
FilledOf(i) == [k \in 1..Len(fills) |-> IF fills[k].order = i THEN fills[k].qty ELSE 0]

\* Cash and costs follow from the fills alone, an order is filled by its fills, never beyond what
\* it was for, FILLED exactly when it is filled whole, and not filled once it has ended
\* (_fill_order, _apply_fill).
BooksBalance ==
    /\ cash + fees + SumTo(Spent, Len(fills)) = InitialCash
    /\ \A i \in 1..Len(orders) :
          Known(i) => /\ orders[i].filled = SumTo(FilledOf(i), Len(fills)) /\ orders[i].filled <= orders[i].qty
                      /\ (orders[i].state = "FILLED") <=> (orders[i].filled = orders[i].qty)
    /\ \A k \in 1..Len(fills) : fills[k].after \notin Final

\* A row is never ahead of its order, and tells its end only if it has ended so; a row can say
\* REJECTED of an order that was accepted only after a write that failed (OrderTracker,
\* ExecutionService).
RowsTrail ==
    \A r \in 1..Len(rows) :
        LET row == rows[r] IN
        /\ row.order # 0 =>
              /\ row.filled <= orders[row.order].filled
              /\ row.state \in Final => orders[row.order].state = row.state
        /\ row.order = 0 /\ row.state # "CREATED" => row.failed

\* get_open_live_position_tickers.
RowQuantity(row) == IF row.filled > 0 THEN row.filled ELSE IF row.state = "FILLED" THEN row.qty ELSE 0
Counted == [r \in 1..Len(rows) |-> IF rows[r].state \in {"FILLED", "PARTIAL"}
                                  THEN SignOf(rows[r].side) * RowQuantity(rows[r]) ELSE 0]
HeldByRows == 0 < SumTo(Counted, Len(rows))

\* The tracker has caught up: every order has a row, and they agree.
Followed ==
    \A i \in 1..Len(orders) :
        Known(i) /\ \E r \in 1..Len(rows) : rows[r].order = i /\ rows[r].state = orders[i].state
                                           /\ RowQuantity(rows[r]) = orders[i].filled
NothingUncovered == \A n \in 1..Len(fills) : 0 <= SumTo(Acquired, n)
EndedPartly(i) == orders[i].state \in {"CANCELLED", "REJECTED"} /\ orders[i].filled > 0

\* Where every order has a row, the tracker has caught up and nothing was sold that was not held,
\* the rows and the broker agree on whether the ticker is held, unless an order was ended after a
\* part of it was filled, which the rows then count for nothing.
RowsTellHolding ==
    (Followed /\ NothingUncovered /\ \A i \in 1..Len(orders) : ~EndedPartly(i)) => (HeldByRows <=> position > 0)

\* The three together.
DeskBalances == BooksBalance /\ RowsTrail /\ RowsTellHolding
=============================================================================
