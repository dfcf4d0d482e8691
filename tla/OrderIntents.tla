---------------------------- MODULE OrderIntents ----------------------------
(***************************************************************************)
(* The durable intent log of bist_bot.db.repositories.order_intents_       *)
(* repository.  One row per client order id; the row's active_key holds    *)
(* the ticker while the intent blocks further orders for it (a UNIQUE      *)
(* column), and is NULL once released.  Every operation below is one       *)
(* database transaction of the repository.                                 *)
(***************************************************************************)
EXTENDS Naturals, FiniteSets

CONSTANTS
    Cids,        \* client order ids: uuid4 values, each used for one order
    Tickers,     \* the symbols traded
    None,        \* a NULL column or an unset field
    Manual,      \* a broker order id typed by an administrator that the
                 \* broker's history does not list
    TickerOf     \* the ticker each client order id is used for

ASSUME IntentAssumption ==
    /\ None \notin Cids
    /\ Manual \notin Cids
    /\ Manual # None
    /\ TickerOf \in [Cids -> Tickers]

VARIABLE intents

\* "new" stands for: no row with this client id has been inserted.
Statuses == {"new", "pending", "sent", "ack", "ack_unaccounted", "unknown",
             "rejected"}

Row == [status : Statuses,
        locked : BOOLEAN,                    \* active_key is not NULL
        boid   : Cids \cup {None, Manual}]   \* broker_order_id

\* The column default of update(): terminal statuses release the lock unless
\* the caller passes release_lock.
ReleasedBy(status) == status \in {"ack", "rejected"}

IntentsInit ==
    intents = [c \in Cids |-> [status |-> "new", locked |-> FALSE, boid |-> None]]

\* get_unresolved(ticker): some row's active_key is the ticker.
Unresolved(k) == \E c \in Cids : intents[c].locked /\ TickerOf[c] = k

\* Mutant of Create: active_key is not unique.
CreateNotUnique(c) ==
    intents' = [intents EXCEPT ![c] = [status |-> "pending", locked |-> TRUE, boid |-> None]]

\* create(): inserting a second row with the same active_key violates the
\* unique index, so the transaction is possible only on a free ticker.
Create(c) ==
    /\ ~Unresolved(TickerOf[c])
    /\ intents' = [intents EXCEPT
                     ![c] = [status |-> "pending", locked |-> TRUE, boid |-> None]]

\* update(): unconditional; a NULL broker id leaves the column alone, and the
\* lock can be released but never taken again.
Update(c, status, boid, release) ==
    intents' = [intents EXCEPT
                  ![c] = [status |-> status,
                          locked |-> intents[c].locked /\ ~release,
                          boid   |-> IF boid = None THEN intents[c].boid ELSE boid]]

\* update_conditional(): the same write, only from an expected status.
UpdateConditional(c, status, expected, boid, release) ==
    IF intents[c].status \in expected
    THEN Update(c, status, boid, release)
    ELSE UNCHANGED intents

InFlightStatuses == {"pending", "sent", "unknown"}

\* Mutant of Reconcilable: the replay lists every intent, released ones included.
ReconcilableAll == {c \in Cids : intents[c].status # "new"}

\* list_reconcilable()
Reconcilable == {c \in Cids : intents[c].locked /\ intents[c].status \in InFlightStatuses}

\* is_broker_order_bound(b, exclude_client_id = c)
BoundToOther(b, c) == \E d \in Cids \ {c} : intents[d].boid = b

IntentsTypeOK == intents \in [Cids -> Row]
=============================================================================
