----------------------------- MODULE BrokerSession -----------------------------
(***************************************************************************)
(* The requests below the submission of AlgoLabBroker: the session token     *)
(* that all threads of a process share, the login under its lock, and the    *)
(* retries, which differ for placing an order; above them the two            *)
(* OrderExecutors with their order rows and the two probes of the dashboard. *)
(*                                                                         *)
(* Each client makes one call.  The vendor may end every session at any      *)
(* time.  The throttle only delays and is left out; all endpoints are        *)
(* configured, so nothing is NotImplemented.  What place_order does with an  *)
(* intent is in AlgoLabBroker.                                               *)
(***************************************************************************)
EXTENDS Naturals, FiniteSets

CONSTANTS
    Clients,
    Crews,           \* bound on the kinds of calls made beside each other
    BrokerTries,     \* max_retries
    MaxGrants,       \* bound on the sessions granted
    MaxMishaps,      \* bound on what fails: requests, answers, writes of rows
    MaxEndings,      \* bound on how often the vendor ends all sessions
    NoSession

ASSUME BrokerSessionAssumption ==
    /\ {BrokerTries, MaxGrants, MaxMishaps, MaxEndings} \subseteq Nat /\ BrokerTries > 1 /\ MaxGrants > 0
    /\ Crews \subseteq SUBSET {"execute", "submit", "account", "orders", "cancel", "health", "ready"}
    /\ NoSession \notin Nat /\ NoSession \notin Clients

VARIABLES
    crew,      \* the kinds of calls of this behaviour
    bearer,    \* _session_token
    sealed,    \* _session_encrypted
    authLock,  \* who holds _auth_lock, if anybody
    granted,   \* how many sessions the vendor has granted; they are numbered
    valid,     \* the sessions the vendor accepts
    mishaps, endings,
    client     \* what a thread is doing

brokerSessionVars == <<crew, bearer, sealed, authLock, granted, valid, mishaps, endings, client>>

Grants == 1..MaxGrants
Executions == {"execute", "submit"}
NoClient == [pc |-> "idle", kind |-> "none", for |-> "none", tries |-> 0, carries |-> {},
             row |-> "none", ordered |-> 0, unheard |-> FALSE, lost |-> 0, refused |-> FALSE, result |-> "none"]

BrokerSessionTypeOK ==
    /\ crew \in Crews
    /\ bearer \in Grants \cup {NoSession} /\ sealed \in Grants \cup {NoSession}
    /\ authLock \in Clients \cup {NoSession}
    /\ granted \in 0..MaxGrants /\ valid \subseteq Grants
    /\ mishaps \in 0..MaxMishaps /\ endings \in 0..MaxEndings
    /\ client \in [Clients ->
          [pc : {"idle", "auth", "lock", "login", "otp", "headers", "send", "stale", "reconcile",
                 "row", "paper", "answered", "failed", "done"},
           kind : {"none", "execute", "submit", "account", "orders", "cancel", "health", "ready"},
           for : {"none", "greeting", "probe", "request"},
           tries : 0..BrokerTries, carries : SUBSET Grants,
           row : {"none", "CREATED", "SENT", "REJECTED"}, ordered : 0..BrokerTries, unheard : BOOLEAN,
           lost : 0..(1 + MaxEndings + Cardinality(Clients)), refused : BOOLEAN,
           result : {"none", "skipped", "accepted", "rejected", "ok", "error", "raised",
                     "healthy", "degraded"}]]

\* A process that has just started, or one whose session of yesterday has ended.
BrokerSessionInit ==
    /\ crew \in Crews
    /\ bearer \in {NoSession, 1} /\ sealed = bearer
    /\ granted = (IF bearer = 1 THEN 1 ELSE 0) /\ valid = {}
    /\ authLock = NoSession /\ mishaps = 0 /\ endings = 0
    /\ client = [c \in Clients |-> NoClient]

At(c, pc) == client[c].pc = pc
Sets(c, new) == client' = [client EXCEPT ![c] = new]
\* A call is over, and what only served it is forgotten.
Finishes(c, result) ==
    Sets(c, [client[c] EXCEPT !.pc = "done", !.result = result, !.for = "none", !.tries = 0,
               !.carries = {}])
Mishap == mishaps < MaxMishaps /\ mishaps' = mishaps + 1
KeepSession == UNCHANGED <<bearer, sealed, authLock, granted, valid>>
KeepFaults == UNCHANGED <<mishaps, endings>>
\* A request is over, or is made anew.
Steps(c, pc, k) == Sets(c, [k EXCEPT !.pc = pc, !.carries = {}])
AtWork(c) == client[c].pc \notin {"idle", "done"}
Accepted(c) == client[c].carries \cap valid # {}
Placing(c) == client[c].kind = "execute"
OneOrderMore(c) == [client[c] EXCEPT !.ordered = @ + 1]
TriesOnceMore(c) == Steps(c, "auth", [client[c] EXCEPT !.tries = @ + 1])
Ended == bearer # NoSession /\ bearer \notin valid
\* A call begins; the session it finds may have ended already.
Opens(c, kind, new) ==
    /\ At(c, "idle") /\ kind \in crew
    /\ Sets(c, [new EXCEPT !.kind = kind, !.lost = IF Ended THEN 1 ELSE 0])
    /\ KeepSession /\ KeepFaults

-----------------------------------------------------------------------------
(* Who calls. *)

\* execute_signal looks at AUTO_EXECUTE, the type of the signal and its size, and greets the broker.
Executes(c) ==
    \/ Opens(c, "execute", [client[c] EXCEPT !.pc = "done", !.result = "skipped"])
    \/ Opens(c, "execute", [client[c] EXCEPT !.pc = "auth", !.for = "greeting"])

\* The twin of it in the broker package; its broker is the paper broker, which lets everybody in.
Submits(c) ==
    \/ Opens(c, "submit", [client[c] EXCEPT !.pc = "done", !.result = "skipped"])
    \/ Opens(c, "submit", [client[c] EXCEPT !.pc = "row"])

\* A first request: get_positions, get_account_info; get_order_status, get_open_orders,
\* get_daily_orders; cancel_order.
Requests(c, kind) == Opens(c, kind, [client[c] EXCEPT !.pc = "auth", !.for = "request", !.tries = 1])
QueriesAccount(c) == Requests(c, "account")
QueriesOrders(c) == Requests(c, "orders")
Cancels(c) == Requests(c, "cancel")

\* The probes look at the database and, of a live broker, whether it authenticates.
Probes(c, kind) == Opens(c, kind, [client[c] EXCEPT !.pc = "auth", !.for = "probe"])
ProbesHealth(c) == Probes(c, "health")
ProbesReady(c) == Probes(c, "ready")

-----------------------------------------------------------------------------
(* authenticate, and who goes on with its outcome. *)

ProbeResult(ok) == IF ok THEN {"healthy", "degraded"} ELSE {"degraded"}  \* the database may be down

\* A probe answers 200 if the database and the broker are fine; a request does not look at the outcome.
Authenticated(c, ok) ==
    \/ /\ client[c].for = "greeting"
       /\ IF ok THEN Steps(c, "row", client[c])
                ELSE Finishes(c, "none")
    \/ /\ client[c].for = "probe"
       /\ \E result \in ProbeResult(ok) : Finishes(c, result)
    \/ client[c].for = "request" /\ Steps(c, "headers", client[c])

\* The look without the lock.
LooksForSession(c) ==
    /\ At(c, "auth")
    /\ IF bearer # NoSession THEN Authenticated(c, TRUE) ELSE Sets(c, [client[c] EXCEPT !.pc = "lock"])
    /\ KeepSession /\ KeepFaults

\* The look under the lock.
LocksLogin(c) ==
    /\ At(c, "lock") /\ authLock = NoSession
    /\ IF bearer = NoSession
       THEN authLock' = c /\ Sets(c, [client[c] EXCEPT !.pc = "login"])
       ELSE UNCHANGED authLock /\ Authenticated(c, TRUE)
    /\ UNCHANGED <<bearer, sealed, granted, valid>> /\ KeepFaults

\* The vendor's answer to the code: a session with a token, one that is known by its encrypted form
\* only, or neither.
Grant(form) ==
    /\ granted < MaxGrants
    /\ granted' = IF form = "nothing" THEN granted ELSE granted + 1
    /\ valid' = IF form = "nothing" THEN valid ELSE valid \cup {granted'}
    /\ bearer' = IF form = "bearer" THEN granted' ELSE NoSession
    /\ sealed' = IF form = "nothing" THEN NoSession ELSE granted'

AttemptFails(c) ==
    \/ Placing(c) /\ Steps(c, "reconcile", client[c])
    \/ ~Placing(c) /\ client[c].tries = BrokerTries /\ Finishes(c, "error")
    \/ ~Placing(c) /\ client[c].tries < BrokerTries /\ TriesOnceMore(c)

\* A login fails with RuntimeError once its requests were tried often enough, with RequestException
\* if an answer is not JSON; only the second is caught by the request it was for.
LoginRaises(c, error) ==
    CASE client[c].for = "greeting" -> Finishes(c, "none")
      [] client[c].for = "probe" -> Finishes(c, "degraded")
      [] OTHER -> CASE error = "request" -> AttemptFails(c)
                    [] error = "runtime" /\ client[c].kind = "execute" ->
                          Sets(c, [client[c] EXCEPT !.pc = "failed"])
                    [] error = "runtime" /\ client[c].kind # "execute" -> Finishes(c, "error")

LogsIn(c) ==
    /\ client[c].pc \in {"login", "otp"}
    /\ \/ /\ At(c, "login") /\ Sets(c, [client[c] EXCEPT !.pc = "otp"])
          /\ KeepSession /\ KeepFaults
       \/ /\ At(c, "otp")
          /\ \E form \in {"bearer", "sealed", "nothing"} :
                /\ Grant(form) /\ Authenticated(c, form # "nothing")
                /\ IF form = "nothing" THEN Mishap ELSE UNCHANGED mishaps
          /\ authLock' = NoSession /\ UNCHANGED endings
       \/ /\ Mishap /\ UNCHANGED <<bearer, sealed, granted, valid, endings>>
          /\ \E error \in {"runtime", "request"} : LoginRaises(c, error)
          /\ authLock' = NoSession

\* _auth_headers reads what is there by now.
ReadsHeaders(c) ==
    /\ At(c, "headers")
    /\ Sets(c, [client[c] EXCEPT !.pc = "send", !.carries = {bearer, sealed} \ {NoSession}])
    /\ KeepSession /\ KeepFaults

-----------------------------------------------------------------------------
(* _request. *)

\* The vendor does what it is asked, or declines an order for reasons of its own.
VendorServes(c) ==
    /\ Accepted(c) /\ UNCHANGED mishaps
    /\ IF Placing(c)
       THEN Steps(c, "answered", OneOrderMore(c)) \/ Steps(c, "answered", client[c])
       ELSE Finishes(c, "ok")

\* A form with a plausible bug: an order is placed again like any other request that has failed.
AnswerIsLostAndRetried(c) ==
    /\ Mishap /\ Accepted(c) /\ Placing(c) /\ client[c].tries < BrokerTries
    /\ Steps(c, "auth", [OneOrderMore(c) EXCEPT !.tries = @ + 1])

\* Nothing arrives; or the order arrives and its answer does not.
AnswerIsLost(c) ==
    /\ Mishap
    /\ \/ AttemptFails(c)
       \/ Accepted(c) /\ Placing(c) /\ Steps(c, "reconcile", [OneOrderMore(c) EXCEPT !.unheard = TRUE])

\* An answer that is no object is raised as RuntimeError, past place_order, whatever it answers.
AnswerIsGarbled(c) ==
    /\ Mishap /\ Accepted(c)
    /\ IF Placing(c) THEN Steps(c, "failed", [OneOrderMore(c) EXCEPT !.unheard = TRUE])
                     ELSE Finishes(c, "error")

\* The first refusal is looked into; a later one is a failure like others.
IsRefused(c) ==
    /\ ~Accepted(c) /\ UNCHANGED mishaps
    /\ \/ client[c].tries = 1 /\ Steps(c, "stale", client[c])
       \/ client[c].tries > 1 /\ Placing(c) /\ Steps(c, "reconcile", [client[c] EXCEPT !.refused = TRUE])
       \/ client[c].tries > 1 /\ ~Placing(c) /\ client[c].tries < BrokerTries /\ TriesOnceMore(c)
       \/ client[c].tries = BrokerTries /\ ~Placing(c) /\ Finishes(c, "error")

Sends(c) ==
    /\ At(c, "send")
    /\ VendorServes(c) \/ AnswerIsLost(c) \/ AnswerIsGarbled(c) \/ IsRefused(c)
    /\ KeepSession /\ UNCHANGED endings

\* The first refusal clears the session, whichever is there by now, and tries again.
ClearsSession(c) ==
    /\ At(c, "stale") /\ authLock = NoSession
    /\ bearer' = NoSession /\ sealed' = NoSession
    /\ LET good == {bearer, sealed} \cap valid # {}
       IN  client' = [d \in Clients |->
               IF d = c THEN [client[c] EXCEPT !.pc = "auth", !.tries = 2]
               ELSE [client[d] EXCEPT !.lost = IF good /\ AtWork(d) THEN @ + 1 ELSE @]]
    /\ UNCHANGED <<authLock, granted, valid>> /\ KeepFaults

\* _reconcile_order finds the order in the day's history or raises (AlgoLabBroker).
Reconciles(c) ==
    /\ At(c, "reconcile")
    /\ \/ client[c].ordered > 0 /\ Sets(c, [client[c] EXCEPT !.pc = "answered"])
       \/ Sets(c, [client[c] EXCEPT !.pc = "failed"])
    /\ KeepSession /\ KeepFaults

-----------------------------------------------------------------------------
(* The order row of an execution. *)

\* A row that cannot be created does not stop the order.
CreatesRow(c) ==
    /\ At(c, "row")
    /\ \E row \in {"CREATED", "none"} :
          /\ IF row = "none" THEN Mishap ELSE UNCHANGED mishaps
          /\ Sets(c, [client[c] EXCEPT !.row = row, !.for = "request", !.tries = 1,
                        !.pc = IF client[c].kind = "execute" THEN "auth" ELSE "paper"])
    /\ KeepSession /\ UNCHANGED endings

\* The paper broker fills a market order at once or has not enough cash (Desk).
PaperAnswers(c) ==
    /\ At(c, "paper")
    /\ \/ Sets(c, [client[c] EXCEPT !.pc = "answered", !.ordered = 1])
       \/ Sets(c, [client[c] EXCEPT !.pc = "answered"])
       \/ Sets(c, [client[c] EXCEPT !.pc = "failed"])
    /\ KeepSession /\ KeepFaults

\* The row takes the state of the answer; a failing write is logged.
WritesAnswer(c) ==
    /\ At(c, "answered")
    /\ LET accepted == client[c].ordered > 0
           row == IF client[c].row = "none" THEN "none" ELSE IF accepted THEN "SENT" ELSE "REJECTED"
       IN  \/ /\ Sets(c, [client[c] EXCEPT !.pc = "done", !.row = row,
                            !.result = IF accepted THEN "accepted" ELSE "rejected"])
              /\ UNCHANGED mishaps
           \/ /\ client[c].row # "none" /\ Mishap
              /\ Finishes(c, IF accepted THEN "accepted" ELSE "rejected")
    /\ KeepSession /\ UNCHANGED endings

\* Whatever was raised, the row says REJECTED; a failing write replaces what was raised.
WritesRefusal(c) ==
    /\ At(c, "failed")
    /\ \/ /\ Sets(c, [client[c] EXCEPT !.pc = "done", !.result = "rejected",
                        !.row = IF @ = "none" THEN "none" ELSE "REJECTED"])
          /\ UNCHANGED mishaps
       \/ client[c].row # "none" /\ Mishap /\ Finishes(c, "raised")
    /\ KeepSession /\ UNCHANGED endings

-----------------------------------------------------------------------------
\* External: the vendor ends all sessions.
SessionsEnd ==
    /\ endings < MaxEndings /\ valid # {}
    /\ endings' = endings + 1 /\ valid' = {}
    /\ client' = [c \in Clients |-> [client[c] EXCEPT !.lost = IF AtWork(c) THEN @ + 1 ELSE @]]
    /\ UNCHANGED <<crew, bearer, sealed, authLock, granted, mishaps>>

BrokerSessionNext ==
    \/ SessionsEnd
    \/ /\ UNCHANGED crew
       /\ \E c \in Clients :
             \/ Executes(c) \/ Submits(c) \/ QueriesAccount(c) \/ QueriesOrders(c) \/ Cancels(c) \/ ProbesHealth(c) \/ ProbesReady(c)
             \/ LooksForSession(c) \/ LocksLogin(c) \/ LogsIn(c) \/ ReadsHeaders(c)
             \/ Sends(c) \/ ClearsSession(c) \/ Reconciles(c)
             \/ CreatesRow(c) \/ PaperAnswers(c) \/ WritesAnswer(c) \/ WritesRefusal(c)

BrokerSessionSpec == BrokerSessionInit /\ [][BrokerSessionNext]_brokerSessionVars

-----------------------------------------------------------------------------
\* An order is placed once, however often its request is repeated (_request with retry_mode "place").
PlacedOnce == \A c \in Clients : client[c].ordered <= 1

\* Nobody logs in while there is a token, or beside somebody else (the second look in authenticate).
LoginsNeeded == \A c \in Clients : client[c].pc \in {"login", "otp"} => authLock = c /\ bearer = NoSession

\* As long as nothing else fails, a request is refused for want of a session only if two were lost
\* under it: the vendor ended one, or a refusal that was heard late cleared one that was still good.
RefusedAfterTwo ==
    \A c \in Clients : client[c].refused =>
        client[c].lost > 1 \/ mishaps > 0

\* What an executor reports and writes of an order is true, unless its answer was never understood.
RowsTell ==
    \A c \in Clients :
        LET k == client[c]
        IN  k.pc = "done" /\ k.kind \in Executions =>
                /\ k.row = "SENT" => k.result = "accepted"
                /\ k.result = "accepted" => k.ordered = 1
                /\ k.ordered > 0 => k.result = "accepted" \/ k.unheard
                /\ k.result \in {"none", "skipped"} => k.row = "none" /\ k.ordered = 0

\* Threads share a session without logging in twice, ordering twice or losing what was ordered
\* (AlgoLabBroker._request, authenticate; the OrderExecutors).
BrokerSessionSound == PlacedOnce /\ LoginsNeeded /\ RefusedAfterTwo /\ RowsTell
=============================================================================
