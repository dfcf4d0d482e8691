---------------------------- MODULE Subscriptions ----------------------------
(***************************************************************************)
(* The payment requests and the membership of one user in the dashboard's   *)
(* API: a request is claimed, admins approve or reject it, and an admin may  *)
(* set the plan by hand.  Handlers run in threads; each works in one        *)
(* transaction, whose reads see what was committed before them (READ        *)
(* COMMITTED) and whose first write locks its row.                          *)
(***************************************************************************)
EXTENDS Naturals

CONSTANTS
    Handlers,          \* threads at work for this user
    NPayments,         \* bound on payment requests, numbered by their row id
    Plans,             \* PAID_PLANS
    SubscriptionDays,  \* SUBSCRIPTION_DAYS
    TrialDays,         \* the days a new user gets
    GrantDays,         \* days an admin gives by hand
    LastDay,           \* bound on time
    LastExpiry         \* bound on the expiry an admin extends by hand

ASSUME SubscriptionAssumption ==
    /\ {NPayments, SubscriptionDays, TrialDays, LastDay, LastExpiry} \subseteq Nat /\ GrantDays \subseteq Nat
    /\ SubscriptionDays > 0 /\ 0 \notin GrantDays

VARIABLES
    today,
    expires,   \* plan_expires_at of the user
    payment,   \* the rows of payment_requests
    handler,   \* the transaction a handler has under way
    due,       \* history: the expiry if the grants were made one after the other, 0 once lost
    granted,   \* history: how often a payment request has been paid out
    lost       \* history: a grant was computed from an expiry that had changed meanwhile

subVars == <<today, expires, payment, handler, due, granted, lost>>

Payments == 1..NPayments
NoPayment == [status |-> "none", plan |-> "none"]
NoWork == [pc |-> "idle", payment |-> 0, plan |-> "none", approve |-> FALSE, at |-> 0,
           days |-> 0, seen |-> 0, stale |-> FALSE]
SubscriptionTypeOK ==
    /\ today \in 0..LastDay /\ {expires, due} \subseteq Nat
    /\ payment \in [Payments -> [status : {"none", "pending", "approved", "rejected"},
                                 plan : Plans \cup {"none"}]]
    /\ handler \in [Handlers -> [pc : {"idle", "insert", "decided", "write"},
                                 payment : 0..NPayments, plan : Plans \cup {"none"},
                                 approve : BOOLEAN, at : 0..LastDay, days : Nat, seen : Nat,
                                 stale : BOOLEAN]]
    /\ granted \in [Payments -> Nat] /\ lost \in BOOLEAN

SubscriptionInit ==
    /\ today = 0 /\ expires = TrialDays /\ due = TrialDays
    /\ payment = [r \in Payments |-> NoPayment]
    /\ handler = [h \in Handlers |-> NoWork]
    /\ granted = [r \in Payments |-> 0] /\ lost = FALSE

Starts(h, work) == handler' = [handler EXCEPT ![h] = work]
Ends(h) == handler' = [handler EXCEPT ![h] = NoWork]

-----------------------------------------------------------------------------
\* api_billing_claim: a pending request for the plan is returned as a duplicate, else a new
\* one will be inserted.
ClaimLooks(h, plan) ==
    /\ handler[h].pc = "idle"
    /\ ~\E r \in Payments : payment[r] = [status |-> "pending", plan |-> plan]
    /\ Starts(h, [NoWork EXCEPT !.pc = "insert", !.plan = plan])
    /\ UNCHANGED <<today, expires, payment, due, granted, lost>>

ClaimInserts(h) ==
    /\ handler[h].pc = "insert"
    /\ \E r \in Payments :
          /\ payment[r].status = "none"
          /\ \A s \in Payments : s < r => payment[s].status # "none"
          /\ payment' = [payment EXCEPT ![r] = [status |-> "pending", plan |-> handler[h].plan]]
    /\ Ends(h)
    /\ UNCHANGED <<today, expires, due, granted, lost>>

\* A form with a plausible bug: the status is read first and the row updated by its id alone.
DecideByIdAlone(h, r, approve) ==
    /\ handler[h].pc = "idle" /\ payment[r].status = "pending"
    /\ Starts(h, [NoWork EXCEPT !.pc = "decided", !.payment = r, !.approve = approve,
                                !.at = today, !.days = SubscriptionDays])
    /\ UNCHANGED <<today, expires, payment, due, granted, lost>>

\* _decide_request: the row is updated where it is still pending, one transaction at a time;
\* whoever finds it decided ends with a conflict.
Decide(h, r, approve) ==
    /\ handler[h].pc = "idle" /\ payment[r].status = "pending"
    /\ \A g \in Handlers : handler[g].pc \in {"decided", "write"} => handler[g].payment # r
    /\ Starts(h, [NoWork EXCEPT !.pc = "decided", !.payment = r, !.approve = approve,
                                !.at = today, !.days = SubscriptionDays])
    /\ UNCHANGED <<today, expires, payment, due, granted, lost>>

Reject(h) ==
    /\ handler[h].pc = "decided" /\ ~handler[h].approve
    /\ payment' = [payment EXCEPT ![handler[h].payment].status = "rejected"]
    /\ Ends(h)
    /\ UNCHANGED <<today, expires, due, granted, lost>>

\* The expiry is read, and later written from what was read.
ReadsExpiry(h) ==
    /\ handler[h].pc = "decided" /\ handler[h].approve
    /\ Starts(h, [handler[h] EXCEPT !.pc = "write", !.seen = expires])
    /\ UNCHANGED <<today, expires, payment, due, granted, lost>>

\* api_admin_set_plan: no request is behind it.
SetPlanReads(h, days) ==
    /\ handler[h].pc = "idle" /\ expires < LastExpiry
    /\ Starts(h, [NoWork EXCEPT !.pc = "write", !.at = today, !.days = days, !.seen = expires])
    /\ UNCHANGED <<today, expires, payment, due, granted, lost>>

\* A form with a plausible bug: the days always count from the day of the decision.
ExtendedFromNow(expiry, h) == handler[h].at + handler[h].days

\* A membership that has not ended is extended, one that has ended starts anew.
Extended(expiry, h) ==
    (IF expiry > handler[h].at THEN expiry ELSE handler[h].at) + handler[h].days

\* The transaction commits; others that have read the expiry hold an old one from here on.
WritesExpiry(h) ==
    LET r == handler[h].payment
    IN  /\ handler[h].pc = "write"
        /\ lost' = (lost \/ handler[h].stale)
        /\ expires' = Extended(handler[h].seen, h)
        /\ due' = IF lost' THEN 0
                  ELSE (IF due > handler[h].at THEN due ELSE handler[h].at) + handler[h].days
        /\ IF r = 0 THEN UNCHANGED <<payment, granted>>
           ELSE /\ payment' = [payment EXCEPT ![r].status = "approved"]
                /\ granted' = [granted EXCEPT ![r] = @ + 1]
        /\ handler' = [g \in Handlers |->
                         IF g = h THEN NoWork
                         ELSE IF handler[g].pc = "write" THEN [handler[g] EXCEPT !.stale = TRUE]
                         ELSE handler[g]]
        /\ UNCHANGED today

\* The database raises, or the process dies: the transaction is rolled back.
RollsBack(h) ==
    /\ handler[h].pc # "idle" /\ Ends(h)
    /\ UNCHANGED <<today, expires, payment, due, granted, lost>>

DayPasses ==
    /\ today < LastDay /\ today' = today + 1
    /\ UNCHANGED <<expires, payment, handler, due, granted, lost>>

SubscriptionNext ==
    \/ \E h \in Handlers :
        \/ \E plan \in Plans : ClaimLooks(h, plan)
        \/ \E r \in Payments, approve \in BOOLEAN : Decide(h, r, approve)
        \/ \E days \in GrantDays : SetPlanReads(h, days)
        \/ ClaimInserts(h) \/ Reject(h) \/ ReadsExpiry(h) \/ WritesExpiry(h) \/ RollsBack(h)
    \/ DayPasses

SubscriptionSpec == SubscriptionInit /\ [][SubscriptionNext]_subVars

-----------------------------------------------------------------------------
\* A request is paid out once if it is approved and never otherwise, however many admins decide
\* it at the same time and whatever is rolled back (_decide_request: "single success wins").
PaidOutOnce ==
    \A r \in Payments : granted[r] = IF payment[r].status = "approved" THEN 1 ELSE 0

\* A membership is exactly what its approvals and grants add up to, in the order in which they
\* are committed, unless two transactions of the user overlapped between reading and writing
\* (_decide_request, api_admin_set_plan).
ExtensionsAddUp == lost \/ expires = due

\* Both: what is paid is granted once and is what the membership shows.
MembershipsAddUp == PaidOutOnce /\ ExtensionsAddUp
=============================================================================
