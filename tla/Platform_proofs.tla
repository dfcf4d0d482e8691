-------------------------- MODULE Platform_proofs --------------------------
(***************************************************************************)
(* What the threads of one process share: the session with the vendor, the *)
(* sessions of the dashboard, and the calls to the price sources; how the  *)
(* processes start over one database; and the functions that follow a      *)
(* position to its exit.                                                   *)
(***************************************************************************)
EXTENDS BrokerSession, Accounts, ProviderCalls, StartUp, ExitSimulators, TLAPS

(* The session with the vendor, of every number of threads, sessions,      *)
(* retries and faults: an order is placed once, nobody logs in needlessly, *)
(* a request that is refused for want of a session has lost two, and what  *)
(* an executor tells of an order is so.                                    *)
(*                                                                         *)
(* The third needs an account of what a thread has lost so far: whoever is *)
(* about to meet a session that has ended has one loss per attempt.        *)

ClientRow ==
    [pc : {"idle", "auth", "lock", "login", "otp", "headers", "send", "stale", "reconcile",
           "row", "paper", "answered", "failed", "done"},
     kind : {"none", "execute", "submit", "account", "orders", "cancel", "health", "ready"},
     for : {"none", "greeting", "probe", "request"},
     tries : Nat, carries : SUBSET Grants, row : {"none", "CREATED", "SENT", "REJECTED"},
     ordered : Nat, unheard : BOOLEAN, lost : Nat, refused : BOOLEAN,
     result : {"none", "skipped", "accepted", "rejected", "ok", "error", "raised", "healthy",
               "degraded"}]

Calls == {"execute", "submit", "account", "orders", "cancel", "health", "ready"}

SessionShape ==
    /\ client \in [Clients -> ClientRow]
    /\ bearer \in Grants \cup {NoSession} /\ sealed \in Grants \cup {NoSession}
    /\ bearer # NoSession => sealed = bearer
    /\ valid \subseteq Grants /\ granted \in 0..MaxGrants /\ mishaps \in Nat

\* The stations before an order has reached the vendor.
Early == {"idle", "auth", "lock", "login", "otp", "headers", "send", "stale", "row", "paper"}

\* What a call has done and tells.
Told(k) ==
    /\ k.pc = "idle" => k = NoClient
    /\ k.pc \in Early => k.ordered = 0
    /\ k.ordered \in {0, 1}
    /\ k.refused => k.kind = "execute"
    /\ k.for = "greeting" => k.row = "none"
    /\ k.pc # "done" => k.row \in {"none", "CREATED"}
    /\ k.pc \in {"reconcile", "failed"} /\ k.ordered = 1 => k.unheard
    /\ k.pc = "done" /\ k.kind \in Executions =>
          /\ k.row = "SENT" => k.result = "accepted"
          /\ k.result = "accepted" => k.ordered = 1
          /\ k.ordered > 0 => k.result = "accepted" \/ k.unheard
          /\ k.result \in {"none", "skipped"} => k.row = "none" /\ k.ordered = 0

\* How many sessions a call that meets an ended one in its next attempt has lost.
Level(k) == IF k.tries = 2 THEN 2 ELSE 1
Behind(k, fails, b, s, good) ==
    fails = 0 /\ k.kind = "execute" =>
        /\ k.pc # "done" => k.tries <= 2 /\ (k.tries = 2 => k.lost >= 1)
        /\ k.pc \in {"auth", "lock", "row"} /\ b # NoSession /\ b \notin good => k.lost >= Level(k)
        /\ k.pc = "headers" /\ {b, s} \cap good = {} => k.lost >= Level(k)
        /\ k.pc = "send" /\ k.carries \cap good = {} => k.lost >= Level(k)
        /\ k.pc = "stale" => k.lost >= 1
        /\ k.refused => k.lost >= 2

Fine(x, fails) == x \in ClientRow /\ Told(x) /\ Behind(x, fails, bearer, sealed, valid)

SessionInv ==
    /\ SessionShape
    /\ LoginsNeeded
    /\ \A c \in Clients : Told(client[c]) /\ Behind(client[c], mishaps, bearer, sealed, valid)

\* What a step of one thread may do to the session: nothing, take the lock where there is no
\* session, release it, or release it with a session that has been granted.
SessionMoves(c) ==
    \/ KeepSession
    \/ authLock = NoSession /\ authLock' = c /\ UNCHANGED <<bearer, sealed, granted, valid>>
    \/ authLock = c /\ authLock' = NoSession /\ UNCHANGED <<bearer, sealed, granted, valid>>
    \/ /\ authLock = c /\ authLock' = NoSession
       /\ \E form \in {"bearer", "sealed", "nothing"} :
             Grant(form) /\ (form = "nothing" => mishaps' = mishaps + 1)

FineNext(x) == x \in ClientRow /\ Told(x) /\ Behind(x, mishaps', bearer', sealed', valid')

\* A step of one thread.
LEMMA Moves ==
    ASSUME SessionInv, NEW c \in Clients, NEW x, Sets(c, x), FineNext(x), SessionMoves(c),
           mishaps' \in {mishaps, mishaps + 1},
           x.pc \in {"login", "otp"} => authLock' = c /\ bearer' = NoSession
    PROVE  SessionInv'
<1> USE BrokerSessionAssumption
<1>1. mishaps \in Nat /\ granted \in Nat
  BY DEF SessionInv, SessionShape
<1>2. SessionShape'
  <2>1. client' \in [Clients -> ClientRow] /\ mishaps' \in Nat
    BY <1>1 DEF SessionInv, SessionShape, Sets, FineNext
  <2>2. CASE UNCHANGED <<bearer, sealed, granted, valid>>
    BY <2>1, <2>2 DEF SessionInv, SessionShape
  <2>3. CASE \E form \in {"bearer", "sealed", "nothing"} : Grant(form)
    <3>1. MaxGrants \in Nat /\ granted \in 0..MaxGrants /\ granted < MaxGrants
      BY <2>3 DEF SessionInv, SessionShape, Grant
    <3>2. granted + 1 \in Grants /\ granted + 1 \in 0..MaxGrants
      BY <3>1 DEF Grants
    <3> QED BY <2>1, <2>3, <3>1, <3>2 DEF SessionInv, SessionShape, Grant
  <2> QED BY <2>2, <2>3 DEF SessionMoves, KeepSession
<1>3. \A d \in Clients : client'[d] = IF d = c THEN x ELSE client[d]
  BY DEF SessionInv, SessionShape, Sets
<1>4. LoginsNeeded'
  BY <1>3 DEF SessionInv, LoginsNeeded, KeepSession, SessionMoves
<1>5. \A d \in Clients : Told(client'[d])
  BY <1>3 DEF SessionInv, FineNext
<1>6. ASSUME NEW d \in Clients, d # c
      PROVE  Behind(client[d], mishaps', bearer', sealed', valid')
  <2>1. mishaps' = 0 => mishaps = 0 /\ mishaps' # mishaps + 1
    BY <1>1
  <2>2. Behind(client[d], mishaps, bearer, sealed, valid)
    BY DEF SessionInv
  <2>3. CASE UNCHANGED <<bearer, sealed, granted, valid>>
    BY <2>1, <2>2, <2>3 DEF Behind
  <2>4. CASE \E form \in {"bearer", "sealed", "nothing"} :
                Grant(form) /\ (form = "nothing" => mishaps' = mishaps + 1)
    <3>1. mishaps' = 0 => /\ bearer' # NoSession => bearer' \in valid'
                          /\ sealed' \in valid' /\ valid \subseteq valid'
      BY <2>1, <2>4, <1>1 DEF Grant
    <3> QED BY <2>1, <2>2, <3>1 DEF Behind
  <2> QED BY <2>3, <2>4 DEF SessionMoves, KeepSession
<1>7. \A d \in Clients : Behind(client'[d], mishaps', bearer', sealed', valid')
  BY <1>3, <1>6 DEF FineNext
<1> QED BY <1>2, <1>4, <1>5, <1>7 DEF SessionInv

\* A step of one thread that leaves the session alone.
LEMMA Turn ==
    ASSUME SessionInv, NEW c \in Clients, NEW x, Sets(c, x), Fine(x, mishaps'), KeepSession,
           mishaps' \in {mishaps, mishaps + 1}, x.pc \notin {"login", "otp"}
    PROVE  SessionInv'
<1>1. FineNext(x)
  BY DEF Fine, FineNext, KeepSession
<1> QED BY <1>1, Moves DEF SessionMoves

\* How a call goes on, and how it ends.
Stations == {"idle", "auth", "lock", "login", "otp", "headers", "send", "stale", "reconcile",
             "row", "paper", "answered", "failed", "done"}
Moved(k, p) == [k EXCEPT !.pc = p]
Stepped(k, p) == [k EXCEPT !.pc = p, !.carries = {}]
Over(k, r) == [k EXCEPT !.pc = "done", !.result = r, !.for = "none", !.tries = 0, !.carries = {}]

LEMMA MovedRow ==
    ASSUME NEW k \in ClientRow, NEW p \in Stations
    PROVE  /\ Moved(k, p) \in ClientRow /\ Stepped(k, p) \in ClientRow
           /\ \A x \in {Moved(k, p), Stepped(k, p)} :
                 /\ x.pc = p /\ x.kind = k.kind /\ x.for = k.for /\ x.tries = k.tries
                 /\ x.row = k.row /\ x.ordered = k.ordered /\ x.unheard = k.unheard
                 /\ x.lost = k.lost /\ x.refused = k.refused /\ x.result = k.result
           /\ Moved(k, p).carries = k.carries /\ Stepped(k, p).carries = {}
<1>1. Moved(k, p) \in ClientRow
  BY DEF Moved, ClientRow, Stations
<1>2. Stepped(k, p) \in ClientRow
  BY Zenon DEF Stepped, ClientRow, Stations
<1> QED BY <1>1, <1>2, SMT DEF Moved, Stepped, ClientRow

FinalResults == {"none", "ok", "error", "healthy", "degraded"}

\* Whoever gives up, or is served without an order, has ordered nothing.
LEMMA OverRow ==
    ASSUME NEW k \in ClientRow, NEW r \in FinalResults, Told(k), k.pc \in Early,
           k.for = "greeting" \/ r # "none"
    PROVE  /\ Over(k, r) \in ClientRow /\ Told(Over(k, r)) /\ Over(k, r).pc = "done"
           /\ Over(k, r).kind = k.kind /\ Over(k, r).refused = k.refused
           /\ Over(k, r).lost = k.lost /\ Over(k, r).tries = 0
<1>1. Over(k, r) \in ClientRow
  <2> DEFINE one == [k EXCEPT !.pc = "done"]
             two == [one EXCEPT !.result = r]
             three == [two EXCEPT !.for = "none"]
             four == [three EXCEPT !.tries = 0]
             five == [four EXCEPT !.carries = {}]
  <2>1. one \in ClientRow
    BY DEF ClientRow
  <2> HIDE DEF one
  <2>2. two \in ClientRow
    BY <2>1 DEF ClientRow, FinalResults
  <2> HIDE DEF two
  <2>3. three \in ClientRow
    BY <2>2 DEF ClientRow
  <2> HIDE DEF three
  <2>4. four \in ClientRow
    BY <2>3 DEF ClientRow
  <2> HIDE DEF four
  <2>5. five \in ClientRow
    BY <2>4 DEF ClientRow
  <2>6. Over(k, r) = five
    BY Zenon DEF Over, one, two, three, four
  <2> QED BY <2>5, <2>6
<1>2. /\ Over(k, r).pc = "done" /\ Over(k, r).kind = k.kind /\ Over(k, r).refused = k.refused
      /\ Over(k, r).lost = k.lost /\ Over(k, r).tries = 0 /\ Over(k, r).ordered = k.ordered
      /\ Over(k, r).for = "none" /\ Over(k, r).row = k.row /\ Over(k, r).result = r
  BY DEF Over, ClientRow
<1>3. k.ordered = 0 /\ k.row \in {"none", "CREATED"} /\ (k.for = "greeting" => k.row = "none")
  <2>1. k.pc # "done"
    BY DEF Early
  <2> QED BY <2>1 DEF Told
<1>4. Told(Over(k, r))
  BY <1>2, <1>3 DEF Told, Early, FinalResults
<1> QED BY <1>1, <1>2, <1>4

\* The calls begin with nothing ordered and nothing lost, but for a session that
\* has already ended.
Begins(new) ==
    /\ new.ordered = 0 /\ new.row = "none" /\ new.refused = FALSE
    /\ new.tries <= 1 /\ new.pc \in {"done", "auth", "row"}
    /\ new.pc = "done" => new.result = "skipped"

LEMMA OpensWith ==
    ASSUME SessionInv, NEW c \in Clients, NEW kind \in Calls, NEW new \in ClientRow,
           Opens(c, kind, new), Begins(new)
    PROVE  SessionInv'
<1> DEFINE lost == IF Ended THEN 1 ELSE 0
           x == [new EXCEPT !.kind = kind, !.lost = lost]
<1>1. Sets(c, x) /\ KeepSession /\ mishaps' = mishaps
  BY DEF Opens, KeepFaults
<1>2. x \in ClientRow /\ lost \in Nat
  BY ZenonT(60) DEF ClientRow, Calls
<1>3. /\ x.ordered = 0 /\ x.row = "none" /\ x.refused = FALSE /\ x.tries <= 1
      /\ x.pc \in {"done", "auth", "row"} /\ (x.pc = "done" => x.result = "skipped")
      /\ x.lost = lost /\ x.tries \in Nat
  BY DEF ClientRow, Begins
<1> HIDE DEF x
<1>4. Told(x)
  BY <1>3 DEF Told, Early
<1>5. Behind(x, mishaps, bearer, sealed, valid)
  BY <1>3 DEF Behind, Level, Ended
<1> QED BY <1>1, <1>2, <1>3, <1>4, <1>5, Turn DEF Fine

LEMMA OpensInv ==
    ASSUME SessionInv, NEW c \in Clients, Executes(c) \/ Submits(c) \/ QueriesAccount(c) \/
           QueriesOrders(c) \/ Cancels(c) \/ ProbesHealth(c) \/ ProbesReady(c)
    PROVE  SessionInv'
<1> DEFINE k == client[c]
           skips == [k EXCEPT !.pc = "done", !.result = "skipped"]
           greets == [k EXCEPT !.pc = "auth", !.for = "greeting"]
           enters == [k EXCEPT !.pc = "row"]
           asks == [k EXCEPT !.pc = "auth", !.for = "request", !.tries = 1]
           probes == [k EXCEPT !.pc = "auth", !.for = "probe"]
<1>0. k \in ClientRow
  BY DEF SessionInv, SessionShape
<1>1. k = NoClient
  BY DEF SessionInv, Told, Executes, Submits, QueriesAccount, QueriesOrders,
     Cancels, ProbesHealth, ProbesReady, Requests, Probes, Opens, At
<1>2. k.ordered = 0 /\ k.row = "none" /\ k.refused = FALSE /\ k.tries = 0
  BY <1>1 DEF NoClient
<1> HIDE DEF k
<1>3. {skips, greets, enters, asks, probes} \subseteq ClientRow
  <2> USE <1>0 DEF ClientRow
  <2>1. skips \in ClientRow
    OBVIOUS
  <2>2. greets \in ClientRow
    OBVIOUS
  <2>3. enters \in ClientRow
    OBVIOUS
  <2>4. asks \in ClientRow
    OBVIOUS
  <2>5. probes \in ClientRow
    OBVIOUS
  <2> QED BY <2>1, <2>2, <2>3, <2>4, <2>5
<1>4. Begins(skips) /\ Begins(greets) /\ Begins(enters) /\ Begins(asks) /\ Begins(probes)
  BY <1>0, <1>2 DEF Begins, ClientRow
<1>5. /\ Executes(c) => Opens(c, "execute", skips) \/ Opens(c, "execute", greets)
      /\ Submits(c) => Opens(c, "submit", skips) \/ Opens(c, "submit", enters)
      /\ \A kind : Requests(c, kind) => Opens(c, kind, asks)
      /\ \A kind : Probes(c, kind) => Opens(c, kind, probes)
  BY DEF Executes, Submits, Requests, Probes, k
<1> HIDE DEF skips, greets, enters, asks, probes
<1>6. ASSUME NEW kind \in Calls, NEW new \in {skips, greets, enters, asks, probes},
             Opens(c, kind, new)
      PROVE  SessionInv'
  BY <1>3, <1>4, <1>6, OpensWith
<1> QED BY <1>5, <1>6 DEF QueriesAccount, QueriesOrders, Cancels, ProbesHealth, ProbesReady, Calls

LEMMA EarlyTold ==
    ASSUME NEW k \in ClientRow, NEW p \in Early \ {"idle"}, Told(k), k.pc \in Early
    PROVE  Told(Moved(k, p)) /\ Told(Stepped(k, p))
<1>1. p \in Stations /\ p # "done" /\ k.pc # "done" /\ p \notin {"reconcile", "failed"}
  BY DEF Early, Stations
<1> DEFINE one == Moved(k, p)  two == Stepped(k, p)
<1>2. \A x \in {one, two} : /\ x.pc = p /\ x.for = k.for /\ x.row = k.row /\ x.ordered = k.ordered
                            /\ x.kind = k.kind /\ x.refused = k.refused
  BY <1>1, MovedRow
<1> HIDE DEF one, two
<1>3. \A x \in {one, two} : Told(x)
  BY <1>1, <1>2 DEF Told
<1> QED BY <1>3 DEF one, two

\* Whoever is over is behind only if it was refused.
LEMMA Finishing ==
    ASSUME SessionInv, NEW c \in Clients, NEW r \in FinalResults, Finishes(c, r), SessionMoves(c),
           mishaps' \in {mishaps, mishaps + 1}, client[c].pc \in Early,
           client[c].for = "greeting" \/ r # "none"
    PROVE  SessionInv'
<1> DEFINE k == client[c]
           x == Over(k, r)
<1>1. k \in ClientRow /\ Told(k) /\ Behind(k, mishaps, bearer, sealed, valid) /\ mishaps \in Nat
  BY DEF SessionInv, SessionShape
<1>2. Sets(c, x)
  BY DEF Finishes, Over
<1>3. /\ x \in ClientRow /\ Told(x) /\ x.pc = "done"
      /\ x.kind = k.kind /\ x.refused = k.refused /\ x.lost = k.lost
  BY <1>1, OverRow
<1> HIDE DEF x, k
<1>4. mishaps' = 0 => mishaps = 0
  BY <1>1
<1>5. FineNext(x)
  BY <1>1, <1>3, <1>4 DEF FineNext, Behind
<1> QED BY <1>2, <1>3, <1>5, Moves

\* The outcome of a login, as it is met.
LEMMA AuthenticatedInv ==
    ASSUME SessionInv, NEW c \in Clients, NEW ok \in BOOLEAN, Authenticated(c, ok), SessionMoves(c),
           mishaps' \in {mishaps, mishaps + 1}, client[c].pc \in {"auth", "lock", "otp"},
           mishaps' = 0 =>
              \/ /\ bearer # NoSession /\ UNCHANGED <<bearer, sealed, valid>>
                 /\ client[c].pc \in {"auth", "lock"}
              \/ sealed' \in valid' /\ (bearer' # NoSession => bearer' \in valid')
    PROVE  SessionInv'
<1> DEFINE k == client[c]
<1>1. k \in ClientRow /\ Told(k) /\ Behind(k, mishaps, bearer, sealed, valid) /\ mishaps \in Nat
  BY DEF SessionInv, SessionShape
<1>2. k.pc \in Early /\ (mishaps' = 0 => mishaps = 0)
  BY <1>1 DEF Early
<1>3. ASSUME NEW p \in {"row", "headers"}, Sets(c, Stepped(k, p))
      PROVE  SessionInv'
  <2> DEFINE x == Stepped(k, p)
  <2>1. p \in Stations /\ p \in Early \ {"idle"}
    BY DEF Stations, Early
  <2>2. x \in ClientRow /\ Told(x)
    BY <1>1, <1>2, <2>1, MovedRow, EarlyTold
  <2>3. /\ x.pc = p /\ x.kind = k.kind /\ x.tries = k.tries /\ x.lost = k.lost
        /\ x.refused = k.refused
    BY <1>1, <2>1, MovedRow
  <2> HIDE DEF x, k
  <2>4. Behind(x, mishaps', bearer', sealed', valid')
    <3> SUFFICES ASSUME mishaps' = 0, x.kind = "execute"
                 PROVE  Behind(x, mishaps', bearer', sealed', valid')
      BY DEF Behind
    <3>1. /\ x.tries <= 2 /\ (x.tries = 2 => x.lost >= 1) /\ (x.refused => x.lost >= 2)
      BY <1>1, <1>2, <2>3 DEF Behind, k
    <3>2. CASE /\ bearer # NoSession /\ UNCHANGED <<bearer, sealed, valid>>
               /\ k.pc \in {"auth", "lock"}
      <4>1. bearer \notin valid => x.lost >= Level(x)
        BY <1>1, <1>2, <2>3, <3>2 DEF Behind, Level
      <4> QED BY <2>3, <3>1, <3>2, <4>1 DEF Behind
    <3>3. CASE sealed' \in valid' /\ (bearer' # NoSession => bearer' \in valid')
      BY <2>3, <3>1, <3>3 DEF Behind
    <3> QED BY <3>2, <3>3 DEF k
  <2>5. FineNext(x)
    BY <2>2, <2>4 DEF FineNext
  <2> QED BY <1>3, <2>3, <2>5, Moves DEF x
<1>4. ASSUME NEW r \in FinalResults, Finishes(c, r), k.for = "greeting" \/ r # "none"
      PROVE  SessionInv'
  BY <1>2, <1>4, Finishing
<1>5. ProbeResult(ok) \subseteq FinalResults \ {"none"} /\ "none" \in FinalResults
  BY DEF ProbeResult, FinalResults
<1>6. \A p : Steps(c, p, k) => Sets(c, Stepped(k, p))
  BY DEF Steps, Stepped
<1> QED BY <1>3, <1>4, <1>5, <1>6 DEF Authenticated

LEMMA LooksInv ==
    ASSUME SessionInv, NEW c \in Clients, LooksForSession(c)
    PROVE  SessionInv'
<1> DEFINE k == client[c]
<1>1. /\ k \in ClientRow /\ Told(k) /\ Behind(k, mishaps, bearer, sealed, valid) /\ mishaps \in Nat
      /\ k.pc = "auth" /\ KeepSession /\ mishaps' = mishaps
  BY DEF SessionInv, SessionShape, LooksForSession, At, KeepFaults
<1>2. CASE bearer # NoSession
  BY <1>1, <1>2, AuthenticatedInv DEF LooksForSession, SessionMoves, KeepSession
<1>3. CASE bearer = NoSession
  <2> DEFINE x == Moved(k, "lock")
  <2>1. Sets(c, x)
    BY <1>3 DEF LooksForSession, Moved
  <2>2. "lock" \in Stations /\ "lock" \in Early \ {"idle"} /\ k.pc \in Early
    BY <1>1 DEF Stations, Early
  <2>3. x \in ClientRow /\ Told(x)
    BY <1>1, <2>2, MovedRow, EarlyTold
  <2>4. /\ x.pc = "lock" /\ x.kind = k.kind /\ x.tries = k.tries /\ x.lost = k.lost
        /\ x.refused = k.refused
    BY <1>1, <2>2, MovedRow
  <2> HIDE DEF x, k
  <2>5. Fine(x, mishaps')
    BY <1>1, <1>3, <2>3, <2>4 DEF Fine, Behind
  <2> QED BY <1>1, <2>1, <2>4, <2>5, Turn
<1> QED BY <1>2, <1>3

LEMMA LocksInv ==
    ASSUME SessionInv, NEW c \in Clients, LocksLogin(c)
    PROVE  SessionInv'
<1> DEFINE k == client[c]
<1>1. /\ k \in ClientRow /\ Told(k) /\ Behind(k, mishaps, bearer, sealed, valid) /\ mishaps \in Nat
      /\ k.pc = "lock" /\ authLock = NoSession /\ mishaps' = mishaps
      /\ UNCHANGED <<bearer, sealed, granted, valid>>
  BY DEF SessionInv, SessionShape, LocksLogin, At, KeepFaults
<1>2. CASE bearer # NoSession
  BY <1>1, <1>2, AuthenticatedInv DEF LocksLogin, SessionMoves, KeepSession
<1>3. CASE bearer = NoSession
  <2> DEFINE x == Moved(k, "login")
  <2>1. Sets(c, x) /\ authLock' = c
    BY <1>3 DEF LocksLogin, Moved
  <2>2. "login" \in Stations /\ "login" \in Early \ {"idle"} /\ k.pc \in Early
    BY <1>1 DEF Stations, Early
  <2>3. x \in ClientRow /\ Told(x)
    BY <1>1, <2>2, MovedRow, EarlyTold
  <2>4. /\ x.pc = "login" /\ x.kind = k.kind /\ x.tries = k.tries /\ x.lost = k.lost
        /\ x.refused = k.refused
    BY <1>1, <2>2, MovedRow
  <2> HIDE DEF x, k
  <2>5. FineNext(x)
    BY <1>1, <1>3, <2>3, <2>4 DEF FineNext, Behind
  <2> QED BY <1>1, <1>3, <2>1, <2>4, <2>5, Moves DEF SessionMoves
<1> QED BY <1>2, <1>3

\* Whoever goes on to be reconciled, or fails, without an order has ordered nothing.
LEMMA LateTold ==
    ASSUME NEW k \in ClientRow, NEW p \in {"reconcile", "failed"}, Told(k), k.pc \in Early
    PROVE  Told(Moved(k, p)) /\ Told(Stepped(k, p))
<1>1. p \in Stations /\ p # "done" /\ k.pc # "done" /\ p \notin Early
  BY DEF Early, Stations
<1> DEFINE one == Moved(k, p)  two == Stepped(k, p)
<1>2. \A x \in {one, two} : /\ x.pc = p /\ x.for = k.for /\ x.row = k.row /\ x.ordered = k.ordered
                            /\ x.kind = k.kind /\ x.refused = k.refused
  BY <1>1, MovedRow
<1> HIDE DEF one, two
<1>3. \A x \in {one, two} : Told(x)
  BY <1>1, <1>2 DEF Told, Early
<1> QED BY <1>3 DEF one, two

\* A request that is made anew.
LEMMA AnewRow ==
    ASSUME NEW k \in ClientRow, NEW n \in Nat, Told(k), k.pc \in Early
    PROVE  LET x == Stepped([k EXCEPT !.tries = n], "auth")
           IN  /\ x \in ClientRow /\ Told(x) /\ x.pc = "auth" /\ x.kind = k.kind
               /\ x.refused = k.refused /\ x.tries = n /\ x.lost = k.lost
<1> DEFINE y == [k EXCEPT !.tries = n]
<1>1. y \in ClientRow
  BY DEF ClientRow
<1>2. /\ y.pc = k.pc /\ y.for = k.for /\ y.row = k.row /\ y.ordered = k.ordered
      /\ y.kind = k.kind /\ y.refused = k.refused /\ y.tries = n /\ y.lost = k.lost
  BY DEF ClientRow
<1> HIDE DEF y
<1> DEFINE x == Stepped(y, "auth")
<1>3. "auth" \in Stations
  BY DEF Stations
<1>4. /\ x \in ClientRow /\ x.pc = "auth" /\ x.kind = k.kind /\ x.for = k.for /\ x.row = k.row
      /\ x.refused = k.refused /\ x.tries = n /\ x.lost = k.lost /\ x.ordered = k.ordered
  BY <1>1, <1>2, <1>3, MovedRow
<1> HIDE DEF x
<1>5. Told(x)
  BY <1>2, <1>4 DEF Told, Early
<1> QED BY <1>4, <1>5 DEF x, y

\* After a mishap nothing is said of what a thread has lost.
LEMMA Mishaps ==
    ASSUME SessionInv, NEW c \in Clients, NEW x \in ClientRow, Sets(c, x), Told(x),
           SessionMoves(c), mishaps' = mishaps + 1, x.pc \notin {"login", "otp"}
    PROVE  SessionInv'
<1>1. mishaps \in Nat
  BY DEF SessionInv, SessionShape
<1>2. Behind(x, mishaps', bearer', sealed', valid')
  BY <1>1 DEF Behind
<1> QED BY <1>2, Moves DEF FineNext

LEMMA Failing ==
    ASSUME SessionInv, NEW c \in Clients, AttemptFails(c), SessionMoves(c),
           mishaps' = mishaps + 1, client[c].pc \in Early
    PROVE  SessionInv'
<1> DEFINE k == client[c]
<1>1. k \in ClientRow /\ Told(k)
  BY DEF SessionInv, SessionShape
<1>2. ASSUME Steps(c, "reconcile", k)
      PROVE  SessionInv'
  <2> DEFINE x == Stepped(k, "reconcile")
  <2>1. "reconcile" \in Stations
    BY DEF Stations
  <2>2. x \in ClientRow /\ Told(x) /\ x.pc = "reconcile"
    BY <1>1, <2>1, MovedRow, LateTold
  <2>3. Sets(c, x)
    BY <1>2 DEF Steps, Stepped
  <2> QED BY <2>2, <2>3, Mishaps
<1>3. ASSUME Finishes(c, "error")
      PROVE  SessionInv'
  BY <1>3, Finishing DEF FinalResults
<1>4. ASSUME TriesOnceMore(c)
      PROVE  SessionInv'
  <2> DEFINE n == k.tries + 1
             x == Stepped([k EXCEPT !.tries = n], "auth")
  <2>1. n \in Nat
    BY <1>1 DEF ClientRow
  <2>2. Sets(c, x)
    BY <1>4 DEF TriesOnceMore, Steps, Stepped
  <2> HIDE DEF n
  <2>3. x \in ClientRow /\ Told(x) /\ x.pc = "auth"
    BY <1>1, <2>1, AnewRow
  <2> QED BY <2>2, <2>3, Mishaps
<1> QED BY <1>2, <1>3, <1>4 DEF AttemptFails

LEMMA LogsInInv ==
    ASSUME SessionInv, NEW c \in Clients, LogsIn(c)
    PROVE  SessionInv'
<1> DEFINE k == client[c]
<1>1. /\ k \in ClientRow /\ Told(k) /\ Behind(k, mishaps, bearer, sealed, valid) /\ mishaps \in Nat
      /\ k.pc \in {"login", "otp"} /\ authLock = c /\ bearer = NoSession /\ k.pc \in Early
  BY DEF SessionInv, SessionShape, LogsIn, LoginsNeeded, Early
<1>2. ASSUME k.pc = "login", Sets(c, [k EXCEPT !.pc = "otp"]), KeepSession, KeepFaults
      PROVE  SessionInv'
  <2> DEFINE x == Moved(k, "otp")
  <2>1. "otp" \in Stations /\ "otp" \in Early \ {"idle"}
    BY DEF Stations, Early
  <2>2. x \in ClientRow /\ Told(x)
    BY <1>1, <2>1, MovedRow, EarlyTold
  <2>3. /\ x.pc = "otp" /\ x.kind = k.kind /\ x.tries = k.tries /\ x.lost = k.lost
        /\ x.refused = k.refused
    BY <1>1, <2>1, MovedRow
  <2>4. Sets(c, x)
    BY <1>2 DEF Moved
  <2> HIDE DEF x, k
  <2>5. FineNext(x)
    BY <1>1, <1>2, <2>2, <2>3 DEF FineNext, Behind, KeepSession, KeepFaults
  <2> QED BY <1>1, <1>2, <2>3, <2>4, <2>5, Moves DEF SessionMoves, KeepSession, KeepFaults
<1>3. ASSUME k.pc = "otp", NEW form \in {"bearer", "sealed", "nothing"}, Grant(form),
             Authenticated(c, form # "nothing"), authLock' = NoSession,
             IF form = "nothing" THEN Mishap ELSE UNCHANGED mishaps
      PROVE  SessionInv'
  <2>1. SessionMoves(c) /\ mishaps' \in {mishaps, mishaps + 1}
    BY <1>1, <1>3 DEF SessionMoves, Mishap
  <2>2. mishaps' = 0 => form # "nothing"
    BY <1>1, <1>3 DEF Mishap
  <2>3. mishaps' = 0 => sealed' \in valid' /\ (bearer' # NoSession => bearer' \in valid')
    BY <1>3, <2>2 DEF Grant
  <2> DEFINE ok == form # "nothing"
  <2>4. ok \in BOOLEAN /\ Authenticated(c, ok)
    BY <1>3
  <2> HIDE DEF ok
  <2> QED BY <1>3, <2>1, <2>3, <2>4, AuthenticatedInv
<1>4. ASSUME mishaps' = mishaps + 1, UNCHANGED <<bearer, sealed, granted, valid>>,
             NEW error \in {"runtime", "request"}, LoginRaises(c, error), authLock' = NoSession
      PROVE  SessionInv'
  <2>1. SessionMoves(c)
    BY <1>1, <1>4 DEF SessionMoves
  <2>2. CASE Finishes(c, "none") /\ k.for = "greeting"
    BY <1>1, <1>4, <2>1, <2>2, Finishing DEF FinalResults
  <2>3. CASE Finishes(c, "degraded") \/ Finishes(c, "error")
    BY <1>1, <1>4, <2>1, <2>3, Finishing DEF FinalResults
  <2>4. CASE Sets(c, [k EXCEPT !.pc = "failed"])
    <3> DEFINE x == Moved(k, "failed")
    <3>1. "failed" \in Stations
      BY DEF Stations
    <3>2. x \in ClientRow /\ Told(x) /\ x.pc = "failed"
      BY <1>1, <3>1, MovedRow, LateTold
    <3>3. Sets(c, x)
      BY <2>4 DEF Moved
    <3> QED BY <1>4, <2>1, <3>2, <3>3, Mishaps
  <2>5. CASE AttemptFails(c)
    BY <1>1, <1>4, <2>1, <2>5, Failing
  <2> QED BY <1>4, <2>2, <2>3, <2>4, <2>5 DEF LoginRaises
<1> QED BY <1>1, <1>2, <1>3, <1>4 DEF LogsIn, At, Mishap

LEMMA HeadersInv ==
    ASSUME SessionInv, NEW c \in Clients, ReadsHeaders(c)
    PROVE  SessionInv'
<1> DEFINE k == client[c]
           reads == {bearer, sealed} \ {NoSession}
           x == [k EXCEPT !.pc = "send", !.carries = reads]
<1>1. /\ k \in ClientRow /\ Told(k) /\ Behind(k, mishaps, bearer, sealed, valid)
      /\ k.pc = "headers" /\ KeepSession /\ mishaps' = mishaps /\ Sets(c, x)
      /\ reads \in SUBSET Grants /\ mishaps \in Nat /\ valid \subseteq Grants
  BY DEF SessionInv, SessionShape, ReadsHeaders, At, KeepFaults
<1>2. NoSession \notin valid
  BY <1>1, BrokerSessionAssumption DEF Grants
<1>3. x \in ClientRow
  <2>1. reads \in SUBSET Grants /\ k \in ClientRow
    BY <1>1
  <2> HIDE DEF reads, k
  <2> QED BY <2>1, Zenon DEF ClientRow
<1>4. /\ x.pc = "send" /\ x.kind = k.kind /\ x.tries = k.tries /\ x.lost = k.lost
      /\ x.refused = k.refused /\ x.carries = reads /\ x.for = k.for /\ x.row = k.row
      /\ x.ordered = k.ordered
  BY <1>1 DEF ClientRow
<1> HIDE DEF x, k
<1>5. Told(x)
  BY <1>1, <1>4 DEF Told, Early
<1>6. Behind(x, mishaps, bearer, sealed, valid)
  BY <1>1, <1>2, <1>4 DEF Behind, Level
<1> QED BY <1>1, <1>3, <1>4, <1>5, <1>6, Turn DEF Fine

\* An order that has reached the vendor, heard of or not.
Ordered(k, u, p) == Stepped([k EXCEPT !.ordered = 1, !.unheard = u], p)

LEMMA OrderedRow ==
    ASSUME NEW k \in ClientRow, NEW u \in BOOLEAN, NEW p \in {"answered", "reconcile", "failed"},
           Told(k), k.pc = "send", p = "answered" \/ u
    PROVE  LET x == Ordered(k, u, p)
           IN  /\ x \in ClientRow /\ Told(x) /\ x.pc = p /\ x.kind = k.kind
               /\ x.refused = k.refused /\ x.tries = k.tries /\ x.lost = k.lost
<1> DEFINE y == [k EXCEPT !.ordered = 1, !.unheard = u]
<1>1. y \in ClientRow
  <2> DEFINE one == [k EXCEPT !.ordered = 1]
  <2>1. one \in ClientRow
    BY DEF ClientRow
  <2>2. y = [one EXCEPT !.unheard = u]
    OBVIOUS
  <2> HIDE DEF one
  <2> QED BY <2>1, <2>2 DEF ClientRow
<1>2. /\ y.for = k.for /\ y.row = k.row /\ y.ordered = 1 /\ y.unheard = u
      /\ y.kind = k.kind /\ y.refused = k.refused /\ y.tries = k.tries /\ y.lost = k.lost
  BY DEF ClientRow
<1> HIDE DEF y
<1> DEFINE x == Stepped(y, p)
<1>3. p \in Stations
  BY DEF Stations
<1>4. /\ x \in ClientRow /\ x.pc = p /\ x.kind = k.kind /\ x.for = k.for /\ x.row = k.row
      /\ x.refused = k.refused /\ x.tries = k.tries /\ x.lost = k.lost /\ x.ordered = 1
      /\ x.unheard = u
  BY <1>1, <1>2, <1>3, MovedRow
<1> HIDE DEF x
<1>5. Told(x)
  BY <1>4 DEF Told, Early
<1> QED BY <1>4, <1>5 DEF x, y, Ordered

LEMMA SendsInv ==
    ASSUME SessionInv, NEW c \in Clients, Sends(c)
    PROVE  SessionInv'
<1> DEFINE k == client[c]
<1>1. /\ k \in ClientRow /\ Told(k) /\ Behind(k, mishaps, bearer, sealed, valid) /\ mishaps \in Nat
      /\ k.pc = "send" /\ k.pc \in Early /\ KeepSession /\ SessionMoves(c) /\ k.ordered = 0
  BY DEF SessionInv, SessionShape, Sends, At, Early, SessionMoves, Told
<1>2. ASSUME NEW u \in BOOLEAN, NEW p \in {"answered", "reconcile", "failed"}, p = "answered" \/ u,
             Steps(c, p, [k EXCEPT !.ordered = 1, !.unheard = u]),
             mishaps' \in {mishaps, mishaps + 1}
      PROVE  SessionInv'
  <2> DEFINE x == Ordered(k, u, p)
  <2>1. /\ x \in ClientRow /\ Told(x) /\ x.pc = p /\ x.kind = k.kind
        /\ x.refused = k.refused /\ x.tries = k.tries /\ x.lost = k.lost
    <3>1. /\ k \in ClientRow /\ Told(k) /\ k.pc = "send" /\ (p = "answered" \/ u)
          /\ u \in BOOLEAN /\ p \in {"answered", "reconcile", "failed"}
      BY <1>1, <1>2
    <3> HIDE DEF k
    <3> QED BY <3>1, OrderedRow
  <2>2. Sets(c, x)
    BY <1>2 DEF Steps, Stepped, Ordered
  <2> HIDE DEF x, k
  <2>3. Fine(x, mishaps')
    BY <1>1, <1>2, <2>1 DEF Fine, Behind
  <2> QED BY <1>1, <1>2, <2>1, <2>2, <2>3, Turn
<1>3. OneOrderMore(c) = [k EXCEPT !.ordered = 1, !.unheard = k.unheard]
  <2>1. k.ordered + 1 = 1
    BY <1>1
  <2>2. k = [k EXCEPT !.unheard = k.unheard] /\ k.unheard \in BOOLEAN
    BY <1>1 DEF ClientRow
  <2>3. [k EXCEPT !.ordered = 1] = [k EXCEPT !.ordered = 1, !.unheard = k.unheard]
    BY <1>1 DEF ClientRow
  <2> QED BY <2>1, <2>3 DEF OneOrderMore
<1>4. [OneOrderMore(c) EXCEPT !.unheard = TRUE] = [k EXCEPT !.ordered = 1, !.unheard = TRUE]
  <2>1. k.ordered + 1 = 1
    BY <1>1
  <2> QED BY <2>1 DEF OneOrderMore
<1>5. CASE VendorServes(c)
  <2>1. CASE Steps(c, "answered", OneOrderMore(c))
    <3>1. k.unheard \in BOOLEAN
      BY <1>1 DEF ClientRow
    <3> QED BY <1>2, <1>3, <1>5, <2>1, <3>1 DEF VendorServes
  <2>2. CASE Steps(c, "answered", k)
    <3> DEFINE x == Stepped(k, "answered")
    <3>1. "answered" \in Stations
      BY DEF Stations
    <3>2. /\ x \in ClientRow /\ x.pc = "answered" /\ x.for = k.for /\ x.row = k.row
          /\ x.ordered = k.ordered /\ x.kind = k.kind /\ x.refused = k.refused
          /\ x.tries = k.tries /\ x.lost = k.lost
      BY <1>1, <3>1, MovedRow
    <3>3. Sets(c, x)
      BY <2>2 DEF Steps, Stepped
    <3> HIDE DEF x, k
    <3>4. Told(x)
      BY <1>1, <3>2 DEF Told, Early
    <3>5. Fine(x, mishaps')
      BY <1>1, <1>5, <3>2, <3>4 DEF Fine, Behind, VendorServes
    <3> QED BY <1>1, <1>5, <3>2, <3>3, <3>5, Turn DEF VendorServes
  <2>3. CASE Finishes(c, "ok")
    BY <1>1, <1>5, <2>3, Finishing DEF FinalResults, VendorServes
  <2> QED BY <1>5, <2>1, <2>2, <2>3 DEF VendorServes
<1>6. CASE AnswerIsLost(c)
  <2>1. mishaps' = mishaps + 1
    BY <1>6 DEF AnswerIsLost, Mishap
  <2>2. CASE AttemptFails(c)
    BY <1>1, <2>1, <2>2, Failing
  <2>3. CASE Steps(c, "reconcile", [OneOrderMore(c) EXCEPT !.unheard = TRUE])
    BY <1>2, <1>4, <2>1, <2>3
  <2> QED BY <1>6, <2>2, <2>3 DEF AnswerIsLost
<1>7. CASE AnswerIsGarbled(c)
  <2>1. mishaps' = mishaps + 1
    BY <1>7 DEF AnswerIsGarbled, Mishap
  <2>2. CASE Steps(c, "failed", [OneOrderMore(c) EXCEPT !.unheard = TRUE])
    BY <1>2, <1>4, <2>1, <2>2
  <2>3. CASE Finishes(c, "error")
    BY <1>1, <2>1, <2>3, Finishing DEF FinalResults
  <2> QED BY <1>7, <2>2, <2>3 DEF AnswerIsGarbled
<1>8. CASE IsRefused(c)
  <2>0. mishaps' = mishaps /\ k.carries \cap valid = {}
    BY <1>8 DEF IsRefused, Accepted
  <2>1. CASE k.tries = 1 /\ Steps(c, "stale", k)
    <3> DEFINE x == Stepped(k, "stale")
    <3>1. "stale" \in Stations /\ "stale" \in Early \ {"idle"}
      BY DEF Stations, Early
    <3>2. /\ x \in ClientRow /\ Told(x) /\ x.pc = "stale" /\ x.kind = k.kind
          /\ x.refused = k.refused /\ x.tries = k.tries /\ x.lost = k.lost
      BY <1>1, <3>1, MovedRow, EarlyTold
    <3>3. Sets(c, x)
      BY <2>1 DEF Steps, Stepped
    <3> HIDE DEF x, k
    <3>4. Fine(x, mishaps')
      BY <1>1, <2>0, <2>1, <3>2 DEF Fine, Behind, Level
    <3> QED BY <1>1, <2>0, <3>2, <3>3, <3>4, Turn
  <2>2. CASE k.tries > 1 /\ Placing(c) /\ Steps(c, "reconcile", [k EXCEPT !.refused = TRUE])
    <3> DEFINE y == [k EXCEPT !.refused = TRUE]
               x == Stepped(y, "reconcile")
    <3>1. /\ y \in ClientRow /\ y.for = k.for /\ y.row = k.row /\ y.ordered = k.ordered
          /\ y.kind = k.kind /\ y.refused /\ y.tries = k.tries /\ y.lost = k.lost
      BY <1>1 DEF ClientRow
    <3>2. Sets(c, x)
      BY <2>2 DEF Steps, Stepped
    <3> HIDE DEF y
    <3>3. "reconcile" \in Stations
      BY DEF Stations
    <3>4. /\ x \in ClientRow /\ x.pc = "reconcile" /\ x.for = k.for /\ x.row = k.row
          /\ x.ordered = k.ordered /\ x.kind = k.kind /\ x.refused /\ x.tries = k.tries
          /\ x.lost = k.lost
      BY <3>1, <3>3, MovedRow
    <3>0. k.kind = "execute"
      BY <2>2 DEF Placing
    <3> HIDE DEF x, k
    <3>5. Told(x)
      BY <1>1, <3>0, <3>4 DEF Told, Early
    <3>6. k.tries > 1 /\ k.tries \in Nat
      BY <1>1, <2>2 DEF ClientRow, k
    <3>7. Behind(x, mishaps, bearer, sealed, valid)
      BY <1>1, <2>0, <3>4, <3>6 DEF Behind, Level
    <3> QED BY <1>1, <2>0, <3>2, <3>4, <3>5, <3>7, Turn DEF Fine
  <2>3. CASE ~Placing(c) /\ TriesOnceMore(c)
    <3> DEFINE n == k.tries + 1
               x == Stepped([k EXCEPT !.tries = n], "auth")
    <3>1. n \in Nat
      BY <1>1 DEF ClientRow
    <3>2. Sets(c, x) /\ k.kind # "execute"
      BY <2>3 DEF TriesOnceMore, Steps, Stepped, Placing
    <3> HIDE DEF n
    <3>3. x \in ClientRow /\ Told(x) /\ x.pc = "auth" /\ x.kind = k.kind
      BY <1>1, <3>1, AnewRow
    <3> HIDE DEF x, k
    <3>4. Fine(x, mishaps')
      BY <3>2, <3>3 DEF Fine, Behind
    <3> QED BY <1>1, <2>0, <3>2, <3>3, <3>4, Turn
  <2>4. CASE Finishes(c, "error")
    BY <1>1, <2>0, <2>4, Finishing DEF FinalResults
  <2> QED BY <1>8, <2>1, <2>2, <2>3, <2>4 DEF IsRefused
<1> QED BY <1>5, <1>6, <1>7, <1>8 DEF Sends

\* A session that is lost is lost to whoever is at work.
Bereft(k, n) == [k EXCEPT !.lost = n]

LEMMA BereftRow ==
    ASSUME NEW k \in ClientRow, NEW n \in Nat, Told(k), k.pc = "idle" => n = k.lost
    PROVE  LET x == Bereft(k, n)
           IN  /\ x \in ClientRow /\ Told(x) /\ x.lost = n /\ x.pc = k.pc /\ x.kind = k.kind
               /\ x.tries = k.tries /\ x.carries = k.carries /\ x.refused = k.refused
<1> DEFINE x == Bereft(k, n)
<1>1. x \in ClientRow
  BY DEF Bereft, ClientRow
<1>2. /\ x.lost = n /\ x.pc = k.pc /\ x.kind = k.kind /\ x.tries = k.tries
      /\ x.carries = k.carries /\ x.refused = k.refused /\ x.for = k.for /\ x.row = k.row
      /\ x.ordered = k.ordered /\ x.unheard = k.unheard /\ x.result = k.result
  BY DEF Bereft, ClientRow
<1>3. n = k.lost => x = k
  BY DEF Bereft, ClientRow
<1> HIDE DEF x
<1>4. Told(x)
  BY <1>2, <1>3 DEF Told
<1> QED BY <1>1, <1>2, <1>4 DEF x

\* One loss more is enough for whoever meets the end of its session next.
LEMMA BereftBehind ==
    ASSUME NEW k \in ClientRow, NEW x \in ClientRow, NEW fails \in Nat, NEW b, NEW s, NEW good,
           NEW b2, NEW s2, NEW good2, Behind(k, fails, b, s, good),
           x.pc = k.pc, x.kind = k.kind, x.tries = k.tries, x.carries = k.carries,
           x.refused = k.refused, x.lost >= k.lost,
           k.pc \notin {"idle", "done"} =>
              \/ x.lost = k.lost + 1
              \/ /\ x.lost = k.lost /\ good2 = good /\ (b2 # NoSession => b2 = b)
                 /\ {b, s} \cap good = {}
    PROVE  Behind(x, fails, b2, s2, good2)
<1>1. k.lost \in Nat /\ x.lost \in Nat /\ k.tries \in Nat
  BY DEF ClientRow
<1>2. CASE x.lost = k.lost + 1
  BY <1>1, <1>2 DEF Behind, Level
<1>3. CASE /\ x.lost = k.lost /\ good2 = good /\ (b2 # NoSession => b2 = b)
           /\ {b, s} \cap good = {}
  BY <1>1, <1>3 DEF Behind, Level
<1>4. CASE k.pc \in {"idle", "done"}
  BY <1>1, <1>4 DEF Behind
<1> QED BY <1>2, <1>3, <1>4

LEMMA ClearsInv ==
    ASSUME SessionInv, NEW c \in Clients, ClearsSession(c)
    PROVE  SessionInv'
<1> DEFINE k == client[c]
           good == {bearer, sealed} \cap valid # {}
           more(d) == IF good /\ AtWork(d) THEN client[d].lost + 1 ELSE client[d].lost
           x == [k EXCEPT !.pc = "auth", !.tries = 2]
<1>1. \A d \in Clients : /\ client[d] \in ClientRow /\ Told(client[d])
                         /\ Behind(client[d], mishaps, bearer, sealed, valid)
  BY DEF SessionInv, SessionShape
<1>2. /\ k.pc = "stale" /\ authLock = NoSession /\ bearer' = NoSession /\ sealed' = NoSession
      /\ UNCHANGED <<authLock, granted, valid, mishaps>> /\ mishaps \in Nat
      /\ valid \subseteq Grants /\ granted \in 0..MaxGrants
  BY DEF ClearsSession, At, KeepFaults, SessionInv, SessionShape
<1>3. client' = [d \in Clients |-> IF d = c THEN x ELSE Bereft(client[d], more(d))]
  <2>1. \A d \in Clients : [client[d] EXCEPT !.lost = IF good /\ AtWork(d) THEN @ + 1 ELSE @]
                           = Bereft(client[d], more(d))
    BY DEF Bereft
  <2> QED BY <2>1 DEF ClearsSession
<1>4. x \in ClientRow
  <2>1. k \in ClientRow /\ 2 \in Nat
    BY <1>1
  <2> HIDE DEF k
  <2> QED BY <2>1, Zenon DEF ClientRow
<1>5. Told(x) /\ Behind(x, mishaps, NoSession, NoSession, valid) /\ x.pc = "auth"
  <2>1. k \in ClientRow /\ Told(k) /\ Behind(k, mishaps, bearer, sealed, valid)
    BY <1>1
  <2>2. /\ x.pc = "auth" /\ x.tries = 2 /\ x.kind = k.kind /\ x.lost = k.lost
        /\ x.refused = k.refused /\ x.for = k.for /\ x.row = k.row /\ x.ordered = k.ordered
    BY <2>1 DEF ClientRow
  <2> HIDE DEF x, k
  <2>3. Told(x)
    BY <1>2, <2>1, <2>2 DEF Told, Early
  <2>4. Behind(x, mishaps, NoSession, NoSession, valid)
    BY <1>2, <2>1, <2>2 DEF Behind
  <2> QED BY <2>2, <2>3, <2>4
<1> HIDE DEF x
<1>6. ASSUME NEW d \in Clients, d # c
      PROVE  LET y == Bereft(client[d], more(d))
             IN  /\ y \in ClientRow /\ Told(y) /\ y.pc = client[d].pc
                 /\ Behind(y, mishaps, NoSession, NoSession, valid)
  <2> DEFINE l == client[d]  n == more(d)  y == Bereft(l, n)
  <2>1. /\ l \in ClientRow /\ Told(l) /\ l.lost \in Nat
        /\ Behind(l, mishaps, bearer, sealed, valid)
    BY <1>1 DEF ClientRow
  <2>2. n \in Nat /\ n >= l.lost /\ (l.pc = "idle" => n = l.lost)
    BY <2>1 DEF AtWork
  <2>3. l.pc \notin {"idle", "done"} =>
           n = l.lost + 1 \/ (n = l.lost /\ {bearer, sealed} \cap valid = {})
    BY <2>1 DEF AtWork
  <2> HIDE DEF n, l
  <2>4. /\ y \in ClientRow /\ Told(y) /\ y.lost = n /\ y.pc = l.pc /\ y.kind = l.kind
        /\ y.tries = l.tries /\ y.carries = l.carries /\ y.refused = l.refused
    BY <2>1, <2>2, BereftRow
  <2> HIDE DEF y
  <2>5. Behind(y, mishaps, NoSession, NoSession, valid)
    BY <1>2, <2>1, <2>2, <2>3, <2>4, BereftBehind
  <2> QED BY <2>4, <2>5 DEF n, l, y
<1> HIDE DEF more
<1>7. \A d \in Clients : /\ client'[d] \in ClientRow /\ Told(client'[d])
                         /\ Behind(client'[d], mishaps, NoSession, NoSession, valid)
                         /\ (client'[d].pc \in {"login", "otp"} => client[d].pc \in {"login", "otp"})
  BY <1>3, <1>4, <1>5, <1>6
<1>8. client' \in [Clients -> ClientRow]
  BY <1>3, <1>4, <1>6
<1>9. LoginsNeeded'
  BY <1>2, <1>7, BrokerSessionAssumption DEF SessionInv, LoginsNeeded
<1>10. SessionShape'
  BY <1>2, <1>8 DEF SessionShape
<1> QED BY <1>2, <1>7, <1>9, <1>10 DEF SessionInv

LEMMA EndInv ==
    ASSUME SessionInv, SessionsEnd
    PROVE  SessionInv'
<1> DEFINE more(d) == IF AtWork(d) THEN client[d].lost + 1 ELSE client[d].lost
<1>1. \A d \in Clients : /\ client[d] \in ClientRow /\ Told(client[d])
                         /\ Behind(client[d], mishaps, bearer, sealed, valid)
  BY DEF SessionInv, SessionShape
<1>2. /\ valid' = {} /\ UNCHANGED <<bearer, sealed, authLock, granted, mishaps>> /\ mishaps \in Nat
  BY DEF SessionsEnd, SessionInv, SessionShape
<1>3. client' = [d \in Clients |-> Bereft(client[d], more(d))]
  <2>1. \A d \in Clients : [client[d] EXCEPT !.lost = IF AtWork(d) THEN @ + 1 ELSE @]
                           = Bereft(client[d], more(d))
    BY DEF Bereft
  <2> QED BY <2>1 DEF SessionsEnd
<1>4. ASSUME NEW d \in Clients
      PROVE  LET y == Bereft(client[d], more(d))
             IN  /\ y \in ClientRow /\ Told(y) /\ y.pc = client[d].pc
                 /\ Behind(y, mishaps, bearer, sealed, {})
  <2> DEFINE l == client[d]  n == more(d)  y == Bereft(l, n)
  <2>1. /\ l \in ClientRow /\ Told(l) /\ l.lost \in Nat
        /\ Behind(l, mishaps, bearer, sealed, valid)
    BY <1>1 DEF ClientRow
  <2>2. n \in Nat /\ n >= l.lost /\ (l.pc = "idle" => n = l.lost)
    BY <2>1 DEF AtWork
  <2>3. l.pc \notin {"idle", "done"} => n = l.lost + 1
    BY <2>1 DEF AtWork
  <2> HIDE DEF n, l
  <2>4. /\ y \in ClientRow /\ Told(y) /\ y.lost = n /\ y.pc = l.pc /\ y.kind = l.kind
        /\ y.tries = l.tries /\ y.carries = l.carries /\ y.refused = l.refused
    BY <2>1, <2>2, BereftRow
  <2> HIDE DEF y
  <2>5. Behind(y, mishaps, bearer, sealed, {})
    BY <1>2, <2>1, <2>2, <2>3, <2>4, BereftBehind
  <2> QED BY <2>4, <2>5 DEF n, l, y
<1> HIDE DEF more
<1>5. \A d \in Clients : /\ client'[d] \in ClientRow /\ Told(client'[d])
                         /\ Behind(client'[d], mishaps, bearer, sealed, {})
                         /\ client'[d].pc = client[d].pc
  BY <1>3, <1>4
<1>6. client' \in [Clients -> ClientRow]
  BY <1>3, <1>4
<1>7. LoginsNeeded'
  BY <1>2, <1>5 DEF SessionInv, LoginsNeeded
<1>8. SessionShape'
  BY <1>2, <1>6 DEF SessionInv, SessionShape, SessionsEnd
<1> QED BY <1>2, <1>5, <1>7, <1>8 DEF SessionInv

\* From here on a call no longer meets the session.
LEMMA Settles ==
    ASSUME SessionInv, NEW c \in Clients, NEW x \in ClientRow, Sets(c, x), Told(x), KeepSession,
           mishaps' \in {mishaps, mishaps + 1}, client[c].pc # "done",
           x.pc \in {"answered", "failed", "paper", "done"}, x.kind = client[c].kind,
           x.lost = client[c].lost, x.refused = client[c].refused,
           x.tries = client[c].tries \/ x.tries \in {0, 1}
    PROVE  SessionInv'
<1>1. Behind(client[c], mishaps, bearer, sealed, valid) /\ mishaps \in Nat
  BY DEF SessionInv, SessionShape
<1>2. mishaps' = 0 => mishaps = 0
  BY <1>1
<1>3. Behind(x, mishaps', bearer, sealed, valid)
  BY <1>1, <1>2 DEF Behind
<1> QED BY <1>3, Turn DEF Fine

LEMMA ReconcilesInv ==
    ASSUME SessionInv, NEW c \in Clients, Reconciles(c)
    PROVE  SessionInv'
<1> DEFINE k == client[c]
<1>1. k \in ClientRow /\ Told(k) /\ k.pc = "reconcile" /\ KeepSession /\ mishaps' = mishaps
  BY DEF SessionInv, SessionShape, Reconciles, At, KeepFaults
<1>2. ASSUME NEW p \in {"answered", "failed"}, Sets(c, [k EXCEPT !.pc = p])
      PROVE  SessionInv'
  <2> DEFINE x == Moved(k, p)
  <2>1. p \in Stations
    BY <1>2 DEF Stations
  <2>2. Sets(c, x)
    BY <1>2 DEF Moved
  <2>3. /\ x \in ClientRow /\ x.pc = p /\ x.kind = k.kind /\ x.for = k.for /\ x.row = k.row
        /\ x.refused = k.refused /\ x.tries = k.tries /\ x.lost = k.lost
        /\ x.ordered = k.ordered /\ x.unheard = k.unheard
    BY <1>1, <2>1, MovedRow
  <2> HIDE DEF x
  <2>4. Told(x)
    BY <1>1, <1>2, <2>3 DEF Told, Early
  <2> QED BY <1>1, <1>2, <2>2, <2>3, <2>4, Settles
<1> QED BY <1>2 DEF Reconciles

LEMMA CreatesInv ==
    ASSUME SessionInv, NEW c \in Clients, CreatesRow(c)
    PROVE  SessionInv'
<1> DEFINE k == client[c]
           next == IF k.kind = "execute" THEN "auth" ELSE "paper"
           new(row) == [k EXCEPT !.row = row, !.for = "request", !.tries = 1, !.pc = next]
<1>1. /\ k \in ClientRow /\ Told(k) /\ Behind(k, mishaps, bearer, sealed, valid)
      /\ k.pc = "row" /\ KeepSession /\ mishaps \in Nat
  BY DEF SessionInv, SessionShape, CreatesRow, At
<1>2. PICK row \in {"CREATED", "none"} : Sets(c, new(row)) /\ mishaps' \in {mishaps, mishaps + 1}
  BY DEF CreatesRow, Mishap
<1>3. next \in {"auth", "paper"} /\ (next = "paper" => k.kind # "execute")
  OBVIOUS
<1> HIDE DEF next
<1> DEFINE x == new(row)
<1>4. x \in ClientRow
  <2> DEFINE one == [k EXCEPT !.row = row]
             two == [one EXCEPT !.for = "request"]
             three == [two EXCEPT !.tries = 1]
  <2>1. one \in ClientRow
    BY <1>1, <1>2 DEF ClientRow
  <2> HIDE DEF one
  <2>2. two \in ClientRow
    BY <2>1 DEF ClientRow
  <2> HIDE DEF two
  <2>3. three \in ClientRow
    BY <2>2 DEF ClientRow
  <2> HIDE DEF three
  <2>4. [three EXCEPT !.pc = next] \in ClientRow
    BY <1>3, <2>3 DEF ClientRow
  <2>5. x = [three EXCEPT !.pc = next]
    BY Zenon DEF one, two, three
  <2> QED BY <2>4, <2>5
<1>5. /\ x.pc = next /\ x.kind = k.kind /\ x.for = "request" /\ x.row = row /\ x.tries = 1
      /\ x.refused = k.refused /\ x.lost = k.lost /\ x.ordered = k.ordered
  BY <1>1 DEF ClientRow
<1>6. Sets(c, x)
  BY <1>2
<1> HIDE DEF x, k
<1>7. Told(x)
  BY <1>1, <1>2, <1>3, <1>5 DEF Told, Early
<1>8. mishaps' = 0 => mishaps = 0
  BY <1>1, <1>2
<1>9. k.tries \in Nat /\ k.lost \in Nat
  BY <1>1 DEF ClientRow
<1>10. Behind(x, mishaps', bearer, sealed, valid)
  BY <1>1, <1>3, <1>5, <1>8, <1>9 DEF Behind, Level
<1> QED BY <1>1, <1>2, <1>3, <1>4, <1>5, <1>6, <1>7, <1>10, Turn DEF Fine

LEMMA PaperInv ==
    ASSUME SessionInv, NEW c \in Clients, PaperAnswers(c)
    PROVE  SessionInv'
<1> DEFINE k == client[c]
<1>1. /\ k \in ClientRow /\ Told(k) /\ k.pc = "paper" /\ KeepSession /\ mishaps' = mishaps
      /\ k.ordered = 0
  BY DEF SessionInv, SessionShape, PaperAnswers, At, KeepFaults, Told, Early
<1>2. ASSUME NEW p \in {"answered", "failed"}, NEW n \in {0, 1}, p = "answered" \/ n = 0,
             Sets(c, [k EXCEPT !.pc = p, !.ordered = n])
      PROVE  SessionInv'
  <2> DEFINE y == [k EXCEPT !.ordered = n]
             x == Moved(y, p)
  <2>1. /\ y \in ClientRow /\ y.for = k.for /\ y.row = k.row /\ y.ordered = n
        /\ y.kind = k.kind /\ y.refused = k.refused /\ y.tries = k.tries /\ y.lost = k.lost
    BY <1>1, <1>2 DEF ClientRow
  <2>2. p \in Stations
    BY <1>2 DEF Stations
  <2>3. [k EXCEPT !.pc = p, !.ordered = n] = x
    BY <1>1 DEF Moved, ClientRow
  <2>4. Sets(c, x)
    BY <1>2, <2>3
  <2> HIDE DEF y
  <2>5. /\ x \in ClientRow /\ x.pc = p /\ x.kind = k.kind /\ x.for = k.for /\ x.row = k.row
        /\ x.refused = k.refused /\ x.tries = k.tries /\ x.lost = k.lost /\ x.ordered = n
    BY <2>1, <2>2, MovedRow
  <2> HIDE DEF x
  <2>6. Told(x)
    BY <1>1, <1>2, <2>5 DEF Told, Early
  <2> QED BY <1>1, <1>2, <2>4, <2>5, <2>6, Settles
<1>3. \A p \in {"answered", "failed"} : [k EXCEPT !.pc = p] = [k EXCEPT !.pc = p, !.ordered = 0]
  BY <1>1 DEF ClientRow
<1> QED BY <1>2, <1>3 DEF PaperAnswers

\* What is reported of an order at the end, and what its row says.
Reported(k, r, row) == [k EXCEPT !.pc = "done", !.result = r, !.row = row]

LEMMA ReportedRow ==
    ASSUME NEW k \in ClientRow, NEW r \in {"accepted", "rejected"},
           NEW row \in {"none", "SENT", "REJECTED"}
    PROVE  LET x == Reported(k, r, row)
           IN  /\ x \in ClientRow /\ x.pc = "done" /\ x.result = r /\ x.row = row
               /\ x.kind = k.kind /\ x.for = k.for /\ x.refused = k.refused /\ x.tries = k.tries
               /\ x.lost = k.lost /\ x.ordered = k.ordered /\ x.unheard = k.unheard
<1> DEFINE one == [k EXCEPT !.pc = "done"]
           two == [one EXCEPT !.result = r]
<1>1. one \in ClientRow
  BY DEF ClientRow
<1> HIDE DEF one
<1>2. two \in ClientRow
  BY <1>1 DEF ClientRow
<1> HIDE DEF two
<1>3. [two EXCEPT !.row = row] \in ClientRow
  BY <1>2 DEF ClientRow
<1>4. Reported(k, r, row) = [two EXCEPT !.row = row]
  BY Zenon DEF Reported, one, two
<1>5. LET x == Reported(k, r, row)
      IN  /\ x.pc = "done" /\ x.result = r /\ x.row = row
          /\ x.kind = k.kind /\ x.for = k.for /\ x.refused = k.refused /\ x.tries = k.tries
          /\ x.lost = k.lost /\ x.ordered = k.ordered /\ x.unheard = k.unheard
  BY DEF Reported, ClientRow
<1> QED BY <1>3, <1>4, <1>5

\* The end of a call whose row could not be written.
Unwritten(k, r) == Over(k, r)

LEMMA UnwrittenRow ==
    ASSUME NEW k \in ClientRow, NEW r \in {"accepted", "rejected", "raised"}
    PROVE  LET x == Unwritten(k, r)
           IN  /\ x \in ClientRow /\ x.pc = "done" /\ x.result = r /\ x.row = k.row
               /\ x.kind = k.kind /\ x.for = "none" /\ x.refused = k.refused /\ x.tries = 0
               /\ x.lost = k.lost /\ x.ordered = k.ordered /\ x.unheard = k.unheard
<1> DEFINE one == [k EXCEPT !.pc = "done"]
           two == [one EXCEPT !.result = r]
           three == [two EXCEPT !.for = "none"]
           four == [three EXCEPT !.tries = 0]
<1>1. one \in ClientRow
  BY DEF ClientRow
<1> HIDE DEF one
<1>2. two \in ClientRow
  BY <1>1 DEF ClientRow
<1> HIDE DEF two
<1>3. three \in ClientRow
  BY <1>2 DEF ClientRow
<1> HIDE DEF three
<1>4. four \in ClientRow
  BY <1>3 DEF ClientRow
<1> HIDE DEF four
<1>5. [four EXCEPT !.carries = {}] \in ClientRow
  BY <1>4 DEF ClientRow
<1>6. Unwritten(k, r) = [four EXCEPT !.carries = {}]
  BY Zenon DEF Unwritten, Over, one, two, three, four
<1>7. LET x == Unwritten(k, r)
      IN  /\ x.pc = "done" /\ x.result = r /\ x.row = k.row
          /\ x.kind = k.kind /\ x.for = "none" /\ x.refused = k.refused /\ x.tries = 0
          /\ x.lost = k.lost /\ x.ordered = k.ordered /\ x.unheard = k.unheard
  BY DEF Unwritten, Over, ClientRow
<1> QED BY <1>5, <1>6, <1>7

LEMMA WritesInv ==
    ASSUME SessionInv, NEW c \in Clients, WritesAnswer(c) \/ WritesRefusal(c)
    PROVE  SessionInv'
<1> DEFINE k == client[c]
           ordered == k.ordered > 0
<1>1. /\ k \in ClientRow /\ Told(k) /\ k.pc \in {"answered", "failed"} /\ KeepSession
      /\ k.row \in {"none", "CREATED"} /\ k.ordered \in {0, 1} /\ mishaps \in Nat
      /\ (k.pc = "failed" /\ k.ordered = 1 => k.unheard)
      /\ (k.for = "greeting" => k.row = "none")
  BY DEF SessionInv, SessionShape, WritesAnswer, WritesRefusal, At, Told
<1>2. ASSUME NEW r \in {"accepted", "rejected"}, NEW row \in {"none", "SENT", "REJECTED"},
             Sets(c, Reported(k, r, row)), mishaps' = mishaps,
             k.row = "none" => row = "none", row = "SENT" => r = "accepted",
             r = "accepted" => k.ordered = 1, k.ordered = 1 => r = "accepted" \/ k.unheard
      PROVE  SessionInv'
  <2> DEFINE x == Reported(k, r, row)
  <2>1. /\ x \in ClientRow /\ x.pc = "done" /\ x.result = r /\ x.row = row
        /\ x.kind = k.kind /\ x.for = k.for /\ x.refused = k.refused /\ x.tries = k.tries
        /\ x.lost = k.lost /\ x.ordered = k.ordered /\ x.unheard = k.unheard
    BY <1>1, <1>2, ReportedRow
  <2>2. Sets(c, x)
    BY <1>2
  <2> HIDE DEF x, k
  <2>3. Told(x)
    BY <1>1, <1>2, <2>1 DEF Told, Early
  <2> QED BY <1>1, <1>2, <2>1, <2>2, <2>3, Settles DEF k
<1>3. ASSUME NEW r \in {"accepted", "rejected", "raised"}, Finishes(c, r),
             mishaps' = mishaps + 1, r = "accepted" => k.ordered = 1,
             k.ordered = 1 => r = "accepted" \/ k.unheard
      PROVE  SessionInv'
  <2> DEFINE x == Unwritten(k, r)
  <2>1. /\ x \in ClientRow /\ x.pc = "done" /\ x.result = r /\ x.row = k.row
        /\ x.kind = k.kind /\ x.for = "none" /\ x.refused = k.refused /\ x.tries = 0
        /\ x.lost = k.lost /\ x.ordered = k.ordered /\ x.unheard = k.unheard
    BY <1>1, <1>3, UnwrittenRow
  <2>2. Sets(c, x)
    BY <1>3 DEF Finishes, Unwritten, Over
  <2> HIDE DEF x, k
  <2>3. Told(x)
    BY <1>1, <1>3, <2>1 DEF Told, Early
  <2> QED BY <1>1, <1>3, <2>1, <2>2, <2>3, Settles DEF k
<1>4. CASE WritesAnswer(c)
  <2> DEFINE r == IF ordered THEN "accepted" ELSE "rejected"
             row == IF k.row = "none" THEN "none" ELSE IF ordered THEN "SENT" ELSE "REJECTED"
  <2>1. \/ Sets(c, [k EXCEPT !.pc = "done", !.row = row, !.result = r]) /\ mishaps' = mishaps
        \/ mishaps' = mishaps + 1 /\ Finishes(c, r)
    BY <1>4 DEF WritesAnswer, Mishap
  <2>2. [k EXCEPT !.pc = "done", !.row = row, !.result = r] = Reported(k, r, row)
    BY <1>1 DEF Reported, ClientRow
  <2>3. /\ r \in {"accepted", "rejected"} /\ row \in {"none", "SENT", "REJECTED"}
        /\ (k.row = "none" => row = "none") /\ (row = "SENT" => r = "accepted")
        /\ (r = "accepted" => k.ordered = 1) /\ (k.ordered = 1 => r = "accepted")
    BY <1>1
  <2> HIDE DEF r, row
  <2> QED BY <1>2, <1>3, <2>1, <2>2, <2>3
<1>5. CASE WritesRefusal(c)
  <2> DEFINE row == IF k.row = "none" THEN "none" ELSE "REJECTED"
  <2>1. \/ /\ Sets(c, [k EXCEPT !.pc = "done", !.result = "rejected", !.row = row])
           /\ mishaps' = mishaps
        \/ mishaps' = mishaps + 1 /\ Finishes(c, "raised")
    BY <1>5 DEF WritesRefusal, Mishap
  <2>2. k.pc = "failed" /\ (k.ordered = 1 => k.unheard)
    BY <1>1, <1>5 DEF WritesRefusal, At
  <2>3. [k EXCEPT !.pc = "done", !.result = "rejected", !.row = row] = Reported(k, "rejected", row)
    BY DEF Reported
  <2>4. row \in {"none", "REJECTED"} /\ (k.row = "none" => row = "none")
    OBVIOUS
  <2> HIDE DEF row
  <2> QED BY <1>2, <1>3, <2>1, <2>2, <2>3, <2>4
<1> QED BY <1>4, <1>5

LEMMA SessionStart ==
    BrokerSessionInit => SessionInv
<1> SUFFICES ASSUME BrokerSessionInit
             PROVE  SessionInv
  OBVIOUS
<1> USE BrokerSessionAssumption
<1>1. NoClient \in ClientRow
  BY DEF NoClient, ClientRow
<1>2. Told(NoClient) /\ Behind(NoClient, mishaps, bearer, sealed, valid)
  BY DEF Told, Behind, NoClient, Early, Executions
<1>3. client = [d \in Clients |-> NoClient]
  BY DEF BrokerSessionInit
<1>4. \A d \in Clients : client[d] = NoClient
  BY <1>3
<1>5. client \in [Clients -> ClientRow]
  BY <1>1, <1>3
<1>6. SessionShape
  BY <1>5 DEF BrokerSessionInit, SessionShape, Grants
<1>7. LoginsNeeded
  BY <1>4 DEF LoginsNeeded, NoClient
<1> QED BY <1>2, <1>4, <1>6, <1>7 DEF SessionInv

LEMMA SessionStep ==
    SessionInv /\ [BrokerSessionNext]_brokerSessionVars => SessionInv'
<1> SUFFICES ASSUME SessionInv, [BrokerSessionNext]_brokerSessionVars
             PROVE  SessionInv'
  OBVIOUS
<1>1. CASE UNCHANGED brokerSessionVars
  BY <1>1 DEF brokerSessionVars, SessionInv, SessionShape, LoginsNeeded
<1>2. CASE SessionsEnd
  BY <1>2, EndInv
<1>3. ASSUME NEW c \in Clients, Executes(c) \/ Submits(c) \/ QueriesAccount(c) \/
             QueriesOrders(c) \/ Cancels(c) \/ ProbesHealth(c) \/ ProbesReady(c)
      PROVE  SessionInv'
  BY <1>3, OpensInv
<1>4. ASSUME NEW c \in Clients, LooksForSession(c) \/ LocksLogin(c) \/ LogsIn(c) \/ ReadsHeaders(c)
      PROVE  SessionInv'
  BY <1>4, LooksInv, LocksInv, LogsInInv, HeadersInv
<1>5. ASSUME NEW c \in Clients, Sends(c) \/ ClearsSession(c) \/ Reconciles(c)
      PROVE  SessionInv'
  BY <1>5, SendsInv, ClearsInv, ReconcilesInv
<1>6. ASSUME NEW c \in Clients,
             CreatesRow(c) \/ PaperAnswers(c) \/ WritesAnswer(c) \/ WritesRefusal(c)
      PROVE  SessionInv'
  BY <1>6, CreatesInv, PaperInv, WritesInv
<1> QED BY <1>1, <1>2, <1>3, <1>4, <1>5, <1>6 DEF BrokerSessionNext

\* The account is enough for what the runs check.
LEMMA SessionSound ==
    SessionInv => BrokerSessionSound
<1> SUFFICES ASSUME SessionInv
             PROVE  BrokerSessionSound
  OBVIOUS
<1>1. \A c \in Clients : /\ client[c] \in ClientRow /\ Told(client[c])
                         /\ Behind(client[c], mishaps, bearer, sealed, valid)
  BY DEF SessionInv, SessionShape
<1>2. PlacedOnce
  BY <1>1 DEF PlacedOnce, Told
<1>3. LoginsNeeded
  BY DEF SessionInv
<1>4. RowsTell
  BY <1>1 DEF RowsTell, Told
<1>5. RefusedAfterTwo
  <2> SUFFICES ASSUME NEW c \in Clients, client[c].refused, mishaps = 0
               PROVE  client[c].lost > 1
    BY DEF RefusedAfterTwo, SessionInv, SessionShape
  <2>1. client[c].kind = "execute" /\ client[c].lost \in Nat /\ client[c].lost >= 2
    BY <1>1 DEF Behind, Told, ClientRow
  <2> QED BY <2>1
<1> QED BY <1>2, <1>3, <1>4, <1>5 DEF BrokerSessionSound

\* However many threads share the session with the vendor: an order is placed once, nobody logs in
\* needlessly, who is refused has lost two sessions, and rows tell what happened
\* (AlgoLabBroker._request, authenticate; the OrderExecutors).
THEOREM BrokerSessionHolds ==
    BrokerSessionSpec => []BrokerSessionSound
<1>1. BrokerSessionInit => SessionInv
  BY SessionStart
<1>2. SessionInv /\ [BrokerSessionNext]_brokerSessionVars => SessionInv'
  BY SessionStep
<1>3. SessionInv => BrokerSessionSound
  BY SessionSound
<1> QED BY <1>1, <1>2, <1>3, PTL DEF BrokerSessionSpec

----
(* The sessions of the dashboard, of every number of threads and tokens:   *)
(* what was revoked stays revoked, nothing is granted without a role,      *)
(* grants leave a trace, and a browser is sent back for a reason.          *)
(*                                                                         *)
(* The last needs that tokens are issued in the order they expire, and     *)
(* that the cookie a page is about to present is the one it was sent on    *)
(* with or a later one, as long as no other tab has disturbed it.          *)

Token == [expires : Nat, role : Roles]
Account == [role : Roles, password : Nat, hash : {"bcrypt", "scrypt"}]
RequestRow ==
    [pc : {"idle", "upgrades", "issues", "mints", "enters", "looks", "peeks", "marks", "writes",
           "view", "shown", "bounced", "revokes"},
     kind : {"none", "login", "session", "page", "member", "api", "logout"},
     token : Nat \cup {NoToken}, role : Roles \cup {"none"}, password : Nat,
     held : SUBSET Roles, granted : BOOLEAN, sent : BOOLEAN, calm : BOOLEAN]

\* The stations of a request that has come with a token.
Tokened == {"mints", "enters", "looks", "peeks", "marks", "writes", "view", "shown", "bounced",
            "revokes"}

TokenShape(m, ts, a) ==
    /\ ts \in Seq(Token)
    /\ \A i, j \in 1..Len(ts) : i <= j => ts[i].expires <= ts[j].expires
    /\ \A i \in 1..Len(ts) : ts[i].expires <= m + SessionLife
    /\ a = NoAccount => ts = <<>>

AccountShape ==
    /\ minute \in Nat /\ changes \in Nat
    /\ account \in Account \cup {NoAccount}
    /\ browser \in [bearer : 1..Len(tokens) \cup {NoToken}, cookie : 1..Len(tokens) \cup {NoToken}]
    /\ revoked \subseteq 1..Len(tokens) /\ ended \subseteq 1..Len(tokens)
    /\ throttle \in Nat \cup {NoAudit} /\ (throttle # NoAudit => throttle <= minute)
    /\ traced \in [at : Nat \cup {NoAudit}, lost : BOOLEAN]
    /\ request \in [HttpThreads -> RequestRow]

\* What is so of a request, at a time, with tokens, an account, a cookie and what is revoked.
Fit(r, md, m, ts, a, c, rev) ==
    /\ r.pc \in Tokened => r.token \in 1..Len(ts) /\ a.role \in r.held
    /\ r.pc \in {"upgrades", "issues"} => a # NoAccount /\ r.role \in Roles
    /\ r.pc \in {"peeks", "marks", "writes"} => r.granted
    /\ r.granted => /\ r.pc \in Tokened /\ ts[r.token].role \in AllowedRoles
                    /\ r.held \cap AllowedRoles # {}
    /\ r.kind = "api" /\ r.pc = "view" /\ md = "enforce" => r.granted
    /\ r.sent /\ r.calm /\ r.pc = "enters" => c \in 1..Len(ts) /\ c >= r.token /\ c \notin rev
    /\ r.sent /\ r.calm /\ r.pc = "bounced" => m >= ts[r.token].expires

AccountsInv ==
    /\ AccountShape /\ TokenShape(minute, tokens, account)
    /\ EndedStaysEnded /\ GrantsTraced
    /\ \A w \in HttpThreads : Fit(request[w], mode, minute, tokens, account, browser.cookie, revoked)

LEMMA AccountsFollow ==
    AccountsInv => AccountsSound
<1> SUFFICES ASSUME AccountsInv
             PROVE  AccountsSound
  OBVIOUS
<1>1. \A w \in HttpThreads : Fit(request[w], mode, minute, tokens, account, browser.cookie, revoked)
  BY DEF AccountsInv
<1>2. GrantedByRole
  BY <1>1 DEF GrantedByRole, Fit
<1>3. BouncesExplained
  BY <1>1 DEF BouncesExplained, Fit
<1> QED BY <1>2, <1>3 DEF AccountsSound, AccountsInv

\* Issuing a token.
LEMMA IssueShape ==
    ASSUME NEW m \in Nat, NEW ts, NEW a, NEW a2, NEW role \in Roles, TokenShape(m, ts, a),
           a2 # NoAccount
    PROVE  LET ts2 == Append(ts, [expires |-> m + SessionLife, role |-> role])
           IN  /\ TokenShape(m, ts2, a2) /\ Len(ts2) = Len(ts) + 1 /\ Len(ts) \in Nat
               /\ \A i \in 1..Len(ts) : ts2[i] = ts[i]
<1> DEFINE new == [expires |-> m + SessionLife, role |-> role]
           ts2 == Append(ts, new)
<1>1. SessionLife \in Nat
  BY AccountAssumption
<1>2. new \in Token /\ new.expires = m + SessionLife
  BY <1>1 DEF Token
<1> HIDE DEF new
<1>3. ts \in Seq(Token) /\ Len(ts) \in Nat
  BY DEF TokenShape
<1>4. /\ ts2 \in Seq(Token) /\ Len(ts2) = Len(ts) + 1 /\ ts2[Len(ts) + 1] = new
      /\ \A i \in 1..Len(ts) : ts2[i] = ts[i]
  BY <1>2, <1>3
<1> HIDE DEF ts2
<1>5. \A i \in 1..Len(ts2) : ts2[i].expires <= m + SessionLife
  BY <1>1, <1>2, <1>3, <1>4 DEF TokenShape
<1>6. \A i, j \in 1..Len(ts2) : i <= j => ts2[i].expires <= ts2[j].expires
  <2> SUFFICES ASSUME NEW i \in 1..Len(ts2), NEW j \in 1..Len(ts2), i <= j
               PROVE  ts2[i].expires <= ts2[j].expires
    OBVIOUS
  <2>1. CASE j = Len(ts) + 1
    BY <1>2, <1>4, <1>5, <2>1
  <2>2. CASE j # Len(ts) + 1
    <3>1. i \in 1..Len(ts) /\ j \in 1..Len(ts)
      BY <1>3, <1>4, <2>2
    <3> QED BY <1>4, <3>1 DEF TokenShape
  <2> QED BY <2>1, <2>2
<1>7. TokenShape(m, ts2, a2)
  BY <1>4, <1>5, <1>6 DEF TokenShape
<1> QED BY <1>3, <1>4, <1>7 DEF ts2, new

LEMMA TokensTyped ==
    ASSUME AccountsInv
    PROVE  /\ minute \in Nat /\ TokenShape(minute, tokens, account) /\ Len(tokens) \in Nat
           /\ \A i \in 1..Len(tokens) : tokens[i].expires \in Nat /\ tokens[i].role \in Roles
<1>1. minute \in Nat /\ TokenShape(minute, tokens, account)
  BY DEF AccountsInv, AccountShape
<1>2. tokens \in Seq(Token)
  BY <1>1 DEF TokenShape
<1>3. \A i \in 1..Len(tokens) : tokens[i] \in Token
  BY <1>2
<1> QED BY <1>1, <1>2, <1>3 DEF Token

\* Requests that are not touched stay fit while time passes, tokens are issued and cookies replaced;
\* those whose cookie was taken or revoked are no longer calm.
LEMMA StaysFit ==
    ASSUME NEW r, NEW x, NEW md, NEW m \in Nat, NEW m2 \in Nat, NEW ts, NEW ts2, NEW a, NEW a2,
           NEW c, NEW c2, NEW rev, NEW rev2, Fit(r, md, m, ts, a, c, rev), m <= m2,
           r.token \in Nat \cup {NoToken}, \A i \in 1..Len(ts) : ts[i].expires \in Nat,
           Len(ts) \in Nat, Len(ts2) \in Nat, Len(ts) <= Len(ts2),
           \A i \in 1..Len(ts) : ts2[i] = ts[i],
           x.pc = r.pc, x.kind = r.kind, x.token = r.token, x.role = r.role,
           x.granted = r.granted, x.sent = r.sent,
           r.pc \in Tokened => r.held \subseteq x.held /\ a2.role \in x.held,
           r.pc \in {"upgrades", "issues"} /\ a # NoAccount => a2 # NoAccount,
           x.calm => /\ r.calm
                     /\ \/ c2 = c /\ (c \notin rev => c \notin rev2)
                        \/ c2 \in 1..Len(ts2) /\ c2 >= Len(ts) /\ c2 \notin rev2
    PROVE  Fit(x, md, m2, ts2, a2, c2, rev2)
<1>1. x.pc \in Tokened => x.token \in 1..Len(ts2) /\ a2.role \in x.held
  BY DEF Fit
<1>2. x.granted => /\ x.pc \in Tokened /\ ts2[x.token].role \in AllowedRoles
                   /\ x.held \cap AllowedRoles # {}
  BY DEF Fit
<1>3. x.sent /\ x.calm /\ x.pc = "enters" => c2 \in 1..Len(ts2) /\ c2 >= x.token /\ c2 \notin rev2
  <2> SUFFICES ASSUME x.sent, x.calm, x.pc = "enters"
               PROVE  c2 \in 1..Len(ts2) /\ c2 >= x.token /\ c2 \notin rev2
    OBVIOUS
  <2>1. /\ c \in 1..Len(ts) /\ c >= r.token /\ c \notin rev /\ r.token \in 1..Len(ts)
    BY DEF Fit, Tokened
  <2> QED BY <2>1
<1>4. x.sent /\ x.calm /\ x.pc = "bounced" => m2 >= ts2[x.token].expires
  BY DEF Fit, Tokened
<1> QED BY <1>1, <1>2, <1>3, <1>4 DEF Fit

\* The step of one thread that leaves accounts, tokens and cookies alone.
LEMMA RequestTurn ==
    ASSUME AccountsInv, NEW w \in HttpThreads, NEW x \in RequestRow,
           request' = [request EXCEPT ![w] = x],
           UNCHANGED <<minute, mode, account, tokens, browser, revoked, ended, changes>>,
           throttle' \in Nat \cup {NoAudit}, throttle' # NoAudit => throttle' <= minute,
           traced' \in [at : Nat \cup {NoAudit}, lost : BOOLEAN], GrantsTraced',
           Fit(x, mode, minute, tokens, account, browser.cookie, revoked)
    PROVE  AccountsInv'
<1>1. AccountShape'
  BY DEF AccountsInv, AccountShape
<1>2. \A v \in HttpThreads : request'[v] = IF v = w THEN x ELSE request[v]
  BY DEF AccountsInv, AccountShape
<1>3. \A v \in HttpThreads :
         Fit(request'[v], mode', minute', tokens', account', browser'.cookie, revoked')
  BY <1>2 DEF AccountsInv
<1>4. EndedStaysEnded'
  BY DEF AccountsInv, EndedStaysEnded
<1>5. TokenShape(minute', tokens', account')
  BY DEF AccountsInv
<1> QED BY <1>1, <1>3, <1>4, <1>5 DEF AccountsInv

\* The same, of a thread that does not write the audit either.
LEMMA QuietTurn ==
    ASSUME AccountsInv, NEW w \in HttpThreads, NEW x \in RequestRow,
           request' = [request EXCEPT ![w] = x],
           UNCHANGED <<minute, mode, account, tokens, browser, revoked, ended, throttle, traced, changes>>,
           Fit(x, mode, minute, tokens, account, browser.cookie, revoked),
           request[w].pc # "writes"
    PROVE  AccountsInv'
<1>1. \A v \in HttpThreads : request'[v] = IF v = w THEN x ELSE request[v]
  BY DEF AccountsInv, AccountShape
<1>2. GrantsTraced'
  BY <1>1 DEF AccountsInv, GrantsTraced
<1>3. /\ throttle' \in Nat \cup {NoAudit} /\ (throttle' # NoAudit => throttle' <= minute)
      /\ traced' \in [at : Nat \cup {NoAudit}, lost : BOOLEAN]
  BY DEF AccountsInv, AccountShape
<1> QED BY <1>2, <1>3, RequestTurn

Waypoints == Tokened \cup {"idle", "upgrades", "issues"}

\* A thread goes on with its request.
LEMMA OnwardRow ==
    ASSUME NEW r \in RequestRow, NEW pc \in Waypoints
    PROVE  LET x == [r EXCEPT !.pc = pc]
           IN  /\ x \in RequestRow /\ x.pc = pc /\ x.kind = r.kind /\ x.token = r.token
               /\ x.role = r.role /\ x.held = r.held /\ x.granted = r.granted
               /\ x.sent = r.sent /\ x.calm = r.calm
<1>1. [r EXCEPT !.pc = pc] \in RequestRow
  BY DEF RequestRow, Waypoints, Tokened
<1> QED BY <1>1 DEF RequestRow

LEMMA NoRequestRow ==
    /\ NoRequest \in RequestRow /\ NoRequest.pc = "idle" /\ ~NoRequest.granted
    /\ ~NoRequest.sent /\ NoRequest.kind = "none" /\ NoRequest.token = NoToken
    /\ NoRequest.calm /\ NoRequest.held = {}
  BY DEF NoRequest, RequestRow

LEMMA NoRequestFits ==
    ASSUME NEW md, NEW m, NEW ts, NEW a, NEW c, NEW rev
    PROVE  Fit(NoRequest, md, m, ts, a, c, rev)
  BY NoRequestRow DEF Fit, Tokened

\* A request that begins with a token.
AskedRow(kind, pc, t, held) ==
    [NoRequest EXCEPT !.pc = pc, !.kind = kind, !.token = t, !.held = held]

LEMMA BegunRow ==
    ASSUME NEW kind \in {"session", "page", "member", "api", "logout"},
           NEW pc \in {"mints", "enters", "looks", "revokes"}, NEW t \in Nat,
           NEW held \in SUBSET Roles
    PROVE  LET x == AskedRow(kind, pc, t, held)
           IN  /\ x \in RequestRow /\ x.pc = pc /\ x.kind = kind /\ x.token = t
               /\ ~x.granted /\ ~x.sent /\ x.calm /\ x.held = held
<1> DEFINE one == [NoRequest EXCEPT !.pc = pc]
           two == [one EXCEPT !.kind = kind]
           three == [two EXCEPT !.token = t]
           four == [three EXCEPT !.held = held]
<1>1. AskedRow(kind, pc, t, held) = four
  BY Zenon DEF AskedRow, one, two, three
<1>2. /\ one \in RequestRow /\ one.pc = pc /\ ~one.granted /\ ~one.sent
      /\ one.calm
  BY NoRequestRow DEF RequestRow
<1> HIDE DEF one
<1>3. /\ two \in RequestRow /\ two.pc = pc /\ ~two.granted /\ ~two.sent
      /\ two.calm /\ two.kind = kind
  BY <1>2 DEF RequestRow
<1> HIDE DEF two
<1>4. /\ three \in RequestRow /\ three.pc = pc /\ ~three.granted /\ ~three.sent
      /\ three.calm /\ three.kind = kind /\ three.token = t
  BY <1>3 DEF RequestRow
<1> HIDE DEF three
<1>5. /\ four \in RequestRow /\ four.pc = pc /\ ~four.granted /\ ~four.sent
      /\ four.calm /\ four.kind = kind /\ four.token = t /\ four.held = held
  BY <1>4 DEF RequestRow
<1> QED BY <1>1, <1>5

\* Whoever comes with a token comes with the role its account has by now.
LEMMA RolesHeld ==
    ASSUME AccountsInv, NEW t \in 1..Len(tokens)
    PROVE  /\ t \in Nat /\ account # NoAccount /\ account \in Account
           /\ HeldRoles = {account.role} /\ HeldRoles \in SUBSET Roles
<1>1. t \in Nat /\ account # NoAccount /\ account \in Account
  BY DEF AccountsInv, AccountShape, TokenShape
<1> QED BY <1>1 DEF HeldRoles, Account

\* A request begins where there is a token, and nothing else changes.
LEMMA AsksInv ==
    ASSUME AccountsInv, NEW w \in HttpThreads, Idle(w),
           NEW kind \in {"session", "page", "member", "api", "logout"},
           NEW pc \in {"mints", "enters", "looks", "revokes"}, NEW t \in 1..Len(tokens),
           request' = [request EXCEPT ![w] = Asked(kind, pc, t)],
           UNCHANGED <<minute, mode, account, tokens, browser, revoked, ended, throttle, traced, changes>>
    PROVE  AccountsInv'
<1> DEFINE x == AskedRow(kind, pc, t, HeldRoles)
<1>1. t \in Nat /\ HeldRoles = {account.role} /\ HeldRoles \in SUBSET Roles
  BY RolesHeld
<1>2. /\ x \in RequestRow /\ x.pc = pc /\ x.kind = kind /\ x.token = t
      /\ ~x.granted /\ ~x.sent /\ x.held = HeldRoles
  BY <1>1, BegunRow
<1>3. request' = [request EXCEPT ![w] = x]
  BY DEF Asked, AskedRow
<1> HIDE DEF x
<1>4. Fit(x, mode, minute, tokens, account, browser.cookie, revoked)
  BY <1>1, <1>2 DEF Fit
<1> QED BY <1>2, <1>3, <1>4, QuietTurn DEF Idle

\* A request goes on with what it has, and nothing else changes.
LEMMA OnwardInv ==
    ASSUME AccountsInv, NEW w \in HttpThreads, NEW pc \in Tokened \ {"enters", "bounced"}, MovesOn(w, pc),
           request[w].pc \in Tokened, request[w].pc # "writes",
           pc \in {"peeks", "marks", "writes"} => request[w].granted,
           pc = "view" /\ mode = "enforce" => request[w].granted,
           UNCHANGED <<minute, mode, account, tokens, browser, revoked, ended, throttle, traced, changes>>
    PROVE  AccountsInv'
<1> DEFINE r == request[w]
           x == [r EXCEPT !.pc = pc]
<1>1. r \in RequestRow /\ Fit(r, mode, minute, tokens, account, browser.cookie, revoked)
  BY DEF AccountsInv, AccountShape
<1>2. /\ x \in RequestRow /\ x.pc = pc /\ x.kind = r.kind /\ x.token = r.token
      /\ x.role = r.role /\ x.held = r.held /\ x.granted = r.granted
      /\ x.sent = r.sent /\ x.calm = r.calm
  <2>1. pc \in Waypoints
    BY DEF Waypoints
  <2> QED BY <1>1, <2>1, OnwardRow
<1>3. request' = [request EXCEPT ![w] = x]
  BY DEF MovesOn
<1> HIDE DEF x
<1>4. Fit(x, mode, minute, tokens, account, browser.cookie, revoked)
  BY <1>1, <1>2 DEF Fit, Tokened
<1>5. x \in RequestRow /\ r.pc # "writes"
  BY <1>2
<1> QED BY <1>3, <1>4, <1>5, QuietTurn

\* A request is answered, and nothing else changes.
LEMMA AnsweredInv ==
    ASSUME AccountsInv, NEW w \in HttpThreads, Answered(w), request[w].pc # "writes",
           UNCHANGED <<minute, mode, account, tokens, browser, revoked, ended, throttle, traced, changes>>
    PROVE  AccountsInv'
  BY NoRequestRow, NoRequestFits, QuietTurn DEF Answered

\* What other threads keep of a request whose cookie may have been taken.
Kept(r, x) ==
    /\ x.pc = r.pc /\ x.kind = r.kind /\ x.token = r.token /\ x.role = r.role
    /\ x.held = r.held /\ x.granted = r.granted /\ x.sent = r.sent /\ (x.calm => r.calm)

\* The step of one thread that changes tokens or cookies.
LEMMA Shifts ==
    ASSUME AccountsInv, NEW w \in HttpThreads, request' \in [HttpThreads -> RequestRow],
           \A v \in HttpThreads \ {w} : Kept(request[v], request'[v]),
           UNCHANGED <<minute, mode, account, throttle, traced, changes>>,
           tokens' = tokens \/ \E role \in Roles : Issues(role) /\ account # NoAccount,
           browser' \in [bearer : 1..Len(tokens') \cup {NoToken}, cookie : 1..Len(tokens') \cup {NoToken}],
           revoked' \subseteq 1..Len(tokens'), ended' \subseteq 1..Len(tokens'),
           \A v \in HttpThreads \ {w} : request'[v].calm =>
              \/ browser'.cookie = browser.cookie /\ revoked' = revoked
              \/ browser'.cookie = Len(tokens') /\ Len(tokens') > 0 /\ Len(tokens') \notin revoked',
           \A t \in ended' : minute < tokens'[t].expires => t \in revoked',
           Fit(request'[w], mode, minute, tokens', account, browser'.cookie, revoked'),
           request[w].pc # "writes"
    PROVE  AccountsInv'
<1>1. /\ minute \in Nat /\ TokenShape(minute, tokens, account) /\ Len(tokens) \in Nat
      /\ \A i \in 1..Len(tokens) : tokens[i].expires \in Nat
  BY TokensTyped
<1>2. /\ TokenShape(minute, tokens', account) /\ Len(tokens') \in Nat
      /\ Len(tokens) <= Len(tokens') /\ \A i \in 1..Len(tokens) : tokens'[i] = tokens[i]
  <2>1. CASE tokens' = tokens
    BY <1>1, <2>1
  <2>2. ASSUME NEW role \in Roles, Issues(role), account # NoAccount
        PROVE  /\ TokenShape(minute, tokens', account) /\ Len(tokens') \in Nat
               /\ Len(tokens) <= Len(tokens') /\ \A i \in 1..Len(tokens) : tokens'[i] = tokens[i]
    BY <1>1, <2>2, IssueShape DEF Issues
  <2> QED BY <2>1, <2>2
<1>3. ASSUME NEW v \in HttpThreads, v # w
      PROVE  Fit(request'[v], mode, minute, tokens', account, browser'.cookie, revoked')
  <2> DEFINE r == request[v]  x == request'[v]
  <2>1. /\ Fit(r, mode, minute, tokens, account, browser.cookie, revoked)
        /\ r.token \in Nat \cup {NoToken} /\ Kept(r, x)
    BY <1>3 DEF AccountsInv, AccountShape, RequestRow
  <2>2. x.calm =>
           \/ browser'.cookie = browser.cookie /\ revoked' = revoked
           \/ browser'.cookie = Len(tokens') /\ Len(tokens') > 0 /\ Len(tokens') \notin revoked'
    BY <1>3
  <2> HIDE DEF r, x
  <2>3. r.pc \in Tokened => r.held \subseteq x.held /\ account.role \in x.held
    BY <2>1 DEF Fit, Kept
  <2>4. x.calm => /\ r.calm
                  /\ \/ /\ browser'.cookie = browser.cookie
                        /\ (browser.cookie \notin revoked => browser.cookie \notin revoked')
                     \/ /\ browser'.cookie \in 1..Len(tokens') /\ browser'.cookie >= Len(tokens)
                        /\ browser'.cookie \notin revoked'
    BY <1>1, <1>2, <2>1, <2>2 DEF Kept
  <2>5. /\ x.pc = r.pc /\ x.kind = r.kind /\ x.token = r.token /\ x.role = r.role
        /\ x.granted = r.granted /\ x.sent = r.sent
    BY <2>1 DEF Kept
  <2> DEFINE m == minute  ts == tokens  ts2 == tokens'  a == account  md == mode
             c == browser.cookie  c2 == browser'.cookie  rev == revoked  rev2 == revoked'
  <2>6. Fit(x, md, m, ts2, a, c2, rev2)
    <3>1. /\ m \in Nat /\ m <= m /\ Fit(r, md, m, ts, a, c, rev)
          /\ Len(ts) \in Nat /\ Len(ts2) \in Nat /\ Len(ts) <= Len(ts2)
          /\ \A i \in 1..Len(ts) : ts[i].expires \in Nat
          /\ \A i \in 1..Len(ts) : ts2[i] = ts[i]
      BY <1>1, <1>2, <2>1
    <3> HIDE DEF m, ts, ts2, a, md, c, c2, rev, rev2
    <3> QED BY <2>1, <2>3, <2>4, <2>5, <3>1, StaysFit DEF a, c, c2, rev, rev2, ts, ts2
  <2> QED BY <2>6 DEF x
<1>4. \A v \in HttpThreads :
         Fit(request'[v], mode', minute', tokens', account', browser'.cookie, revoked')
  BY <1>3
<1>5. AccountShape'
  BY DEF AccountsInv, AccountShape
<1>6. GrantsTraced'
  <2>1. \A v \in HttpThreads : request[v].pc = "writes" => request'[v].pc = "writes"
    BY DEF Kept
  <2> QED BY <2>1 DEF AccountsInv, GrantsTraced
<1>7. EndedStaysEnded'
  BY DEF EndedStaysEnded
<1>8. TokenShape(minute', tokens', account')
  BY <1>2
<1> QED BY <1>4, <1>5, <1>6, <1>7, <1>8 DEF AccountsInv

LEMMA LoginReadsInv ==
    ASSUME AccountsInv, NEW w \in HttpThreads, LoginReads(w)
    PROVE  AccountsInv'
<1> DEFINE pc == IF NeedsUpgrade THEN "upgrades" ELSE "issues"
           one == [NoRequest EXCEPT !.pc = pc]
           two == [one EXCEPT !.kind = "login"]
           three == [two EXCEPT !.role = account.role]
           x == [three EXCEPT !.password = account.password]
<1>1. /\ account # NoAccount /\ account.role \in Roles /\ account.password \in Nat
      /\ pc \in {"upgrades", "issues"} /\ request[w].pc = "idle"
  BY DEF AccountsInv, AccountShape, Account, LoginReads, Idle
<1>2. request' = [request EXCEPT ![w] = x]
  BY Zenon DEF LoginReads
<1> HIDE DEF pc
<1>3. one \in RequestRow /\ one.pc = pc /\ ~one.granted /\ ~one.sent
  BY <1>1, NoRequestRow DEF RequestRow
<1> HIDE DEF one
<1>4. two \in RequestRow /\ two.pc = pc /\ ~two.granted /\ ~two.sent /\ two.kind = "login"
  BY <1>3 DEF RequestRow
<1> HIDE DEF two
<1>5. /\ three \in RequestRow /\ three.pc = pc /\ ~three.granted /\ ~three.sent
      /\ three.kind = "login" /\ three.role \in Roles
  BY <1>1, <1>4 DEF RequestRow
<1> HIDE DEF three
<1>6. /\ x \in RequestRow /\ x.pc = pc /\ ~x.granted /\ ~x.sent
      /\ x.kind = "login" /\ x.role \in Roles
  BY <1>1, <1>5 DEF RequestRow
<1> HIDE DEF x
<1>7. Fit(x, mode, minute, tokens, account, browser.cookie, revoked)
  BY <1>1, <1>6 DEF Fit, Tokened
<1>8. UNCHANGED <<minute, mode, account, tokens, browser, revoked, ended, throttle, traced, changes>>
  BY DEF LoginReads
<1> QED BY <1>1, <1>2, <1>6, <1>7, <1>8, QuietTurn

LEMMA LoginIssuesInv ==
    ASSUME AccountsInv, NEW w \in HttpThreads, LoginIssues(w)
    PROVE  AccountsInv'
<1>1. /\ Len(tokens) \in Nat /\ TokenShape(minute, tokens, account) /\ minute \in Nat
      /\ \A i \in 1..Len(tokens) : tokens[i].expires \in Nat
  BY TokensTyped
<1>2. /\ account # NoAccount /\ request[w].role \in Roles /\ request[w].pc = "issues"
      /\ Issues(request[w].role)
  BY DEF AccountsInv, Fit, LoginIssues
<1>3. /\ Len(tokens') = Len(tokens) + 1 /\ \A i \in 1..Len(tokens) : tokens'[i] = tokens[i]
  BY <1>1, <1>2, IssueShape DEF Issues
<1>4. /\ request' \in [HttpThreads -> RequestRow] /\ request'[w] = NoRequest
      /\ \A v \in HttpThreads \ {w} : Kept(request[v], request'[v])
  BY NoRequestRow DEF AccountsInv, AccountShape, LoginIssues, Answered, Kept
<1>5. /\ browser' = [bearer |-> Len(tokens'), cookie |-> Len(tokens')]
      /\ UNCHANGED <<minute, mode, account, revoked, ended, throttle, traced, changes>>
  BY <1>3 DEF LoginIssues, Issued
<1>6. /\ revoked \subseteq 1..Len(tokens) /\ ended \subseteq 1..Len(tokens)
      /\ \A t \in ended : minute < tokens[t].expires => t \in revoked
  BY DEF AccountsInv, AccountShape, EndedStaysEnded
<1>7. \A t \in ended' : minute < tokens'[t].expires => t \in revoked'
  BY <1>3, <1>5, <1>6
<1>8. /\ revoked' \subseteq 1..Len(tokens') /\ ended' \subseteq 1..Len(tokens')
      /\ Len(tokens') \notin revoked' /\ Len(tokens') \in 1..Len(tokens')
  BY <1>1, <1>3, <1>5, <1>6
<1>9. /\ browser' \in [bearer : 1..Len(tokens') \cup {NoToken}, cookie : 1..Len(tokens') \cup {NoToken}]
      /\ browser'.cookie = Len(tokens') /\ Len(tokens') > 0
  BY <1>1, <1>3, <1>5, <1>8
<1>10. Fit(request'[w], mode, minute, tokens', account, browser'.cookie, revoked')
  BY <1>4, NoRequestFits
<1> QED BY <1>2, <1>4, <1>5, <1>7, <1>8, <1>9, <1>10, Shifts

\* A request of the page that has just been given its cookie.
Minted(t, held) == [AskedRow("page", "enters", t, held) EXCEPT !.sent = TRUE]

LEMMA MintedRow ==
    ASSUME NEW t \in Nat, NEW held \in SUBSET Roles
    PROVE  LET x == Minted(t, held)
           IN  /\ x \in RequestRow /\ x.pc = "enters" /\ x.kind = "page" /\ x.token = t
               /\ ~x.granted /\ x.held = held
<1> DEFINE y == AskedRow("page", "enters", t, held)
<1>1. /\ y \in RequestRow /\ y.pc = "enters" /\ y.kind = "page" /\ y.token = t
      /\ ~y.granted /\ y.held = held
  BY BegunRow
<1> HIDE DEF y
<1> QED BY <1>1 DEF RequestRow, Minted, y

LEMMA MintsInv ==
    ASSUME AccountsInv, NEW w \in HttpThreads, MintsCookie(w)
    PROVE  AccountsInv'
<1>1. /\ Len(tokens) \in Nat /\ TokenShape(minute, tokens, account) /\ minute \in Nat
      /\ \A i \in 1..Len(tokens) : tokens[i].expires \in Nat /\ tokens[i].role \in Roles
  BY TokensTyped
<1>2. request[w].pc = "mints" /\ request[w].token \in 1..Len(tokens)
  BY DEF AccountsInv, Fit, MintsCookie, Tokened
<1>3. /\ account # NoAccount /\ HeldRoles = {account.role} /\ HeldRoles \in SUBSET Roles
  BY <1>2, RolesHeld
<1> DEFINE role == tokens[request[w].token].role
<1>4. role \in Roles /\ Issues(role)
  BY <1>1, <1>2 DEF MintsCookie
<1>5. /\ Len(tokens') = Len(tokens) + 1 /\ \A i \in 1..Len(tokens) : tokens'[i] = tokens[i]
  <2> HIDE DEF role
  <2> QED BY <1>1, <1>3, <1>4, IssueShape DEF Issues
<1> DEFINE n == Len(tokens')
           x == Minted(n, HeldRoles)
<1>6. /\ request' = [request EXCEPT ![w] = x] /\ browser' = [browser EXCEPT !.cookie = n]
      /\ UNCHANGED <<minute, mode, account, revoked, ended, throttle, traced, changes>>
  BY <1>5 DEF MintsCookie, Issued, Asked, AskedRow, Minted
<1>7. n \in Nat /\ n = Len(tokens) + 1
  BY <1>1, <1>5
<1> HIDE DEF n
<1>8. /\ x \in RequestRow /\ x.pc = "enters" /\ x.kind = "page" /\ x.token = n
      /\ ~x.granted /\ x.held = HeldRoles
  BY <1>3, <1>7, MintedRow
<1> HIDE DEF x
<1>9. /\ request' \in [HttpThreads -> RequestRow] /\ request'[w] = x
      /\ \A v \in HttpThreads \ {w} : Kept(request[v], request'[v])
  BY <1>6, <1>8 DEF AccountsInv, AccountShape, Kept
<1>10. /\ revoked \subseteq 1..Len(tokens) /\ ended \subseteq 1..Len(tokens)
       /\ browser \in [bearer : 1..Len(tokens) \cup {NoToken}, cookie : 1..Len(tokens) \cup {NoToken}]
       /\ \A t \in ended : minute < tokens[t].expires => t \in revoked
  BY DEF AccountsInv, AccountShape, EndedStaysEnded
<1>11. \A t \in ended' : minute < tokens'[t].expires => t \in revoked'
  BY <1>5, <1>6, <1>10
<1>12. /\ revoked' \subseteq 1..n /\ ended' \subseteq 1..n /\ n \notin revoked' /\ n \in 1..n /\ n > 0
  BY <1>1, <1>6, <1>7, <1>10
<1>13. /\ browser' \in [bearer : 1..n \cup {NoToken}, cookie : 1..n \cup {NoToken}]
       /\ browser'.cookie = n
  BY <1>1, <1>6, <1>7, <1>10, <1>12
<1>14. Fit(x, mode, minute, tokens', account, browser'.cookie, revoked')
  BY <1>3, <1>7, <1>8, <1>12, <1>13 DEF Fit, n
<1> QED BY <1>2, <1>3, <1>4, <1>6, <1>9, <1>11, <1>12, <1>13, <1>14, Shifts DEF n

\* The cookie or both tokens are forgotten, and who is under way may miss it.
LEMMA Loses ==
    ASSUME AccountsInv, NEW w \in HttpThreads, NEW x \in RequestRow,
           request' \in [HttpThreads -> RequestRow], request'[w] = x,
           \A v \in HttpThreads \ {w} : Kept(request[v], request'[v]) /\ ~request'[v].calm,
           UNCHANGED <<minute, mode, account, tokens, throttle, traced, changes>>,
           browser' \in [bearer : 1..Len(tokens) \cup {NoToken}, cookie : 1..Len(tokens) \cup {NoToken}],
           revoked' \subseteq 1..Len(tokens), ended' \subseteq 1..Len(tokens),
           \A t \in ended' : minute < tokens[t].expires => t \in revoked',
           Fit(x, mode, minute, tokens, account, browser'.cookie, revoked'),
           request[w].pc # "writes"
    PROVE  AccountsInv'
<1>1. \A v \in HttpThreads \ {w} : Kept(request[v], request'[v])
  OBVIOUS
<1> QED BY <1>1, Shifts

LEMMA UnsettledRow ==
    ASSUME NEW r \in RequestRow
    PROVE  LET x == [r EXCEPT !.calm = FALSE]
           IN  x \in RequestRow /\ Kept(r, x) /\ ~x.calm
  BY DEF RequestRow, Kept

LEMMA OpensLoginInv ==
    ASSUME AccountsInv, NEW w \in HttpThreads, OpensLogin(w)
    PROVE  AccountsInv'
<1> DEFINE t == browser.bearer
<1>1. t \in 1..Len(tokens) /\ Idle(w)
  BY DEF AccountsInv, AccountShape, OpensLogin
<1>2. CASE Admitted(browser.bearer)
  <2>1. /\ request' = [request EXCEPT ![w] = Asked("session", "mints", t)]
        /\ UNCHANGED <<minute, mode, account, tokens, browser, revoked, ended, throttle, traced, changes>>
    BY <1>2 DEF OpensLogin
  <2> HIDE DEF t
  <2> QED BY <1>1, <2>1, AsksInv
<1>3. CASE ~Admitted(browser.bearer)
  <2>1. /\ browser' = [browser EXCEPT !.bearer = NoToken]
        /\ UNCHANGED <<minute, mode, account, tokens, revoked, ended, throttle, traced, changes, request>>
    BY <1>3 DEF OpensLogin
  <2>2. /\ browser' \in [bearer : 1..Len(tokens) \cup {NoToken}, cookie : 1..Len(tokens) \cup {NoToken}]
        /\ browser'.cookie = browser.cookie
    BY <2>1 DEF AccountsInv, AccountShape
  <2>3. AccountShape'
    BY <2>1, <2>2 DEF AccountsInv, AccountShape
  <2>4. GrantsTraced' /\ EndedStaysEnded' /\ TokenShape(minute', tokens', account')
    BY <2>1 DEF AccountsInv, GrantsTraced, EndedStaysEnded
  <2>5. \A v \in HttpThreads :
           Fit(request'[v], mode', minute', tokens', account', browser'.cookie, revoked')
    BY <2>1, <2>2 DEF AccountsInv
  <2> QED BY <2>3, <2>4, <2>5 DEF AccountsInv
<1> QED BY <1>2, <1>3

LEMMA OpensPageInv ==
    ASSUME AccountsInv, NEW w \in HttpThreads, OpensPage(w)
    PROVE  AccountsInv'
<1> DEFINE t == browser.cookie
<1>1. t \in 1..Len(tokens) /\ Idle(w)
  BY DEF AccountsInv, AccountShape, OpensPage
<1>2. /\ request' = [request EXCEPT ![w] = Asked("page", "enters", t)]
      /\ UNCHANGED <<minute, mode, account, tokens, browser, revoked, ended, throttle, traced, changes>>
  BY DEF OpensPage
<1> HIDE DEF t
<1> QED BY <1>1, <1>2, AsksInv

LEMMA CallsEndpointInv ==
    ASSUME AccountsInv, NEW w \in HttpThreads, NEW kind \in {"api", "member"},
           NEW t \in 1..Len(tokens), CallsEndpoint(w, kind, t)
    PROVE  AccountsInv'
  BY AsksInv DEF CallsEndpoint

LEMMA EntersInv ==
    ASSUME AccountsInv, NEW w \in HttpThreads, EntersPage(w)
    PROVE  AccountsInv'
<1> DEFINE r == request[w]
           x == [r EXCEPT !.pc = "bounced"]
<1>1. /\ r \in RequestRow /\ Fit(r, mode, minute, tokens, account, browser.cookie, revoked)
      /\ r.pc = "enters" /\ UNCHANGED <<minute, mode, account, tokens, revoked, ended, throttle, traced, changes>>
  BY DEF AccountsInv, AccountShape, EntersPage
<1>2. CASE Admitted(browser.cookie)
  <2>1. MovesOn(w, "looks") /\ UNCHANGED browser
    BY <1>2 DEF EntersPage
  <2>2. "looks" \in Tokened \ {"enters", "bounced"} /\ r.pc \in Tokened
    BY <1>1 DEF Tokened
  <2> QED BY <1>1, <2>1, <2>2, OnwardInv
<1>3. CASE ~Admitted(browser.cookie)
  <2>1. Bounces(w)
    BY <1>3 DEF EntersPage
  <2>2. "bounced" \in Waypoints
    BY DEF Waypoints, Tokened
  <2>3. /\ x \in RequestRow /\ x.pc = "bounced" /\ x.kind = r.kind /\ x.token = r.token
        /\ x.held = r.held /\ x.granted = r.granted /\ x.sent = r.sent /\ x.calm = r.calm
    BY <1>1, <2>2, OnwardRow
  <2>4. request' = [v \in HttpThreads |-> IF v = w THEN x ELSE [request[v] EXCEPT !.calm = FALSE]]
    BY <2>1 DEF Bounces
  <2> HIDE DEF x
  <2>5. /\ request' \in [HttpThreads -> RequestRow] /\ request'[w] = x
        /\ \A v \in HttpThreads \ {w} : Kept(request[v], request'[v]) /\ ~request'[v].calm
    BY <2>3, <2>4, UnsettledRow DEF AccountsInv, AccountShape
  <2>6. /\ browser' \in [bearer : 1..Len(tokens) \cup {NoToken}, cookie : 1..Len(tokens) \cup {NoToken}]
        /\ revoked \subseteq 1..Len(tokens) /\ ended \subseteq 1..Len(tokens)
        /\ \A t \in ended : minute < tokens[t].expires => t \in revoked
    BY <2>1 DEF Bounces, AccountsInv, AccountShape, EndedStaysEnded
  <2>7. r.sent /\ r.calm => minute >= tokens[r.token].expires
    <3> SUFFICES ASSUME r.sent, r.calm
                 PROVE  minute >= tokens[r.token].expires
      OBVIOUS
    <3>1. /\ browser.cookie \in 1..Len(tokens) /\ browser.cookie >= r.token
          /\ browser.cookie \notin revoked /\ r.token \in 1..Len(tokens)
      BY <1>1 DEF Fit, Tokened
    <3>2. /\ minute \in Nat /\ Len(tokens) \in Nat /\ TokenShape(minute, tokens, account)
          /\ \A i \in 1..Len(tokens) : tokens[i].expires \in Nat
      BY TokensTyped
    <3>3. tokens[r.token].expires <= tokens[browser.cookie].expires
      BY <3>1, <3>2 DEF TokenShape
    <3>4. minute >= tokens[browser.cookie].expires
      <4>1. browser.cookie # NoToken
        <5>1. NoToken \notin Nat
          BY AccountAssumption
        <5> QED BY <3>1, <3>2, <5>1
      <4>2. ~(minute < tokens[browser.cookie].expires)
        BY <1>3, <3>1, <4>1 DEF Admitted
      <4>3. tokens[browser.cookie].expires \in Nat
        BY <3>1, <3>2
      <4> QED BY <3>2, <4>2, <4>3
    <3> QED BY <3>1, <3>2, <3>3, <3>4
  <2> HIDE DEF r
  <2>8. Fit(x, mode, minute, tokens, account, browser'.cookie, revoked)
    BY <1>1, <2>3, <2>7 DEF Fit, Tokened
  <2>9. /\ revoked' \subseteq 1..Len(tokens) /\ ended' \subseteq 1..Len(tokens)
        /\ \A t \in ended' : minute < tokens[t].expires => t \in revoked'
        /\ Fit(x, mode, minute, tokens, account, browser'.cookie, revoked')
        /\ request[w].pc # "writes"
    BY <1>1, <2>6, <2>8 DEF r
  <2>10. x \in RequestRow
    BY <2>3
  <2> QED BY <1>1, <2>5, <2>6, <2>9, <2>10, Loses
<1> QED BY <1>2, <1>3

\* The browser forgets both, and the request is over.
LEMMA ForgetsInv ==
    ASSUME AccountsInv, NEW w \in HttpThreads, Forgets, Unsettles(w, NoRequest),
           UNCHANGED <<minute, mode, account, tokens, throttle, traced, changes>>,
           revoked' \subseteq 1..Len(tokens), ended' \subseteq 1..Len(tokens),
           \A t \in ended' : minute < tokens[t].expires => t \in revoked',
           request[w].pc # "writes"
    PROVE  AccountsInv'
<1>1. /\ request' \in [HttpThreads -> RequestRow] /\ request'[w] = NoRequest
      /\ \A v \in HttpThreads \ {w} : Kept(request[v], request'[v]) /\ ~request'[v].calm
  BY UnsettledRow, NoRequestRow DEF AccountsInv, AccountShape, Unsettles
<1>2. browser' \in [bearer : 1..Len(tokens) \cup {NoToken}, cookie : 1..Len(tokens) \cup {NoToken}]
  BY DEF Forgets
<1>3. Fit(NoRequest, mode, minute, tokens, account, browser'.cookie, revoked')
  BY NoRequestFits
<1>4. NoRequest \in RequestRow
  BY NoRequestRow
<1> QED BY <1>1, <1>2, <1>3, <1>4, Loses

LEMMA LogsOutInv ==
    ASSUME AccountsInv, NEW w \in HttpThreads, LogsOut(w)
    PROVE  AccountsInv'
<1> DEFINE t == browser.bearer
<1>1. /\ Idle(w) /\ UNCHANGED <<minute, mode, account, tokens, revoked, ended, throttle, traced, changes>>
      /\ t \in 1..Len(tokens) \cup {NoToken}
  BY DEF AccountsInv, AccountShape, LogsOut
<1>2. CASE Admitted(t)
  <2>1. /\ request' = [request EXCEPT ![w] = Asked("logout", "revokes", t)] /\ UNCHANGED browser
        /\ t \in 1..Len(tokens)
    BY <1>1, <1>2 DEF LogsOut, Admitted
  <2> HIDE DEF t
  <2> QED BY <1>1, <2>1, AsksInv
<1>3. CASE ~Admitted(t)
  <2>1. Forgets /\ Unsettles(w, NoRequest)
    BY <1>3 DEF LogsOut
  <2>2. /\ revoked' \subseteq 1..Len(tokens) /\ ended' \subseteq 1..Len(tokens)
        /\ \A k \in ended' : minute < tokens[k].expires => k \in revoked'
    BY <1>1 DEF AccountsInv, AccountShape, EndedStaysEnded
  <2> QED BY <1>1, <2>1, <2>2, ForgetsInv DEF Idle
<1> QED BY <1>2, <1>3

LEMMA RevokesInv ==
    ASSUME AccountsInv, NEW w \in HttpThreads, Revokes(w)
    PROVE  AccountsInv'
<1> DEFINE t == request[w].token
<1>1. t \in 1..Len(tokens) /\ request[w].pc = "revokes"
  BY DEF AccountsInv, Fit, Revokes, Tokened
<1>2. /\ revoked \subseteq 1..Len(tokens) /\ ended \subseteq 1..Len(tokens)
      /\ \A k \in ended : minute < tokens[k].expires => k \in revoked
  BY DEF AccountsInv, AccountShape, EndedStaysEnded
<1>3. /\ revoked' = {k \in revoked : minute < tokens[k].expires} \cup {t} /\ ended' = ended \cup {t}
  BY DEF Revokes, KeptRevoked
<1>4. /\ revoked' \subseteq 1..Len(tokens) /\ ended' \subseteq 1..Len(tokens)
      /\ \A k \in ended' : minute < tokens[k].expires => k \in revoked'
  BY <1>1, <1>2, <1>3
<1> QED BY <1>1, <1>4, ForgetsInv DEF Revokes

LEMMA LooksForPageInv ==
    ASSUME AccountsInv, NEW w \in HttpThreads, LooksForPage(w)
    PROVE  AccountsInv'
<1> DEFINE r == request[w]
           y == [r EXCEPT !.calm = FALSE]
           x == [y EXCEPT !.pc = "bounced"]
<1>1. /\ r \in RequestRow /\ Fit(r, mode, minute, tokens, account, browser.cookie, revoked)
      /\ r.pc = "looks" /\ UNCHANGED <<minute, mode, account, tokens, revoked, ended, throttle, traced, changes>>
  BY DEF AccountsInv, AccountShape, LooksForPage
<1>2. CASE MovesOn(w, "shown") /\ UNCHANGED browser
  <2>1. "shown" \in Tokened \ {"enters", "bounced"} /\ r.pc \in Tokened
    BY <1>1 DEF Tokened
  <2> QED BY <1>1, <1>2, <2>1, OnwardInv
<1>3. CASE /\ browser' = [browser EXCEPT !.cookie = NoToken]
           /\ request' = [v \in HttpThreads |->
                 [request[v] EXCEPT !.calm = FALSE, !.pc = (IF v = w THEN "bounced" ELSE @)]]
  <2>1. y \in RequestRow /\ Kept(r, y) /\ ~y.calm
    BY <1>1, UnsettledRow
  <2> HIDE DEF y
  <2>2. "bounced" \in Waypoints
    BY DEF Waypoints, Tokened
  <2>3. /\ x \in RequestRow /\ x.pc = "bounced" /\ x.kind = y.kind /\ x.token = y.token
        /\ x.held = y.held /\ x.granted = y.granted /\ x.sent = y.sent /\ x.calm = y.calm
    BY <2>1, <2>2, OnwardRow
  <2>4. request' = [v \in HttpThreads |-> IF v = w THEN x ELSE [request[v] EXCEPT !.calm = FALSE]]
    <3>1. \A v \in HttpThreads :
             [request[v] EXCEPT !.calm = FALSE, !.pc = (IF v = w THEN "bounced" ELSE @)]
             = IF v = w THEN x ELSE [request[v] EXCEPT !.calm = FALSE]
      <4> SUFFICES ASSUME NEW v \in HttpThreads
                   PROVE  [request[v] EXCEPT !.calm = FALSE, !.pc = (IF v = w THEN "bounced" ELSE @)]
                          = IF v = w THEN x ELSE [request[v] EXCEPT !.calm = FALSE]
        OBVIOUS
      <4>1. CASE v = w
        BY <4>1 DEF y
      <4>2. CASE v # w
        <5>1. request[v] \in RequestRow
          BY DEF AccountsInv, AccountShape
        <5> QED BY <4>2, <5>1 DEF RequestRow
      <4> QED BY <4>1, <4>2
    <3> QED BY <1>3, <3>1
  <2> HIDE DEF x
  <2>5. /\ request' \in [HttpThreads -> RequestRow] /\ request'[w] = x
        /\ \A v \in HttpThreads \ {w} : Kept(request[v], request'[v]) /\ ~request'[v].calm
    BY <2>3, <2>4, UnsettledRow DEF AccountsInv, AccountShape
  <2>6. /\ browser' \in [bearer : 1..Len(tokens) \cup {NoToken}, cookie : 1..Len(tokens) \cup {NoToken}]
        /\ revoked' \subseteq 1..Len(tokens) /\ ended' \subseteq 1..Len(tokens)
        /\ \A t \in ended' : minute < tokens[t].expires => t \in revoked'
    BY <1>1, <1>3 DEF AccountsInv, AccountShape, EndedStaysEnded
  <2> HIDE DEF r
  <2>7. Fit(x, mode, minute, tokens, account, browser'.cookie, revoked)
    BY <1>1, <2>1, <2>3 DEF Fit, Tokened, Kept
  <2>8. /\ Fit(x, mode, minute, tokens, account, browser'.cookie, revoked')
        /\ request[w].pc # "writes" /\ x \in RequestRow
    BY <1>1, <2>3, <2>7 DEF r
  <2> QED BY <1>1, <2>5, <2>6, <2>8, Loses
<1> QED BY <1>1, <1>2, <1>3 DEF LooksForPage

LEMMA LooksForRoleInv ==
    ASSUME AccountsInv, NEW w \in HttpThreads, LooksForRole(w)
    PROVE  AccountsInv'
<1> DEFINE r == request[w]
           y == [r EXCEPT !.pc = "peeks"]
           x == [y EXCEPT !.granted = TRUE]
<1>1. /\ r \in RequestRow /\ Fit(r, mode, minute, tokens, account, browser.cookie, revoked)
      /\ r.pc = "looks" /\ r.kind = "api"
      /\ UNCHANGED <<minute, mode, account, tokens, browser, revoked, ended, throttle, traced, changes>>
  BY DEF AccountsInv, AccountShape, LooksForRole
<1>2. CASE Answered(w)
  BY <1>1, <1>2, AnsweredInv
<1>3. CASE mode # "enforce" /\ MovesOn(w, "view")
  <2>1. "view" \in Tokened \ {"enters", "bounced"} /\ r.pc \in Tokened
    BY <1>1 DEF Tokened
  <2> QED BY <1>1, <1>3, <2>1, OnwardInv
<1>4. CASE Authorized(w) /\ request' = [request EXCEPT ![w].pc = "peeks", ![w].granted = TRUE]
  <2>1. "peeks" \in Waypoints
    BY DEF Waypoints, Tokened
  <2>2. /\ y \in RequestRow /\ y.pc = "peeks" /\ y.kind = r.kind /\ y.token = r.token
        /\ y.held = r.held /\ y.sent = r.sent /\ y.calm = r.calm
    BY <1>1, <2>1, OnwardRow
  <2>3. request' = [request EXCEPT ![w] = x]
    BY <1>4 DEF AccountsInv, AccountShape
  <2> HIDE DEF y
  <2>4. /\ x \in RequestRow /\ x.pc = "peeks" /\ x.kind = r.kind /\ x.token = r.token
        /\ x.held = r.held /\ x.granted
    BY <2>2 DEF RequestRow
  <2> HIDE DEF x
  <2>5. r.token \in 1..Len(tokens) /\ account.role \in r.held
    BY <1>1 DEF Fit, Tokened
  <2>6. tokens[r.token].role \in AllowedRoles /\ account.role \in AllowedRoles
    BY <1>4 DEF Authorized
  <2> HIDE DEF r
  <2>7. Fit(x, mode, minute, tokens, account, browser.cookie, revoked)
    BY <2>4, <2>5, <2>6 DEF Fit, Tokened
  <2>8. request[w].pc # "writes" /\ x \in RequestRow
    BY <1>1, <2>4 DEF r
  <2> QED BY <1>1, <2>3, <2>7, <2>8, QuietTurn
<1> QED BY <1>2, <1>3, <1>4 DEF LooksForRole

LEMMA AuditInv ==
    ASSUME AccountsInv, NEW w \in HttpThreads, PeeksThrottle(w) \/ MarksThrottle(w) \/ WritesAudit(w)
    PROVE  AccountsInv'
<1> DEFINE r == request[w]
<1>1. /\ r \in RequestRow /\ Fit(r, mode, minute, tokens, account, browser.cookie, revoked)
      /\ r.pc \in {"peeks", "marks", "writes"} /\ minute \in Nat
      /\ throttle \in Nat \cup {NoAudit} /\ (throttle # NoAudit => throttle <= minute)
      /\ traced \in [at : Nat \cup {NoAudit}, lost : BOOLEAN]
      /\ UNCHANGED <<minute, mode, account, tokens, browser, revoked, ended, changes>>
  BY DEF AccountsInv, AccountShape, PeeksThrottle, MarksThrottle, WritesAudit
<1>2. r.granted /\ r.pc \in Tokened
  BY <1>1 DEF Fit, Tokened
<1>3. CASE PeeksThrottle(w)
  <2> DEFINE pc == IF Throttled THEN "view" ELSE "marks"
  <2>1. /\ MovesOn(w, pc) /\ UNCHANGED <<throttle, traced>> /\ r.pc = "peeks"
        /\ pc \in Tokened \ {"enters", "bounced"}
    BY <1>3 DEF PeeksThrottle, Tokened
  <2> HIDE DEF pc
  <2> QED BY <1>1, <1>2, <2>1, OnwardInv
<1>4. ASSUME NEW pc \in {"writes", "view"}, MovesOn(w, pc), GrantsTraced',
             throttle' \in Nat \cup {NoAudit}, throttle' # NoAudit => throttle' <= minute,
             traced' \in [at : Nat \cup {NoAudit}, lost : BOOLEAN]
      PROVE  AccountsInv'
  <2> DEFINE x == [r EXCEPT !.pc = pc]
  <2>1. pc \in Waypoints
    BY <1>4 DEF Waypoints, Tokened
  <2>2. /\ x \in RequestRow /\ x.pc = pc /\ x.kind = r.kind /\ x.token = r.token
        /\ x.role = r.role /\ x.held = r.held /\ x.granted = r.granted
        /\ x.sent = r.sent /\ x.calm = r.calm
    BY <1>1, <2>1, OnwardRow
  <2>3. request' = [request EXCEPT ![w] = x]
    BY <1>4 DEF MovesOn
  <2> HIDE DEF x, r
  <2>4. Fit(x, mode, minute, tokens, account, browser.cookie, revoked)
    BY <1>1, <1>2, <1>4, <2>2 DEF Fit, Tokened
  <2>5. x \in RequestRow
    BY <2>2
  <2> QED BY <1>1, <1>4, <2>3, <2>4, <2>5, RequestTurn
<1>5. CASE MarksThrottle(w)
  <2>1. /\ MovesOn(w, "writes") /\ throttle' = minute /\ traced' = traced
    BY <1>5 DEF MarksThrottle
  <2>2. request'[w].pc = "writes"
    BY <1>1, <2>1 DEF MovesOn, AccountsInv, AccountShape, RequestRow
  <2>3. GrantsTraced'
    BY <2>2 DEF GrantsTraced
  <2> QED BY <1>1, <1>4, <2>1, <2>3
<1>6. CASE WritesAudit(w)
  <2>1. /\ MovesOn(w, "view") /\ throttle' = throttle
        /\ \/ traced' = [at |-> minute, lost |-> FALSE]
           \/ traced' = [traced EXCEPT !.lost = TRUE]
    BY <1>6 DEF WritesAudit
  <2>2. traced' \in [at : Nat \cup {NoAudit}, lost : BOOLEAN]
    <3>1. [traced EXCEPT !.lost = TRUE] \in [at : Nat \cup {NoAudit}, lost : BOOLEAN]
      BY <1>1
    <3>2. [at |-> minute, lost |-> FALSE] \in [at : Nat \cup {NoAudit}, lost : BOOLEAN]
      BY <1>1
    <3> QED BY <2>1, <3>1, <3>2
  <2>3. GrantsTraced'
    <3>1. minute # NoAudit
      BY <1>1, AccountAssumption
    <3>2. \/ traced'.at = minute
          \/ traced'.lost
      BY <1>1, <2>1
    <3> QED BY <1>1, <2>1, <3>1, <3>2 DEF GrantsTraced
  <2> QED BY <1>1, <1>4, <2>1, <2>2, <2>3
<1> QED BY <1>3, <1>5, <1>6

LEMMA ServesInv ==
    ASSUME AccountsInv, NEW w \in HttpThreads, Serves(w) \/ LooksForMember(w)
    PROVE  AccountsInv'
  BY AnsweredInv DEF Serves, LooksForMember

\* The row of the account changes, and requests may learn of it.
LEMMA AccountTurn ==
    ASSUME AccountsInv, account' \in Account, request' \in [HttpThreads -> RequestRow],
           changes' \in Nat,
           UNCHANGED <<minute, mode, tokens, browser, revoked, ended, throttle, traced>>,
           \A v \in HttpThreads :
              /\ Fit(request'[v], mode, minute, tokens, account', browser.cookie, revoked)
              /\ request[v].pc = "writes" => request'[v].pc = "writes"
    PROVE  AccountsInv'
<1>1. account' # NoAccount
  BY DEF Account, NoAccount
<1>2. AccountShape'
  BY DEF AccountsInv, AccountShape
<1>3. TokenShape(minute', tokens', account')
  BY <1>1 DEF AccountsInv, TokenShape
<1>4. GrantsTraced' /\ EndedStaysEnded'
  BY DEF AccountsInv, GrantsTraced, EndedStaysEnded
<1> QED BY <1>2, <1>3, <1>4 DEF AccountsInv

LEMMA UpgradesInv ==
    ASSUME AccountsInv, NEW w \in HttpThreads, LoginUpgrades(w)
    PROVE  AccountsInv'
<1> DEFINE r == request[w]
           x == [r EXCEPT !.pc = "issues"]
<1>1. /\ r \in RequestRow /\ Fit(r, mode, minute, tokens, account, browser.cookie, revoked)
      /\ r.pc = "upgrades" /\ MovesOn(w, "issues") /\ changes \in Nat
      /\ UNCHANGED <<minute, mode, tokens, browser, revoked, ended, throttle, traced, changes>>
  BY DEF AccountsInv, AccountShape, LoginUpgrades
<1>2. account # NoAccount /\ account \in Account /\ r.role \in Roles /\ ~r.granted
  BY <1>1 DEF AccountsInv, AccountShape, Fit, Tokened
<1>3. account' \in Account /\ account'.role = account.role /\ account' # NoAccount
  <2>1. account' \in Account /\ account'.role = account.role
    <3>1. r.password \in Nat
      BY <1>1 DEF RequestRow
    <3> QED BY <1>2, <3>1 DEF LoginUpgrades, Account
  <2> QED BY <2>1 DEF Account, NoAccount
<1>4. "issues" \in Waypoints
  BY DEF Waypoints
<1>5. /\ x \in RequestRow /\ x.pc = "issues" /\ x.kind = r.kind /\ x.role = r.role
      /\ x.granted = r.granted
  BY <1>1, <1>4, OnwardRow
<1>6. \A v \in HttpThreads : request'[v] = IF v = w THEN x ELSE request[v]
  BY <1>1 DEF MovesOn, AccountsInv, AccountShape
<1>7. request' \in [HttpThreads -> RequestRow]
  BY <1>1, <1>5 DEF MovesOn, AccountsInv, AccountShape
<1>8. r.pc # "writes"
  BY <1>1
<1> HIDE DEF x, r
<1>9. Fit(x, mode, minute, tokens, account', browser.cookie, revoked)
  BY <1>2, <1>3, <1>5 DEF Fit, Tokened
<1>10. \A v \in HttpThreads :
          Fit(request[v], mode, minute, tokens, account', browser.cookie, revoked)
  BY <1>2, <1>3 DEF AccountsInv, Fit
<1>11. \A v \in HttpThreads :
          /\ Fit(request'[v], mode, minute, tokens, account', browser.cookie, revoked)
          /\ request[v].pc = "writes" => request'[v].pc = "writes"
  BY <1>6, <1>8, <1>9, <1>10 DEF r
<1> QED BY <1>1, <1>3, <1>7, <1>11, AccountTurn

LEMMA RotatesInv ==
    ASSUME AccountsInv, RotatesPassword
    PROVE  AccountsInv'
<1>1. /\ account # NoAccount /\ account \in Account /\ changes' = changes + 1 /\ changes \in Nat
      /\ account' = [account EXCEPT !.password = changes', !.hash = "scrypt"]
      /\ UNCHANGED <<minute, mode, tokens, browser, revoked, ended, throttle, traced, request>>
  BY DEF AccountsInv, AccountShape, RotatesPassword
<1>2. changes' \in Nat
  BY <1>1
<1>3. account' \in Account /\ account'.role = account.role
  BY <1>1, <1>2 DEF Account
<1>4. account' # NoAccount
  BY <1>3 DEF Account, NoAccount
<1>5. \A v \in HttpThreads :
         Fit(request[v], mode, minute, tokens, account', browser.cookie, revoked)
  BY <1>3, <1>4 DEF AccountsInv, Fit
<1>6. request \in [HttpThreads -> RequestRow]
  BY DEF AccountsInv, AccountShape
<1> QED BY <1>1, <1>2, <1>3, <1>5, <1>6, AccountTurn

\* A request that is under way learns of the role its account is given.
Learned(r, role) == [r EXCEPT !.held = IF r.pc = "idle" THEN {} ELSE r.held \cup {role}]

LEMMA LearnedRow ==
    ASSUME NEW r \in RequestRow, NEW role \in Roles
    PROVE  LET x == Learned(r, role)
           IN  /\ x \in RequestRow /\ x.pc = r.pc /\ x.kind = r.kind /\ x.token = r.token
               /\ x.role = r.role /\ x.granted = r.granted /\ x.sent = r.sent /\ x.calm = r.calm
               /\ r.pc # "idle" => x.held = r.held \cup {role}
<1> DEFINE held == IF r.pc = "idle" THEN {} ELSE r.held \cup {role}
<1>1. held \in SUBSET Roles /\ (r.pc # "idle" => held = r.held \cup {role})
  BY DEF RequestRow
<1> HIDE DEF held
<1>2. [r EXCEPT !.held = held] \in RequestRow
  BY <1>1 DEF RequestRow
<1>3. Learned(r, role) = [r EXCEPT !.held = held]
  BY DEF Learned, held
<1> QED BY <1>1, <1>2, <1>3 DEF RequestRow

LEMMA ChangesRoleInv ==
    ASSUME AccountsInv, NEW role \in Roles, ChangesRole(role)
    PROVE  AccountsInv'
<1>1. /\ account # NoAccount /\ account \in Account /\ changes' = changes + 1 /\ changes \in Nat
      /\ account' = [account EXCEPT !.role = role]
      /\ UNCHANGED <<minute, mode, tokens, browser, revoked, ended, throttle, traced>>
      /\ request \in [HttpThreads -> RequestRow]
  BY DEF AccountsInv, AccountShape, ChangesRole
<1>2. changes' \in Nat /\ account' \in Account /\ account'.role = role
  BY <1>1 DEF Account
<1>3. account' # NoAccount
  BY <1>2 DEF Account, NoAccount
<1>4. request' = [w \in HttpThreads |-> Learned(request[w], role)]
  BY DEF ChangesRole, Learned, Idle
<1>5. request' \in [HttpThreads -> RequestRow]
  BY <1>1, <1>4, LearnedRow
<1>6. ASSUME NEW v \in HttpThreads
      PROVE  /\ Fit(request'[v], mode, minute, tokens, account', browser.cookie, revoked)
             /\ request[v].pc = "writes" => request'[v].pc = "writes"
  <2> DEFINE r == request[v]  x == Learned(r, role)
  <2>1. /\ r \in RequestRow /\ Fit(r, mode, minute, tokens, account, browser.cookie, revoked)
        /\ request'[v] = x
    BY <1>1, <1>4 DEF AccountsInv
  <2>2. /\ x.pc = r.pc /\ x.kind = r.kind /\ x.token = r.token
        /\ x.role = r.role /\ x.granted = r.granted /\ x.sent = r.sent /\ x.calm = r.calm
        /\ r.pc # "idle" => x.held = r.held \cup {role}
    BY <2>1, LearnedRow
  <2> HIDE DEF x, r
  <2>3. Fit(x, mode, minute, tokens, account', browser.cookie, revoked)
    BY <1>2, <1>3, <2>1, <2>2 DEF Fit, Tokened
  <2> QED BY <2>1, <2>2, <2>3 DEF r
<1> QED BY <1>1, <1>2, <1>5, <1>6, AccountTurn

LEMMA RegistersInv ==
    ASSUME AccountsInv, Registers
    PROVE  AccountsInv'
<1>1. /\ account = NoAccount /\ account' = NewAccount /\ Issues("user")
      /\ UNCHANGED <<minute, mode, revoked, ended, throttle, traced, changes, request>>
      /\ browser' = [bearer |-> Issued, cookie |-> Issued]
  BY DEF Registers
<1>2. "user" \in Roles
  BY AccountAssumption
<1>3. account' \in Account /\ account' # NoAccount
  BY <1>1, <1>2 DEF NewAccount, Account, NoAccount
<1>4. minute \in Nat /\ TokenShape(minute, tokens, account)
  BY DEF AccountsInv, AccountShape
<1>5. TokenShape(minute, tokens', account') /\ Len(tokens') = Len(tokens) + 1
  <2> DEFINE a2 == account'  role == "user"
  <2>1. a2 # NoAccount /\ role \in Roles
    BY <1>2, <1>3
  <2> HIDE DEF a2, role
  <2>2. LET ts2 == Append(tokens, [expires |-> minute + SessionLife, role |-> role])
        IN  TokenShape(minute, ts2, a2) /\ Len(ts2) = Len(tokens) + 1
    BY <1>4, <2>1, IssueShape
  <2> QED BY <1>1, <2>2 DEF Issues, a2, role
<1>6. tokens = <<>> /\ Len(tokens) = 0
  BY <1>1, <1>4 DEF TokenShape
<1>7. \A v \in HttpThreads : request[v].pc = "idle" /\ ~request[v].granted
  <2> SUFFICES ASSUME NEW v \in HttpThreads
               PROVE  request[v].pc = "idle" /\ ~request[v].granted
    OBVIOUS
  <2> DEFINE r == request[v]
  <2>1. r \in RequestRow /\ Fit(r, mode, minute, tokens, account, browser.cookie, revoked)
    BY DEF AccountsInv, AccountShape
  <2>2. r.token \notin 1..Len(tokens)
    BY <1>6
  <2> HIDE DEF r
  <2>3. r.pc \notin Tokened /\ r.pc \notin {"upgrades", "issues"}
    BY <1>1, <2>1, <2>2 DEF Fit
  <2>4. r.pc = "idle" /\ ~r.granted
    BY <2>1, <2>3 DEF Fit, RequestRow, Tokened
  <2> QED BY <2>4 DEF r
<1>8. \A v \in HttpThreads :
         Fit(request'[v], mode', minute', tokens', account', browser'.cookie, revoked')
  BY <1>1, <1>7 DEF Fit, Tokened
<1>9. AccountShape'
  <2>1. Len(tokens') = 1 /\ Issued = 1 /\ revoked = {} /\ ended = {}
    BY <1>5, <1>6 DEF Issued, AccountsInv, AccountShape
  <2>2. browser' \in [bearer : 1..Len(tokens') \cup {NoToken}, cookie : 1..Len(tokens') \cup {NoToken}]
    BY <1>1, <2>1
  <2>3. /\ minute' \in Nat /\ changes' \in Nat /\ revoked' = {} /\ ended' = {}
        /\ throttle' \in Nat \cup {NoAudit} /\ (throttle' # NoAudit => throttle' <= minute')
        /\ traced' \in [at : Nat \cup {NoAudit}, lost : BOOLEAN]
        /\ request' \in [HttpThreads -> RequestRow] /\ ended' = ended
    BY <1>1, <2>1 DEF AccountsInv, AccountShape, Registers
  <2> QED BY <1>3, <2>2, <2>3 DEF AccountShape
<1>10. GrantsTraced'
  BY <1>1 DEF AccountsInv, GrantsTraced
<1>11. EndedStaysEnded'
  <2>1. ended = {}
    BY <1>6 DEF AccountsInv, AccountShape
  <2> QED BY <1>1, <2>1 DEF EndedStaysEnded
<1> QED BY <1>1, <1>5, <1>8, <1>9, <1>10, <1>11 DEF AccountsInv

LEMMA RestartsInv ==
    ASSUME AccountsInv, HttpRestarts
    PROVE  AccountsInv'
<1>1. /\ request' = [w \in HttpThreads |-> NoRequest] /\ changes' = changes + 1
      /\ revoked' = {} /\ ended' = {} /\ throttle' = NoAudit
      /\ UNCHANGED <<minute, mode, account, tokens, browser, traced>>
  BY DEF HttpRestarts
<1>2. AccountShape'
  BY <1>1, NoRequestRow DEF AccountsInv, AccountShape
<1>3. \A v \in HttpThreads :
         Fit(request'[v], mode', minute', tokens', account', browser'.cookie, revoked')
  BY <1>1, NoRequestFits
<1>4. GrantsTraced' /\ EndedStaysEnded' /\ TokenShape(minute', tokens', account')
  BY <1>1 DEF AccountsInv, GrantsTraced, EndedStaysEnded
<1> QED BY <1>2, <1>3, <1>4 DEF AccountsInv

LEMMA TimeInv ==
    ASSUME AccountsInv, AccountTime
    PROVE  AccountsInv'
<1>1. /\ minute' = minute + 1
      /\ UNCHANGED <<mode, account, tokens, browser, revoked, ended, throttle, traced, changes, request>>
  BY DEF AccountTime
<1>2. /\ minute \in Nat /\ TokenShape(minute, tokens, account) /\ Len(tokens) \in Nat
      /\ \A i \in 1..Len(tokens) : tokens[i].expires \in Nat
  BY TokensTyped
<1>3. AccountShape'
  BY <1>1, <1>2 DEF AccountsInv, AccountShape
<1>4. TokenShape(minute', tokens', account')
  <2>1. SessionLife \in Nat
    BY AccountAssumption
  <2> QED BY <1>1, <1>2, <2>1 DEF TokenShape
<1>5. \A v \in HttpThreads :
         Fit(request'[v], mode', minute', tokens', account', browser'.cookie, revoked')
  <2> SUFFICES ASSUME NEW v \in HttpThreads
               PROVE  Fit(request[v], mode, minute + 1, tokens, account, browser.cookie, revoked)
    BY <1>1
  <2> DEFINE r == request[v]
  <2>1. Fit(r, mode, minute, tokens, account, browser.cookie, revoked)
    BY DEF AccountsInv
  <2>2. r.token \in 1..Len(tokens) /\ minute >= tokens[r.token].expires
           => minute + 1 >= tokens[r.token].expires
    BY <1>2
  <2> HIDE DEF r
  <2>3. r.sent /\ r.calm /\ r.pc = "bounced" => minute + 1 >= tokens[r.token].expires
    BY <2>1, <2>2 DEF Fit, Tokened
  <2>4. Fit(r, mode, minute + 1, tokens, account, browser.cookie, revoked)
    BY <2>1, <2>3 DEF Fit
  <2> QED BY <2>4 DEF r
<1>6. EndedStaysEnded'
  <2>1. ended \subseteq 1..Len(tokens)
    BY DEF AccountsInv, AccountShape
  <2>2. \A t \in ended : minute + 1 < tokens[t].expires => minute < tokens[t].expires
    BY <1>2, <2>1
  <2> QED BY <1>1, <2>2 DEF AccountsInv, EndedStaysEnded
<1>7. GrantsTraced'
  BY <1>1 DEF AccountsInv, GrantsTraced
<1> QED BY <1>3, <1>4, <1>5, <1>6, <1>7 DEF AccountsInv

LEMMA AccountsStart ==
    AccountsInit => AccountsInv
<1> SUFFICES ASSUME AccountsInit
             PROVE  AccountsInv
  OBVIOUS
<1>1. /\ minute = 0 /\ changes = 0 /\ tokens = <<>> /\ revoked = {} /\ ended = {}
      /\ browser = [bearer |-> NoToken, cookie |-> NoToken] /\ throttle = NoAudit
      /\ traced = [at |-> NoAudit, lost |-> FALSE] /\ request = [w \in HttpThreads |-> NoRequest]
  BY DEF AccountsInit
<1>2. account \in Account \cup {NoAccount}
  BY DEF AccountsInit, Account
<1>3. AccountShape
  BY <1>1, <1>2, NoRequestRow DEF AccountShape
<1>4. TokenShape(minute, tokens, account)
  BY <1>1 DEF TokenShape
<1>5. \A v \in HttpThreads :
         Fit(request[v], mode, minute, tokens, account, browser.cookie, revoked)
  BY <1>1, NoRequestFits
<1>6. EndedStaysEnded /\ GrantsTraced
  BY <1>1 DEF EndedStaysEnded, GrantsTraced
<1> QED BY <1>3, <1>4, <1>5, <1>6 DEF AccountsInv

LEMMA AccountsStep ==
    AccountsInv /\ [AccountsNext]_accountVars => AccountsInv'
<1> SUFFICES ASSUME AccountsInv, [AccountsNext]_accountVars
             PROVE  AccountsInv'
  OBVIOUS
<1>1. CASE UNCHANGED accountVars
  BY <1>1 DEF accountVars, AccountsInv, AccountShape, EndedStaysEnded, GrantsTraced
<1>2. ASSUME NEW w \in HttpThreads, LoginReads(w) \/ LoginUpgrades(w) \/ LoginIssues(w)
      PROVE  AccountsInv'
  BY <1>2, LoginReadsInv, UpgradesInv, LoginIssuesInv
<1>3. ASSUME NEW w \in HttpThreads,
             OpensLogin(w) \/ MintsCookie(w) \/ OpensPage(w) \/ EntersPage(w) \/ LogsOut(w) \/ Revokes(w)
      PROVE  AccountsInv'
  BY <1>3, OpensLoginInv, MintsInv, OpensPageInv, EntersInv, LogsOutInv, RevokesInv
<1>4. ASSUME NEW w \in HttpThreads, NEW kind \in {"api", "member"}, NEW t \in 1..Len(tokens),
             CallsEndpoint(w, kind, t)
      PROVE  AccountsInv'
  BY <1>4, CallsEndpointInv
<1>5. ASSUME NEW w \in HttpThreads, LooksForPage(w) \/ LooksForMember(w) \/ LooksForRole(w)
      PROVE  AccountsInv'
  BY <1>5, LooksForPageInv, ServesInv, LooksForRoleInv
<1>6. ASSUME NEW w \in HttpThreads,
             PeeksThrottle(w) \/ MarksThrottle(w) \/ WritesAudit(w) \/ Serves(w)
      PROVE  AccountsInv'
  BY <1>6, AuditInv, ServesInv
<1>7. CASE Registers \/ RotatesPassword \/ HttpRestarts \/ AccountTime
  BY <1>7, RegistersInv, RotatesInv, RestartsInv, TimeInv
<1>8. ASSUME NEW role \in Roles, ChangesRole(role)
      PROVE  AccountsInv'
  BY <1>8, ChangesRoleInv
<1> QED BY <1>1, <1>2, <1>3, <1>4, <1>5, <1>6, <1>7, <1>8 DEF AccountsNext

\* However many threads serve the dashboard, and however many tokens it issues: what was revoked
\* stays revoked, nothing is granted without a role, grants leave a trace, and a browser comes back
\* to the login page for a reason (api_auth_login, api_auth_session, api_auth_logout, require_roles,
\* _ui_auth_required).
THEOREM AccountsHold ==
    AccountsSpec => []AccountsSound
<1>1. AccountsInit => AccountsInv
  BY AccountsStart
<1>2. AccountsInv /\ [AccountsNext]_accountVars => AccountsInv'
  BY AccountsStep
<1>3. AccountsInv => AccountsSound
  BY AccountsFollow
<1> QED BY <1>1, <1>2, <1>3, PTL DEF AccountsSpec

----
(* The calls below the fetcher, of every number of callers, cache lives    *)
(* and retries: slots are apart, every source is tried, a refusal has a    *)
(* cause, a price is recent, and a scan reads its own list.                *)
(*                                                                         *)
(* The second needs to know at which stage which sources have been tried;  *)
(* the third, that a call which still looks blameless carries a token      *)
(* nobody has refused.                                                     *)

CallRow ==
    [pc : {"idle", "waits", "stamps", "sends", "hears", "reads", "served", "none", "missing", "refused", "raised"},
     kind : {"none", "history", "batch", "price", "frames"}, stage : Stages,
     tries : Nat, due : Nat, could : SUBSET Sources, clean : BOOLEAN,
     answer : {"none", "ok", "401", "busy", "error"}, age : Nat, got : SUBSET CallTickers]

CallShape ==
    /\ tick \in Nat /\ vendor \in {"yahoo", "official"}
    /\ last \in [Domains -> Nat \cup {NoSlot}]
    /\ Ready \subseteq Sources
    /\ token \in {"none", "good", "bad"} /\ told \in BOOLEAN /\ (told => token = "none")
    /\ quote # NoPrice => /\ quote.of \in Nat /\ quote.at \in Nat
                          /\ quote.of <= quote.at /\ quote.at <= tick
                          /\ quote.at - quote.of <= Oldest(DailyTTL)
    /\ daily # NoPrice => daily \in Nat /\ daily <= tick
    /\ call \in [Callers -> CallRow]

\* Who is found at which stage.
Placed(v, c) ==
    /\ c.pc \in {"none", "raised"} => c.kind # "none"
    /\ c.stage \in {"chart", "yf", "again", "batch", "table"} => c.kind \in {"history", "batch"}
    /\ c.stage \in {"page", "mirror", "history"} => c.kind = "price"
    /\ c.stage = "official" => v = "official" /\ c.kind \in {"history", "batch", "price"}
    /\ c.stage = "frames" => c.kind = "frames"
    /\ c.pc \in {"stamps", "sends", "hears", "refused"} => c.stage = "official"
    /\ c.pc = "reads" => c.kind = "frames"

\* The sources that a call has asked by the time it reaches a stage.
TriedBy(stage) == CASE stage = "yf" -> {"chart"} [] stage \in {"again", "table"} -> {"chart", "yf"} [] OTHER -> {}

Untried(v, sources, c) ==
    /\ c.could \subseteq sources
    /\ c.pc = "waits" => c.could \cap TriedBy(c.stage) = {}
    /\ v = "yahoo" /\ c.kind \in {"history", "batch"} /\ c.pc \in {"none", "raised"} => c.could = {}

Explained(t, c) ==
    /\ c.pc \in {"stamps", "sends"} /\ t = "none" => ~c.clean
    /\ c.pc # "idle" /\ c.kind # "frames" /\ t = "bad" => ~c.clean
    /\ c.pc = "hears" /\ c.answer = "401" => ~c.clean
    /\ c.pc = "refused" => ~c.clean

Recent(c) == c.kind = "price" /\ c.pc = "served" => c.age <= Oldest(QuoteTTL) + Oldest(DailyTTL)

Own(list, c) == c.pc = "reads" /\ c.clean => list = CallTickers \ c.got

\* A request with a slot of its own.
Slotted(c) == c.pc = "waits" /\ c.stage \in Limited /\ c.due > 0

Reserves(l, c) == Slotted(c) => l[DomainOf(c.stage)] # NoSlot /\ c.due <= l[DomainOf(c.stage)]

Apart(c, d) ==
    Slotted(c) /\ Slotted(d) /\ DomainOf(c.stage) = DomainOf(d.stage)
        => c.due >= d.due + Interval \/ d.due >= c.due + Interval

Good(v, sources, t, list, l, c) ==
    Placed(v, c) /\ Untried(v, sources, c) /\ Explained(t, c) /\ Recent(c) /\ Own(list, c) /\ Reserves(l, c)

CallsInv ==
    /\ CallShape
    /\ \A f \in Callers : Good(vendor, Ready, token, skipped, last, call[f])
    /\ \A f, g \in Callers : f # g => Apart(call[f], call[g])

LEMMA DomainTyped == ASSUME NEW stage \in Stages PROVE DomainOf(stage) \in Domains
BY DEF DomainOf, Domains

LEMMA CallsBegin == CallsInit => CallsInv
<1> SUFFICES ASSUME CallsInit PROVE CallsInv
  OBVIOUS
<1>1. NoCall \in CallRow
  BY DEF NoCall, CallRow, Stages, Limited
<1>2. /\ NoCall.pc = "idle" /\ NoCall.kind = "none" /\ NoCall.stage = "none" /\ NoCall.could = {}
      /\ NoCall.due = 0
  BY DEF NoCall
<1> HIDE DEF CallRow
<1>3. CallShape
  <2>1. Ready \subseteq Sources
    BY DEF CallsInit, Ready
  <2> QED BY <1>1, <2>1, CallsAssumption DEF CallsInit, CallShape
<1>4. \A v, w, t, s, l : Good(v, w, t, s, l, NoCall)
  BY <1>2 DEF Good, Placed, Untried, Explained, Recent, Own, Reserves, Slotted
<1>5. Apart(NoCall, NoCall)
  BY <1>2 DEF Apart, Slotted
<1> HIDE DEF NoCall
<1>6. \A f \in Callers : call[f] = NoCall
  BY DEF CallsInit
<1> QED BY <1>3, <1>4, <1>5, <1>6 DEF CallsInv

\* A step of one thread: the others keep what they have, and what they share keeps its order.
LEMMA OneCallMoves ==
    ASSUME CallsInv, CallShape', NEW f \in Callers, NEW x \in CallRow,
           call' = [call EXCEPT ![f] = x], UNCHANGED <<vendor, Ready, skipped>>,
           token' \in {token, "good"},
           \A d \in Domains : last[d] # NoSlot => last'[d] # NoSlot /\ last'[d] >= last[d],
           Good(vendor, Ready, token', skipped, last', x),
           Slotted(x) => \/ last[DomainOf(x.stage)] = NoSlot
                         \/ x.due >= last[DomainOf(x.stage)] + Interval
    PROVE  CallsInv'
<1>1. /\ \A g \in Callers : call[g] \in CallRow /\ call'[g] = IF g = f THEN x ELSE call[g]
      /\ \A d \in Domains : last[d] \in Nat \cup {NoSlot} /\ last'[d] \in Nat \cup {NoSlot}
  BY DEF CallsInv, CallShape
<1>2. Interval \in Nat
  BY CallsAssumption
<1>3. ASSUME NEW g \in Callers, g # f
      PROVE  Good(vendor, Ready, token', skipped, last', call[g])
  <2> DEFINE c == call[g]
             d == DomainOf(c.stage)
  <2>1. /\ Good(vendor, Ready, token, skipped, last, c) /\ c \in CallRow
    BY <1>1 DEF CallsInv
  <2>2. c.stage \in Stages /\ c.due \in Nat
    BY <2>1 DEF CallRow
  <2>3. d \in Domains
    BY <2>2, DomainTyped
  <2>4. last[d] # NoSlot => last'[d] # NoSlot /\ last'[d] >= last[d] /\ last[d] \in Nat /\ last'[d] \in Nat
    BY <1>1, <2>3
  <2>5. Explained(token', c)
    BY <2>1 DEF Good, Explained
  <2>6. Reserves(last', c)
    <3> SUFFICES ASSUME Slotted(c) PROVE last'[d] # NoSlot /\ c.due <= last'[d]
      BY DEF Reserves
    <3>1. last[d] # NoSlot /\ c.due <= last[d]
      BY <2>1 DEF Good, Reserves
    <3> HIDE DEF d, c
    <3> QED BY <2>2, <2>4, <3>1
  <2> HIDE DEF c
  <2> QED BY <2>1, <2>5, <2>6 DEF Good, c
<1>4. ASSUME NEW g \in Callers, g # f
      PROVE  Apart(x, call[g]) /\ Apart(call[g], x)
  <2> DEFINE c == call[g]
             d == DomainOf(c.stage)
  <2>1. /\ Reserves(last, c) /\ c \in CallRow
    BY <1>1 DEF CallsInv, Good
  <2>2. c.stage \in Stages /\ c.due \in Nat /\ x.due \in Nat
    BY <2>1 DEF CallRow
  <2>3. d \in Domains
    BY <2>2, DomainTyped
  <2> HIDE DEF c
  <2>4. ASSUME Slotted(x), Slotted(c), DomainOf(x.stage) = d
        PROVE  x.due >= c.due + Interval
    <3>1. last[d] # NoSlot /\ c.due <= last[d] /\ last[d] \in Nat
      BY <1>1, <2>1, <2>3, <2>4 DEF Reserves
    <3>2. x.due >= last[d] + Interval
      BY <2>4, <3>1
    <3> HIDE DEF d
    <3> QED BY <1>2, <2>2, <3>1, <3>2
  <2> QED BY <2>4 DEF Apart, c
<1>5. \A g \in Callers : Good(vendor', Ready', token', skipped', last', call'[g])
  BY <1>1, <1>3
<1>6. \A g, h \in Callers : g # h => Apart(call'[g], call'[h])
  BY <1>1, <1>4 DEF CallsInv
<1> QED BY <1>5, <1>6 DEF CallsInv

\* A call that waits at a stage, and one that has its result.
Turned(c, stage, tries, due) == [c EXCEPT !.pc = "waits", !.stage = stage, !.tries = tries, !.due = due]

LEMMA TurnedRow ==
    ASSUME NEW c \in CallRow, NEW stage \in Stages, NEW tries \in Nat, NEW due \in Nat
    PROVE  LET x == Turned(c, stage, tries, due)
           IN  /\ x \in CallRow /\ x.pc = "waits" /\ x.stage = stage /\ x.due = due /\ x.kind = c.kind
               /\ x.could = c.could /\ x.clean = c.clean /\ x.answer = c.answer /\ x.got = c.got
<1> DEFINE one == [c EXCEPT !.pc = "waits"]
           two == [one EXCEPT !.stage = stage]
           three == [two EXCEPT !.tries = tries]
           four == [three EXCEPT !.due = due]
           x == Turned(c, stage, tries, due)
<1>1. one \in CallRow
  BY DEF CallRow
<1>2. x = four
  BY Zenon DEF Turned
<1>3. /\ x.pc = "waits" /\ x.stage = stage /\ x.due = due /\ x.kind = c.kind
      /\ x.could = c.could /\ x.clean = c.clean /\ x.answer = c.answer /\ x.got = c.got
  BY DEF CallRow, Turned
<1> HIDE DEF x, one
<1>4. two \in CallRow
  BY <1>1 DEF CallRow
<1> HIDE DEF two
<1>5. three \in CallRow
  BY <1>4 DEF CallRow
<1> HIDE DEF three
<1>6. four \in CallRow
  BY <1>5 DEF CallRow
<1> QED BY <1>2, <1>3, <1>6 DEF x

Outcomes == {"served", "none", "missing", "refused", "raised"}

LEMMA SettledRow ==
    ASSUME NEW c \in CallRow, NEW p \in Outcomes \cup {"waits"}
    PROVE  LET x == Settled(c, p)
           IN  /\ x \in CallRow /\ x.pc = p /\ x.stage = c.stage /\ x.due = 0 /\ x.kind = c.kind
               /\ x.could = c.could /\ x.clean = c.clean /\ x.got = c.got /\ x.answer = "none"
               /\ x.age = c.age
<1> DEFINE one == [c EXCEPT !.pc = p]
           two == [one EXCEPT !.tries = 0]
           three == [two EXCEPT !.due = 0]
           four == [three EXCEPT !.answer = "none"]
           x == Settled(c, p)
<1>1. one \in CallRow
  BY DEF CallRow, Outcomes
<1>2. x = four
  BY Zenon DEF Settled
<1>3. /\ x.pc = p /\ x.stage = c.stage /\ x.due = 0 /\ x.kind = c.kind
      /\ x.could = c.could /\ x.clean = c.clean /\ x.got = c.got /\ x.answer = "none" /\ x.age = c.age
  BY DEF CallRow, Settled
<1> HIDE DEF x, one
<1>4. two \in CallRow
  BY <1>1 DEF CallRow
<1> HIDE DEF two
<1>5. three \in CallRow
  BY <1>4 DEF CallRow
<1> HIDE DEF three
<1>6. four \in CallRow
  BY <1>5 DEF CallRow
<1> QED BY <1>2, <1>3, <1>6 DEF x

\* The slot that a request is given is after every one of its domain.
LEMMA SlotNext ==
    ASSUME CallShape, NEW d \in Domains
    PROVE  /\ SlotOf(d) \in Nat
           /\ last[d] # NoSlot => SlotOf(d) >= last[d] + Interval
           /\ Reserved(d) \in [Domains -> Nat \cup {NoSlot}]
           /\ \A e \in Domains : Reserved(d)[e] = IF e = d THEN SlotOf(d) ELSE last[e]
           /\ SlotOf(d) # NoSlot
<1>1. /\ last[d] \in Nat \cup {NoSlot} /\ tick \in Nat /\ Interval \in Nat /\ NoSlot \notin Nat
      /\ last \in [Domains -> Nat \cup {NoSlot}]
  BY CallsAssumption DEF CallShape
<1>2. /\ SlotOf(d) \in Nat /\ (last[d] # NoSlot => SlotOf(d) >= last[d] + Interval)
  BY <1>1 DEF SlotOf
<1>3. SlotOf(d) # NoSlot
  BY <1>1, <1>2
<1> HIDE DEF SlotOf
<1> QED BY <1>1, <1>2, <1>3 DEF Reserved

\* Turning to a stage from a call in any state, where what is new about it is in order.
LEMMA TurningInv ==
    ASSUME CallsInv, NEW f \in Callers, NEW c \in CallRow, NEW stage \in Stages, NEW tries \in Nat,
           Turns(f, c, stage, tries), UNCHANGED <<tick, vendor, Ready, skipped, token, told>>,
           quote' \in {quote, NoPrice}, UNCHANGED daily,
           stage \in {"chart", "yf", "again", "batch", "table"} => c.kind \in {"history", "batch"},
           stage \in {"page", "mirror", "history"} => c.kind = "price",
           stage = "official" => vendor = "official" /\ c.kind \in {"history", "batch", "price"},
           stage = "frames" => c.kind = "frames",
           c.could \subseteq Ready, c.could \cap TriedBy(stage) = {},
           c.kind # "frames" /\ token = "bad" => ~c.clean
    PROVE  CallsInv'
<1> DEFINE d == DomainOf(stage)
           due == IF stage \in Limited THEN SlotOf(d) ELSE 0
           x == Turned(c, stage, tries, due)
<1>1. d \in Domains /\ CallShape
  BY DomainTyped DEF CallsInv
<1>2. /\ SlotOf(d) \in Nat
      /\ last[d] # NoSlot => SlotOf(d) >= last[d] + Interval
      /\ Reserved(d) \in [Domains -> Nat \cup {NoSlot}]
      /\ \A e \in Domains : Reserved(d)[e] = IF e = d THEN SlotOf(d) ELSE last[e]
      /\ SlotOf(d) # NoSlot
  BY <1>1, SlotNext
<1>3. due \in Nat
  BY <1>2
<1>4. /\ call' = [call EXCEPT ![f] = x]
      /\ last' = IF stage \in Limited THEN Reserved(d) ELSE last
  BY DEF Turns, Turned
<1>5. /\ x \in CallRow /\ x.pc = "waits" /\ x.stage = stage /\ x.due = due /\ x.kind = c.kind
      /\ x.could = c.could /\ x.clean = c.clean
  <2> HIDE DEF due
  <2> QED BY <1>3, TurnedRow
<1>6. last' \in [Domains -> Nat \cup {NoSlot}]
  BY <1>1, <1>2, <1>4 DEF CallShape
<1>7. \A e \in Domains : last[e] # NoSlot => last'[e] # NoSlot /\ last'[e] >= last[e]
  <2> SUFFICES ASSUME NEW e \in Domains, last[e] # NoSlot
               PROVE  last'[e] # NoSlot /\ last'[e] >= last[e]
    OBVIOUS
  <2>1. last[e] \in Nat /\ Interval \in Nat
    BY <1>1, CallsAssumption DEF CallShape
  <2>2. last'[e] = IF stage \in Limited /\ e = d THEN SlotOf(d) ELSE last[e]
    BY <1>2, <1>4
  <2> HIDE DEF d
  <2> QED BY <1>2, <2>1, <2>2
<1>8. CallShape'
  <2>1. call' \in [Callers -> CallRow]
    BY <1>1, <1>4, <1>5 DEF CallShape
  <2>2. quote' # NoPrice => quote' = quote
    OBVIOUS
  <2> QED BY <1>1, <1>6, <2>1, <2>2 DEF CallShape
<1>9. Slotted(x) => /\ stage \in Limited /\ x.due = SlotOf(d)
                    /\ last'[d] = SlotOf(d)
  BY <1>1, <1>2, <1>4, <1>5 DEF Slotted
<1> HIDE DEF x, due
<1>10. Reserves(last', x)
  BY <1>2, <1>5, <1>9 DEF Reserves
<1>11. Slotted(x) => \/ last[DomainOf(x.stage)] = NoSlot
                     \/ x.due >= last[DomainOf(x.stage)] + Interval
  BY <1>2, <1>5, <1>9
<1>12. Placed(vendor, x) /\ Untried(vendor, Ready, x) /\ Explained(token, x) /\ Recent(x) /\ Own(skipped, x)
  BY <1>5 DEF Placed, Untried, Explained, Recent, Own
<1>13. Good(vendor, Ready, token', skipped, last', x)
  BY <1>10, <1>12 DEF Good
<1> QED BY <1>4, <1>5, <1>7, <1>8, <1>11, <1>13, OneCallMoves

LEMMA StayingInv ==
    ASSUME CallsInv, CallShape', NEW f \in Callers, NEW x \in CallRow,
           call' = [call EXCEPT ![f] = x], UNCHANGED <<vendor, Ready, skipped, last>>,
           token' \in {token, "good"}, ~Slotted(x),
           Placed(vendor, x), Untried(vendor, Ready, x), Explained(token', x), Recent(x), Own(skipped, x)
    PROVE  CallsInv'
<1>1. \A d \in Domains : last[d] # NoSlot => last'[d] # NoSlot /\ last'[d] >= last[d]
  BY DEF CallsInv, CallShape
<1>2. Good(vendor, Ready, token', skipped, last', x)
  BY DEF Good, Reserves
<1> QED BY <1>1, <1>2, OneCallMoves

\* What every action finds.
LEMMA Found ==
    ASSUME CallsInv, NEW f \in Callers
    PROVE  /\ call[f] \in CallRow /\ CallShape /\ Placed(vendor, call[f])
           /\ Untried(vendor, Ready, call[f]) /\ Explained(token, call[f]) /\ Recent(call[f])
BY DEF CallsInv, CallShape, Good

\* A result other than a price from what was asked.
LEMMA SettlingInv ==
    ASSUME CallsInv, NEW f \in Callers, NEW p \in Outcomes,
           call' = [call EXCEPT ![f] = Settled(call[f], p)],
           UNCHANGED <<tick, vendor, Ready, skipped, last, token, told, quote>>,
           daily' \in {daily, NoPrice},
           call[f].pc # "idle" \/ call[f].kind = "frames",
           p = "served" => call[f].kind # "price",
           p \in {"none", "raised"} => call[f].kind # "none"
               /\ (vendor = "yahoo" /\ call[f].kind \in {"history", "batch"} => call[f].could = {}),
           p = "refused" => ~call[f].clean /\ call[f].stage = "official"
    PROVE  CallsInv'
<1> DEFINE k == call[f]
           x == Settled(k, p)
<1>1. /\ k \in CallRow /\ CallShape /\ Placed(vendor, k)
      /\ Untried(vendor, Ready, k) /\ Explained(token, k) /\ Recent(k)
  BY Found
<1>2. /\ x \in CallRow /\ x.pc = p /\ x.stage = k.stage /\ x.due = 0 /\ x.kind = k.kind
      /\ x.could = k.could /\ x.clean = k.clean /\ x.answer = "none"
  <2> HIDE DEF k
  <2> QED BY <1>1, SettledRow
<1>3. call' = [call EXCEPT ![f] = x]
  OBVIOUS
<1>4. CallShape'
  <2> HIDE DEF x
  <2> QED BY <1>1, <1>2, <1>3 DEF CallShape
<1>5. /\ p \in {"none", "raised"} => k.kind # "none"
      /\ p \in {"none", "raised"} /\ vendor = "yahoo" /\ k.kind \in {"history", "batch"} => k.could = {}
      /\ p = "served" => k.kind # "price"
      /\ p = "refused" => ~k.clean /\ k.stage = "official"
      /\ k.pc # "idle" \/ k.kind = "frames"
  OBVIOUS
<1> HIDE DEF x, k
<1>6. Placed(vendor, x) /\ ~Slotted(x)
  BY <1>1, <1>2, <1>5 DEF Placed, Outcomes, Slotted
<1>7. Untried(vendor, Ready, x)
  BY <1>1, <1>2, <1>5 DEF Untried, Outcomes
<1>8. Explained(token', x) /\ Recent(x) /\ Own(skipped, x)
  BY <1>1, <1>2, <1>5 DEF Explained, Recent, Own, Outcomes
<1> QED BY <1>2, <1>3, <1>4, <1>6, <1>7, <1>8, StayingInv

\* A price, from a moment that is not too long ago.
Priced(k, age) == [Settled(k, "served") EXCEPT !.age = age]

LEMMA PricesInv ==
    ASSUME CallsInv, NEW f \in Callers, NEW of \in Nat, Prices(f, of),
           of <= tick, tick - of <= Oldest(DailyTTL), call[f].kind = "price", call[f].pc # "idle",
           UNCHANGED <<tick, vendor, Ready, skipped, token, told>>,
           daily' \in {daily, tick}
    PROVE  CallsInv'
<1> DEFINE k == call[f]
           y == Settled(k, "served")
           x == [y EXCEPT !.age = tick - of]
<1>1. /\ k \in CallRow /\ CallShape /\ Placed(vendor, k)
      /\ Untried(vendor, Ready, k) /\ Explained(token, k)
  BY Found
<1>2. /\ y \in CallRow /\ y.pc = "served" /\ y.stage = k.stage /\ y.due = 0 /\ y.kind = k.kind
      /\ y.could = k.could /\ y.clean = k.clean /\ y.answer = "none"
  <2>1. "served" \in Outcomes \cup {"waits"}
    BY DEF Outcomes
  <2> HIDE DEF k
  <2> QED BY <1>1, <2>1, SettledRow
<1>3. /\ call' = [call EXCEPT ![f] = x] /\ quote' = [of |-> of, at |-> tick] /\ last' = last
  BY DEF Prices
<1>4. tick \in Nat /\ tick - of \in Nat /\ QuoteTTL \in Nat
  BY <1>1, CallsAssumption DEF CallShape
<1>5. k.kind = "price" /\ k.pc # "idle"
  OBVIOUS
<1> HIDE DEF y, k
<1>6. /\ x \in CallRow /\ x.pc = "served" /\ x.stage = k.stage /\ x.due = 0 /\ x.kind = k.kind
      /\ x.could = k.could /\ x.clean = k.clean /\ x.answer = "none" /\ x.age = tick - of
  BY <1>2, <1>4 DEF CallRow
<1> HIDE DEF x
<1>7. CallShape'
  <2>1. call' \in [Callers -> CallRow]
    BY <1>1, <1>3, <1>6 DEF CallShape
  <2>2. quote'.of = of /\ quote'.at = tick
    BY <1>3
  <2> QED BY <1>1, <1>3, <1>4, <2>1, <2>2 DEF CallShape
<1>8. Oldest(QuoteTTL) \in Nat
  BY <1>4 DEF Oldest
<1>81. Oldest(DailyTTL) \in Nat
  BY CallsAssumption DEF Oldest
<1>9. Recent(x)
  BY <1>4, <1>6, <1>8, <1>81 DEF Recent
<1>10. Placed(vendor, x) /\ Untried(vendor, Ready, x) /\ Explained(token', x) /\ Own(skipped, x)
       /\ ~Slotted(x)
  BY <1>1, <1>5, <1>6 DEF Placed, Untried, Explained, Own, Slotted
<1> QED BY <1>3, <1>6, <1>7, <1>9, <1>10, StayingInv

\* What a call opens with.
LEMMA OpenedRow ==
    ASSUME CallsInv, NEW kind \in {"history", "batch", "price", "frames"}
    PROVE  /\ Opened(kind) \in CallRow /\ Opened(kind).kind = kind
           /\ Opened(kind).could \subseteq Ready
           /\ token = "bad" => ~Opened(kind).clean
           /\ Opened(kind).answer = "none" /\ Opened(kind).due = 0 /\ Opened(kind).stage = "none"
<1> DEFINE c == IF vendor = "yahoo" /\ kind \in {"history", "batch"} THEN Ready ELSE {}
           b == token # "bad" \/ told
<1>1. c \in SUBSET Sources /\ c \subseteq Ready /\ b \in BOOLEAN /\ (token = "bad" => ~b)
  BY DEF CallsInv, CallShape
<1> DEFINE one == [NoCall EXCEPT !.kind = kind]
           two == [one EXCEPT !.could = c]
           x == [two EXCEPT !.clean = b]
<1>2. Opened(kind) = x
  BY Zenon DEF Opened
<1> HIDE DEF c, b
<1>3. one \in CallRow /\ one.kind = kind /\ one.answer = "none" /\ one.due = 0 /\ one.stage = "none"
  BY DEF NoCall, CallRow, Stages, Limited
<1> HIDE DEF one
<1>4. /\ two \in CallRow /\ two.kind = kind /\ two.answer = "none" /\ two.due = 0 /\ two.stage = "none"
      /\ two.could = c
  BY <1>1, <1>3 DEF CallRow
<1> HIDE DEF two
<1>5. /\ x \in CallRow /\ x.kind = kind /\ x.answer = "none" /\ x.due = 0 /\ x.stage = "none" /\ x.could = c
  BY <1>1, <1>4 DEF CallRow
<1>6. ~b => ~x.clean
  BY <1>1, <1>4 DEF CallRow
<1> HIDE DEF x
<1> QED BY <1>1, <1>2, <1>5, <1>6

LEMMA CallsHistoryInv == ASSUME CallsInv, NEW f \in Callers, CallsHistory(f) PROVE CallsInv'
<1> DEFINE c == Opened("history")
           stage == IF vendor = "official" THEN "official" ELSE FirstSource
<1>1. /\ c \in CallRow /\ c.kind = "history" /\ c.could \subseteq Ready /\ (token = "bad" => ~c.clean)
  BY OpenedRow
<1>2. /\ stage \in Stages /\ (stage = "official" => vendor = "official")
      /\ stage \in {"official", "chart", "yf"} /\ c.could \cap TriedBy(stage) = {}
  <2>1. stage = "yf" => ~listed
    BY DEF FirstSource
  <2>2. ~listed => c.could \subseteq {"yf"}
    BY <1>1 DEF Ready
  <2>3. stage \in {"official", "chart", "yf"} /\ (stage = "official" => vendor = "official")
    BY DEF FirstSource
  <2> HIDE DEF c, stage
  <2> QED BY <2>1, <2>2, <2>3 DEF Stages, Limited, TriedBy
<1>3. /\ Turns(f, c, stage, 1) /\ UNCHANGED <<tick, vendor, Ready, skipped, token, told, quote, daily>>
  BY DEF CallsHistory, Ready
<1> HIDE DEF c, stage
<1> QED BY <1>1, <1>2, <1>3, TurningInv

LEMMA CallsBatchInv == ASSUME CallsInv, NEW f \in Callers, CallsBatch(f) PROVE CallsInv'
<1> DEFINE c == Opened("batch")
           stage == IF vendor = "official" THEN "official" ELSE "batch"
<1>1. /\ c \in CallRow /\ c.kind = "batch" /\ c.could \subseteq Ready /\ (token = "bad" => ~c.clean)
  BY OpenedRow
<1>2. /\ stage \in Stages /\ (stage = "official" => vendor = "official")
      /\ stage \in {"official", "batch"} /\ TriedBy(stage) = {}
  BY DEF Stages, Limited, TriedBy
<1>3. /\ Turns(f, c, stage, 1) /\ UNCHANGED <<tick, vendor, Ready, skipped, token, told, quote, daily>>
  BY DEF CallsBatch, Ready
<1> HIDE DEF c, stage
<1> QED BY <1>1, <1>2, <1>3, TurningInv

LEMMA CallsFramesInv == ASSUME CallsInv, NEW f \in Callers, CallsFrames(f) PROVE CallsInv'
<1> DEFINE c == Opened("frames")
<1>1. /\ c \in CallRow /\ c.kind = "frames" /\ c.could \subseteq Ready
  BY OpenedRow
<1>2. "frames" \in Stages /\ TriedBy("frames") = {}
  BY DEF Stages, TriedBy
<1>3. /\ Turns(f, c, "frames", 1) /\ UNCHANGED <<tick, vendor, Ready, skipped, token, told, quote, daily>>
  BY DEF CallsFrames, Ready
<1> HIDE DEF c
<1> QED BY <1>1, <1>2, <1>3, TurningInv

\* A price from the cache of quotes, no older than the two caches allow.
LEMMA CallsPriceInv == ASSUME CallsInv, NEW f \in Callers, CallsPrice(f) PROVE CallsInv'
<1> DEFINE c == Opened("price")
<1>1. /\ c \in CallRow /\ c.kind = "price" /\ c.could \subseteq Ready /\ (token = "bad" => ~c.clean)
      /\ c.answer = "none" /\ c.due = 0 /\ c.stage = "none"
  BY OpenedRow
<1>2. UNCHANGED <<tick, vendor, Ready, skipped, token, told, daily>>
  BY DEF CallsPrice, Ready
<1>3. CASE ~CachedQuote
  <2> DEFINE stage == IF scraping THEN "page" ELSE "history"
  <2>1. stage \in Stages /\ stage \in {"page", "history"} /\ TriedBy(stage) = {}
    BY DEF Stages, Limited, TriedBy
  <2>2. Turns(f, c, stage, 1) /\ quote' = NoPrice
    BY <1>3 DEF CallsPrice
  <2> HIDE DEF c, stage
  <2> QED BY <1>1, <1>2, <2>1, <2>2, TurningInv
<1>4. CASE CachedQuote
  <2> DEFINE age == tick - quote.of
             x == [c EXCEPT !.pc = "served", !.age = age]
  <2>1. /\ call' = [call EXCEPT ![f] = x] /\ UNCHANGED <<last, quote>>
    BY <1>4 DEF CallsPrice
  <2>2. /\ tick \in Nat /\ quote.of \in Nat /\ quote.at \in Nat /\ quote.of <= quote.at /\ quote.at <= tick
        /\ quote.at - quote.of <= Oldest(DailyTTL) /\ tick - quote.at < QuoteTTL /\ QuoteTTL \in Nat
    BY <1>4, CallsAssumption DEF CachedQuote, CallsInv, CallShape
  <2>3. Oldest(DailyTTL) \in Nat
    BY CallsAssumption DEF Oldest
  <2>4. age \in Nat /\ age <= Oldest(QuoteTTL) + Oldest(DailyTTL)
    <3>1. Oldest(QuoteTTL) = QuoteTTL - 1
      BY <2>2 DEF Oldest
    <3> QED BY <2>2, <2>3, <3>1
  <2> HIDE DEF c, age
  <2>5. x \in CallRow
    <3> DEFINE one == [c EXCEPT !.pc = "served"]
    <3>1. one \in CallRow
      BY <1>1 DEF CallRow
    <3>2. x = [one EXCEPT !.age = age]
      BY Zenon
    <3> HIDE DEF one, x
    <3> QED BY <2>4, <3>1, <3>2 DEF CallRow
  <2>6. /\ x.pc = "served" /\ x.kind = "price" /\ x.could \subseteq Ready /\ (token = "bad" => ~x.clean)
        /\ x.stage = "none" /\ x.age = age
    BY <1>1 DEF CallRow
  <2> HIDE DEF x
  <2>7. CallShape'
    BY <1>2, <2>1, <2>5 DEF CallsInv, CallShape
  <2>8. /\ Placed(vendor, x) /\ Untried(vendor, Ready, x) /\ Explained(token', x) /\ Recent(x)
        /\ Own(skipped, x) /\ ~Slotted(x)
    BY <1>2, <2>4, <2>6 DEF Placed, Untried, Explained, Recent, Own, Slotted
  <2> QED BY <1>2, <2>1, <2>5, <2>7, <2>8, StayingInv
<1> QED BY <1>3, <1>4

\* A source is passed only when it did not deliver.
LEMMA AsksYahooInv == ASSUME CallsInv, NEW f \in Callers, AsksYahoo(f) PROVE CallsInv'
<1> DEFINE k == call[f]
<1>1. /\ k \in CallRow /\ CallShape /\ Placed(vendor, k)
      /\ Untried(vendor, Ready, k) /\ Explained(token, k)
  BY Found
<1>2. /\ k.pc = "waits" /\ k.stage \in {"chart", "yf", "again", "batch", "table"}
      /\ UNCHANGED <<tick, vendor, Ready, token, told, quote, daily, skipped>>
  BY DEF AsksYahoo, Due, Ready
<1>3. k.kind \in {"history", "batch"} /\ k.could \subseteq Ready /\ k.could \cap TriedBy(k.stage) = {}
      /\ (token = "bad" => ~k.clean) /\ k.could \subseteq Sources /\ k.tries \in Nat
  BY <1>1, <1>2 DEF Placed, Untried, Explained, CallRow
<1>4. CASE call' = [call EXCEPT ![f] = Settled(call[f], "served")] /\ last' = last
  <2>1. "served" \in Outcomes
    BY DEF Outcomes
  <2> QED BY <1>2, <1>3, <1>4, <2>1, SettlingInv
<1>5. CASE call' = [call EXCEPT ![f] = Settled(call[f], "missing")] /\ last' = last
  <2>1. "missing" \in Outcomes
    BY DEF Outcomes
  <2> QED BY <1>2, <1>3, <1>5, <2>1, SettlingInv
<1>55. SourceOf(k.stage) \notin working => SourceOf(k.stage) \notin k.could
  BY <1>3 DEF Ready
<1>56. ~listed => k.could \subseteq {"yf"}
  BY <1>3 DEF Ready
<1>6. ASSUME SourceOf(k.stage) \notin working, NEW failure \in {"empty", "busy", "error"},
             NextSource(f, failure)
      PROVE  CallsInv'
  <2>2. SourceOf(k.stage) \notin k.could
    BY <1>55, <1>6
  <2>3. ASSUME NEW stage \in Stages, NEW tries \in Nat, Turns(f, k, stage, tries),
               stage \in {"chart", "yf", "again", "batch", "table"}, k.could \cap TriedBy(stage) = {}
        PROVE  CallsInv'
    <3> HIDE DEF k
    <3> QED BY <1>1, <1>2, <1>3, <2>3, TurningInv
  <2>4. /\ {"chart", "yf", "again", "batch", "table"} \subseteq Stages /\ k.tries + 1 \in Nat /\ 1 \in Nat
    BY <1>3 DEF Stages, Limited
  <2>5. CASE k.stage = "chart"
    <3>1. Turns(f, k, "yf", 1)
      BY <1>6, <2>5 DEF NextSource
    <3>2. k.could \cap TriedBy("yf") = {}
      BY <2>2, <2>5 DEF TriedBy, SourceOf
    <3> QED BY <2>3, <2>4, <3>1, <3>2
  <2>6. CASE k.stage = "yf"
    <3>1. \/ Turns(f, k, "yf", k.tries + 1) \/ Turns(f, k, "again", 1)
          \/ ~listed /\ Results(f, "none")
      BY <1>6, <2>6 DEF NextSource
    <3>2. k.could \cap TriedBy("yf") = {} /\ k.could \cap TriedBy("again") = {}
      BY <1>3, <2>2, <2>6 DEF TriedBy, SourceOf
    <3>3. CASE ~listed /\ Results(f, "none")
      <4>1. k.could = {}
        BY <1>56, <2>2, <2>6, <3>3 DEF SourceOf
      <4>2. "none" \in Outcomes /\ call' = [call EXCEPT ![f] = Settled(call[f], "none")] /\ last' = last
        BY <3>3 DEF Outcomes, Results
      <4> QED BY <1>2, <1>3, <4>1, <4>2, SettlingInv
    <3> QED BY <2>3, <2>4, <3>1, <3>2, <3>3
  <2>7. CASE k.stage = "again"
    <3>1. Turns(f, k, "table", 1)
      BY <1>6, <2>7 DEF NextSource
    <3>2. k.could \cap TriedBy("table") = {}
      BY <1>3, <2>7 DEF TriedBy
    <3> QED BY <2>3, <2>4, <3>1, <3>2
  <2>8. CASE k.stage = "batch"
    <3>1. \/ Turns(f, k, "batch", k.tries + 1) \/ Turns(f, k, "chart", 1)
          \/ ~listed /\ Turns(f, k, "yf", 1)
      BY <1>6, <2>8 DEF NextSource, FirstSource
    <3>2. /\ k.could \cap TriedBy("batch") = {} /\ k.could \cap TriedBy("chart") = {}
          /\ ~listed => k.could \cap TriedBy("yf") = {}
      BY <1>56 DEF TriedBy
    <3> QED BY <2>3, <2>4, <3>1, <3>2
  <2>9. CASE k.stage = "table"
    <3>1. PICK p \in {"none", "raised"} : Results(f, p)
      BY <1>6, <2>9 DEF NextSource
    <3>2. k.could = {}
      BY <1>3, <2>2, <2>9 DEF TriedBy, SourceOf, Sources
    <3>3. p \in Outcomes /\ call' = [call EXCEPT ![f] = Settled(call[f], p)] /\ last' = last
      BY <3>1 DEF Outcomes, Results
    <3> QED BY <1>2, <1>3, <3>1, <3>2, <3>3, SettlingInv
  <2> QED BY <1>2, <2>5, <2>6, <2>7, <2>8, <2>9
<1> QED BY <1>4, <1>5, <1>6 DEF AsksYahoo, Results

\* A call of the vendor that turns to another of its steps.
LEMMA VendorStepInv ==
    ASSUME CallsInv, NEW f \in Callers, NEW x \in CallRow, call' = [call EXCEPT ![f] = x],
           UNCHANGED <<tick, vendor, Ready, skipped, last, quote, daily>>,
           token' \in {token, "good"}, told' \in BOOLEAN, told' => token' = "none",
           call[f].stage = "official", call[f].pc \in {"waits", "stamps", "sends", "hears"},
           x.stage = "official", x.kind = call[f].kind, x.could = call[f].could, x.clean = call[f].clean,
           x.pc \in {"waits", "stamps", "sends", "hears"}, x.pc = "waits" => x.due = 0,
           x.pc \in {"stamps", "sends"} => token' # "none" \/ call[f].pc = "stamps",
           x.pc = "hears" /\ x.answer = "401" => ~x.clean
    PROVE  CallsInv'
<1> DEFINE k == call[f]
<1>1. /\ k \in CallRow /\ CallShape /\ Placed(vendor, k)
      /\ Untried(vendor, Ready, k) /\ Explained(token, k)
  BY Found
<1>2. CallShape'
  BY <1>1 DEF CallShape
<1>3. /\ vendor = "official" /\ k.kind \in {"history", "batch", "price"} /\ k.could \subseteq Ready
      /\ (token = "bad" => ~k.clean) /\ (k.pc = "stamps" /\ token = "none" => ~k.clean)
  BY <1>1 DEF Placed, Untried, Explained
<1>4. Placed(vendor, x) /\ Untried(vendor, Ready, x) /\ Recent(x) /\ Own(skipped, x) /\ ~Slotted(x)
  BY <1>3 DEF Placed, Untried, Recent, Own, Slotted, TriedBy
<1>5. Explained(token', x)
  BY <1>3 DEF Explained
<1> QED BY <1>2, <1>4, <1>5, StayingInv

LEMMA RetriesInv ==
    ASSUME CallsInv, NEW f \in Callers, NEW failure \in {"busy", "lost"}, Retries(f, failure),
           UNCHANGED <<tick, vendor, Ready, skipped, last, quote, daily, token, told>>,
           call[f].stage = "official", call[f].pc \in {"waits", "hears"}
    PROVE  CallsInv'
<1> DEFINE k == call[f]
<1>1. /\ k \in CallRow /\ CallShape /\ Placed(vendor, k)
  BY Found
<1>2. vendor = "official" /\ k.kind # "none"
  BY <1>1 DEF Placed
<1>3. CASE k.tries < MaxTries
  <2> DEFINE y == Settled(k, "waits")
             n == k.tries + 1
             x == [y EXCEPT !.tries = n]
  <2>1. call' = [call EXCEPT ![f] = x]
    BY <1>3 DEF Retries
  <2>2. n \in Nat /\ "waits" \in Outcomes \cup {"waits"}
    BY <1>1 DEF CallRow
  <2>3. /\ y \in CallRow /\ y.pc = "waits" /\ y.stage = k.stage /\ y.due = 0 /\ y.kind = k.kind
        /\ y.could = k.could /\ y.clean = k.clean
    <3> HIDE DEF k
    <3> QED BY <1>1, <2>2, SettledRow
  <2> HIDE DEF y, n
  <2>4. /\ x \in CallRow /\ x.pc = "waits" /\ x.stage = k.stage /\ x.due = 0 /\ x.kind = k.kind
        /\ x.could = k.could /\ x.clean = k.clean
    <3> HIDE DEF k
    <3> QED BY <2>2, <2>3 DEF CallRow
  <2>5. told \in BOOLEAN /\ (told => token = "none")
    BY <1>1 DEF CallShape
  <2> HIDE DEF x
  <2> QED BY <2>1, <2>4, <2>5, VendorStepInv
<1>4. CASE ~(k.tries < MaxTries)
  <2>1. PICK p \in {"none", "raised"} : call' = [call EXCEPT ![f] = Settled(call[f], p)]
    BY <1>4 DEF Retries
  <2>2. p \in Outcomes
    BY DEF Outcomes
  <2> QED BY <1>2, <2>1, <2>2, SettlingInv
<1> QED BY <1>3, <1>4

LEMMA EnsuresAuthInv == ASSUME CallsInv, NEW f \in Callers, EnsuresAuth(f) PROVE CallsInv'
<1> DEFINE k == call[f]
<1>1. /\ k \in CallRow /\ CallShape /\ Placed(vendor, k)
  BY Found
<1>2. /\ k.stage = "official" /\ k.pc = "waits"
      /\ UNCHANGED <<tick, vendor, Ready, skipped, last, quote, daily>>
      /\ (told => token = "none") /\ told \in BOOLEAN /\ vendor = "official" /\ k.kind # "none"
  BY <1>1 DEF EnsuresAuth, Due, CallShape, Placed, Ready
<1>3. ASSUME NEW p \in {"stamps", "sends"}, call' = [call EXCEPT ![f].pc = p, ![f].due = 0],
             token' # "none", token' \in {token, "good"}, ~told', told' \in BOOLEAN
      PROVE  CallsInv'
  <2> DEFINE y == [k EXCEPT !.pc = p]
             x == [y EXCEPT !.due = 0]
  <2>1. call' = [call EXCEPT ![f] = x]
    BY <1>1, <1>3 DEF CallShape
  <2>2. y \in CallRow
    <3> HIDE DEF k
    <3> QED BY <1>1, <1>3 DEF CallRow
  <2>3. y.pc = p /\ y.stage = k.stage /\ y.kind = k.kind /\ y.could = k.could /\ y.clean = k.clean
    <3> HIDE DEF k
    <3> QED BY <1>1 DEF CallRow
  <2> HIDE DEF y
  <2>4. /\ x \in CallRow /\ x.pc = p /\ x.stage = k.stage /\ x.kind = k.kind /\ x.could = k.could
        /\ x.clean = k.clean
    BY <2>2, <2>3 DEF CallRow
  <2> HIDE DEF x
  <2> QED BY <1>2, <1>3, <2>1, <2>4, VendorStepInv, ZenonT(60)
<1>4. CASE /\ token # "none" /\ tick < expires
           /\ call' = [call EXCEPT ![f].pc = "sends", ![f].due = 0] /\ KeepsToken
  BY <1>2, <1>3, <1>4 DEF KeepsToken
<1>5. CASE /\ token' = "good" /\ told' = FALSE /\ UNCHANGED expires
           /\ call' = [call EXCEPT ![f].pc = "stamps", ![f].due = 0]
  BY <1>3, <1>5
<1>6. CASE (\E failure \in {"busy", "lost"} : Retries(f, failure)) /\ KeepsToken
  BY <1>2, <1>6, RetriesInv DEF KeepsToken
<1>7. CASE call' = [call EXCEPT ![f] = Settled(@, "none")] /\ KeepsToken
  <2>1. "none" \in Outcomes /\ call' = [call EXCEPT ![f] = Settled(call[f], "none")]
    BY <1>7 DEF Outcomes
  <2> QED BY <1>2, <1>7, <2>1, SettlingInv DEF KeepsToken
<1> QED BY <1>4, <1>5, <1>6, <1>7 DEF EnsuresAuth

LEMMA StampsExpiryInv == ASSUME CallsInv, NEW f \in Callers, StampsExpiry(f) PROVE CallsInv'
<1> DEFINE k == call[f]
           x == [k EXCEPT !.pc = "sends"]
<1>1. /\ k \in CallRow /\ CallShape /\ Placed(vendor, k)
  BY Found
<1>2. /\ k.stage = "official" /\ k.pc = "stamps" /\ call' = [call EXCEPT ![f] = x]
      /\ UNCHANGED <<tick, vendor, Ready, skipped, last, quote, daily, token, told>>
      /\ (told => token = "none") /\ told \in BOOLEAN
  BY <1>1 DEF StampsExpiry, CallShape, Placed, Ready
<1>3. /\ x \in CallRow /\ x.pc = "sends" /\ x.stage = k.stage /\ x.kind = k.kind /\ x.could = k.could
      /\ x.clean = k.clean
  <2> HIDE DEF k
  <2> QED BY <1>1 DEF CallRow
<1> HIDE DEF x
<1> QED BY <1>2, <1>3, VendorStepInv

LEMMA SendsRequestInv == ASSUME CallsInv, NEW f \in Callers, SendsRequest(f) PROVE CallsInv'
<1> DEFINE k == call[f]
<1>1. /\ k \in CallRow /\ CallShape /\ Placed(vendor, k) /\ Explained(token, k)
  BY Found
<1>2. /\ k.stage = "official" /\ k.pc = "sends" /\ token \in {"none", "good", "bad"}
      /\ UNCHANGED <<tick, vendor, Ready, skipped, last, quote, daily, token, told>>
      /\ (told => token = "none") /\ told \in BOOLEAN
  BY <1>1 DEF SendsRequest, CallShape, Placed, Ready
<1>3. token # "good" => ~k.clean
  BY <1>1, <1>2 DEF Explained, Placed
<1>4. PICK answer \in {"ok", "busy", "error"} :
         call' = [call EXCEPT ![f].pc = "hears", ![f].answer = IF token = "good" THEN answer ELSE "401"]
  BY DEF SendsRequest
<1> DEFINE heard == IF token = "good" THEN answer ELSE "401"
           y == [k EXCEPT !.pc = "hears"]
           x == [y EXCEPT !.answer = heard]
<1>5. call' = [call EXCEPT ![f] = x]
  BY <1>1, <1>4 DEF CallShape
<1>6. heard \in {"ok", "busy", "error", "401"} /\ (heard = "401" => ~k.clean)
  BY <1>3
<1> HIDE DEF heard
<1>7. /\ y \in CallRow /\ y.pc = "hears" /\ y.stage = k.stage /\ y.kind = k.kind /\ y.could = k.could
      /\ y.clean = k.clean
  <2> HIDE DEF k
  <2> QED BY <1>1 DEF CallRow
<1> HIDE DEF y
<1>8. /\ x \in CallRow /\ x.pc = "hears" /\ x.stage = k.stage /\ x.kind = k.kind /\ x.could = k.could
      /\ x.clean = k.clean /\ x.answer = heard
  BY <1>6, <1>7 DEF CallRow
<1> HIDE DEF x
<1> QED BY <1>2, <1>5, <1>6, <1>8, VendorStepInv

\* A step that takes from others that they look blameless.
Blamed(c) == [c EXCEPT !.clean = FALSE]

LEMMA BlamedRow ==
    ASSUME NEW c \in CallRow
    PROVE  /\ Blamed(c) \in CallRow /\ ~Blamed(c).clean /\ Blamed(c).pc = c.pc /\ Blamed(c).kind = c.kind
           /\ Blamed(c).stage = c.stage /\ Blamed(c).could = c.could /\ Blamed(c).due = c.due
           /\ Blamed(c).age = c.age
BY DEF Blamed, CallRow

LEMMA BlamedGood ==
    ASSUME NEW v, NEW w, NEW t, NEW s, NEW l, NEW c \in CallRow, Good(v, w, t, s, l, c), NEW u, NEW n
    PROVE  Good(v, w, u, n, l, Blamed(c))
<1> DEFINE x == Blamed(c)
<1>1. /\ x \in CallRow /\ ~x.clean /\ x.pc = c.pc /\ x.kind = c.kind
      /\ x.stage = c.stage /\ x.could = c.could /\ x.due = c.due /\ x.age = c.age
  BY BlamedRow
<1> HIDE DEF x
<1> QED BY <1>1 DEF Good, Placed, Untried, Explained, Recent, Own, Reserves, Slotted, x

LEMMA HearsRefusalInv == ASSUME CallsInv, NEW f \in Callers, HearsRefusal(f) PROVE CallsInv'
<1> DEFINE k == call[f]
           x == Settled(k, "refused")
<1>1. /\ k \in CallRow /\ CallShape /\ Placed(vendor, k) /\ Explained(token, k) /\ Untried(vendor, Ready, k)
  BY Found
<1>2. /\ UNCHANGED <<tick, vendor, Ready, skipped, last, quote, daily>>
      /\ token' = "none" /\ told' = TRUE /\ k.pc = "hears" /\ k.answer = "401"
      /\ call' = [g \in Callers |-> IF g = f THEN x ELSE Blamed(call[g])]
  BY DEF HearsRefusal, ClearsAuth, Blamed, Ready
<1>3. ~k.clean /\ k.stage = "official"
  BY <1>1, <1>2 DEF Explained, Placed
<1>4. /\ x \in CallRow /\ x.pc = "refused" /\ x.stage = k.stage /\ x.due = 0 /\ x.kind = k.kind
      /\ x.could = k.could /\ x.clean = k.clean
  <2>1. "refused" \in Outcomes \cup {"waits"}
    BY DEF Outcomes
  <2> HIDE DEF k
  <2> QED BY <1>1, <2>1, SettledRow
<1> HIDE DEF x
<1>5. Good(vendor, Ready, "none", skipped, last, x) /\ ~Slotted(x)
  BY <1>1, <1>3, <1>4 DEF Good, Placed, Untried, Explained, Recent, Own, Reserves, Slotted
<1>6. \A g \in Callers : /\ call[g] \in CallRow /\ Blamed(call[g]) \in CallRow
                         /\ Good(vendor, Ready, "none", skipped, last, Blamed(call[g]))
  BY <1>1, BlamedRow, BlamedGood DEF CallsInv, CallShape
<1>7. \A g \in Callers : /\ call'[g] \in CallRow
                         /\ Good(vendor, Ready, "none", skipped, last, call'[g])
  BY <1>2, <1>4, <1>5, <1>6
<1>8. ASSUME NEW g \in Callers, NEW h \in Callers, g # h
      PROVE  Apart(call'[g], call'[h])
  <2>1. Apart(call[g], call[h]) /\ call[g] \in CallRow /\ call[h] \in CallRow
    BY <1>6, <1>8 DEF CallsInv
  <2>2. Apart(Blamed(call[g]), Blamed(call[h]))
    BY <2>1, BlamedRow DEF Apart, Slotted
  <2>3. call'[g] \in {x, Blamed(call[g])} /\ call'[h] \in {x, Blamed(call[h])}
    BY <1>2
  <2> QED BY <1>2, <1>5, <2>2, <2>3 DEF Apart
<1>9. CallShape'
  <2>1. call' \in [Callers -> CallRow]
    BY <1>2, <1>4, <1>6
  <2> QED BY <1>1, <1>2, <2>1 DEF CallShape
<1> QED BY <1>2, <1>7, <1>8, <1>9 DEF CallsInv

LEMMA HearsAnswerInv == ASSUME CallsInv, NEW f \in Callers, HearsAnswer(f) PROVE CallsInv'
<1> DEFINE k == call[f]
<1>1. /\ k \in CallRow /\ CallShape /\ Placed(vendor, k)
  BY Found
<1>2. /\ k.stage = "official" /\ k.pc = "hears" /\ vendor = "official" /\ k.kind # "none"
      /\ UNCHANGED <<tick, vendor, Ready, skipped, daily, token, told>> /\ tick \in Nat
      /\ k.answer \in {"none", "ok", "401", "busy", "error"}
  BY <1>1 DEF HearsAnswer, CallShape, Placed, CallRow, Ready
<1>3. CASE k.answer = "ok" /\ k.kind = "price"
  <2>1. Prices(f, tick)
    BY <1>3 DEF HearsAnswer
  <2>2. tick <= tick /\ tick - tick <= Oldest(DailyTTL)
    BY <1>2, CallsAssumption DEF Oldest
  <2> QED BY <1>2, <1>3, <2>1, <2>2, PricesInv
<1>4. CASE k.answer = "ok" /\ k.kind # "price"
  <2>1. Results(f, "served") /\ UNCHANGED quote
    BY <1>4 DEF HearsAnswer
  <2>2. "served" \in Outcomes /\ call' = [call EXCEPT ![f] = Settled(call[f], "served")] /\ last' = last
    BY <2>1 DEF Outcomes, Results
  <2> QED BY <1>2, <1>4, <2>1, <2>2, SettlingInv
<1>5. CASE k.answer = "busy"
  <2>1. \E failure \in {"busy", "lost"} : Retries(f, failure) /\ UNCHANGED <<last, quote>>
    BY <1>5 DEF HearsAnswer
  <2> QED BY <1>2, <2>1, RetriesInv
<1>6. CASE k.answer \notin {"ok", "busy"}
  <2>1. Results(f, "none") /\ UNCHANGED quote
    BY <1>6 DEF HearsAnswer
  <2>2. "none" \in Outcomes /\ call' = [call EXCEPT ![f] = Settled(call[f], "none")] /\ last' = last
    BY <2>1 DEF Outcomes, Results
  <2> QED BY <1>2, <2>1, <2>2, SettlingInv
<1> QED BY <1>3, <1>4, <1>5, <1>6

\* A call for a price that turns to another stage of it.
LEMMA PriceTurnsInv ==
    ASSUME CallsInv, NEW f \in Callers, NEW stage \in {"mirror", "official", "history"},
           Turns(f, call[f], stage, 1), stage = "official" => vendor = "official",
           call[f].kind = "price", call[f].pc # "idle",
           UNCHANGED <<tick, vendor, Ready, skipped, token, told, quote, daily>>
    PROVE  CallsInv'
<1> DEFINE k == call[f]
<1>1. /\ k \in CallRow /\ Untried(vendor, Ready, k) /\ Explained(token, k)
  BY Found
<1>2. k.could \subseteq Ready /\ (token = "bad" => ~k.clean)
  BY <1>1 DEF Untried, Explained
<1>3. stage \in Stages /\ TriedBy(stage) = {}
  BY DEF Stages, Limited, TriedBy
<1>4. k.kind = "price" /\ Turns(f, k, stage, 1)
  OBVIOUS
<1> HIDE DEF k
<1> QED BY <1>1, <1>2, <1>3, <1>4, TurningInv

LEMMA AsksPageInv == ASSUME CallsInv, NEW f \in Callers, AsksPage(f) PROVE CallsInv'
<1> DEFINE k == call[f]
<1>1. /\ k \in CallRow /\ CallShape /\ Placed(vendor, k)
  BY Found
<1>2. /\ k.stage \in {"page", "mirror"} /\ k.pc = "waits" /\ k.kind = "price"
      /\ UNCHANGED <<tick, vendor, Ready, skipped, daily, token, told>> /\ tick \in Nat
  BY <1>1 DEF AsksPage, Due, CallShape, Placed, Ready
<1>3. CASE Prices(f, tick)
  <2>1. tick <= tick /\ tick - tick <= Oldest(DailyTTL)
    BY <1>2, CallsAssumption DEF Oldest
  <2> QED BY <1>2, <1>3, <2>1, PricesInv
<1>4. CASE UNCHANGED quote /\ Turns(f, k, "mirror", 1)
  BY <1>2, <1>4, PriceTurnsInv
<1>5. CASE UNCHANGED quote /\ vendor = "official" /\ Turns(f, k, "official", 1)
  BY <1>2, <1>5, PriceTurnsInv
<1>6. CASE UNCHANGED quote /\ Turns(f, k, "history", 1)
  BY <1>2, <1>6, PriceTurnsInv
<1> QED BY <1>2, <1>3, <1>4, <1>5, <1>6 DEF AsksPage

LEMMA FallsToHistoryInv == ASSUME CallsInv, NEW f \in Callers, FallsToHistory(f) PROVE CallsInv'
BY PriceTurnsInv DEF FallsToHistory, Ready

LEMMA PricesFromHistoryInv == ASSUME CallsInv, NEW f \in Callers, PricesFromHistory(f) PROVE CallsInv'
<1> DEFINE k == call[f]
<1>1. /\ k \in CallRow /\ CallShape /\ Placed(vendor, k)
  BY Found
<1>2. /\ k.stage = "history" /\ k.pc = "waits" /\ k.kind = "price"
      /\ UNCHANGED <<tick, vendor, Ready, skipped, token, told>> /\ tick \in Nat
      /\ (daily # NoPrice => daily \in Nat /\ daily <= tick) /\ DailyTTL \in Nat
  BY <1>1, CallsAssumption DEF PricesFromHistory, Due, CallShape, Placed, Ready
<1>3. CASE daily # NoPrice /\ tick - daily < DailyTTL
  <2>1. Prices(f, daily) /\ UNCHANGED daily
    BY <1>3 DEF PricesFromHistory
  <2>2. tick - daily <= Oldest(DailyTTL)
    BY <1>2, <1>3 DEF Oldest
  <2> QED BY <1>2, <1>3, <2>1, <2>2, PricesInv
<1>4. CASE daily' = tick /\ Prices(f, tick)
  <2>1. tick <= tick /\ tick - tick <= Oldest(DailyTTL)
    BY <1>2 DEF Oldest
  <2> QED BY <1>2, <1>4, <2>1, PricesInv
<1>5. CASE daily' = NoPrice /\ Results(f, "none") /\ UNCHANGED quote
  <2>1. "none" \in Outcomes /\ call' = [call EXCEPT ![f] = Settled(call[f], "none")] /\ last' = last
    BY <1>5 DEF Outcomes, Results
  <2> QED BY <1>2, <1>5, <2>1, SettlingInv
<1> QED BY <1>3, <1>4, <1>5 DEF PricesFromHistory

LEMMA ReadsSkippedInv == ASSUME CallsInv, NEW f \in Callers, ReadsSkipped(f) PROVE CallsInv'
<1>1. call[f].kind = "frames" /\ call[f].pc = "reads"
  BY Found DEF ReadsSkipped, Placed
<1>2. "served" \in Outcomes /\ call' = [call EXCEPT ![f] = Settled(call[f], "served")] /\ last' = last
  BY DEF Outcomes, Results, ReadsSkipped
<1> QED BY <1>1, <1>2, SettlingInv DEF ReadsSkipped, Ready

LEMMA ReturnsInv == ASSUME CallsInv, NEW f \in Callers, Returns(f) PROVE CallsInv'
<1>1. NoCall \in CallRow
  BY DEF NoCall, CallRow, Stages, Limited
<1>2. /\ NoCall.pc = "idle" /\ NoCall.kind = "none" /\ NoCall.stage = "none" /\ NoCall.could = {}
      /\ NoCall.due = 0
  BY DEF NoCall
<1> HIDE DEF NoCall
<1>3. /\ UNCHANGED <<tick, vendor, Ready, skipped, last, quote, daily, token, told>>
      /\ call' = [call EXCEPT ![f] = NoCall]
  BY DEF Returns, Ready
<1>4. CallShape'
  BY <1>1, <1>3 DEF CallsInv, CallShape
<1>5. /\ Placed(vendor, NoCall) /\ Untried(vendor, Ready, NoCall) /\ Explained(token', NoCall)
      /\ Recent(NoCall) /\ Own(skipped, NoCall) /\ ~Slotted(NoCall)
  BY <1>2 DEF Placed, Untried, Explained, Recent, Own, Slotted
<1> QED BY <1>1, <1>3, <1>4, <1>5, StayingInv

\* Two frames are combined: what another scan has yet to read is no longer its own.
LEMMA CombinesFramesInv == ASSUME CallsInv, NEW f \in Callers, CombinesFrames(f) PROVE CallsInv'
<1> DEFINE k == call[f]
<1>1. /\ k \in CallRow /\ CallShape /\ Good(vendor, Ready, token, skipped, last, k)
  BY Found DEF CallsInv
<1>2. PICK trend \in SUBSET CallTickers, trigger \in SUBSET CallTickers :
         /\ skipped' = CallTickers \ (trend \cap trigger)
         /\ call' = [g \in Callers |->
               IF g = f THEN [k EXCEPT !.pc = "reads", !.got = trend \cap trigger, !.clean = TRUE]
               ELSE IF call[g].pc = "reads" THEN [call[g] EXCEPT !.clean = FALSE] ELSE call[g]]
  BY DEF CombinesFrames
<1>3. /\ UNCHANGED <<tick, vendor, Ready, last, quote, daily, token, told>>
      /\ k.stage = "frames" /\ k.pc = "waits" /\ k.kind = "frames" /\ k.could \subseteq Ready
  BY <1>1 DEF CombinesFrames, Due, Good, Placed, Untried, Ready
<1> DEFINE both == trend \cap trigger
           one == [k EXCEPT !.pc = "reads"]
           two == [one EXCEPT !.got = both]
           x == [two EXCEPT !.clean = TRUE]
<1>4. \A g \in Callers : call'[g] = IF g = f THEN x ELSE IF call[g].pc = "reads" THEN Blamed(call[g]) ELSE call[g]
  BY <1>2 DEF Blamed
<1>5. both \in SUBSET CallTickers /\ skipped' = CallTickers \ both
  BY <1>2
<1>55. DOMAIN call' = Callers /\ call' = [g \in Callers |-> call'[g]]
  BY <1>2
<1> HIDE DEF both, k
<1>6. /\ one \in CallRow /\ one.pc = "reads" /\ one.stage = k.stage /\ one.kind = k.kind
      /\ one.could = k.could
  BY <1>1 DEF CallRow
<1> HIDE DEF one
<1>7. /\ two \in CallRow /\ two.pc = "reads" /\ two.stage = k.stage /\ two.kind = k.kind
      /\ two.could = k.could /\ two.got = both
  BY <1>5, <1>6 DEF CallRow
<1> HIDE DEF two
<1>8. /\ x \in CallRow /\ x.pc = "reads" /\ x.stage = k.stage /\ x.kind = k.kind
      /\ x.could = k.could /\ x.got = both
  BY <1>7 DEF CallRow
<1> HIDE DEF x
<1>9. Good(vendor, Ready, token, skipped', last, x) /\ ~Slotted(x)
  BY <1>3, <1>5, <1>8 DEF Good, Placed, Untried, Explained, Recent, Own, Reserves, Slotted
<1>10. ASSUME NEW g \in Callers, g # f
       PROVE  /\ call'[g] \in CallRow /\ Good(vendor, Ready, token, skipped', last, call'[g])
              /\ call'[g].pc = call[g].pc /\ call'[g].stage = call[g].stage /\ call'[g].due = call[g].due
  <2>1. call[g] \in CallRow /\ Good(vendor, Ready, token, skipped, last, call[g])
    BY <1>1 DEF CallsInv, CallShape
  <2>2. CASE call[g].pc = "reads"
    <3>1. call'[g] = Blamed(call[g])
      BY <1>4, <1>10, <2>2
    <3> QED BY <2>1, <3>1, BlamedRow, BlamedGood
  <2>3. CASE call[g].pc # "reads"
    <3>1. call'[g] = call[g]
      BY <1>4, <1>10, <2>3
    <3>2. Own(skipped', call[g])
      BY <2>3 DEF Own
    <3> QED BY <2>1, <3>1, <3>2 DEF Good
  <2> QED BY <2>2, <2>3
<1>11. call'[f] = x
  BY <1>4
<1>12. ASSUME NEW g \in Callers, NEW h \in Callers, g # h
       PROVE  Apart(call'[g], call'[h])
  <2>1. Apart(call[g], call[h])
    BY <1>12 DEF CallsInv
  <2>2. CASE g = f \/ h = f
    BY <1>9, <1>11, <2>2 DEF Apart
  <2>3. CASE g # f /\ h # f
    BY <1>10, <2>1, <2>3 DEF Apart, Slotted
  <2> QED BY <2>2, <2>3
<1>13. CallShape'
  <2>1. \A g \in Callers : call'[g] \in CallRow
    BY <1>8, <1>10, <1>11
  <2>2. call' \in [Callers -> CallRow]
    BY <1>55, <2>1
  <2> QED BY <1>1, <1>3, <2>2 DEF CallShape
<1>14. \A g \in Callers : Good(vendor, Ready, token, skipped', last, call'[g])
  BY <1>9, <1>10, <1>11
<1> QED BY <1>3, <1>12, <1>13, <1>14 DEF CallsInv

LEMMA SourceTurnsInv == ASSUME CallsInv, NEW s \in Sources, SourceTurns(s) PROVE CallsInv'
<1> DEFINE lessOf(c) == [c EXCEPT !.could = @ \ {s}]
<1>1. /\ UNCHANGED <<tick, vendor, last, token, told, quote, daily, skipped>> /\ vendor = "yahoo"
      /\ CallShape /\ call' = [f \in Callers |-> lessOf(call[f])] /\ UNCHANGED listed
  BY DEF SourceTurns, CallsInv, CallShape
<1>11. Ready' \subseteq Sources /\ (Ready \ {s}) \subseteq Ready'
  <2>1. working' = IF s \in working THEN working \ {s} ELSE working \cup {s}
    BY DEF SourceTurns
  <2>2. Ready \subseteq Sources
    BY <1>1 DEF CallShape
  <2> QED BY <1>1, <2>1, <2>2 DEF Ready, Sources
<1>2. ASSUME NEW f \in Callers
      PROVE  LET c == call[f]
                 x == lessOf(call[f])
             IN  /\ x \in CallRow /\ x.pc = c.pc /\ x.stage = c.stage /\ x.due = c.due
                 /\ Good(vendor, Ready', token, skipped, last, x)
  <2> DEFINE c == call[f]
             x == lessOf(c)
  <2>1. c \in CallRow /\ Good(vendor, Ready, token, skipped, last, c)
    BY <1>1 DEF CallsInv, CallShape
  <2> HIDE DEF c
  <2>2. /\ x \in CallRow /\ x.pc = c.pc /\ x.kind = c.kind /\ x.stage = c.stage /\ x.due = c.due
        /\ x.age = c.age /\ x.answer = c.answer /\ x.got = c.got /\ x.could = c.could \ {s}
    BY <2>1 DEF CallRow
  <2>3. x.clean = c.clean
    BY <2>1 DEF CallRow
  <2> HIDE DEF x
  <2>4. Placed(vendor, x) /\ Recent(x) /\ Own(skipped, x) /\ Reserves(last, x) /\ Explained(token, x)
    BY <2>1, <2>2, <2>3 DEF Good, Placed, Recent, Own, Reserves, Slotted, Explained
  <2>5. Untried(vendor, Ready', x)
    BY <1>11, <2>1, <2>2 DEF Good, Untried
  <2> QED BY <2>2, <2>4, <2>5 DEF Good, c, x
<1> HIDE DEF lessOf
<1>3. \A f \in Callers : call'[f] = lessOf(call[f])
  BY <1>1
<1>4. ASSUME NEW g \in Callers, NEW h \in Callers, g # h
      PROVE  Apart(call'[g], call'[h])
  <2>1. Apart(call[g], call[h])
    BY <1>4 DEF CallsInv
  <2> QED BY <1>2, <1>3, <2>1 DEF Apart, Slotted
<1>5. CallShape'
  <2>1. call' \in [Callers -> CallRow]
    BY <1>1, <1>2
  <2> QED BY <1>1, <1>11, <2>1 DEF CallShape
<1> QED BY <1>1, <1>2, <1>3, <1>4, <1>5 DEF CallsInv

LEMMA VendorRevokesInv == ASSUME CallsInv, VendorRevokes PROVE CallsInv'
<1>1. /\ UNCHANGED <<tick, vendor, Ready, last, told, quote, daily, skipped>> /\ token = "good"
      /\ token' = "bad" /\ CallShape /\ call' = [f \in Callers |-> Blamed(call[f])]
  BY DEF VendorRevokes, CallsInv, CallShape, Blamed, Ready
<1>2. \A g \in Callers : /\ call[g] \in CallRow /\ Blamed(call[g]) \in CallRow
                         /\ Good(vendor, Ready, token', skipped, last, Blamed(call[g]))
  BY <1>1, BlamedRow, BlamedGood DEF CallsInv, CallShape
<1>3. ASSUME NEW g \in Callers, NEW h \in Callers, g # h
      PROVE  Apart(call'[g], call'[h])
  <2>1. Apart(call[g], call[h])
    BY <1>3 DEF CallsInv
  <2>2. Apart(Blamed(call[g]), Blamed(call[h]))
    BY <1>2, <2>1, BlamedRow DEF Apart, Slotted
  <2> QED BY <1>1, <2>2
<1>4. CallShape'
  <2>1. call' \in [Callers -> CallRow]
    BY <1>1, <1>2
  <2> QED BY <1>1, <2>1 DEF CallShape
<1> QED BY <1>1, <1>2, <1>3, <1>4 DEF CallsInv

LEMMA CallsRestInv == ASSUME CallsInv, ClearsQuote \/ CallTime \/ UNCHANGED callVars PROVE CallsInv'
<1>1. /\ UNCHANGED <<vendor, Ready, token, told, skipped, last, call, daily>>
      /\ quote' \in {quote, NoPrice} /\ tick' \in {tick, tick + 1}
  BY DEF ClearsQuote, CallTime, callVars, Ready
<1>2. CallShape'
  <2>1. tick' \in Nat /\ tick' >= tick
    BY <1>1 DEF CallsInv, CallShape
  <2>2. /\ tick \in Nat /\ (daily # NoPrice => daily \in Nat /\ daily <= tick)
        /\ quote # NoPrice => /\ quote.of \in Nat /\ quote.at \in Nat
                              /\ quote.of <= quote.at /\ quote.at <= tick
                              /\ quote.at - quote.of <= Oldest(DailyTTL)
    BY DEF CallsInv, CallShape
  <2>3. daily' # NoPrice => daily' \in Nat /\ daily' <= tick'
    BY <1>1, <2>1, <2>2
  <2>4. quote' # NoPrice => /\ quote'.of \in Nat /\ quote'.at \in Nat
                            /\ quote'.of <= quote'.at /\ quote'.at <= tick'
                            /\ quote'.at - quote'.of <= Oldest(DailyTTL)
    <3> SUFFICES ASSUME quote' # NoPrice PROVE /\ quote'.of \in Nat /\ quote'.at \in Nat
                            /\ quote'.of <= quote'.at /\ quote'.at <= tick'
                            /\ quote'.at - quote'.of <= Oldest(DailyTTL)
      OBVIOUS
    <3>1. quote' = quote /\ quote # NoPrice
      BY <1>1
    <3> QED BY <2>1, <2>2, <3>1
  <2> QED BY <1>1, <2>1, <2>3, <2>4 DEF CallsInv, CallShape
<1> QED BY <1>1, <1>2 DEF CallsInv

LEMMA CallsInductive == CallsInv /\ [CallsNext]_callVars => CallsInv'
<1> SUFFICES ASSUME CallsInv, [CallsNext]_callVars PROVE CallsInv'
  OBVIOUS
<1>1. ASSUME NEW f \in Callers, CallsHistory(f) \/ CallsBatch(f) \/ CallsPrice(f) \/ CallsFrames(f)
      PROVE  CallsInv'
  BY <1>1, CallsHistoryInv, CallsBatchInv, CallsPriceInv, CallsFramesInv
<1>2. ASSUME NEW f \in Callers, AsksYahoo(f) \/ EnsuresAuth(f) \/ StampsExpiry(f) \/ SendsRequest(f)
      PROVE  CallsInv'
  BY <1>2, AsksYahooInv, EnsuresAuthInv, StampsExpiryInv, SendsRequestInv
<1>3. ASSUME NEW f \in Callers, HearsRefusal(f) \/ HearsAnswer(f) \/ AsksPage(f) \/ FallsToHistory(f)
      PROVE  CallsInv'
  BY <1>3, HearsRefusalInv, HearsAnswerInv, AsksPageInv, FallsToHistoryInv
<1>4. ASSUME NEW f \in Callers, PricesFromHistory(f) \/ CombinesFrames(f) \/ ReadsSkipped(f) \/ Returns(f)
      PROVE  CallsInv'
  BY <1>4, PricesFromHistoryInv, CombinesFramesInv, ReadsSkippedInv, ReturnsInv
<1>5. ASSUME NEW s \in Sources, SourceTurns(s)
      PROVE  CallsInv'
  BY <1>5, SourceTurnsInv
<1> QED BY <1>1, <1>2, <1>3, <1>4, <1>5, VendorRevokesInv, CallsRestInv DEF CallsNext

\* The invariant tells what the properties ask.
LEMMA CallsImply == CallsInv => CallsSound
<1> SUFFICES ASSUME CallsInv PROVE CallsSound
  OBVIOUS
<1>1. \A f \in Callers : /\ Untried(vendor, Ready, call[f]) /\ Explained(token, call[f])
                         /\ Recent(call[f]) /\ Own(skipped, call[f])
  BY DEF CallsInv, Good
<1>2. SourcesTried /\ RefusalsExplained /\ PricesRecent /\ SkipsOwn
  BY <1>1 DEF SourcesTried, RefusalsExplained, PricesRecent, SkipsOwn, Untried, Explained, Recent, Own
<1>3. SlotsApart
  <2>1. \A f, g \in Callers : f # g => Apart(call[f], call[g])
    BY DEF CallsInv
  <2> QED BY <2>1 DEF SlotsApart, Apart, Slotted
<1> QED BY <1>2, <1>3 DEF CallsSound

\* Of every number of callers, with every life of a cache and of a token: requests of a domain are an
\* interval apart, every source is tried before a call gives up, a refusal has a cause, a price is
\* recent, and a scan reads the list of its own fetch (RateLimiter, YFinanceProvider,
\* BaseOfficialProvider, get_current_price, _record_skipped_tickers).
THEOREM CallsHold == CallsSpec => []CallsSound
<1>1. CallsSpec => []CallsInv
  BY CallsBegin, CallsInductive, PTL DEF CallsSpec
<1> QED BY <1>1, CallsImply, PTL

(* The start of the processes: what a station knows of the store stays     *)
(* true because the store only grows; and whoever could have changed what  *)
(* was looked up has taken the looker's solitude by being at work.         *)
Reasons == {"none", "database", "users", "config", "crash"}
Brokers == {"none", "paper", "algolab_dry", "algolab_live"}
StartRow == [pc : StateNames, at : Nat, noted : BOOLEAN, starts : Nat, why : Reasons,
             alone : BOOLEAN, broker : Brokers]

StartShape ==
    /\ process \in [Processes -> StartRow] /\ store \in Databases
    /\ history \in [demoted : BOOLEAN, foundUsers : BOOLEAN]
    /\ writer # NoProcess =>
          writer \in Processes /\ process[writer].pc \in {"commits", "created", "promoted"}

AllOldTables == {OldTables[i] : i \in DOMAIN OldTables}
Seeding == {"user", "inserts", "updates", "created", "promoted"}
Migrated == Seeding \cup {"armed", "validates", "broker", "up"}

\* What p at its station knows of the store, and what it was given.
Station(p) ==
    /\ process[p].pc \in {"looks", "creates"} => process[p].at = 1
    /\ process[p].pc = "creates" => /\ process[p].noted \/ store.tables
                                    /\ process[p].noted /\ process[p].alone => ~store.tables
    /\ process[p].pc \in {"reads", "alters"} =>
          /\ store.tables /\ 1 <= process[p].at
          /\ \A i \in DOMAIN OldTables : i < process[p].at => OldTables[i] \in store.columns
    /\ process[p].pc = "alters" =>
          /\ process[p].at \in DOMAIN OldTables
          /\ process[p].noted \/ OldTables[process[p].at] \in store.columns
          /\ process[p].noted /\ process[p].alone => OldTables[process[p].at] \notin store.columns
    /\ process[p].pc \in {"normalizes", "commits"} => store.tables /\ AllOldTables \subseteq store.columns
    /\ process[p].pc \in Migrated =>
          store.tables /\ (IsSqlite => AllOldTables \subseteq store.columns /\ store.stamps = "sqlalchemy")
    /\ process[p].why = "database" => ~process[p].alone
    /\ process[p].broker = "algolab_live" /\ env.provider = "algolab" =>
          env.confirm /\ env.credentials /\ env.endpoints

\* Who was demoted for good is not in the hands of a bootstrap that is under way.
OneShot ==
    /\ store.marked <=> store.audits > 0
    /\ ~IsSqlite => store.audits <= 1
    /\ history.demoted => store.marked /\ store.role # "admin"
                          /\ \A p \in Processes : process[p].pc \notin Seeding

StartInv == StartShape /\ (\A p \in Processes : Station(p)) /\ OneShot

LEMMA StartConstants ==
    /\ NoProcess \notin Processes /\ MaxStarts \in Nat
    /\ Len(OldTables) \in Nat /\ DOMAIN OldTables = 1..Len(OldTables)
    /\ AllOldTables \subseteq STRING
    /\ \A i \in DOMAIN OldTables : OldTables[i] \in STRING /\ OldTables[i] \in AllOldTables
    /\ FirstDatabases \subseteq Databases
    /\ \A d \in FirstDatabases : (d.marked <=> d.audits > 0) /\ d.audits <= 1
BY StartUpAssumption DEF AllOldTables

LEMMA StartRows ==
    ASSUME NEW r \in StartRow
    PROVE  /\ r.pc \in StateNames /\ r.at \in Nat /\ r.noted \in BOOLEAN /\ r.starts \in Nat
           /\ r.why \in Reasons /\ r.alone \in BOOLEAN /\ r.broker \in Brokers
BY DEF StartRow

LEMMA Going ==
    ASSUME StartShape, NEW p \in Processes, NEW fields \in StartRow, Goes(p, fields)
    PROVE  /\ process' \in [Processes -> StartRow]
           /\ process'[p].pc = fields.pc /\ process'[p].at = fields.at
           /\ process'[p].noted = fields.noted /\ process'[p].why = fields.why
           /\ process'[p].broker = fields.broker /\ process'[p].starts = fields.starts
           /\ process'[p].alone = (fields.alone /\ Begun \subseteq {p})
           /\ \A q \in Processes \ {p} :
                /\ process'[q].pc = process[q].pc /\ process'[q].at = process[q].at
                /\ process'[q].noted = process[q].noted /\ process'[q].why = process[q].why
                /\ process'[q].broker = process[q].broker
                /\ process'[q].alone = (process[q].alone /\ q \notin Begun)
<1> DEFINE mine == [fields EXCEPT !.alone = @ /\ Begun \subseteq {p}]
           other(q) == IF q \in Begun THEN [process[q] EXCEPT !.alone = FALSE] ELSE process[q]
<1>1. process' = [q \in Processes |-> IF q = p THEN mine ELSE other(q)]
  BY Zenon DEF Goes
<1>2. /\ mine \in StartRow
      /\ mine.pc = fields.pc /\ mine.at = fields.at /\ mine.noted = fields.noted
      /\ mine.why = fields.why /\ mine.broker = fields.broker /\ mine.starts = fields.starts
      /\ mine.alone = (fields.alone /\ Begun \subseteq {p})
  <2> DEFINE a == fields.alone /\ Begun \subseteq {p}
  <2>1. a \in BOOLEAN /\ mine = [fields EXCEPT !.alone = a]
    OBVIOUS
  <2> HIDE DEF a, mine
  <2>2. /\ mine \in StartRow
        /\ mine.pc = fields.pc /\ mine.at = fields.at /\ mine.noted = fields.noted
        /\ mine.why = fields.why /\ mine.broker = fields.broker /\ mine.starts = fields.starts
        /\ mine.alone = a
    BY <2>1 DEF StartRow
  <2> QED BY <2>2 DEF a
<1> HIDE DEF mine
<1>3. ASSUME NEW q \in Processes
      PROVE  /\ other(q) \in StartRow
             /\ other(q).pc = process[q].pc /\ other(q).at = process[q].at
             /\ other(q).noted = process[q].noted /\ other(q).why = process[q].why
             /\ other(q).broker = process[q].broker
             /\ other(q).alone = (process[q].alone /\ q \notin Begun)
  <2>1. process[q] \in StartRow /\ process[q].alone \in BOOLEAN
    BY StartRows DEF StartShape
  <2> DEFINE r == process[q]
             lost == [r EXCEPT !.alone = FALSE]
  <2>2. r \in StartRow
    BY <2>1
  <2> HIDE DEF r
  <2>3. /\ lost \in StartRow /\ lost.pc = r.pc /\ lost.at = r.at /\ lost.noted = r.noted
        /\ lost.why = r.why /\ lost.broker = r.broker /\ lost.alone = FALSE
    BY <2>2 DEF StartRow
  <2> HIDE DEF lost
  <2>4. other(q) = IF q \in Begun THEN lost ELSE r
    BY DEF r, lost
  <2> HIDE DEF other
  <2>5. CASE q \in Begun
    BY <2>3, <2>4, <2>5 DEF r
  <2>6. CASE q \notin Begun
    <3>1. other(q) = r /\ r \in StartRow /\ r.alone \in BOOLEAN
      BY <2>1, <2>4, <2>6 DEF r
    <3> QED BY <2>6, <3>1 DEF r
  <2> QED BY <2>5, <2>6
<1> HIDE DEF other
<1>4. process'[p] = mine /\ \A q \in Processes \ {p} : process'[q] = other(q)
  BY <1>1
<1>5. process' \in [Processes -> StartRow]
  BY <1>1, <1>2, <1>3
<1> QED BY <1>2, <1>3, <1>4, <1>5

\* The row of a station that only moves on, that is refused, and that ends.
Onward(r, pc) == [r EXCEPT !.pc = pc]
Left(r, pc, why) == [r EXCEPT !.pc = pc, !.why = why]

LEMMA NextRow ==
    ASSUME NEW r \in StartRow, NEW pc \in StateNames
    PROVE  /\ Onward(r, pc) \in StartRow /\ Onward(r, pc).pc = pc /\ Onward(r, pc).at = r.at
           /\ Onward(r, pc).noted = r.noted /\ Onward(r, pc).why = r.why
           /\ Onward(r, pc).alone = r.alone /\ Onward(r, pc).broker = r.broker
BY DEF StartRow, Onward

LEMMA LeftRow ==
    ASSUME NEW r \in StartRow, NEW pc \in StateNames, NEW why \in Reasons
    PROVE  /\ Left(r, pc, why) \in StartRow /\ Left(r, pc, why).pc = pc /\ Left(r, pc, why).why = why
           /\ Left(r, pc, why).alone = r.alone /\ Left(r, pc, why).broker = r.broker
<1> DEFINE one == [r EXCEPT !.pc = pc]
           two == [one EXCEPT !.why = why]
<1>1. Left(r, pc, why) = two
  BY Zenon DEF one, two, Left
<1>2. one \in StartRow /\ one.pc = pc /\ one.alone = r.alone /\ one.broker = r.broker
  BY DEF StartRow
<1> HIDE DEF one
<1>3. two \in StartRow /\ two.pc = pc /\ two.why = why /\ two.alone = r.alone /\ two.broker = r.broker
  BY <1>2 DEF StartRow
<1> HIDE DEF two
<1> QED BY <1>1, <1>3

Grows ==
    /\ store' \in Databases /\ (store.tables => store'.tables)
    /\ \A c \in AllOldTables : c \in store.columns => c \in store'.columns
    /\ store.stamps = "sqlalchemy" => store'.stamps = "sqlalchemy"

Locked == {"commits", "created", "promoted"}

\* A step of p leaves the others where they are, and what they know true.
LEMMA StepKeeps ==
    ASSUME StartInv, NEW p \in Processes, NEW fields \in StartRow, Goes(p, fields), env' = env, Grows,
           history' \in [demoted : BOOLEAN, foundUsers : BOOLEAN],
           \/ writer' \in {writer, NoProcess} /\ writer' # p
           \/ writer' = p /\ fields.pc \in Locked,
           Station(p)', OneShot'
    PROVE  StartInv'
<1>1. StartShape /\ \A q \in Processes : Station(q)
  BY DEF StartInv
<1>2. /\ process' \in [Processes -> StartRow]
      /\ process'[p].pc = fields.pc
      /\ \A q \in Processes \ {p} :
           /\ process'[q].pc = process[q].pc /\ process'[q].at = process[q].at
           /\ process'[q].noted = process[q].noted /\ process'[q].why = process[q].why
           /\ process'[q].broker = process[q].broker
           /\ process'[q].alone = (process[q].alone /\ q \notin Begun)
  BY <1>1, Going
<1>3. StartShape'
  <2>1. writer' # NoProcess => writer' \in Processes /\ process'[writer'].pc \in Locked
    BY <1>1, <1>2 DEF StartShape, Locked
  <2> QED BY <1>2, <2>1 DEF StartShape, Locked, Grows
<1>4. ASSUME NEW q \in Processes PROVE Station(q)'
  <2>1. CASE q = p
    BY <2>1
  <2>2. CASE q # p
    <3>1. /\ process'[q].pc = process[q].pc /\ process'[q].at = process[q].at
          /\ process'[q].noted = process[q].noted /\ process'[q].why = process[q].why
          /\ process'[q].broker = process[q].broker
          /\ process'[q].alone = (process[q].alone /\ q \notin Begun)
      BY <1>2, <2>2
    <3>2. process'[q].alone => process[q].alone /\ process[q].pc \in Resting
      BY <3>1 DEF Begun
    <3>3. Station(q)
      BY <1>1
    <3>4. /\ process[q].pc \in {"looks", "creates"} => process'[q].at = 1
          /\ process[q].pc = "creates" => /\ process'[q].noted \/ store'.tables
                                          /\ ~process'[q].alone
      BY <3>1, <3>2, <3>3 DEF Station, Grows, Resting
    <3>5. process[q].pc \in {"reads", "alters"} =>
            /\ store'.tables /\ 1 <= process'[q].at
            /\ \A i \in DOMAIN OldTables : i < process'[q].at => OldTables[i] \in store'.columns
      BY <3>1, <3>3, StartConstants DEF Station, Grows
    <3>6. process[q].pc = "alters" =>
            /\ process'[q].at \in DOMAIN OldTables
            /\ process'[q].noted \/ OldTables[process'[q].at] \in store'.columns
            /\ ~process'[q].alone
      BY <3>1, <3>2, <3>3, StartConstants DEF Station, Grows, Resting
    <3>7. process[q].pc \in {"normalizes", "commits"} => store'.tables /\ AllOldTables \subseteq store'.columns
      BY <3>3 DEF Station, Grows
    <3>8. process[q].pc \in Migrated =>
            store'.tables /\ (IsSqlite => AllOldTables \subseteq store'.columns /\ store'.stamps = "sqlalchemy")
      BY <3>3 DEF Station, Grows
    <3>9. process'[q].why = "database" => ~process'[q].alone
      BY <3>1, <3>3 DEF Station
    <3>10. process'[q].broker = "algolab_live" /\ env.provider = "algolab" =>
             env.confirm /\ env.credentials /\ env.endpoints
      BY <3>1, <3>3 DEF Station
    <3> QED BY <3>1, <3>4, <3>5, <3>6, <3>7, <3>8, <3>9, <3>10 DEF Station, IsSqlite
  <2> QED BY <2>1, <2>2
<1> QED BY <1>3, <1>4 DEF StartInv

\* A step that writes nothing, and enters the bootstrap only on a store without the mark.
LEMMA Silent ==
    ASSUME StartInv, NEW p \in Processes, NEW fields \in StartRow, Goes(p, fields),
           UNCHANGED <<env, store, history>>,
           \/ writer' \in {writer, NoProcess} /\ writer' # p
           \/ writer' = p /\ fields.pc \in Locked,
           Station(p)',
           fields.pc \in Seeding => process[p].pc \in Seeding \/ ~store.marked
    PROVE  StartInv'
<1>1. StartShape /\ OneShot
  BY DEF StartInv
<1>2. Grows /\ history' \in [demoted : BOOLEAN, foundUsers : BOOLEAN]
  BY <1>1 DEF Grows, StartShape
<1>3. \A q \in Processes : process'[q].pc = IF q = p THEN fields.pc ELSE process[q].pc
  BY <1>1, Going
<1>4. OneShot'
  <2>1. history.demoted => \A q \in Processes : process'[q].pc \notin Seeding
    BY <1>1, <1>3 DEF OneShot
  <2> QED BY <1>1, <2>1 DEF OneShot, IsSqlite
<1> QED BY <1>1, <1>2, <1>4, StepKeeps

LEMMA HoldsNone ==
    ASSUME StartInv, NEW p \in Processes, process[p].pc \notin Locked
    PROVE  writer # p
BY StartConstants DEF StartInv, StartShape, Locked

\* A start is refused by the database only in company.
LEMMA RefusedInv ==
    ASSUME StartInv, NEW p \in Processes, Refused(p), UNCHANGED <<env, store, history, writer>>,
           process[p].pc \notin Locked, process[p].alone => ~(Begun \subseteq {p})
    PROVE  StartInv'
<1>1. StartShape /\ Station(p) /\ process[p] \in StartRow /\ writer # p
  BY HoldsNone DEF StartInv, StartShape
<1>2. PICK pc \in {"degraded", "down"} : Goes(p, Left(process[p], pc, "database"))
  BY DEF Refused, Left
<1> DEFINE fields == Left(process[p], pc, "database")
<1>3. fields \in StartRow /\ fields.pc = pc /\ fields.alone = process[p].alone /\ fields.why = "database"
      /\ fields.broker = process[p].broker
  <2>1. pc \in StateNames /\ "database" \in Reasons
    BY DEF StateNames, Reasons
  <2> QED BY <1>1, <2>1, LeftRow
<1>4. Goes(p, fields)
  BY <1>2
<1> HIDE DEF fields
<1>5. /\ process'[p].pc = pc /\ process'[p].why = "database" /\ process'[p].broker = process[p].broker
      /\ process'[p].alone = (process[p].alone /\ Begun \subseteq {p})
  BY <1>1, <1>3, <1>4, Going
<1>6. Station(p)'
  BY <1>1, <1>5 DEF Station, Migrated, Seeding
<1> QED BY <1>1, <1>3, <1>4, <1>6, Silent DEF Seeding

LEMMA EndsInv ==
    ASSUME StartInv, NEW p \in Processes, NEW why \in Reasons, Ends(p, why),
           UNCHANGED <<env, store, history, writer>>, process[p].pc \notin Locked,
           why # "database" \/ (process[p].alone => ~(Begun \subseteq {p}))
    PROVE  StartInv'
<1>1. StartShape /\ Station(p) /\ process[p] \in StartRow /\ writer # p
  BY HoldsNone DEF StartInv, StartShape
<1> DEFINE fields == Left(process[p], "down", why)
<1>2. Goes(p, fields)
  BY DEF Ends, Left
<1>3. fields \in StartRow /\ fields.pc = "down" /\ fields.alone = process[p].alone /\ fields.why = why
      /\ fields.broker = process[p].broker
  <2>1. "down" \in StateNames
    BY DEF StateNames
  <2> QED BY <1>1, <2>1, LeftRow
<1> HIDE DEF fields
<1>4. /\ process'[p].pc = "down" /\ process'[p].why = why /\ process'[p].broker = process[p].broker
      /\ process'[p].alone = (process[p].alone /\ Begun \subseteq {p})
  BY <1>1, <1>2, <1>3, Going
<1>5. Station(p)'
  BY <1>1, <1>4 DEF Station, Migrated, Seeding
<1> QED BY <1>1, <1>2, <1>3, <1>5, Silent DEF Seeding

LEMMA WaitsInv ==
    ASSUME StartInv, NEW p \in Processes, Waits(p), process[p].pc \notin Locked
    PROVE  StartInv'
<1>1. writer \in Processes /\ writer # p /\ process[writer].pc \in Locked
  BY DEF Waits, StartInv, StartShape, Locked
<1>2. writer \in Begun
  BY <1>1 DEF Begun, Resting, Locked
<1> QED BY <1>1, <1>2, RefusedInv DEF Waits

\* A station of the start that moves on with what it knew.
LEMMA PassesOn ==
    ASSUME StartInv, NEW p \in Processes, NEW pc \in Migrated, process[p].pc \in Migrated, To(p, pc),
           UNCHANGED <<env, store, history>>,
           \/ writer' = writer /\ process[p].pc \notin Locked
           \/ writer' = p /\ pc \in Locked,
           pc \in Seeding => process[p].pc \in Seeding \/ ~store.marked
    PROVE  StartInv'
<1>1. StartShape /\ Station(p) /\ process[p] \in StartRow /\ p # NoProcess
  BY StartConstants DEF StartInv, StartShape
<1> DEFINE fields == Onward(process[p], pc)
<1>2. Goes(p, fields)
  BY DEF To, Onward
<1>3. fields \in StartRow /\ fields.pc = pc /\ fields.alone = process[p].alone
      /\ fields.why = process[p].why /\ fields.broker = process[p].broker
  <2>1. pc \in StateNames
    BY DEF StateNames, Migrated, Seeding
  <2> QED BY <1>1, <2>1, NextRow
<1> HIDE DEF fields
<1>4. /\ process'[p].pc = pc /\ process'[p].why = process[p].why /\ process'[p].broker = process[p].broker
      /\ process'[p].alone = (process[p].alone /\ Begun \subseteq {p})
  BY <1>1, <1>2, <1>3, Going
<1>5. Station(p)'
  <2>1. pc \notin {"looks", "creates", "reads", "alters", "normalizes", "commits"}
    BY DEF Migrated, Seeding
  <2>2. store.tables /\ (IsSqlite => AllOldTables \subseteq store.columns /\ store.stamps = "sqlalchemy")
    BY <1>1 DEF Station
  <2>3. process'[p].why = "database" => ~process'[p].alone
    BY <1>1, <1>4 DEF Station
  <2>4. process'[p].broker = "algolab_live" /\ env.provider = "algolab" =>
          env.confirm /\ env.credentials /\ env.endpoints
    BY <1>1, <1>4 DEF Station
  <2> QED BY <1>4, <2>1, <2>2, <2>3, <2>4 DEF Station, IsSqlite
<1>6. \/ writer' \in {writer, NoProcess} /\ writer' # p
      \/ writer' = p /\ fields.pc \in Locked
  <2>1. CASE writer' = writer /\ process[p].pc \notin Locked
    <3>1. writer # p
      BY <2>1, HoldsNone
    <3> QED BY <2>1, <3>1
  <2>2. CASE writer' = p /\ pc \in Locked
    BY <1>3, <2>2
  <2> QED BY <2>1, <2>2
<1> QED BY <1>2, <1>3, <1>5, <1>6, Silent

\* Before the schema is there.
LEMMA EarlyInv ==
    ASSUME StartInv, NEW p \in Processes, Boots(p) \/ LooksForTables(p)
    PROVE  StartInv'
<1>1. StartShape /\ Station(p) /\ process[p] \in StartRow /\ store \in Databases
  BY DEF StartInv, StartShape
<1>2. CASE Boots(p)
  <2> DEFINE n == process[p].starts + 1
             one == [Fresh EXCEPT !.pc = "looks"]
             fields == [one EXCEPT !.starts = n]
  <2>1. Goes(p, [Fresh EXCEPT !.pc = "looks", !.starts = process[p].starts + 1])
        /\ UNCHANGED <<env, store, writer, history>> /\ process[p].pc = "down"
    BY <1>2 DEF Boots
  <2>2. [Fresh EXCEPT !.pc = "looks", !.starts = process[p].starts + 1] = fields
    BY Zenon DEF fields, one, n
  <2>3. n \in Nat
    BY <1>1, StartRows
  <2> HIDE DEF n
  <2>4. Fresh \in StartRow /\ Fresh.at = 1 /\ Fresh.why = "none" /\ Fresh.broker = "none"
    BY DEF Fresh, StartRow, StateNames, Reasons, Brokers
  <2>5. one \in StartRow /\ one.pc = "looks" /\ one.at = 1 /\ one.why = "none" /\ one.broker = "none"
    BY <2>4 DEF StartRow, StateNames
  <2> HIDE DEF one
  <2>6. fields \in StartRow /\ fields.pc = "looks" /\ fields.at = 1 /\ fields.why = "none"
        /\ fields.broker = "none"
    BY <2>3, <2>5 DEF StartRow
  <2> HIDE DEF fields
  <2>7. process'[p].pc = "looks" /\ process'[p].at = 1 /\ process'[p].why = "none"
        /\ process'[p].broker = "none"
    BY <1>1, <2>1, <2>2, <2>6, Going
  <2>8. Station(p)'
    BY <2>7 DEF Station, Migrated, Seeding
  <2>9. writer # p
    BY <2>1, HoldsNone DEF Locked
  <2> QED BY <2>1, <2>2, <2>6, <2>8, <2>9, Silent DEF Seeding
<1>3. CASE LooksForTables(p)
  <2> DEFINE missing == ~store.tables
             one == [process[p] EXCEPT !.pc = "creates"]
             fields == [one EXCEPT !.noted = missing]
  <2>1. Goes(p, [process[p] EXCEPT !.pc = "creates", !.noted = ~store.tables])
        /\ UNCHANGED <<env, store, writer, history>> /\ process[p].pc = "looks"
    BY <1>3 DEF LooksForTables
  <2>2. [process[p] EXCEPT !.pc = "creates", !.noted = ~store.tables] = fields
    BY Zenon DEF fields, one, missing
  <2>3. missing \in BOOLEAN
    OBVIOUS
  <2>4. one \in StartRow /\ one.pc = "creates" /\ one.at = process[p].at /\ one.why = process[p].why
        /\ one.alone = process[p].alone /\ one.broker = process[p].broker
    BY <1>1 DEF StartRow, StateNames
  <2> HIDE DEF one, missing
  <2>5. fields \in StartRow /\ fields.pc = "creates" /\ fields.at = process[p].at
        /\ fields.why = process[p].why /\ fields.alone = process[p].alone
        /\ fields.broker = process[p].broker /\ fields.noted = missing
    BY <2>3, <2>4 DEF StartRow
  <2> HIDE DEF fields
  <2>6. process'[p].pc = "creates" /\ process'[p].at = 1 /\ process'[p].why = process[p].why
        /\ process'[p].broker = process[p].broker /\ process'[p].noted = missing
        /\ process'[p].alone = (process[p].alone /\ Begun \subseteq {p})
    <3>1. process[p].at = 1
      BY <1>1, <2>1 DEF Station
    <3>2. Goes(p, fields)
      BY <2>1, <2>2
    <3> QED BY <1>1, <2>5, <3>1, <3>2, Going
  <2>7. Station(p)'
    BY <1>1, <2>1, <2>6 DEF Station, Migrated, Seeding, missing
  <2>8. writer # p
    BY <2>1, HoldsNone DEF Locked
  <2> QED BY <2>1, <2>2, <2>5, <2>7, <2>8, Silent DEF Seeding
<1> QED BY <1>2, <1>3

\* What create_all makes, and what an ALTER TABLE adds.
LEMMA GrownStore ==
    ASSUME store \in Databases, NEW c \in SUBSET STRING
    PROVE  LET new == [store EXCEPT !.tables = TRUE, !.columns = c]
               wider == [store EXCEPT !.columns = c]
           IN  /\ new \in Databases /\ new.tables /\ new.columns = c /\ new.stamps = store.stamps
               /\ new.role = store.role /\ new.marked = store.marked /\ new.audits = store.audits
               /\ wider \in Databases /\ wider.tables = store.tables /\ wider.columns = c
               /\ wider.stamps = store.stamps /\ wider.role = store.role /\ wider.marked = store.marked
               /\ wider.audits = store.audits
<1> DEFINE one == [store EXCEPT !.tables = TRUE]
           two == [one EXCEPT !.columns = c]
<1>1. [store EXCEPT !.tables = TRUE, !.columns = c] = two
  BY Zenon DEF one, two
<1>2. one \in Databases /\ one.tables /\ one.stamps = store.stamps
      /\ one.role = store.role /\ one.marked = store.marked /\ one.audits = store.audits
  BY DEF Databases
<1> HIDE DEF one
<1>3. two \in Databases /\ two.tables /\ two.columns = c /\ two.stamps = store.stamps
      /\ two.role = store.role /\ two.marked = store.marked /\ two.audits = store.audits
  BY <1>2 DEF Databases
<1> HIDE DEF two
<1> DEFINE wider == [store EXCEPT !.columns = c]
<1>4. /\ wider \in Databases /\ wider.tables = store.tables /\ wider.columns = c
      /\ wider.stamps = store.stamps /\ wider.role = store.role /\ wider.marked = store.marked
      /\ wider.audits = store.audits
  BY DEF Databases
<1> HIDE DEF wider
<1> QED BY <1>1, <1>3, <1>4 DEF wider

\* A step of the migration: whatever it makes, it knows nothing of the bootstrap.
LEMMA Migrating ==
    ASSUME StartInv, NEW p \in Processes, NEW fields \in StartRow, Goes(p, fields), Grows,
           UNCHANGED <<env, history>>, store'.role = store.role, store'.marked = store.marked,
           store'.audits = store.audits,
           \/ writer' \in {writer, NoProcess} /\ writer' # p
           \/ writer' = p /\ fields.pc \in Locked,
           Station(p)', fields.pc \notin Seeding
    PROVE  StartInv'
<1>1. StartShape /\ OneShot
  BY DEF StartInv
<1>2. history' \in [demoted : BOOLEAN, foundUsers : BOOLEAN]
  BY <1>1 DEF StartShape
<1>3. \A q \in Processes : process'[q].pc = IF q = p THEN fields.pc ELSE process[q].pc
  BY <1>1, Going
<1>4. OneShot'
  <2>1. history.demoted => \A q \in Processes : process'[q].pc \notin Seeding
    BY <1>1, <1>3 DEF OneShot
  <2> QED BY <1>1, <2>1 DEF OneShot, IsSqlite
<1> QED BY <1>1, <1>2, <1>4, StepKeeps

LEMMA CreatesTablesInv ==
    ASSUME StartInv, NEW p \in Processes, CreatesTables(p)
    PROVE  StartInv'
<1>1. StartShape /\ Station(p) /\ process[p] \in StartRow /\ store \in Databases
      /\ process[p].pc = "creates" /\ UNCHANGED <<env, writer, history>> /\ writer # p
  BY HoldsNone DEF StartInv, StartShape, CreatesTables, Locked
<1>2. CASE process[p].noted /\ store.tables
  <2>1. ~process[p].alone
    BY <1>1, <1>2 DEF Station
  <2>2. (Refused(p) \/ Ends(p, "database")) /\ store' = store
    BY <1>2 DEF CreatesTables
  <2>3. process[p].pc \notin Locked /\ "database" \in Reasons
    BY <1>1 DEF Locked, Reasons
  <2> QED BY <1>1, <2>1, <2>2, <2>3, RefusedInv, EndsInv
<1>3. CASE ~(process[p].noted /\ store.tables)
  <2> DEFINE pc == IF IsSqlite THEN "reads" ELSE "armed"
             fields == Onward(process[p], pc)
  <2>1. To(p, pc)
    BY <1>3 DEF CreatesTables
  <2>2. store' = IF process[p].noted THEN [store EXCEPT !.tables = TRUE, !.columns = AllOldTables] ELSE store
    BY <1>3, Zenon DEF CreatesTables, AllOldTables
  <2>3. Goes(p, fields)
    BY <2>1 DEF To, Onward
  <2>4. pc \in StateNames /\ (pc = "reads" \/ (pc = "armed" /\ ~IsSqlite))
    BY DEF StateNames
  <2> HIDE DEF pc
  <2>5. fields \in StartRow /\ fields.pc = pc /\ fields.at = process[p].at
        /\ fields.alone = process[p].alone /\ fields.why = process[p].why /\ fields.broker = process[p].broker
    BY <1>1, <2>4, NextRow
  <2> HIDE DEF fields
  <2>6. /\ process'[p].pc = pc /\ process'[p].at = process[p].at /\ process'[p].why = process[p].why
        /\ process'[p].broker = process[p].broker
        /\ process'[p].alone = (process[p].alone /\ Begun \subseteq {p})
    BY <1>1, <2>3, <2>5, Going
  <2>7. /\ store' \in Databases /\ store'.tables /\ store'.stamps = store.stamps
        /\ store'.role = store.role /\ store'.marked = store.marked /\ store'.audits = store.audits
        /\ \A c \in AllOldTables : c \in store.columns => c \in store'.columns
    <3>1. CASE process[p].noted
      <4>1. AllOldTables \in SUBSET STRING
        BY StartConstants
      <4> QED BY <1>1, <2>2, <3>1, <4>1, GrownStore
    <3>2. CASE ~process[p].noted
      BY <1>1, <2>2, <3>2 DEF Station
    <3> QED BY <3>1, <3>2
  <2>8. Station(p)'
    <3>1. process[p].at = 1
      BY <1>1 DEF Station
    <3>2. \A i \in DOMAIN OldTables : ~(i < 1)
      BY StartConstants
    <3>3. (process'[p].why = "database" => ~process'[p].alone)
          /\ (process'[p].broker = "algolab_live" /\ env.provider = "algolab" =>
                env.confirm /\ env.credentials /\ env.endpoints)
      BY <1>1, <2>6 DEF Station
    <3> QED BY <1>1, <2>4, <2>6, <2>7, <3>1, <3>2, <3>3 DEF Station, Migrated, Seeding, IsSqlite
  <2>9. Grows
    BY <2>7 DEF Grows
  <2>10. fields.pc \notin Seeding
    BY <2>4, <2>5 DEF Seeding
  <2> QED BY <1>1, <2>3, <2>5, <2>7, <2>8, <2>9, <2>10, Migrating
<1> QED BY <1>2, <1>3

LEMMA ReadsColumnsInv ==
    ASSUME StartInv, NEW p \in Processes, ReadsColumns(p)
    PROVE  StartInv'
<1>1. StartShape /\ Station(p) /\ process[p] \in StartRow
      /\ process[p].pc = "reads" /\ UNCHANGED <<env, store, writer, history>> /\ writer # p
  BY HoldsNone DEF StartInv, StartShape, ReadsColumns, Locked
<1>2. process[p].at \in Nat /\ store.tables
      /\ \A i \in DOMAIN OldTables : i < process[p].at => OldTables[i] \in store.columns
  BY <1>1, StartRows DEF Station
<1>3. CASE process[p].at > Len(OldTables)
  <2> DEFINE fields == Onward(process[p], "normalizes")
  <2>1. Goes(p, fields)
    BY <1>3 DEF ReadsColumns, To, Onward
  <2>2. "normalizes" \in StateNames
    BY DEF StateNames
  <2>3. fields \in StartRow /\ fields.pc = "normalizes"
        /\ fields.alone = process[p].alone /\ fields.why = process[p].why /\ fields.broker = process[p].broker
    BY <1>1, <2>2, NextRow
  <2> HIDE DEF fields
  <2>4. /\ process'[p].pc = "normalizes" /\ process'[p].why = process[p].why
        /\ process'[p].broker = process[p].broker
        /\ process'[p].alone = (process[p].alone /\ Begun \subseteq {p})
    BY <1>1, <2>1, <2>3, Going
  <2>5. AllOldTables \subseteq store.columns
    <3>1. \A i \in DOMAIN OldTables : i < process[p].at
      BY <1>2, <1>3, StartConstants
    <3> QED BY <1>2, <3>1 DEF AllOldTables
  <2>6. Station(p)'
    BY <1>1, <1>2, <2>4, <2>5 DEF Station, Migrated, Seeding
  <2> QED BY <1>1, <2>1, <2>3, <2>6, Silent DEF Seeding
<1>4. CASE ~(process[p].at > Len(OldTables))
  <2> DEFINE missing == OldTables[process[p].at] \notin store.columns
             one == [process[p] EXCEPT !.pc = "alters"]
             fields == [one EXCEPT !.noted = missing]
  <2>1. Goes(p, [process[p] EXCEPT !.pc = "alters", !.noted = OldTables[process[p].at] \notin store.columns])
    BY <1>4 DEF ReadsColumns
  <2>2. Goes(p, fields)
    <3>1. fields = [process[p] EXCEPT !.pc = "alters", !.noted = OldTables[process[p].at] \notin store.columns]
      BY Zenon DEF fields, one, missing
    <3> QED BY <2>1, <3>1
  <2>3. missing \in BOOLEAN
    OBVIOUS
  <2>4. one \in StartRow /\ one.pc = "alters" /\ one.at = process[p].at /\ one.why = process[p].why
        /\ one.alone = process[p].alone /\ one.broker = process[p].broker
    BY <1>1 DEF StartRow, StateNames
  <2> HIDE DEF one, missing
  <2>5. fields \in StartRow /\ fields.pc = "alters" /\ fields.at = process[p].at
        /\ fields.why = process[p].why /\ fields.alone = process[p].alone
        /\ fields.broker = process[p].broker /\ fields.noted = missing
    BY <2>3, <2>4 DEF StartRow
  <2> HIDE DEF fields
  <2>6. process'[p].pc = "alters" /\ process'[p].at = process[p].at /\ process'[p].why = process[p].why
        /\ process'[p].broker = process[p].broker /\ process'[p].noted = missing
        /\ process'[p].alone = (process[p].alone /\ Begun \subseteq {p})
    BY <1>1, <2>2, <2>5, Going
  <2>7. process[p].at \in DOMAIN OldTables
    <3>1. 1 <= process[p].at
      BY <1>1, <1>2 DEF Station
    <3> QED BY <1>2, <1>4, <3>1, StartConstants
  <2>8. Station(p)'
    BY <1>1, <1>2, <2>6, <2>7 DEF Station, Migrated, Seeding, missing
  <2> QED BY <1>1, <2>2, <2>5, <2>8, Silent DEF Seeding
<1> QED BY <1>3, <1>4

LEMMA AltersTableInv ==
    ASSUME StartInv, NEW p \in Processes, AltersTable(p)
    PROVE  StartInv'
<1> DEFINE table == OldTables[process[p].at]
<1>1. StartShape /\ Station(p) /\ process[p] \in StartRow /\ store \in Databases
      /\ process[p].pc = "alters" /\ UNCHANGED <<env, writer, history>> /\ writer # p
  BY HoldsNone DEF StartInv, StartShape, AltersTable, Locked
<1>2. /\ process[p].at \in Nat /\ process[p].at \in DOMAIN OldTables /\ store.tables
      /\ table \in STRING /\ table \in AllOldTables
      /\ \A i \in DOMAIN OldTables : i < process[p].at => OldTables[i] \in store.columns
      /\ process[p].noted \/ table \in store.columns
      /\ process[p].noted /\ process[p].alone => table \notin store.columns
  BY <1>1, StartRows, StartConstants DEF Station
<1> HIDE DEF table
<1>3. CASE process[p].noted /\ table \in store.columns
  <2>1. Refused(p) /\ store' = store
    BY <1>3 DEF AltersTable, table
  <2>2. process[p].pc \notin Locked
    BY <1>1 DEF Locked
  <2> QED BY <1>1, <1>2, <1>3, <2>1, <2>2, RefusedInv
<1>4. CASE ~(process[p].noted /\ table \in store.columns)
  <2> DEFINE n == process[p].at + 1
             one == [process[p] EXCEPT !.pc = "reads"]
             fields == [one EXCEPT !.at = n]
  <2>1. /\ Goes(p, [process[p] EXCEPT !.pc = "reads", !.at = @ + 1])
        /\ store' = IF process[p].noted THEN [store EXCEPT !.columns = @ \cup {table}] ELSE store
    BY <1>4 DEF AltersTable, table
  <2>2. Goes(p, fields)
    <3>1. fields = [process[p] EXCEPT !.pc = "reads", !.at = @ + 1]
      BY Zenon DEF fields, one, n
    <3> QED BY <2>1, <3>1
  <2>3. n \in Nat /\ 1 <= n /\ \A i \in Nat : i < n => i < process[p].at \/ i = process[p].at
    BY <1>2
  <2> HIDE DEF n
  <2>4. one \in StartRow /\ one.pc = "reads" /\ one.why = process[p].why
        /\ one.alone = process[p].alone /\ one.broker = process[p].broker
    BY <1>1 DEF StartRow, StateNames
  <2> HIDE DEF one
  <2>5. fields \in StartRow /\ fields.pc = "reads" /\ fields.at = n
        /\ fields.why = process[p].why /\ fields.alone = process[p].alone
        /\ fields.broker = process[p].broker
    BY <2>3, <2>4 DEF StartRow
  <2> HIDE DEF fields
  <2>6. process'[p].pc = "reads" /\ process'[p].at = n /\ process'[p].why = process[p].why
        /\ process'[p].broker = process[p].broker
        /\ process'[p].alone = (process[p].alone /\ Begun \subseteq {p})
    BY <1>1, <2>2, <2>5, Going
  <2>7. /\ store' \in Databases /\ store'.tables /\ store'.stamps = store.stamps
        /\ store'.role = store.role /\ store'.marked = store.marked /\ store'.audits = store.audits
        /\ store.columns \subseteq store'.columns /\ table \in store'.columns
    <3>1. CASE process[p].noted
      <4> DEFINE c == store.columns \cup {table}
      <4>1. c \in SUBSET STRING
        BY <1>1, <1>2 DEF Databases
      <4>2. store' = [store EXCEPT !.columns = c]
        BY <2>1, <3>1, Zenon DEF c
      <4>3. store.columns \subseteq c /\ table \in c
        OBVIOUS
      <4> HIDE DEF c
      <4> QED BY <1>1, <1>2, <4>1, <4>2, <4>3, GrownStore
    <3>2. CASE ~process[p].noted
      BY <1>1, <1>2, <2>1, <3>2
    <3> QED BY <3>1, <3>2
  <2>8. \A i \in DOMAIN OldTables : i < n => OldTables[i] \in store'.columns
    <3>1. \A i \in DOMAIN OldTables : i \in Nat
      BY StartConstants
    <3> QED BY <1>2, <2>3, <2>7, <3>1 DEF table
  <2>9. Station(p)'
    BY <1>1, <2>3, <2>6, <2>7, <2>8 DEF Station, Migrated, Seeding
  <2>10. Grows
    BY <2>7 DEF Grows
  <2> QED BY <1>1, <2>2, <2>5, <2>7, <2>9, <2>10, Migrating DEF Seeding
<1> QED BY <1>3, <1>4

LEMMA NormalizesInv ==
    ASSUME StartInv, NEW p \in Processes, Normalizes(p)
    PROVE  StartInv'
<1>1. StartShape /\ Station(p) /\ process[p] \in StartRow /\ process[p].pc = "normalizes"
      /\ process[p].pc \notin Locked
  BY DEF StartInv, StartShape, Normalizes, Locked
<1>2. CASE Waits(p)
  BY <1>1, <1>2, WaitsInv
<1>3. CASE ~Waits(p)
  <2> DEFINE fields == Onward(process[p], "commits")
  <2>1. Goes(p, fields) /\ writer' = p /\ UNCHANGED <<env, store, history>>
    BY <1>3 DEF Normalizes, To, Onward
  <2>2. "commits" \in StateNames
    BY DEF StateNames
  <2>3. fields \in StartRow /\ fields.pc = "commits"
        /\ fields.alone = process[p].alone /\ fields.why = process[p].why /\ fields.broker = process[p].broker
    BY <1>1, <2>2, NextRow
  <2> HIDE DEF fields
  <2>4. /\ process'[p].pc = "commits" /\ process'[p].why = process[p].why
        /\ process'[p].broker = process[p].broker
        /\ process'[p].alone = (process[p].alone /\ Begun \subseteq {p})
    BY <1>1, <2>1, <2>3, Going
  <2>5. Station(p)'
    BY <1>1, <2>1, <2>4 DEF Station, Migrated, Seeding
  <2> QED BY <2>1, <2>3, <2>5, Silent DEF Seeding, Locked
<1> QED BY <1>2, <1>3

LEMMA CommitsSchemaInv ==
    ASSUME StartInv, NEW p \in Processes, CommitsSchema(p)
    PROVE  StartInv'
<1>1. StartShape /\ Station(p) /\ process[p] \in StartRow /\ process[p].pc = "commits"
      /\ store \in Databases /\ p # NoProcess
  BY StartConstants DEF StartInv, StartShape, CommitsSchema
<1> DEFINE fields == Onward(process[p], "armed")
<1>2. Goes(p, fields) /\ writer' = NoProcess /\ UNCHANGED <<env, history>>
      /\ store' = [store EXCEPT !.stamps = "sqlalchemy"]
  BY DEF CommitsSchema, To, Onward
<1>3. "armed" \in StateNames
  BY DEF StateNames
<1>4. fields \in StartRow /\ fields.pc = "armed"
      /\ fields.alone = process[p].alone /\ fields.why = process[p].why /\ fields.broker = process[p].broker
  BY <1>1, <1>3, NextRow
<1> HIDE DEF fields
<1>5. /\ process'[p].pc = "armed" /\ process'[p].why = process[p].why
      /\ process'[p].broker = process[p].broker
      /\ process'[p].alone = (process[p].alone /\ Begun \subseteq {p})
  BY <1>1, <1>2, <1>4, Going
<1>6. /\ store' \in Databases /\ store'.tables = store.tables /\ store'.columns = store.columns
      /\ store'.stamps = "sqlalchemy"
      /\ store'.role = store.role /\ store'.marked = store.marked /\ store'.audits = store.audits
  <2> DEFINE s == "sqlalchemy"
  <2>1. s \in {"legacy", "sqlalchemy"}
    OBVIOUS
  <2>2. store' = [store EXCEPT !.stamps = s]
    BY <1>2
  <2> HIDE DEF s
  <2>3. store' \in Databases /\ store'.tables = store.tables /\ store'.columns = store.columns
        /\ store'.stamps = s
        /\ store'.role = store.role /\ store'.marked = store.marked /\ store'.audits = store.audits
    BY <1>1, <2>1, <2>2 DEF Databases
  <2> QED BY <2>3 DEF s
<1>7. Grows
  BY <1>6 DEF Grows
<1>8. Station(p)'
  <2>1. store.tables /\ AllOldTables \subseteq store.columns
    BY <1>1 DEF Station
  <2>2. (process'[p].why = "database" => ~process'[p].alone)
        /\ (process'[p].broker = "algolab_live" /\ env.provider = "algolab" =>
              env.confirm /\ env.credentials /\ env.endpoints)
    BY <1>1, <1>5 DEF Station
  <2> QED BY <1>2, <1>5, <1>6, <2>1, <2>2 DEF Station, Migrated, Seeding
<1> QED BY <1>1, <1>2, <1>4, <1>6, <1>7, <1>8, Migrating DEF Seeding

\* The reads of the bootstrap, its writes up to the commit, and the check of the users.
LEMMA SeedingInv ==
    ASSUME StartInv, NEW p \in Processes,
           ReadsMark(p) \/ ReadsUser(p) \/ InsertsUser(p) \/ UpdatesUser(p) \/ Validates(p)
    PROVE  StartInv'
<1>1. CASE ReadsMark(p)
  <2>1. process[p].pc = "armed" /\ UNCHANGED <<env, store, writer, history>>
    BY <1>1 DEF ReadsMark
  <2>2. To(p, "validates") \/ (To(p, "user") /\ ~store.marked)
    BY <1>1 DEF ReadsMark
  <2> QED BY <2>1, <2>2, PassesOn DEF Migrated, Seeding, Locked
<1>2. CASE ReadsUser(p)
  <2>1. process[p].pc = "user" /\ UNCHANGED <<env, store, writer, history>>
    BY <1>2 DEF ReadsUser
  <2>2. To(p, "inserts") \/ To(p, "updates") \/ To(p, "validates")
    BY <1>2 DEF ReadsUser
  <2> QED BY <2>1, <2>2, PassesOn DEF Migrated, Seeding, Locked
<1>3. CASE InsertsUser(p)
  <2>1. process[p].pc = "inserts"
    BY <1>3 DEF InsertsUser
  <2>2. \/ Waits(p)
        \/ To(p, "validates") /\ UNCHANGED <<env, store, history, writer>>
        \/ To(p, "created") /\ writer' = p /\ UNCHANGED <<env, store, history>>
    BY <1>3 DEF InsertsUser
  <2> QED BY <2>1, <2>2, PassesOn, WaitsInv DEF Migrated, Seeding, Locked
<1>4. CASE UpdatesUser(p)
  <2>1. process[p].pc = "updates"
    BY <1>4 DEF UpdatesUser
  <2>2. \/ Waits(p)
        \/ To(p, "promoted") /\ writer' = p /\ UNCHANGED <<env, store, history>>
    BY <1>4 DEF UpdatesUser
  <2> QED BY <2>1, <2>2, PassesOn, WaitsInv DEF Migrated, Seeding, Locked
<1>5. CASE Validates(p)
  <2>1. process[p].pc = "validates" /\ UNCHANGED <<env, store, writer, history>>
    BY <1>5 DEF Validates
  <2>2. Ends(p, "users") \/ To(p, "broker")
    BY <1>5 DEF Validates
  <2> QED BY <2>1, <2>2, PassesOn, EndsInv DEF Migrated, Seeding, Locked, Reasons
<1> QED BY <1>1, <1>2, <1>3, <1>4, <1>5

\* The mark and the audit row in one write.
LEMMA SeededStore ==
    ASSUME store \in Databases
    PROVE  LET new == [store EXCEPT !.role = "admin", !.marked = TRUE, !.audits = @ + 1]
           IN  /\ new \in Databases /\ new.tables = store.tables /\ new.columns = store.columns
               /\ new.stamps = store.stamps /\ new.role = "admin" /\ new.marked
               /\ new.audits = store.audits + 1 /\ store.audits \in Nat
<1> DEFINE n == store.audits + 1
           one == [store EXCEPT !.role = "admin"]
           two == [one EXCEPT !.marked = TRUE]
           three == [two EXCEPT !.audits = n]
<1>1. [store EXCEPT !.role = "admin", !.marked = TRUE, !.audits = @ + 1] = three
  BY Zenon DEF one, two, three, n
<1>2. store.audits \in Nat
  BY DEF Databases
<1>3. n \in Nat
  BY <1>2
<1> HIDE DEF n
<1>4. one \in Databases /\ one.tables = store.tables /\ one.columns = store.columns
      /\ one.stamps = store.stamps /\ one.role = "admin"
  <2> DEFINE s == "admin"
  <2>1. s \in UserRoles
    BY DEF UserRoles
  <2>2. one = [store EXCEPT !.role = s]
    OBVIOUS
  <2> HIDE DEF s, one
  <2>3. one \in Databases /\ one.tables = store.tables /\ one.columns = store.columns
        /\ one.stamps = store.stamps /\ one.role = s
    BY <2>1, <2>2 DEF Databases
  <2> QED BY <2>3 DEF s
<1> HIDE DEF one
<1>5. two \in Databases /\ two.tables = store.tables /\ two.columns = store.columns
      /\ two.stamps = store.stamps /\ two.role = "admin" /\ two.marked
  BY <1>4 DEF Databases
<1> HIDE DEF two
<1>6. three \in Databases /\ three.tables = store.tables /\ three.columns = store.columns
      /\ three.stamps = store.stamps /\ three.role = "admin" /\ three.marked /\ three.audits = n
  BY <1>3, <1>5 DEF Databases
<1> HIDE DEF three
<1> QED BY <1>1, <1>2, <1>6 DEF n

LEMMA CommitsSeedInv ==
    ASSUME StartInv, NEW p \in Processes, CommitsSeed(p)
    PROVE  StartInv'
<1>1. StartShape /\ Station(p) /\ OneShot /\ process[p] \in StartRow /\ process[p].pc \in Seeding
      /\ store \in Databases /\ p # NoProcess
  BY StartConstants DEF StartInv, StartShape, CommitsSeed, Seeding
<1> DEFINE fields == Onward(process[p], "validates")
           undone == store.marked /\ ~IsSqlite
<1>2. /\ Goes(p, fields) /\ writer' = NoProcess /\ env' = env
      /\ store' = IF undone THEN store ELSE [store EXCEPT !.role = "admin", !.marked = TRUE, !.audits = @ + 1]
      /\ history' = [history EXCEPT !.foundUsers = @ \/ (~undone /\ store.others # "none")]
  BY DEF CommitsSeed, To, Onward
<1>3. "validates" \in StateNames
  BY DEF StateNames
<1>4. fields \in StartRow /\ fields.pc = "validates"
      /\ fields.alone = process[p].alone /\ fields.why = process[p].why /\ fields.broker = process[p].broker
  BY <1>1, <1>3, NextRow
<1> HIDE DEF fields
<1>5. /\ process'[p].pc = "validates" /\ process'[p].why = process[p].why
      /\ process'[p].broker = process[p].broker
      /\ process'[p].alone = (process[p].alone /\ Begun \subseteq {p})
  BY <1>1, <1>2, <1>4, Going
<1>6. ~history.demoted /\ ~history'.demoted
      /\ history' \in [demoted : BOOLEAN, foundUsers : BOOLEAN]
  <2> DEFINE found == history.foundUsers \/ (~undone /\ store.others # "none")
  <2>1. ~history.demoted
    BY <1>1 DEF OneShot
  <2>2. history' = [history EXCEPT !.foundUsers = found] /\ found \in BOOLEAN
    BY <1>2
  <2>3. history \in [demoted : BOOLEAN, foundUsers : BOOLEAN]
    BY <1>1 DEF StartShape
  <2> HIDE DEF found
  <2> QED BY <2>1, <2>2, <2>3
<1>7. /\ store' \in Databases /\ store'.tables = store.tables /\ store'.columns = store.columns
      /\ store'.stamps = store.stamps
      /\ store'.marked <=> store'.audits > 0
      /\ ~IsSqlite => store'.audits <= 1
  <2>1. CASE undone
    BY <1>1, <1>2, <2>1 DEF OneShot
  <2>2. CASE ~undone
    <3>1. /\ store' \in Databases /\ store'.tables = store.tables /\ store'.columns = store.columns
          /\ store'.stamps = store.stamps /\ store'.marked /\ store'.audits = store.audits + 1
          /\ store.audits \in Nat
      BY <1>1, <1>2, <2>2, SeededStore
    <3>2. ~IsSqlite => ~store.marked
      BY <2>2
    <3> QED BY <1>1, <3>1, <3>2 DEF OneShot
  <2> QED BY <2>1, <2>2
<1> HIDE DEF undone
<1>8. Grows
  BY <1>7 DEF Grows
<1>9. Station(p)'
  <2>1. store.tables /\ (IsSqlite => AllOldTables \subseteq store.columns /\ store.stamps = "sqlalchemy")
    BY <1>1 DEF Station, Migrated
  <2>2. (process'[p].why = "database" => ~process'[p].alone)
        /\ (process'[p].broker = "algolab_live" /\ env.provider = "algolab" =>
              env.confirm /\ env.credentials /\ env.endpoints)
    BY <1>1, <1>5 DEF Station
  <2> QED BY <1>2, <1>5, <1>7, <2>1, <2>2 DEF Station, Migrated, Seeding, IsSqlite
<1>10. OneShot'
  BY <1>2, <1>6, <1>7 DEF OneShot, IsSqlite
<1> QED BY <1>1, <1>2, <1>4, <1>6, <1>8, <1>9, <1>10, StepKeeps

\* The broker is built only from what validate_broker_config let through.
LEMMA BuildsBrokerInv ==
    ASSUME StartInv, NEW p \in Processes, BuildsBroker(p)
    PROVE  StartInv'
<1>1. StartShape /\ Station(p) /\ process[p] \in StartRow /\ process[p].pc = "broker"
      /\ UNCHANGED <<env, store, writer, history>> /\ writer # p
  BY HoldsNone DEF StartInv, StartShape, BuildsBroker, Locked
<1>2. CASE BrokerConfigured /\ BrokerBuilt # "none"
  <2> DEFINE built == BrokerBuilt
             one == [process[p] EXCEPT !.pc = "up"]
             fields == [one EXCEPT !.broker = built]
  <2>1. Goes(p, [process[p] EXCEPT !.pc = "up", !.broker = BrokerBuilt])
    BY <1>2 DEF BuildsBroker
  <2>2. Goes(p, fields)
    <3>1. fields = [process[p] EXCEPT !.pc = "up", !.broker = BrokerBuilt]
      BY Zenon DEF fields, one, built
    <3> QED BY <2>1, <3>1
  <2>3. /\ built \in Brokers
        /\ built = "algolab_live" /\ env.provider = "algolab" => env.confirm /\ env.credentials /\ env.endpoints
    BY <1>2 DEF BrokerBuilt, BrokerConfigured, EffectiveMode, Brokers
  <2> HIDE DEF built
  <2>4. one \in StartRow /\ one.pc = "up" /\ one.why = process[p].why /\ one.alone = process[p].alone
    BY <1>1 DEF StartRow, StateNames
  <2> HIDE DEF one
  <2>5. fields \in StartRow /\ fields.pc = "up" /\ fields.why = process[p].why
        /\ fields.alone = process[p].alone /\ fields.broker = built
    BY <2>3, <2>4 DEF StartRow
  <2> HIDE DEF fields
  <2>6. /\ process'[p].pc = "up" /\ process'[p].why = process[p].why /\ process'[p].broker = built
        /\ process'[p].alone = (process[p].alone /\ Begun \subseteq {p})
    BY <1>1, <2>2, <2>5, Going
  <2>7. Station(p)'
    <3>1. store.tables /\ (IsSqlite => AllOldTables \subseteq store.columns /\ store.stamps = "sqlalchemy")
      BY <1>1 DEF Station, Migrated
    <3>2. process'[p].why = "database" => ~process'[p].alone
      BY <1>1, <2>6 DEF Station
    <3> QED BY <1>1, <2>3, <2>6, <3>1, <3>2 DEF Station, IsSqlite, Migrated, Seeding
  <2> QED BY <1>1, <2>2, <2>5, <2>7, Silent DEF Seeding
<1>3. CASE ~(BrokerConfigured /\ BrokerBuilt # "none")
  <2>1. Ends(p, "config") /\ "config" \in Reasons /\ process[p].pc \notin Locked
    BY <1>1, <1>3 DEF BuildsBroker, Reasons, Locked
  <2> QED BY <1>1, <2>1, EndsInv
<1> QED BY <1>2, <1>3

LEMMA CrashesInv ==
    ASSUME StartInv, NEW p \in Processes, Crashes(p)
    PROVE  StartInv'
<1>1. StartShape /\ process[p] \in StartRow /\ UNCHANGED <<env, store, history>>
      /\ writer' \in {writer, NoProcess} /\ writer' # p
  BY StartConstants DEF StartInv, StartShape, Crashes
<1> DEFINE two == Left(process[p], "down", "crash")
           fields == [two EXCEPT !.broker = "none"]
<1>2. Goes(p, fields)
  <2>1. fields = [process[p] EXCEPT !.pc = "down", !.why = "crash", !.broker = "none"]
    BY Zenon DEF fields, two, Left
  <2>2. Goes(p, [process[p] EXCEPT !.pc = "down", !.why = "crash", !.broker = "none"])
    BY DEF Crashes
  <2> QED BY <2>1, <2>2
<1>3. two \in StartRow /\ two.pc = "down" /\ two.why = "crash"
  <2>1. "down" \in StateNames /\ "crash" \in Reasons
    BY DEF StateNames, Reasons
  <2> QED BY <1>1, <2>1, LeftRow
<1> HIDE DEF two
<1>4. fields \in StartRow /\ fields.pc = "down" /\ fields.why = "crash" /\ fields.broker = "none"
  BY <1>3 DEF StartRow, Brokers
<1> HIDE DEF fields
<1>5. process'[p].pc = "down" /\ process'[p].why = "crash" /\ process'[p].broker = "none"
  BY <1>1, <1>2, <1>4, Going
<1>6. Station(p)'
  BY <1>5 DEF Station, Migrated, Seeding
<1> QED BY <1>1, <1>2, <1>4, <1>6, Silent DEF Seeding

LEMMA DegradedExpiresInv ==
    ASSUME StartInv, NEW p \in Processes, DegradedExpires(p)
    PROVE  StartInv'
<1>1. StartShape /\ Station(p) /\ process[p] \in StartRow
      /\ UNCHANGED <<env, store, writer, history>> /\ writer # p
  BY HoldsNone DEF StartInv, StartShape, DegradedExpires, Locked
<1> DEFINE fields == Onward(process[p], "down")
<1>2. Goes(p, fields)
  BY DEF DegradedExpires, Onward
<1>3. "down" \in StateNames
  BY DEF StateNames
<1>4. fields \in StartRow /\ fields.pc = "down"
      /\ fields.alone = process[p].alone /\ fields.why = process[p].why /\ fields.broker = process[p].broker
  BY <1>1, <1>3, NextRow
<1> HIDE DEF fields
<1>5. /\ process'[p].pc = "down" /\ process'[p].why = process[p].why
      /\ process'[p].broker = process[p].broker
      /\ process'[p].alone = (process[p].alone /\ Begun \subseteq {p})
  BY <1>1, <1>2, <1>4, Going
<1>6. Station(p)'
  <2>1. (process'[p].why = "database" => ~process'[p].alone)
        /\ (process'[p].broker = "algolab_live" /\ env.provider = "algolab" =>
              env.confirm /\ env.credentials /\ env.endpoints)
    BY <1>1, <1>5 DEF Station
  <2> QED BY <1>1, <1>5, <2>1 DEF Station, Migrated, Seeding
<1> QED BY <1>1, <1>2, <1>4, <1>6, Silent DEF Seeding

\* What an operator does to the administrator's row: nobody's station is about it.
LEMMA OperatorInv ==
    ASSUME StartInv, Demotes \/ Rearms
    PROVE  StartInv'
<1>1. StartShape /\ OneShot /\ (\A q \in Processes : Station(q)) /\ store \in Databases
      /\ history \in [demoted : BOOLEAN, foundUsers : BOOLEAN]
  BY DEF StartInv, StartShape
<1>2. UNCHANGED <<env, writer, process>>
  BY DEF Demotes, Rearms
<1>3. ASSUME store' \in Databases, store'.tables = store.tables, store'.columns = store.columns,
             store'.stamps = store.stamps,
             history' \in [demoted : BOOLEAN, foundUsers : BOOLEAN], OneShot'
      PROVE  StartInv'
  <2>1. StartShape'
    BY <1>1, <1>2, <1>3 DEF StartShape
  <2>2. ASSUME NEW q \in Processes PROVE Station(q)'
    <3>1. Station(q)
      BY <1>1
    <3> QED BY <1>2, <1>3, <3>1 DEF Station, IsSqlite
  <2> QED BY <1>3, <2>1, <2>2 DEF StartInv
<1>4. CASE Demotes
  <2> DEFINE now == store.marked /\ Begun = {}
             role == "viewer"
  <2>1. store' = [store EXCEPT !.role = role] /\ role \in UserRoles /\ role # "admin"
    BY <1>4 DEF Demotes, UserRoles
  <2>2. history' = [history EXCEPT !.demoted = now] /\ now \in BOOLEAN
    BY <1>4 DEF Demotes
  <2>3. now => /\ store.marked
               /\ \A q \in Processes : process[q].pc \notin Seeding
    BY DEF Begun, Resting, Seeding
  <2> HIDE DEF now, role
  <2>4. /\ store' \in Databases /\ store'.tables = store.tables /\ store'.columns = store.columns
        /\ store'.stamps = store.stamps /\ store'.marked = store.marked /\ store'.audits = store.audits
        /\ store'.role = role
    BY <1>1, <2>1 DEF Databases
  <2>5. history' \in [demoted : BOOLEAN, foundUsers : BOOLEAN] /\ history'.demoted = now
    BY <1>1, <2>2
  <2>6. OneShot'
    BY <1>1, <1>2, <2>1, <2>3, <2>4, <2>5 DEF OneShot, IsSqlite
  <2> QED BY <1>3, <2>4, <2>5, <2>6
<1>5. CASE Rearms
  <2> DEFINE one == [store EXCEPT !.marked = FALSE]
             two == [one EXCEPT !.audits = 0]
  <2>1. store' = two
    <3>1. two = [store EXCEPT !.marked = FALSE, !.audits = 0]
      BY Zenon DEF two, one
    <3> QED BY <1>5, <3>1 DEF Rearms
  <2>2. one \in Databases /\ one.tables = store.tables /\ one.columns = store.columns
        /\ one.stamps = store.stamps /\ ~one.marked
    BY <1>1 DEF Databases
  <2> HIDE DEF one
  <2>3. two \in Databases /\ two.tables = store.tables /\ two.columns = store.columns
        /\ two.stamps = store.stamps /\ ~two.marked /\ two.audits = 0
    BY <2>2 DEF Databases
  <2> HIDE DEF two
  <2>4. history' \in [demoted : BOOLEAN, foundUsers : BOOLEAN] /\ ~history'.demoted
    BY <1>1, <1>5 DEF Rearms
  <2>5. OneShot'
    BY <2>1, <2>3, <2>4 DEF OneShot, IsSqlite
  <2> QED BY <1>3, <2>1, <2>3, <2>4, <2>5
<1> QED BY <1>4, <1>5

LEMMA StartBegins == StartUpInit => StartInv
<1> SUFFICES ASSUME StartUpInit PROVE StartInv
  OBVIOUS
<1>1. store \in Databases /\ (store.marked <=> store.audits > 0) /\ store.audits <= 1
  BY StartConstants DEF StartUpInit
<1>2. Fresh \in StartRow /\ Fresh.pc = "down" /\ Fresh.why = "none" /\ Fresh.broker = "none"
  BY DEF Fresh, StartRow, StateNames, Reasons, Brokers
<1>3. process \in [Processes -> StartRow] /\ \A q \in Processes : process[q] = Fresh
  BY <1>2 DEF StartUpInit
<1>4. history \in [demoted : BOOLEAN, foundUsers : BOOLEAN] /\ ~history.demoted
  BY DEF StartUpInit
<1>5. StartShape
  BY <1>1, <1>3, <1>4 DEF StartShape, StartUpInit
<1>6. ASSUME NEW q \in Processes PROVE Station(q)
  BY <1>2, <1>3 DEF Station, Migrated, Seeding
<1>7. OneShot
  BY <1>1, <1>4 DEF OneShot
<1> QED BY <1>5, <1>6, <1>7 DEF StartInv

LEMMA StartStep ==
    ASSUME StartInv, [StartUpNext]_startVars
    PROVE  StartInv'
<1>1. ASSUME NEW p \in Processes,
             \/ Boots(p) \/ LooksForTables(p) \/ CreatesTables(p) \/ ReadsColumns(p) \/ AltersTable(p)
             \/ Normalizes(p) \/ CommitsSchema(p)
             \/ ReadsMark(p) \/ ReadsUser(p) \/ InsertsUser(p) \/ UpdatesUser(p) \/ CommitsSeed(p)
             \/ Validates(p) \/ BuildsBroker(p) \/ Crashes(p) \/ DegradedExpires(p)
      PROVE  StartInv'
  BY <1>1, EarlyInv, CreatesTablesInv, ReadsColumnsInv, AltersTableInv, NormalizesInv, CommitsSchemaInv,
     SeedingInv, CommitsSeedInv, BuildsBrokerInv, CrashesInv, DegradedExpiresInv
<1>2. CASE Demotes \/ Rearms
  BY <1>2, OperatorInv
<1>3. CASE UNCHANGED startVars
  <2>1. UNCHANGED <<env, store, writer, process, history>>
    BY <1>3 DEF startVars
  <2>2. StartShape' /\ OneShot'
    BY <2>1 DEF StartInv, StartShape, OneShot, IsSqlite
  <2>3. ASSUME NEW q \in Processes PROVE Station(q)'
    <3>1. Station(q)
      BY DEF StartInv
    <3> QED BY <2>1, <3>1 DEF Station, IsSqlite
  <2> QED BY <2>2, <2>3 DEF StartInv
<1> QED BY <1>1, <1>2, <1>3 DEF StartUpNext

LEMMA StartInvSound == StartInv => StartsSound
<1> SUFFICES ASSUME StartInv PROVE StartsSound
  OBVIOUS
<1>1. StartShape /\ OneShot /\ \A q \in Processes : Station(q)
  BY DEF StartInv
<1>2. SchemaWhole
  <2>1. Migrated = {"armed", "user", "inserts", "updates", "created", "promoted", "validates", "broker", "up"}
    BY DEF Migrated, Seeding
  <2>2. \A q \in Processes : process[q].pc \in Migrated =>
          /\ store.tables
          /\ IsSqlite => AllOldTables \subseteq store.columns /\ store.stamps = "sqlalchemy"
    BY <1>1 DEF Station
  <2> QED BY <2>1, <2>2 DEF SchemaWhole, AllOldTables
<1>3. BootstrapOneShot
  BY <1>1 DEF BootstrapOneShot, OneShot
<1>4. LoneStartSucceeds /\ ProviderConfirmed
  BY <1>1 DEF LoneStartSucceeds, ProviderConfirmed, Station
<1> QED BY <1>2, <1>3, <1>4 DEF StartsSound

\* However many processes start over one database, in whatever order, and crash wherever: whoever is up
\* has the whole schema, the bootstrap is one-shot, only company makes the database refuse a start, and
\* the provider trades live only with what it needs.
THEOREM StartsHold == StartUpSpec => []StartsSound
<1>1. StartUpInit => StartInv
  BY StartBegins
<1>2. StartInv /\ [StartUpNext]_startVars => StartInv'
  BY StartStep
<1>3. StartInv => StartsSound
  BY StartInvSound
<1> QED BY <1>1, <1>2, <1>3, PTL DEF StartUpSpec

----
(* The functions that follow a position to its exit, for all bars, levels,   *)
(* rates and limits.  Two of them agree at the end because they agreed on    *)
(* every bar before it; what they carry from bar to bar is the stop in       *)
(* force and the peak of the closes, so the invariant says how these are     *)
(* related as long as a position is open (StopsAgree, Paired), that a        *)
(* position is left within its time (ExitPlaced), and otherwise is what is   *)
(* to be shown.                                                              *)

Setups == [stop : Nat, target : Nat, trail : Mults, ended : BOOLEAN]
StopRow == [stop : Nat, peak : Nat]
StudyTrade == [from : Nat, to : Nat, price : Int]
StudyRow == [in : BOOLEAN, entry : Int, stop : Int, peak : Int, from : 0..NSimBars, trades : Seq(StudyTrade)]

SimTyped ==
    /\ setup \in Setups
    /\ seen.n \in 0..NSimBars /\ seen.left \in BOOLEAN
    /\ seen.n = 0 => ~seen.left /\ ~setup.ended
    /\ seen.n > 0 => seen.last \in SimBars /\ seen.entry \in Nat \ {0}
    /\ stops \in [{"evaluator", "edge"} -> StopRow]
    /\ studies \in [Students -> StudyRow]

\* A position that is left was left on a bar that was seen, within its time.
ExitPlaced(f, e) ==
    /\ e = Open \/ (e.at \in 1..seen.n /\ e.at <= HoldLimit)
    /\ e = Open => seen.n < HoldLimit \/ (f \in {"replay", "short"} /\ ~Replayed)
    /\ e = Open => ~setup.ended \/ (f \in {"replay", "short"} /\ ~Replayed)
    /\ ~setup.ended => e.reason # "INCOMPLETE"
    /\ f = "contract" => e.price \in Nat

ExitsPlaced == DOMAIN exits = Followers /\ \A f \in Followers : ExitPlaced(f, exits[f])

\* Two simulators that trail have the same stop as long as their target is the same.
StopsAgree ==
    /\ \A f \in {"evaluator", "edge"} :
          setup.stop <= stops[f].stop /\ (setup.trail = NoTrail => stops[f].stop = setup.stop)
    /\ exits["evaluator"] = Open /\ (seen.n = 0 \/ setup.target = EdgeTarget(seen.entry)) =>
          stops["edge"] = stops["evaluator"]

\* Two simulators that enter at the same bars, at bar m.
Paired(p, q, m) ==
    /\ q.in => p.in
    /\ p.in => \/ q.in /\ q.from = p.from /\ q.stop = p.stop /\ q.peak >= p.peak
               \/ ~q.in /\ \E r \in Range(q.trades) : r.from = p.from
    /\ \A r \in Range(q.trades) : r.to <= m
    /\ \A t \in Range(p.trades) : \E r \in Range(q.trades) : r.from = t.from /\ r.to <= t.to

Followed ==
    /\ studies["independent"] = studies["shared"] /\ Paired(studies["shared"], studies["random"], seen.n)
    /\ setup.ended => ~studies["shared"].in

SimInv == SimTyped /\ ExitsPlaced /\ LevelsAgree /\ StopsAgree /\ Followed

\* The greater and the lesser of two numbers.
LEMMA MaxTwo ==
    ASSUME NEW a \in Int, NEW b \in Int
    PROVE  Max({a, b}) = IF a >= b THEN a ELSE b
<1>1. \E x \in {a, b} : \A y \in {a, b} : x >= y
  OBVIOUS
<1>2. PICK m : m = Max({a, b})
  OBVIOUS
<1>3. m \in {a, b} /\ \A y \in {a, b} : m >= y
  BY <1>1, <1>2, Zenon DEF Max
<1> QED BY <1>2, <1>3

LEMMA MinTwo ==
    ASSUME NEW a \in Int, NEW b \in Int
    PROVE  Min({a, b}) = IF a <= b THEN a ELSE b
<1>1. \E x \in {a, b} : \A y \in {a, b} : x <= y
  OBVIOUS
<1>2. PICK m : m = Min({a, b})
  OBVIOUS
<1>3. m \in {a, b} /\ \A y \in {a, b} : m <= y
  BY <1>1, <1>2, Zenon DEF Min
<1> QED BY <1>2, <1>3

LEMMA BarFacts ==
    ASSUME NEW b \in SimBars
    PROVE  /\ b.o \in Nat \ {0} /\ b.h \in Nat /\ b.l \in Nat /\ b.c \in Nat /\ b.atr \in Nat
           /\ b.leave \in BOOLEAN /\ b.sig \in BOOLEAN
  BY SimulatorsAssumption

LEMMA LimitFacts ==
    /\ RewardRisk \in Nat \ {0} /\ HoldLimit \in Nat \ {0} /\ NSimBars \in Nat \ {0} /\ StudyTrail \in Nat \ {0}
    /\ \A m \in Mults : m # NoTrail => m \in Nat
  BY SimulatorsAssumption

\* What the functions say of a bar: nothing, or an exit on it.
SaysOf(e, n) ==
    /\ e = Open \/ e.at = n
    /\ e.reason \notin {"INCOMPLETE", "DATA_END"}
    /\ e.price \in Int
    /\ n = HoldLimit => e # Open

LEMMA ContractSays ==
    ASSUME setup \in Setups, NEW n \in Nat \ {0}, NEW b \in SimBars
    PROVE  SaysOf(ContractExit(n, b), n) /\ ContractExit(n, b).price \in Nat
<1>1. setup.stop \in Nat /\ setup.target \in Nat
  BY DEF Setups
<1> QED BY <1>1, BarFacts, LimitFacts DEF ContractExit, Exit, Open, SaysOf

LEMMA EvaluatorSays ==
    ASSUME setup \in Setups, NEW n \in Nat \ {0}, NEW b \in SimBars, NEW s \in StopRow
    PROVE  SaysOf(EvaluatorExit(s, n, b), n)
<1>1. setup.target \in Nat /\ s.stop \in Nat
  BY DEF Setups, StopRow
<1> QED BY <1>1, BarFacts, LimitFacts DEF EvaluatorExit, IntrabarExitOf, Exit, Open, SaysOf

LEMMA EdgeTargetTyped ==
    ASSUME setup \in Setups, NEW entry \in Nat
    PROVE  EdgeTarget(entry) \in Nat
<1>1. PICK stop \in Nat : stop = setup.stop
  BY DEF Setups
<1>2. CASE entry > stop
  <2>1. PICK r \in Nat : r = entry - stop
    BY <1>2
  <2>2. RewardRisk * r \in Nat
    BY <2>1, LimitFacts
  <2> QED BY <1>1, <1>2, <2>1, <2>2 DEF EdgeTarget
<1>3. CASE ~(entry > stop)
  BY <1>1, <1>3 DEF EdgeTarget
<1> QED BY <1>2, <1>3

LEMMA EdgeSays ==
    ASSUME setup \in Setups, NEW n \in Nat \ {0}, NEW b \in SimBars, NEW s \in StopRow,
           n > 1 => seen.entry \in Nat
    PROVE  SaysOf(EdgeExit(s, n, b), n)
<1>1. PICK target : target = EdgeTarget(IF n = 1 THEN b.o ELSE seen.entry)
  OBVIOUS
<1>2. target \in Nat /\ s.stop \in Nat
  <2>1. PICK entry \in Nat : entry = IF n = 1 THEN b.o ELSE seen.entry
    BY BarFacts
  <2> QED BY <1>1, <2>1, EdgeTargetTyped DEF StopRow
<1> QED BY <1>1, <1>2, BarFacts, LimitFacts DEF EdgeExit, Exit, Open, SaysOf

LEMMA ReplaySays ==
    ASSUME setup \in Setups, NEW n \in Nat \ {0}, NEW b \in SimBars
    PROVE  SaysOf(ReplayExit(n, b), n)
<1>1. setup.stop \in Nat /\ setup.target \in Nat
  BY DEF Setups
<1> QED BY <1>1, BarFacts, LimitFacts DEF ReplayExit, Exit, Open, SaysOf

\* The short position upside down.
LEMMA ShortIsReplay ==
    ASSUME setup \in Setups, NEW n \in Nat \ {0}, NEW b \in SimBars
    PROVE  SaysOf(ShortExit(n, b), n) /\ Upright(ShortExit(n, b)) = ReplayExit(n, b)
<1>1. setup.stop \in Nat /\ setup.target \in Nat
  BY DEF Setups
<1>2. SaysOf(ShortExit(n, b), n)
  BY <1>1, BarFacts, LimitFacts DEF ShortExit, Exit, Open, SaysOf
<1>3. Upright(ShortExit(n, b)) = ReplayExit(n, b)
  BY <1>1, BarFacts, LimitFacts DEF ShortExit, ReplayExit, Exit, Open, Upright
<1> QED BY <1>2, <1>3

\* The evaluator without a trailing stop and the contract.
LEMMA EvaluatorIsContract ==
    ASSUME setup \in Setups, NEW n \in Nat \ {0}, NEW b \in SimBars, NEW s \in StopRow, s.stop = setup.stop,
           ~(n > 1 /\ b.leave)
    PROVE  SamePlace(EvaluatorExit(s, n, b), ContractExit(n, b))
<1>1. setup.stop \in Nat /\ setup.target \in Nat
  BY DEF Setups
<1> QED BY <1>1, BarFacts, LimitFacts DEF EvaluatorExit, IntrabarExitOf, ContractExit, Exit, Open, SamePlace

\* A higher stop leaves where a lower one does, if not before.
LEMMA EvaluatorNotLater ==
    ASSUME setup \in Setups, NEW n \in Nat \ {0}, NEW b \in SimBars, NEW s \in StopRow, setup.stop <= s.stop,
           ContractExit(n, b) # Open
    PROVE  EvaluatorExit(s, n, b) # Open
<1>1. setup.stop \in Nat /\ setup.target \in Nat /\ s.stop \in Nat
  BY DEF Setups, StopRow
<1> QED BY <1>1, BarFacts, LimitFacts DEF EvaluatorExit, IntrabarExitOf, ContractExit, Exit, Open

\* A replayed position and the contract.
LEMMA ReplayIsContract ==
    ASSUME setup \in Setups, NEW n \in Nat \ {0}, NEW b \in SimBars, Replayed
    PROVE  /\ SamePlace(ReplayExit(n, b), ContractExit(n, b))
           /\ (ReplayExit(n, b).reason \in {"skipped_gap_through_stop", "skipped_gap_through_target"})
                <=> (ContractExit(n, b).at = 1 /\ ContractExit(n, b).reason \in {"STOP_GAP", "TARGET_GAP"})
<1>1. setup.stop \in Nat /\ setup.target \in Nat /\ 0 < setup.stop /\ 0 < setup.target
  BY DEF Setups, Replayed
<1>2. SamePlace(ReplayExit(n, b), ContractExit(n, b))
  BY <1>1, BarFacts, LimitFacts DEF ReplayExit, ContractExit, Exit, Open, SamePlace
<1>3. (ReplayExit(n, b).reason \in {"skipped_gap_through_stop", "skipped_gap_through_target"})
        <=> (ContractExit(n, b).at = 1 /\ ContractExit(n, b).reason \in {"STOP_GAP", "TARGET_GAP"})
  BY <1>1, BarFacts, LimitFacts DEF ReplayExit, ContractExit, Exit, Open
<1> QED BY <1>2, <1>3

\* The edge diagnosis and the evaluator with one stop and one target.
LEMMA EdgeIsEvaluator ==
    ASSUME NEW n, NEW b, NEW s, setup.target = EdgeTarget(IF n = 1 THEN b.o ELSE seen.entry)
    PROVE  EdgeExit(s, n, b) = EvaluatorExit(s, n, b)
  BY DEF EvaluatorExit, IntrabarExitOf, EdgeExit, Exit, Open

\* The stop of a bar.
LEMMA StopOnBarTyped ==
    ASSUME setup \in Setups, NEW n \in Nat \ {0}, NEW b \in SimBars, NEW s \in StopRow,
           n > 1 => seen.last \in SimBars
    PROVE  /\ StopOnBar(s, n, b) \in StopRow /\ s.stop <= StopOnBar(s, n, b).stop
           /\ setup.trail = NoTrail => StopOnBar(s, n, b).stop = s.stop
<1>1. s.stop \in Nat /\ s.peak \in Nat /\ setup.trail \in Mults
  BY DEF StopRow, Setups
<1>2. CASE n = 1
  <2>1. PICK t : t = StopOnBar(s, n, b)
    OBVIOUS
  <2>2. t = [stop |-> s.stop, peak |-> b.c]
    BY <1>2, <2>1 DEF StopOnBar, StopRow
  <2> QED BY <1>1, <2>1, <2>2, BarFacts DEF StopRow
<1>3. CASE n # 1
  <2>1. PICK before \in SimBars : before = seen.last
    BY <1>3
  <2>2. PICK peak \in Nat : peak = Max({s.peak, before.c})
    BY <1>1, BarFacts, MaxTwo
  <2>3. CASE setup.trail = NoTrail \/ before.atr = 0
    <3>1. StopOnBar(s, n, b) = [peak |-> peak, stop |-> s.stop]
      BY <1>3, <2>1, <2>2, <2>3 DEF StopOnBar, Trailed
    <3> QED BY <1>1, <2>2, <3>1 DEF StopRow
  <2>4. CASE ~(setup.trail = NoTrail \/ before.atr = 0)
    <3>1. PICK trail \in Nat : trail = setup.trail
      BY <1>1, <2>4, LimitFacts
    <3>2. PICK away \in Nat : away = trail * before.atr
      BY BarFacts
    <3>3. PICK stop \in Nat : stop = Max({s.stop, peak - away}) /\ s.stop <= stop
      BY <1>1, MaxTwo
    <3>4. StopOnBar(s, n, b) = [peak |-> peak, stop |-> stop]
      BY <1>3, <2>1, <2>2, <2>4, <3>1, <3>2, <3>3 DEF StopOnBar, Trailed
    <3> QED BY <1>1, <2>2, <2>4, <3>3, <3>4 DEF StopRow
  <2> QED BY <2>3, <2>4
<1> QED BY <1>2, <1>3

----
\* A bar for the functions that follow levels.
Seeing(n, b) ==
    /\ SimInv /\ b \in SimBars /\ n = seen.n + 1 /\ NextBar(b)

LEMMA BarSeen ==
    ASSUME NEW n, NEW b, Seeing(n, b)
    PROVE  /\ n \in Nat \ {0} /\ n <= NSimBars /\ seen.n \in Nat /\ n = seen.n + 1
           /\ setup \in Setups /\ setup' = setup /\ ~setup.ended /\ setup.stop \in Nat /\ setup.target \in Nat
           /\ seen'.n = n /\ seen'.last = b /\ seen'.left \in BOOLEAN /\ seen'.entry \in Nat \ {0}
           /\ seen'.entry = (IF n = 1 THEN b.o ELSE seen.entry)
           /\ ~seen'.left <=> ~seen.left /\ ~(n > 1 /\ b.leave)
           /\ n > 1 => seen.last \in SimBars /\ seen.entry \in Nat \ {0}
<1>1. seen.n \in Nat /\ seen.n <= NSimBars /\ n = seen.n + 1 /\ setup \in Setups /\ seen.left \in BOOLEAN
  BY LimitFacts DEF Seeing, SimInv, SimTyped
<1>2. n \in Nat \ {0} /\ n <= NSimBars /\ ~setup.ended /\ setup' = setup
  BY <1>1 DEF Seeing, NextBar
<1>3. n > 1 => seen.last \in SimBars /\ seen.entry \in Nat \ {0}
  BY <1>1 DEF Seeing, SimInv, SimTyped
<1>4. seen' = [n |-> n, entry |-> IF n = 1 THEN b.o ELSE seen.entry, last |-> b,
               left |-> seen.left \/ (n > 1 /\ b.leave)]
  BY DEF Seeing, NextBar
<1>5. b \in SimBars
  BY DEF Seeing
<1>6. seen'.entry \in Nat \ {0} /\ seen'.left \in BOOLEAN
  BY <1>1, <1>2, <1>3, <1>4, <1>5, BarFacts
<1>7. setup.stop \in Nat /\ setup.target \in Nat
  BY <1>1 DEF Setups
<1> QED BY <1>1, <1>2, <1>3, <1>4, <1>6, <1>7

\* The exit of each after a bar.
LEMMA ExitsSeen ==
    ASSUME NEW n, NEW b, Seeing(n, b)
    PROVE  /\ DOMAIN exits = Followers /\ DOMAIN exits' = Followers
           /\ stops' \in [{"evaluator", "edge"} -> StopRow]
           /\ \A f \in {"evaluator", "edge"} :
                 /\ StopOnBar(stops[f], n, b) \in StopRow /\ stops[f].stop <= StopOnBar(stops[f], n, b).stop
                 /\ setup.trail = NoTrail => StopOnBar(stops[f], n, b).stop = stops[f].stop
                 /\ stops'[f] = IF exits[f] = Open THEN StopOnBar(stops[f], n, b) ELSE stops[f]
           /\ \A f \in Followers : exits[f] # Open \/ n > HoldLimit => exits'[f] = exits[f]
           /\ n <= HoldLimit =>
                 /\ exits["contract"] = Open => exits'["contract"] = ContractExit(n, b)
                 /\ exits["evaluator"] = Open =>
                       exits'["evaluator"] = EvaluatorExit(StopOnBar(stops["evaluator"], n, b), n, b)
                 /\ exits["edge"] = Open => exits'["edge"] = EdgeExit(StopOnBar(stops["edge"], n, b), n, b)
                 /\ exits["replay"] = Open => exits'["replay"] = IF Replayed THEN ReplayExit(n, b) ELSE Open
                 /\ exits["short"] = Open => exits'["short"] = IF Replayed THEN ShortExit(n, b) ELSE Open
<1>1. n \in Nat \ {0} /\ b \in SimBars /\ setup \in Setups /\ n = seen.n + 1 /\ (n > 1 => seen.last \in SimBars)
  BY BarSeen DEF Seeing
<1>2. stops \in [{"evaluator", "edge"} -> StopRow] /\ DOMAIN exits = Followers
  BY DEF Seeing, SimInv, SimTyped, ExitsPlaced
<1>3. exits' = [f \in Followers |-> IF exits[f] = Open /\ n <= HoldLimit THEN FollowedBy(f, n, b) ELSE exits[f]]
  BY <1>1 DEF Seeing, NextBar
<1>4. stops' = [f \in {"evaluator", "edge"} |-> IF exits[f] = Open THEN StopOnBar(stops[f], n, b) ELSE stops[f]]
  BY <1>1, <1>2 DEF Seeing, NextBar
<1>5. \A f \in {"evaluator", "edge"} :
         /\ StopOnBar(stops[f], n, b) \in StopRow /\ stops[f].stop <= StopOnBar(stops[f], n, b).stop
         /\ setup.trail = NoTrail => StopOnBar(stops[f], n, b).stop = stops[f].stop
  BY <1>1, <1>2, StopOnBarTyped
<1>6. \A f \in Followers : exits[f] # Open \/ n > HoldLimit => exits'[f] = exits[f]
  BY <1>1, <1>3, LimitFacts
<1>7. ASSUME n <= HoldLimit, NEW f \in Followers, exits[f] = Open PROVE exits'[f] = FollowedBy(f, n, b)
  BY <1>3, <1>7
<1>8. n <= HoldLimit =>
         /\ exits["contract"] = Open => exits'["contract"] = ContractExit(n, b)
         /\ exits["evaluator"] = Open =>
               exits'["evaluator"] = EvaluatorExit(StopOnBar(stops["evaluator"], n, b), n, b)
         /\ exits["edge"] = Open => exits'["edge"] = EdgeExit(StopOnBar(stops["edge"], n, b), n, b)
         /\ exits["replay"] = Open => exits'["replay"] = IF Replayed THEN ReplayExit(n, b) ELSE Open
         /\ exits["short"] = Open => exits'["short"] = IF Replayed THEN ShortExit(n, b) ELSE Open
  BY <1>7 DEF FollowedBy, Followers
<1>9. stops' \in [{"evaluator", "edge"} -> StopRow]
  BY <1>2, <1>4, <1>5
<1>10. DOMAIN exits' = Followers
  BY <1>3
<1>11. \A f \in {"evaluator", "edge"} : stops'[f] = IF exits[f] = Open THEN StopOnBar(stops[f], n, b) ELSE stops[f]
  BY <1>4
<1> QED BY <1>2, <1>5, <1>6, <1>8, <1>9, <1>10, <1>11

\* What a function that is asked says.
LEMMA SaidSeen ==
    ASSUME NEW n, NEW b, Seeing(n, b)
    PROVE  /\ \A f \in Followers : \/ exits'[f] = exits[f] /\ (exits[f] # Open \/ n > HoldLimit)
                                   \/ exits[f] = Open /\ n <= HoldLimit /\ SaysOf(exits'[f], n)
                                   \/ f \in {"replay", "short"} /\ ~Replayed /\ exits[f] = Open /\ exits'[f] = Open
           /\ exits["contract"] = Open /\ n <= HoldLimit => exits'["contract"].price \in Nat
<1>1. /\ n \in Nat \ {0} /\ b \in SimBars /\ setup \in Setups /\ HoldLimit \in Nat
      /\ n > 1 => seen.entry \in Nat
  BY BarSeen, LimitFacts DEF Seeing
<1>2. /\ StopOnBar(stops["evaluator"], n, b) \in StopRow /\ StopOnBar(stops["edge"], n, b) \in StopRow
  BY ExitsSeen
<1>3. SaysOf(ContractExit(n, b), n) /\ ContractExit(n, b).price \in Nat
  BY <1>1, ContractSays
<1>4. SaysOf(EvaluatorExit(StopOnBar(stops["evaluator"], n, b), n, b), n)
  BY <1>1, <1>2, EvaluatorSays
<1>5. SaysOf(EdgeExit(StopOnBar(stops["edge"], n, b), n, b), n)
  BY <1>1, <1>2, EdgeSays
<1>6. SaysOf(ReplayExit(n, b), n) /\ SaysOf(ShortExit(n, b), n)
  BY <1>1, ReplaySays, ShortIsReplay
<1>7. ASSUME NEW f \in Followers, exits[f] = Open, n <= HoldLimit
      PROVE  \/ SaysOf(exits'[f], n)
             \/ f \in {"replay", "short"} /\ ~Replayed /\ exits'[f] = Open
  <2>1. CASE f = "contract"
    BY <1>3, <1>7, <2>1, ExitsSeen
  <2>2. CASE f = "evaluator"
    BY <1>4, <1>7, <2>2, ExitsSeen
  <2>3. CASE f = "edge"
    BY <1>5, <1>7, <2>3, ExitsSeen
  <2>4. CASE f \in {"replay", "short"}
    BY <1>6, <1>7, <2>4, ExitsSeen
  <2> QED BY <2>1, <2>2, <2>3, <2>4 DEF Followers
<1>8. exits["contract"] = Open /\ n <= HoldLimit => exits'["contract"].price \in Nat
  BY <1>3, ExitsSeen
<1>9. ASSUME NEW f \in Followers
      PROVE  \/ exits'[f] = exits[f] /\ (exits[f] # Open \/ n > HoldLimit)
             \/ exits[f] = Open /\ n <= HoldLimit /\ SaysOf(exits'[f], n)
             \/ f \in {"replay", "short"} /\ ~Replayed /\ exits[f] = Open /\ exits'[f] = Open
  <2>1. CASE exits[f] = Open /\ n <= HoldLimit
    BY <1>7, <2>1
  <2>2. CASE exits[f] # Open \/ n > HoldLimit
    <3>1. exits'[f] = exits[f]
      BY <2>2, ExitsSeen
    <3> QED BY <2>2, <3>1
  <2> QED BY <1>1, <2>1, <2>2
<1> QED BY <1>8, <1>9

LEMMA PlacedSeen ==
    ASSUME NEW n, NEW b, Seeing(n, b)
    PROVE  ExitsPlaced'
<1>1. /\ n \in Nat \ {0} /\ n = seen.n + 1 /\ seen.n \in Nat /\ seen'.n = n /\ setup' = setup /\ ~setup.ended
      /\ HoldLimit \in Nat
  BY BarSeen, LimitFacts
<1>2. DOMAIN exits' = Followers
  BY ExitsSeen
<1>3. Replayed' <=> Replayed
  BY <1>1 DEF Replayed
<1>4. ASSUME NEW f \in Followers PROVE ExitPlaced(f, exits[f])'
  <2>1. ExitPlaced(f, exits[f])
    BY DEF Seeing, SimInv, ExitsPlaced
  <2>2. CASE exits'[f] = exits[f] /\ (exits[f] # Open \/ n > HoldLimit)
    BY <1>1, <1>3, <2>1, <2>2 DEF ExitPlaced
  <2>3. CASE exits[f] = Open /\ n <= HoldLimit /\ SaysOf(exits'[f], n)
    <3>1. f = "contract" => exits'[f].price \in Nat
      BY <2>3, SaidSeen
    <3> QED BY <1>1, <1>3, <2>3, <3>1 DEF ExitPlaced, SaysOf
  <2>4. CASE f \in {"replay", "short"} /\ ~Replayed /\ exits'[f] = Open
    BY <1>1, <1>3, <2>4 DEF ExitPlaced, Open
  <2> QED BY <2>2, <2>3, <2>4, SaidSeen
<1> QED BY <1>2, <1>4 DEF ExitsPlaced

LEMMA StopsSeen ==
    ASSUME NEW n, NEW b, Seeing(n, b)
    PROVE  StopsAgree'
<1>1. /\ n \in Nat \ {0} /\ n = seen.n + 1 /\ seen.n \in Nat /\ seen'.n = n /\ setup' = setup /\ ~setup.ended
      /\ setup.stop \in Nat /\ HoldLimit \in Nat
      /\ seen'.entry = (IF n = 1 THEN b.o ELSE seen.entry)
  BY BarSeen, LimitFacts
<1>2. ASSUME NEW f \in {"evaluator", "edge"}
      PROVE  setup.stop <= stops'[f].stop /\ (setup.trail = NoTrail => stops'[f].stop = setup.stop)
  <2>1. setup.stop <= stops[f].stop /\ (setup.trail = NoTrail => stops[f].stop = setup.stop)
    BY DEF Seeing, SimInv, StopsAgree
  <2>2. PICK s \in StopRow : s = stops[f]
    BY DEF Seeing, SimInv, SimTyped
  <2>3. PICK t \in StopRow : t = StopOnBar(stops[f], n, b)
    BY ExitsSeen
  <2>4. /\ stops'[f] = IF exits[f] = Open THEN t ELSE s
        /\ s.stop <= t.stop /\ (setup.trail = NoTrail => t.stop = s.stop)
    BY <2>2, <2>3, ExitsSeen
  <2>5. s.stop \in Nat /\ t.stop \in Nat
    BY DEF StopRow
  <2> QED BY <1>1, <2>1, <2>2, <2>4, <2>5
<1>3. ASSUME exits'["evaluator"] = Open, setup.target = EdgeTarget(seen'.entry)
      PROVE  stops'["edge"] = stops'["evaluator"]
  <2>1. exits["evaluator"] = Open
    BY <1>1, <1>3, ExitsSeen DEF Followers
  <2>2. seen.n = 0 \/ setup.target = EdgeTarget(seen.entry)
    BY <1>1, <1>3
  <2>3. stops["edge"] = stops["evaluator"]
    BY <2>1, <2>2 DEF Seeing, SimInv, StopsAgree
  <2>4. exits["edge"] = Open
    <3>1. CASE seen.n = 0
      BY <3>1 DEF Seeing, SimInv, ExitsPlaced, ExitPlaced, Followers
    <3>2. CASE seen.n > 0 /\ setup.target = EdgeTarget(seen.entry)
      <4>1. exits["evaluator"].reason # "INCOMPLETE"
        BY <2>1 DEF Open
      <4> QED BY <2>1, <3>2, <4>1 DEF Seeing, SimInv, LevelsAgree
    <3> QED BY <1>1, <2>2, <3>1, <3>2
  <2> QED BY <2>1, <2>3, <2>4, ExitsSeen
<1>4. EdgeTarget(seen.entry)' = EdgeTarget(seen'.entry)
  BY <1>1 DEF EdgeTarget
<1> QED BY <1>1, <1>2, <1>3, <1>4 DEF StopsAgree

LEMMA LevelsSeen ==
    ASSUME NEW n, NEW b, Seeing(n, b)
    PROVE  LevelsAgree'
<1>1. /\ n \in Nat \ {0} /\ n = seen.n + 1 /\ seen.n \in Nat /\ seen'.n = n /\ setup' = setup /\ ~setup.ended
      /\ setup \in Setups /\ HoldLimit \in Nat /\ b \in SimBars
      /\ seen'.entry = (IF n = 1 THEN b.o ELSE seen.entry)
      /\ ~seen'.left <=> ~seen.left /\ ~(n > 1 /\ b.leave)
  BY BarSeen, LimitFacts DEF Seeing
<1>2. \A f \in Followers : ExitPlaced(f, exits[f]) /\ ExitPlaced(f, exits[f])'
  BY PlacedSeen DEF Seeing, SimInv, ExitsPlaced
<1>3. LevelsAgree /\ StopsAgree
  BY DEF Seeing, SimInv
<1>4. PICK s \in StopRow : s = StopOnBar(stops["evaluator"], n, b)
  BY ExitsSeen
<1>5. /\ setup.stop <= s.stop
      /\ setup.trail = NoTrail => s.stop = setup.stop
  <2>1. setup.stop <= stops["evaluator"].stop /\ (setup.trail = NoTrail => stops["evaluator"].stop = setup.stop)
    BY <1>3 DEF StopsAgree
  <2>2. stops["evaluator"].stop <= s.stop /\ (setup.trail = NoTrail => s.stop = stops["evaluator"].stop)
    BY <1>4, ExitsSeen
  <2>3. s.stop \in Nat /\ stops["evaluator"].stop \in Nat /\ setup.stop \in Nat
    BY <1>1 DEF StopRow, Setups, Seeing, SimInv, SimTyped
  <2> QED BY <2>1, <2>2, <2>3
<1>6. (Plain' <=> Plain /\ ~(n > 1 /\ b.leave)) /\ (Replayed' <=> Replayed)
  BY <1>1 DEF Plain, Replayed
<1>7. ASSUME NEW f \in Followers
      PROVE  /\ exits[f] = Open => exits[f].at = 0
             /\ exits[f] # Open => exits[f].at \in 1..seen.n
             /\ exits[f].reason # "INCOMPLETE" /\ exits'[f].reason # "INCOMPLETE"
             /\ exits'[f] = Open => exits'[f].at = 0
             /\ exits'[f] # Open => exits'[f].at \in 1..n
             /\ exits[f] # Open \/ n > HoldLimit => exits'[f] = exits[f]
  BY <1>1, <1>2, ExitsSeen DEF ExitPlaced, Open
<1>8. Plain' => SamePlace(exits'["evaluator"], exits'["contract"])
  <2> SUFFICES ASSUME Plain, ~(n > 1 /\ b.leave) PROVE SamePlace(exits'["evaluator"], exits'["contract"])
    BY <1>6
  <2>1. SamePlace(exits["evaluator"], exits["contract"])
    BY <1>3, <1>7 DEF LevelsAgree, Followers
  <2>2. exits["evaluator"] = Open <=> exits["contract"] = Open
    BY <1>7, <2>1, <1>1 DEF SamePlace, Followers
  <2>3. CASE exits["contract"] = Open /\ n <= HoldLimit
    <3>1. exits'["evaluator"] = EvaluatorExit(s, n, b) /\ exits'["contract"] = ContractExit(n, b)
      BY <1>4, <2>2, <2>3, ExitsSeen
    <3>2. s.stop = setup.stop
      BY <1>5 DEF Plain
    <3> QED BY <1>1, <3>1, <3>2, EvaluatorIsContract
  <2>4. CASE exits["contract"] # Open \/ n > HoldLimit
    BY <1>7, <2>1, <2>2, <2>4 DEF Followers
  <2> QED BY <1>1, <2>3, <2>4
<1>9. ASSUME Replayed
      PROVE  /\ SamePlace(exits'["replay"], exits'["contract"])
             /\ Upright(exits'["short"]) = exits'["replay"]
             /\ (exits'["replay"].reason \in {"skipped_gap_through_stop", "skipped_gap_through_target"})
                   <=> (exits'["contract"].at = 1 /\ exits'["contract"].reason \in {"STOP_GAP", "TARGET_GAP"})
  <2>1. /\ SamePlace(exits["replay"], exits["contract"]) /\ Upright(exits["short"]) = exits["replay"]
        /\ (exits["replay"].reason \in {"skipped_gap_through_stop", "skipped_gap_through_target"})
                   <=> (exits["contract"].at = 1 /\ exits["contract"].reason \in {"STOP_GAP", "TARGET_GAP"})
    BY <1>3, <1>9 DEF LevelsAgree
  <2>2. exits["replay"] = Open <=> exits["contract"] = Open
    BY <1>7, <2>1, <1>1 DEF SamePlace, Followers
  <2>3. exits["replay"] = Open <=> exits["short"] = Open
    <3>1. ASSUME exits["short"] = Open PROVE exits["replay"] = Open
      BY <2>1, <3>1 DEF Upright, Open
    <3>2. ASSUME exits["replay"] = Open, exits["short"] # Open PROVE FALSE
      <4>1. exits["short"].at \in 1..seen.n
        BY <1>7, <3>2 DEF Followers
      <4>2. Upright(exits["short"]).at = exits["short"].at
        BY DEF Upright
      <4>3. exits["replay"].at = 0
        BY <3>2 DEF Open
      <4> QED BY <1>1, <2>1, <4>1, <4>2, <4>3
    <3> QED BY <3>1, <3>2
  <2>4. CASE exits["contract"] = Open /\ n <= HoldLimit
    <3>1. /\ exits'["contract"] = ContractExit(n, b) /\ exits'["replay"] = ReplayExit(n, b)
          /\ exits'["short"] = ShortExit(n, b)
      BY <1>9, <2>2, <2>3, <2>4, ExitsSeen
    <3> QED BY <1>1, <1>9, <3>1, ReplayIsContract, ShortIsReplay
  <2>5. CASE exits["contract"] # Open \/ n > HoldLimit
    <3>1. exits'["contract"] = exits["contract"] /\ exits'["replay"] = exits["replay"] /\ exits'["short"] = exits["short"]
      BY <1>7, <2>2, <2>3, <2>5 DEF Followers
    <3> QED BY <2>1, <3>1
  <2> QED BY <1>1, <2>4, <2>5
<1>10. ASSUME setup.target = EdgeTarget(seen'.entry) PROVE exits'["edge"] = exits'["evaluator"]
  <2>1. exits["edge"] = exits["evaluator"]
    <3>1. CASE seen.n = 0
      BY <1>7, <3>1 DEF Followers
    <3>2. CASE seen.n > 0
      BY <1>1, <1>3, <1>7, <1>10, <3>2 DEF LevelsAgree, Followers
    <3> QED BY <1>1, <3>1, <3>2
  <2>2. CASE exits["evaluator"] = Open /\ n <= HoldLimit
    <3>1. stops["edge"] = stops["evaluator"]
      BY <1>1, <1>3, <1>10, <2>2 DEF StopsAgree
    <3>2. exits'["edge"] = EdgeExit(s, n, b) /\ exits'["evaluator"] = EvaluatorExit(s, n, b)
      BY <1>4, <2>1, <2>2, <3>1, ExitsSeen
    <3> QED BY <1>1, <1>10, <3>2, EdgeIsEvaluator
  <2>3. CASE exits["evaluator"] # Open \/ n > HoldLimit
    BY <1>7, <2>1, <2>3 DEF Followers
  <2> QED BY <1>1, <2>2, <2>3
<1>11. ASSUME exits'["contract"] # Open, ~seen'.left
       PROVE  exits'["evaluator"] # Open /\ exits'["evaluator"].at <= exits'["contract"].at
  <2>1. CASE exits["contract"] # Open
    <3>1. exits["evaluator"] # Open /\ exits["evaluator"].at <= exits["contract"].at
      BY <1>1, <1>3, <1>11, <2>1 DEF LevelsAgree
    <3> QED BY <1>7, <2>1, <3>1 DEF Followers
  <2>2. CASE exits["contract"] = Open
    <3>1. n <= HoldLimit
      BY <1>1, <1>7, <1>11, <2>2 DEF Followers
    <3>2. exits'["contract"] = ContractExit(n, b) /\ exits'["contract"].at = n
      <4>1. exits'["contract"] = ContractExit(n, b)
        BY <2>2, <3>1, ExitsSeen
      <4> QED BY <1>1, <1>11, <4>1, ContractSays DEF SaysOf
    <3>3. exits'["evaluator"] # Open
      <4>1. CASE exits["evaluator"] = Open
        <5>1. exits'["evaluator"] = EvaluatorExit(s, n, b)
          BY <1>4, <3>1, <4>1, ExitsSeen
        <5> QED BY <1>1, <1>5, <1>11, <3>2, <5>1, EvaluatorNotLater
      <4>2. CASE exits["evaluator"] # Open
        BY <1>7, <4>2 DEF Followers
      <4> QED BY <4>1, <4>2
    <3>4. exits'["evaluator"].at \in 1..n
      BY <1>7, <3>3 DEF Followers
    <3> QED BY <1>1, <3>2, <3>3, <3>4
  <2> QED BY <2>1, <2>2
<1>12. exits'["evaluator"].reason # "INCOMPLETE"
  BY <1>7 DEF Followers
<1>13. EdgeTarget(seen.entry)' = EdgeTarget(seen'.entry)
  BY <1>1 DEF EdgeTarget
<1> QED BY <1>1, <1>6, <1>8, <1>9, <1>10, <1>11, <1>12, <1>13 DEF LevelsAgree

----
\* The data ends for the functions that follow levels.
LEMMA LevelsEnd ==
    ASSUME SimInv, DataEnds
    PROVE  ExitsPlaced' /\ StopsAgree' /\ LevelsAgree'
<1>1. PICK n : n = seen.n
  OBVIOUS
<1>2. PICK b : b = seen.last
  OBVIOUS
<1>3. /\ seen' = seen /\ stops' = stops /\ n \in Nat /\ n > 0 /\ b \in SimBars /\ HoldLimit \in Nat
      /\ setup \in Setups /\ ~setup.ended
      /\ exits' = [f \in Followers |-> IF exits[f] = Open THEN AtEnd(f, n, b) ELSE exits[f]]
  BY <1>1, <1>2, LimitFacts DEF DataEnds, SimInv, SimTyped
<1>4. /\ setup'.stop = setup.stop /\ setup'.target = setup.target /\ setup'.trail = setup.trail /\ setup'.ended
  BY <1>3 DEF DataEnds, Setups
<1>5. (Replayed' <=> Replayed) /\ (Plain' <=> Plain) /\ EdgeTarget(seen.entry)' = EdgeTarget(seen.entry)
  BY <1>3, <1>4 DEF Replayed, Plain, EdgeTarget
<1>6. b.c \in Nat /\ -b.c \in Int /\ -(-b.c) = b.c
  <2>1. PICK c \in Nat : c = b.c
    BY <1>3, BarFacts
  <2> QED BY <2>1
<1>7. \A f \in Followers : /\ ExitPlaced(f, exits[f])
                           /\ exits[f] # Open => exits'[f] = exits[f]
                           /\ exits[f] = Open => exits'[f] = AtEnd(f, n, b)
  BY <1>3 DEF SimInv, ExitsPlaced
<1>8. /\ exits["contract"] = Open => exits'["contract"] = Exit("DATA_END", n, b.c)
      /\ exits["evaluator"] = Open => exits'["evaluator"] = Exit("INCOMPLETE", n, 0)
      /\ exits["edge"] = Open => exits'["edge"] = Exit("MAX_HOLD", n, b.c)
      /\ exits["replay"] = Open => exits'["replay"] = IF Replayed THEN Exit("TIMEOUT", n, b.c) ELSE Open
      /\ exits["short"] = Open => exits'["short"] = IF Replayed THEN Exit("TIMEOUT", n, -b.c) ELSE Open
  BY <1>7 DEF AtEnd, Followers
<1>9. ASSUME NEW f \in Followers PROVE ExitPlaced(f, exits[f])'
  <2>1. CASE exits[f] # Open
    BY <1>1, <1>3, <1>4, <1>5, <1>7, <2>1 DEF ExitPlaced
  <2>2. CASE exits[f] = Open /\ f \in {"replay", "short"} /\ ~Replayed
    BY <1>1, <1>3, <1>4, <1>5, <1>8, <2>2 DEF ExitPlaced, Open
  <2>3. CASE exits[f] = Open /\ ~(f \in {"replay", "short"} /\ ~Replayed)
    <3>1. n < HoldLimit
      BY <1>1, <1>7, <2>3 DEF ExitPlaced
    <3>2. exits'[f].at = n /\ exits'[f] # Open /\ (f = "contract" => exits'[f].price \in Nat)
      BY <1>3, <1>6, <1>8, <2>3 DEF Exit, Open, Followers
    <3> QED BY <1>1, <1>3, <1>4, <3>1, <3>2 DEF ExitPlaced
  <2> QED BY <2>1, <2>2, <2>3
<1>10. DOMAIN exits' = Followers
  BY <1>3
<1>11. LevelsAgree /\ StopsAgree
  BY DEF SimInv
<1>12. ASSUME NEW f \in Followers
       PROVE  /\ exits[f] = Open => exits[f].at = 0
              /\ exits[f] # Open => exits[f].at \in 1..n
              /\ exits[f].reason # "INCOMPLETE"
              /\ exits[f] # Open => exits'[f] = exits[f]
  BY <1>1, <1>3, <1>7 DEF ExitPlaced, Open
<1>13. ASSUME exits'["evaluator"] = Open PROVE FALSE
  BY <1>3, <1>8, <1>12, <1>13 DEF Exit, Open, Followers
<1>14. StopsAgree'
  BY <1>3, <1>4, <1>5, <1>11, <1>13 DEF StopsAgree
<1>15. /\ Plain /\ exits'["evaluator"].reason # "INCOMPLETE" => SamePlace(exits'["evaluator"], exits'["contract"])
       /\ exits'["evaluator"].reason = "INCOMPLETE" => exits'["contract"].reason = "DATA_END" \/ ~Plain
  <2>1. CASE ~Plain
    BY <2>1
  <2>2. CASE Plain
    <3>1. SamePlace(exits["evaluator"], exits["contract"])
      BY <1>11, <1>12, <2>2 DEF LevelsAgree, Followers
    <3>2. exits["evaluator"] = Open <=> exits["contract"] = Open
      BY <1>3, <1>12, <3>1 DEF SamePlace, Followers
    <3>3. CASE exits["contract"] = Open
      BY <1>8, <3>2, <3>3 DEF Exit
    <3>4. CASE exits["contract"] # Open
      BY <1>12, <3>1, <3>2, <3>4 DEF Followers
    <3> QED BY <3>3, <3>4
  <2> QED BY <2>1, <2>2
<1>16. ASSUME Replayed
       PROVE  /\ SamePlace(exits'["replay"], exits'["contract"])
              /\ Upright(exits'["short"]) = exits'["replay"]
              /\ (exits'["replay"].reason \in {"skipped_gap_through_stop", "skipped_gap_through_target"})
                    <=> (exits'["contract"].at = 1 /\ exits'["contract"].reason \in {"STOP_GAP", "TARGET_GAP"})
  <2>1. /\ SamePlace(exits["replay"], exits["contract"]) /\ Upright(exits["short"]) = exits["replay"]
        /\ (exits["replay"].reason \in {"skipped_gap_through_stop", "skipped_gap_through_target"})
                   <=> (exits["contract"].at = 1 /\ exits["contract"].reason \in {"STOP_GAP", "TARGET_GAP"})
    BY <1>11, <1>16 DEF LevelsAgree
  <2>2. exits["replay"] = Open <=> exits["contract"] = Open
    BY <1>3, <1>12, <2>1 DEF SamePlace, Followers
  <2>3. exits["replay"] = Open <=> exits["short"] = Open
    <3>1. ASSUME exits["short"] = Open PROVE exits["replay"] = Open
      BY <2>1, <3>1 DEF Upright, Open
    <3>2. ASSUME exits["replay"] = Open, exits["short"] # Open PROVE FALSE
      <4>1. exits["short"].at \in 1..n
        BY <1>12, <3>2 DEF Followers
      <4>2. Upright(exits["short"]).at = exits["short"].at
        BY DEF Upright
      <4>3. exits["replay"].at = 0
        BY <3>2 DEF Open
      <4> QED BY <1>3, <2>1, <4>1, <4>2, <4>3
    <3> QED BY <3>1, <3>2
  <2>4. CASE exits["contract"] = Open
    <3>1. /\ exits'["contract"] = Exit("DATA_END", n, b.c) /\ exits'["replay"] = Exit("TIMEOUT", n, b.c)
          /\ exits'["short"] = Exit("TIMEOUT", n, -b.c)
      BY <1>8, <1>16, <2>2, <2>3, <2>4
    <3>2. Upright(exits'["short"]) = exits'["replay"]
      BY <1>6, <3>1 DEF Exit, Upright
    <3> QED BY <3>1, <3>2 DEF Exit, SamePlace
  <2>5. CASE exits["contract"] # Open
    <3>1. exits'["contract"] = exits["contract"] /\ exits'["replay"] = exits["replay"] /\ exits'["short"] = exits["short"]
      BY <1>12, <2>2, <2>3, <2>5 DEF Followers
    <3> QED BY <2>1, <3>1
  <2> QED BY <2>4, <2>5
<1>17. ASSUME setup.target = EdgeTarget(seen.entry), exits'["evaluator"].reason # "INCOMPLETE"
       PROVE  exits'["edge"] = exits'["evaluator"]
  <2>1. exits["evaluator"] # Open
    BY <1>8, <1>17 DEF Exit
  <2>2. exits["edge"] = exits["evaluator"]
    BY <1>1, <1>3, <1>11, <1>12, <1>17 DEF LevelsAgree, Followers
  <2> QED BY <1>12, <2>1, <2>2 DEF Followers
<1>18. ASSUME ~seen.left PROVE exits'["evaluator"].at <= exits'["contract"].at
  <2>1. CASE exits["contract"] = Open
    <3>1. exits'["contract"].at = n
      BY <1>8, <2>1 DEF Exit
    <3>2. exits'["evaluator"].at \in 1..n
      <4>1. CASE exits["evaluator"] = Open
        BY <1>3, <1>8, <4>1 DEF Exit
      <4>2. CASE exits["evaluator"] # Open
        BY <1>12, <4>2 DEF Followers
      <4> QED BY <4>1, <4>2
    <3> QED BY <1>3, <3>1, <3>2
  <2>2. CASE exits["contract"] # Open
    <3>1. exits["evaluator"] # Open /\ exits["evaluator"].at <= exits["contract"].at
      BY <1>11, <1>18, <2>2 DEF LevelsAgree
    <3> QED BY <1>12, <2>2, <3>1 DEF Followers
  <2> QED BY <2>1, <2>2
<1>19. LevelsAgree'
  BY <1>3, <1>4, <1>5, <1>13, <1>15, <1>16, <1>17, <1>18 DEF LevelsAgree
<1> QED BY <1>9, <1>10, <1>14, <1>19 DEF ExitsPlaced

----
(* The study of trends. *)

LEMMA FirstStopTyped ==
    ASSUME NEW entry \in Nat, NEW atr \in Nat
    PROVE  FirstStop(entry, atr) \in Int
<1>1. PICK x \in Int : x = entry * (100 - MaxStopPct)
  BY SimulatorsAssumption
<1>2. PICK y \in Int : y = entry * (1000 - CushionPermille)
  BY SimulatorsAssumption
<1>3. x \div 100 \in Int /\ y \div 1000 \in Int /\ (2 * entry - 3 * atr) \div 2 \in Int
  OBVIOUS
<1>4. PICK near \in Int : near = Max({(2 * entry - 3 * atr) \div 2, x \div 100})
  BY <1>3, MaxTwo
<1>5. FirstStop(entry, atr) = IF (entry - near) * 1000 < CushionPermille * entry THEN y \div 1000 ELSE near
  BY <1>1, <1>2, <1>4 DEF FirstStop
<1> QED BY <1>3, <1>4, <1>5

\* The stop that trails on a bar.
TrailingStop(p, before) == Max({p.stop, p.peak - StudyTrail * before.atr})

LEMMA TrailingStopTyped ==
    ASSUME NEW p \in StudyRow, NEW before \in SimBars
    PROVE  TrailingStop(p, before) \in Int /\ p.stop <= TrailingStop(p, before)
<1>1. p.stop \in Int /\ p.peak \in Int
  BY DEF StudyRow
<1>2. PICK away \in Int : away = StudyTrail * before.atr
  BY BarFacts, LimitFacts
<1>3. p.peak - away \in Int
  BY <1>1
<1> QED BY <1>1, <1>2, <1>3, MaxTwo DEF TrailingStop

LEMMA TrailingNotLower ==
    ASSUME NEW p \in StudyRow, NEW q \in StudyRow, NEW before \in SimBars, q.stop = p.stop, q.peak >= p.peak
    PROVE  TrailingStop(p, before) <= TrailingStop(q, before)
<1>1. p.stop \in Int /\ p.peak \in Int /\ q.stop \in Int /\ q.peak \in Int
  BY DEF StudyRow
<1>2. PICK away \in Int : away = StudyTrail * before.atr
  BY BarFacts, LimitFacts
<1>3. PICK x \in Int : x = p.peak - away
  BY <1>1
<1>4. PICK y \in Int : y = q.peak - away
  BY <1>1
<1>5. /\ TrailingStop(p, before) = IF p.stop >= x THEN p.stop ELSE x
      /\ TrailingStop(q, before) = IF q.stop >= y THEN q.stop ELSE y
  BY <1>1, <1>2, <1>3, <1>4, MaxTwo DEF TrailingStop
<1> QED BY <1>1, <1>3, <1>4, <1>5

\* A trade more.
LEMMA RangeAppended ==
    ASSUME NEW s \in Seq(StudyTrade), NEW t \in StudyTrade
    PROVE  Append(s, t) \in Seq(StudyTrade) /\ Range(Append(s, t)) = Range(s) \cup {t}
<1>1. /\ Append(s, t) \in Seq(StudyTrade) /\ Len(s) \in Nat /\ Len(Append(s, t)) = Len(s) + 1
      /\ Append(s, t)[Len(s) + 1] = t /\ \A i \in 1..Len(s) : Append(s, t)[i] = s[i]
      /\ DOMAIN s = 1..Len(s) /\ DOMAIN Append(s, t) = 1..(Len(s) + 1)
  OBVIOUS
<1>2. \A x \in Range(Append(s, t)) : x \in Range(s) \cup {t}
  <2> SUFFICES ASSUME NEW x, x \in Range(Append(s, t)) PROVE x \in Range(s) \cup {t}
    OBVIOUS
  <2>1. PICK i \in 1..(Len(s) + 1) : x = Append(s, t)[i]
    BY <1>1 DEF Range
  <2>2. CASE i = Len(s) + 1
    BY <1>1, <2>1, <2>2
  <2>3. CASE i \in 1..Len(s)
    BY <1>1, <2>1, <2>3 DEF Range
  <2> QED BY <1>1, <2>1, <2>2, <2>3
<1>3. \A x \in Range(s) : x \in Range(Append(s, t))
  <2> SUFFICES ASSUME NEW x, x \in Range(s) PROVE x \in Range(Append(s, t))
    OBVIOUS
  <2>1. PICK i \in 1..Len(s) : x = s[i]
    BY <1>1 DEF Range
  <2>2. i \in 1..(Len(s) + 1) /\ Append(s, t)[i] = x
    BY <1>1, <2>1
  <2> QED BY <1>1, <2>2 DEF Range
<1>4. t \in Range(Append(s, t))
  <2>1. Len(s) + 1 \in 1..(Len(s) + 1)
    BY <1>1
  <2> QED BY <1>1, <2>1 DEF Range
<1> QED BY <1>1, <1>2, <1>3, <1>4

\* A position that was left, and one that was kept.
Gone(x, n, y) ==
    /\ y \in StudyRow /\ ~y.in
    /\ \E t \in StudyTrade : t.from = x.from /\ t.to = n /\ Range(y.trades) = Range(x.trades) \cup {t}

Stays(x, b, y) ==
    /\ y \in StudyRow /\ y.in = x.in /\ y.stop = x.stop /\ y.from = x.from /\ y.trades = x.trades
    /\ y.peak = (IF x.peak >= b.c THEN x.peak ELSE b.c)

LEMMA LeavesIs ==
    ASSUME NEW p \in StudyRow, NEW n \in Nat, NEW price \in Int
    PROVE  Gone(p, n, Leaves(p, n, price))
<1>1. PICK t : t = [from |-> p.from, to |-> n, price |-> price]
  OBVIOUS
<1>2. /\ p.in \in BOOLEAN /\ p.entry \in Int /\ p.stop \in Int /\ p.peak \in Int /\ p.from \in 0..NSimBars
      /\ p.trades \in Seq(StudyTrade)
  BY DEF StudyRow
<1>3. t \in StudyTrade /\ t.from = p.from /\ t.to = n
  BY <1>1, <1>2, LimitFacts DEF StudyTrade
<1>4. PICK trades : trades = Append(p.trades, t)
  OBVIOUS
<1>5. trades \in Seq(StudyTrade) /\ Range(trades) = Range(p.trades) \cup {t}
  BY <1>2, <1>3, <1>4, RangeAppended
<1>6. PICK out : out = [p EXCEPT !.in = FALSE]
  OBVIOUS
<1>7. out \in StudyRow /\ out.in = FALSE /\ out.trades = p.trades
  BY <1>6 DEF StudyRow
<1>8. PICK left : left = [out EXCEPT !.trades = trades]
  OBVIOUS
<1>9. left \in StudyRow /\ left.in = FALSE /\ left.trades = trades
  BY <1>5, <1>7, <1>8 DEF StudyRow
<1>10. Leaves(p, n, price) = left
  BY <1>1, <1>4, <1>6, <1>8 DEF Leaves
<1> QED BY <1>3, <1>5, <1>9, <1>10 DEF Gone

\* The position after an entry.
EntryAt(p, n, b, before) ==
    [p EXCEPT !.in = TRUE, !.entry = b.o, !.stop = FirstStop(b.o, before.atr), !.peak = b.o, !.from = n]

IsEntry(q, p, n, b, before) ==
    /\ q \in StudyRow /\ q.in /\ q.stop = FirstStop(b.o, before.atr) /\ q.peak = b.o /\ q.from = n
    /\ q.trades = p.trades

LEMMA EntryIs ==
    ASSUME NEW p \in StudyRow, NEW n \in 0..NSimBars, NEW b \in SimBars, NEW before \in SimBars
    PROVE  IsEntry(EntryAt(p, n, b, before), p, n, b, before)
<1>1. p.trades \in Seq(StudyTrade)
  BY DEF StudyRow
<1>2. PICK stop \in Int : stop = FirstStop(b.o, before.atr)
  BY FirstStopTyped, BarFacts
<1>3. b.o \in Int
  BY BarFacts
<1>4. PICK p1 : p1 = [p EXCEPT !.in = TRUE]
  OBVIOUS
<1>5. p1 \in StudyRow /\ p1.in /\ p1.trades = p.trades
  BY <1>4 DEF StudyRow
<1>6. PICK p2 : p2 = [p1 EXCEPT !.entry = b.o]
  OBVIOUS
<1>7. p2 \in StudyRow /\ p2.in /\ p2.trades = p.trades
  BY <1>3, <1>5, <1>6 DEF StudyRow
<1>8. PICK p3 : p3 = [p2 EXCEPT !.stop = stop]
  OBVIOUS
<1>9. p3 \in StudyRow /\ p3.in /\ p3.stop = stop /\ p3.trades = p.trades
  BY <1>7, <1>8 DEF StudyRow
<1>10. PICK p4 : p4 = [p3 EXCEPT !.peak = b.o]
  OBVIOUS
<1>11. p4 \in StudyRow /\ p4.in /\ p4.stop = stop /\ p4.peak = b.o /\ p4.trades = p.trades
  BY <1>3, <1>9, <1>10 DEF StudyRow
<1>12. PICK p5 : p5 = [p4 EXCEPT !.from = n]
  OBVIOUS
<1>13. p5 \in StudyRow /\ p5.in /\ p5.stop = stop /\ p5.peak = b.o /\ p5.from = n /\ p5.trades = p.trades
  BY <1>11, <1>12 DEF StudyRow
<1>14. EntryAt(p, n, b, before) = p5
  BY <1>2, <1>4, <1>6, <1>8, <1>10, <1>12 DEF EntryAt
<1> QED BY <1>2, <1>13, <1>14 DEF IsEntry

LEMMA PeakIs ==
    ASSUME NEW p \in StudyRow, NEW b \in SimBars
    PROVE  Stays(p, b, [p EXCEPT !.peak = Max({p.peak, b.c})])
<1>1. p.peak \in Int /\ b.c \in Int
  BY BarFacts DEF StudyRow
<1>2. PICK peak \in Int : peak = Max({p.peak, b.c}) /\ peak = IF p.peak >= b.c THEN p.peak ELSE b.c
  BY <1>1, MaxTwo
<1>3. PICK q : q = [p EXCEPT !.peak = peak]
  OBVIOUS
<1>4. q \in StudyRow /\ q.in = p.in /\ q.stop = p.stop /\ q.from = p.from /\ q.trades = p.trades /\ q.peak = peak
  BY <1>2, <1>3 DEF StudyRow
<1> QED BY <1>2, <1>3, <1>4 DEF Stays

Enters(before) == before.sig /\ before.atr # 0

\* One bar of the shared simulator.
LEMMA SharedIn ==
    ASSUME NEW p \in StudyRow, p.in, NEW n \in Nat, NEW b \in SimBars, NEW before \in SimBars
    PROVE  /\ b.l <= TrailingStop(p, before) => Gone(p, n, SharedStep(p, n, b, before))
           /\ ~(b.l <= TrailingStop(p, before)) => Stays(p, b, SharedStep(p, n, b, before))
<1>1. PICK price : price = Min({b.o, TrailingStop(p, before)})
  OBVIOUS
<1>2. price \in Int
  <2>1. TrailingStop(p, before) \in Int /\ b.o \in Int
    BY TrailingStopTyped, BarFacts
  <2> QED BY <1>1, <2>1, MinTwo
<1>3. SharedStep(p, n, b, before) = IF b.l <= TrailingStop(p, before) THEN Leaves(p, n, price)
                                    ELSE [p EXCEPT !.peak = Max({p.peak, b.c})]
  BY <1>1 DEF SharedStep, TrailingStop
<1> QED BY <1>2, <1>3, LeavesIs, PeakIs

LEMMA SharedOut ==
    ASSUME NEW p \in StudyRow, ~p.in, NEW n \in 0..NSimBars, NEW b \in SimBars, NEW before \in SimBars
    PROVE  /\ Enters(before) /\ b.l <= FirstStop(b.o, before.atr) =>
                 Gone(EntryAt(p, n, b, before), n, SharedStep(p, n, b, before))
           /\ Enters(before) /\ ~(b.l <= FirstStop(b.o, before.atr)) =>
                 SharedStep(p, n, b, before) = EntryAt(p, n, b, before)
           /\ ~Enters(before) => SharedStep(p, n, b, before) = p
<1>1. PICK q : q = EntryAt(p, n, b, before)
  OBVIOUS
<1>2. q \in StudyRow
  BY <1>1, EntryIs DEF IsEntry
<1>3. PICK first \in Int : first = FirstStop(b.o, before.atr)
  BY FirstStopTyped, BarFacts
<1>4. SharedStep(p, n, b, before) =
          IF Enters(before) THEN IF b.l <= first THEN Leaves(q, n, first) ELSE q ELSE p
  BY <1>1, <1>3 DEF SharedStep, Enters, EntryAt
<1>5. n \in Nat
  BY LimitFacts
<1>6. Gone(q, n, Leaves(q, n, first))
  BY <1>2, <1>3, <1>5, LeavesIs
<1> QED BY <1>1, <1>3, <1>4, <1>6

\* The independent simulator takes the same step.
LEMMA IndependentIsShared ==
    ASSUME NEW p \in StudyRow, NEW n \in 0..NSimBars, NEW b \in SimBars, NEW before \in SimBars
    PROVE  IndependentStep(p, n, b, before) = SharedStep(p, n, b, before)
<1>1. CASE p.in
  <2>1. PICK stop \in Int : stop = TrailingStop(p, before)
    BY TrailingStopTyped
  <2>2. b.o \in Int /\ b.c \in Int /\ p.peak \in Int
    BY BarFacts DEF StudyRow
  <2>3. Min({b.o, stop}) = IF b.o < stop THEN b.o ELSE stop
    BY <2>2, MinTwo
  <2>4. SharedStep(p, n, b, before) = IF b.l <= stop THEN Leaves(p, n, Min({b.o, stop}))
                                      ELSE [p EXCEPT !.peak = Max({p.peak, b.c})]
    BY <1>1, <2>1 DEF SharedStep, TrailingStop
  <2>5. IndependentStep(p, n, b, before) = IF b.l <= stop THEN Leaves(p, n, IF b.o < stop THEN b.o ELSE stop)
                                           ELSE IF b.c > p.peak THEN [p EXCEPT !.peak = b.c] ELSE p
    BY <1>1, <2>1 DEF IndependentStep, TrailingStop
  <2>6. [p EXCEPT !.peak = Max({p.peak, b.c})] = IF b.c > p.peak THEN [p EXCEPT !.peak = b.c] ELSE p
    <3>1. CASE b.c > p.peak
      <4>1. Max({p.peak, b.c}) = b.c
        BY <2>2, <3>1, MaxTwo
      <4> QED BY <3>1, <4>1
    <3>2. CASE ~(b.c > p.peak)
      <4>1. Max({p.peak, b.c}) = p.peak
        BY <2>2, <3>2, MaxTwo
      <4>2. [p EXCEPT !.peak = p.peak] = p
        BY DEF StudyRow
      <4> QED BY <3>2, <4>1, <4>2
    <3> QED BY <3>1, <3>2
  <2> QED BY <2>3, <2>4, <2>5, <2>6
<1>2. CASE ~p.in
  <2>1. PICK q : q = EntryAt(p, n, b, before)
    OBVIOUS
  <2>2. q.stop = FirstStop(b.o, before.atr)
    BY <2>1, EntryIs DEF IsEntry
  <2>3. SharedStep(p, n, b, before) =
          IF Enters(before) THEN IF b.l <= FirstStop(b.o, before.atr) THEN Leaves(q, n, FirstStop(b.o, before.atr)) ELSE q
          ELSE p
    BY <1>2, <2>1 DEF SharedStep, Enters, EntryAt
  <2>4. IndependentStep(p, n, b, before) =
          IF ~Enters(before) THEN p ELSE IF b.l <= q.stop THEN Leaves(q, n, q.stop) ELSE q
    BY <1>2, <2>1 DEF IndependentStep, Enters, EntryAt
  <2> QED BY <2>2, <2>3, <2>4
<1> QED BY <1>1, <1>2

\* One bar of the random simulator, from the position x that it has or takes.
LEMMA RandomFrom ==
    ASSUME NEW q \in StudyRow, NEW n \in Nat, NEW b \in SimBars, NEW before \in SimBars,
           NEW x \in StudyRow, x.in,
           x = IF ~q.in /\ ~studies["shared"].in /\ Enters(before) THEN EntryAt(q, n, b, before) ELSE q
    PROVE  /\ b.l <= TrailingStop(x, before) => Gone(x, n, RandomStep(q, n, b, before))
           /\ ~(b.l <= TrailingStop(x, before)) => Stays(x, b, RandomStep(q, n, b, before))
<1>1. PICK price : price = Min({b.o, TrailingStop(x, before)})
  OBVIOUS
<1>2. price \in Int
  <2>1. TrailingStop(x, before) \in Int /\ b.o \in Int
    BY TrailingStopTyped, BarFacts
  <2> QED BY <1>1, <2>1, MinTwo
<1>3. RandomStep(q, n, b, before) = IF b.l <= TrailingStop(x, before) THEN Leaves(x, n, price)
                                    ELSE [x EXCEPT !.peak = Max({x.peak, b.c})]
  BY <1>1 DEF RandomStep, TrailingStop, Enters, EntryAt
<1> QED BY <1>2, <1>3, LeavesIs, PeakIs, ZenonT(60)

LEMMA RandomOut ==
    ASSUME NEW q, NEW n, NEW b, NEW before, ~q.in, studies["shared"].in \/ ~Enters(before)
    PROVE  RandomStep(q, n, b, before) = q
  BY DEF RandomStep, Enters

LEMMA TradesTyped ==
    ASSUME NEW p \in StudyRow, NEW t \in Range(p.trades)
    PROVE  t \in StudyTrade /\ t.to \in Nat
<1>1. PICK s \in Seq(StudyTrade) : s = p.trades
  BY DEF StudyRow
<1>2. t \in StudyTrade
  BY <1>1 DEF Range
<1> QED BY <1>2 DEF StudyTrade

\* The shared one leaves with the other, or after it.
BothLeft(p, q, p2, q2, m) ==
    \E t : /\ Range(p2.trades) = Range(p.trades) \cup {t} /\ t.to = m + 1
           /\ \/ \E r : r.from = t.from /\ r.to = m + 1 /\ Range(q2.trades) = Range(q.trades) \cup {r}
              \/ q2 = q /\ \E r \in Range(q.trades) : r.from = t.from

LEMMA PairLeaves ==
    ASSUME NEW m \in Nat, NEW p \in StudyRow, NEW q \in StudyRow, NEW p2, NEW q2,
           \A r \in Range(q.trades) : r.to <= m,
           \A u \in Range(p.trades) : \E r \in Range(q.trades) : r.from = u.from /\ r.to <= u.to,
           ~p2.in, ~q2.in, BothLeft(p, q, p2, q2, m)
    PROVE  Paired(p2, q2, m + 1)
<1> PICK t : /\ Range(p2.trades) = Range(p.trades) \cup {t} /\ t.to = m + 1
             /\ \/ \E r : r.from = t.from /\ r.to = m + 1 /\ Range(q2.trades) = Range(q.trades) \cup {r}
                \/ q2 = q /\ \E r \in Range(q.trades) : r.from = t.from
  BY DEF BothLeft
<1>1. \A r \in Range(q.trades) : r.to \in Nat
  BY TradesTyped
<1>2. CASE \E r : r.from = t.from /\ r.to = m + 1 /\ Range(q2.trades) = Range(q.trades) \cup {r}
  <2>1. PICK r : r.from = t.from /\ r.to = m + 1 /\ Range(q2.trades) = Range(q.trades) \cup {r}
    BY <1>2
  <2>2. \A x \in Range(q2.trades) : x.to <= m + 1
    BY <1>1, <2>1
  <2>3. \A u \in Range(p2.trades) : \E x \in Range(q2.trades) : x.from = u.from /\ x.to <= u.to
    BY <2>1
  <2> QED BY <2>2, <2>3 DEF Paired
<1>3. CASE q2 = q /\ \E r \in Range(q.trades) : r.from = t.from
  <2>1. \A x \in Range(q2.trades) : x.to <= m + 1
    BY <1>1, <1>3
  <2>2. \A u \in Range(p2.trades) : \E x \in Range(q2.trades) : x.from = u.from /\ x.to <= u.to
    BY <1>1, <1>3
  <2> QED BY <2>1, <2>2 DEF Paired
<1> QED BY <1>2, <1>3

\* The shared one stays, the other stays too or leaves.
LEMMA PairStays ==
    ASSUME NEW m \in Nat, NEW p \in StudyRow, NEW q \in StudyRow, NEW p2, NEW q2,
           \A r \in Range(q.trades) : r.to <= m,
           \A u \in Range(p.trades) : \E r \in Range(q.trades) : r.from = u.from /\ r.to <= u.to,
           p2.in, p2.trades = p.trades,
           \/ q2.in /\ q2.from = p2.from /\ q2.stop = p2.stop /\ q2.peak >= p2.peak /\ q2.trades = q.trades
           \/ ~q2.in /\ \E r : r.from = p2.from /\ r.to = m + 1 /\ Range(q2.trades) = Range(q.trades) \cup {r}
           \/ ~q2.in /\ q2.trades = q.trades /\ \E r \in Range(q.trades) : r.from = p2.from
    PROVE  Paired(p2, q2, m + 1)
<1>1. \A r \in Range(q.trades) : r.to \in Nat
  BY TradesTyped
<1>2. CASE q2.trades = q.trades
  <2>1. \A x \in Range(q2.trades) : x.to <= m + 1
    BY <1>1, <1>2
  <2>2. \/ q2.in /\ q2.from = p2.from /\ q2.stop = p2.stop /\ q2.peak >= p2.peak
        \/ ~q2.in /\ \E r \in Range(q2.trades) : r.from = p2.from
    BY <1>2
  <2> QED BY <1>2, <2>1, <2>2 DEF Paired
<1>3. CASE ~q2.in /\ \E r : r.from = p2.from /\ r.to = m + 1 /\ Range(q2.trades) = Range(q.trades) \cup {r}
  <2>1. PICK r : r.from = p2.from /\ r.to = m + 1 /\ Range(q2.trades) = Range(q.trades) \cup {r}
    BY <1>3
  <2>2. \A x \in Range(q2.trades) : x.to <= m + 1
    BY <1>1, <2>1
  <2>3. \A u \in Range(p2.trades) : \E x \in Range(q2.trades) : x.from = u.from /\ x.to <= u.to
    BY <2>1
  <2> QED BY <1>3, <2>1, <2>2, <2>3 DEF Paired
<1> QED BY <1>2, <1>3

LEMMA PairStep ==
    ASSUME NEW p \in StudyRow, NEW q \in StudyRow, NEW m \in Nat, m + 1 <= NSimBars, Paired(p, q, m),
           NEW b \in SimBars, NEW before \in SimBars, p = studies["shared"]
    PROVE  /\ SharedStep(p, m + 1, b, before) \in StudyRow /\ RandomStep(q, m + 1, b, before) \in StudyRow
           /\ Paired(SharedStep(p, m + 1, b, before), RandomStep(q, m + 1, b, before), m + 1)
<1>1. PICK n : n = m + 1
  OBVIOUS
<1>2. n \in Nat /\ n \in 0..NSimBars
  BY <1>1, LimitFacts
<1>3. PICK p2 : p2 = SharedStep(p, n, b, before)
  OBVIOUS
<1>4. PICK q2 : q2 = RandomStep(q, n, b, before)
  OBVIOUS
<1>5. /\ \A r \in Range(q.trades) : r.to <= m
      /\ \A u \in Range(p.trades) : \E r \in Range(q.trades) : r.from = u.from /\ r.to <= u.to
      /\ q.in => p.in
      /\ p.in => \/ q.in /\ q.from = p.from /\ q.stop = p.stop /\ q.peak >= p.peak
                 \/ ~q.in /\ \E r \in Range(q.trades) : r.from = p.from
  BY DEF Paired
<1>6. b.l \in Int /\ b.o \in Int /\ b.c \in Int
  BY BarFacts
<1>7. CASE p.in
  <2>1. q.in => /\ b.l <= TrailingStop(q, before) => Gone(q, n, q2)
                /\ ~(b.l <= TrailingStop(q, before)) => Stays(q, b, q2)
    BY <1>2, <1>4, RandomFrom
  <2>2. ~q.in => q2 = q
    BY <1>4, <1>7, RandomOut
  <2>3. CASE b.l <= TrailingStop(p, before)
    <3>1. Gone(p, n, p2)
      BY <1>2, <1>3, <1>7, <2>3, SharedIn
    <3>2. PICK t \in StudyTrade : t.from = p.from /\ t.to = n /\ Range(p2.trades) = Range(p.trades) \cup {t}
      BY <3>1 DEF Gone
    <3>3. p2 \in StudyRow /\ ~p2.in
      BY <3>1 DEF Gone
    <3>4. CASE q.in
      <4>1. q.from = p.from /\ q.stop = p.stop /\ q.peak >= p.peak
        BY <1>5, <1>7, <3>4
      <4>2. Gone(q, n, q2)
        <5>1. TrailingStop(p, before) <= TrailingStop(q, before)
          BY <4>1, TrailingNotLower
        <5>2. TrailingStop(p, before) \in Int /\ TrailingStop(q, before) \in Int
          BY TrailingStopTyped
        <5> QED BY <1>6, <2>1, <2>3, <3>4, <5>1, <5>2
      <4>3. PICK r \in StudyTrade : r.from = q.from /\ r.to = n /\ Range(q2.trades) = Range(q.trades) \cup {r}
        BY <4>2 DEF Gone
      <4>4. q2 \in StudyRow /\ ~q2.in
        BY <4>2 DEF Gone
      <4>5. r.from = t.from /\ r.to = m + 1 /\ t.to = m + 1
        BY <1>1, <3>2, <4>1, <4>3
      <4>6. BothLeft(p, q, p2, q2, m)
        BY <3>2, <4>3, <4>5 DEF BothLeft
      <4>7. Paired(p2, q2, m + 1)
        BY <1>5, <3>3, <4>4, <4>6, PairLeaves
      <4> QED BY <1>1, <1>3, <1>4, <3>3, <4>4, <4>7
    <3>5. CASE ~q.in
      <4>1. PICK r \in Range(q.trades) : r.from = p.from
        BY <1>5, <1>7, <3>5
      <4>2. q2 = q /\ ~q2.in /\ r.from = t.from /\ t.to = m + 1
        BY <1>1, <2>2, <3>2, <3>5, <4>1
      <4>3. BothLeft(p, q, p2, q2, m)
        BY <3>2, <4>1, <4>2 DEF BothLeft
      <4>4. Paired(p2, q2, m + 1)
        BY <1>5, <3>3, <4>2, <4>3, PairLeaves
      <4> QED BY <1>1, <1>3, <1>4, <3>3, <4>2, <4>4
    <3> QED BY <3>4, <3>5
  <2>4. CASE ~(b.l <= TrailingStop(p, before))
    <3>1. Stays(p, b, p2)
      BY <1>2, <1>3, <1>7, <2>4, SharedIn
    <3>2. /\ p2 \in StudyRow /\ p2.in /\ p2.stop = p.stop /\ p2.from = p.from /\ p2.trades = p.trades
          /\ p2.peak = (IF p.peak >= b.c THEN p.peak ELSE b.c)
      BY <1>7, <3>1 DEF Stays
    <3>3. CASE q.in /\ b.l <= TrailingStop(q, before)
      <4>1. Gone(q, n, q2)
        BY <2>1, <3>3
      <4>2. PICK r \in StudyTrade : r.from = q.from /\ r.to = n /\ Range(q2.trades) = Range(q.trades) \cup {r}
        BY <4>1 DEF Gone
      <4>3. q2 \in StudyRow /\ ~q2.in
        BY <4>1 DEF Gone
      <4>4. r.from = p2.from /\ r.to = m + 1
        BY <1>1, <1>5, <1>7, <3>2, <3>3, <4>2
      <4>5. Paired(p2, q2, m + 1)
        BY <1>5, <3>2, <4>2, <4>3, <4>4, PairStays
      <4> QED BY <1>1, <1>3, <1>4, <3>2, <4>3, <4>5
    <3>4. CASE q.in /\ ~(b.l <= TrailingStop(q, before))
      <4>1. Stays(q, b, q2)
        BY <2>1, <3>4
      <4>2. /\ q2 \in StudyRow /\ q2.in /\ q2.from = q.from /\ q2.stop = q.stop /\ q2.trades = q.trades
            /\ q2.peak = (IF q.peak >= b.c THEN q.peak ELSE b.c)
        BY <3>4, <4>1 DEF Stays
      <4>3. q.from = p.from /\ q.stop = p.stop /\ q.peak >= p.peak /\ q.peak \in Int /\ p.peak \in Int
        BY <1>5, <1>7, <3>4 DEF StudyRow
      <4>4. q2.peak >= p2.peak
        BY <1>6, <3>2, <4>2, <4>3
      <4>5. q2.from = p2.from /\ q2.stop = p2.stop
        BY <3>2, <4>2, <4>3
      <4>6. Paired(p2, q2, m + 1)
        BY <1>5, <3>2, <4>2, <4>4, <4>5, PairStays
      <4> QED BY <1>1, <1>3, <1>4, <3>2, <4>2, <4>6
    <3>5. CASE ~q.in
      <4>1. PICK r \in Range(q.trades) : r.from = p.from
        BY <1>5, <1>7, <3>5
      <4>2. q2 = q /\ ~q2.in /\ r.from = p2.from
        BY <2>2, <3>2, <3>5, <4>1
      <4>3. Paired(p2, q2, m + 1)
        BY <1>5, <3>2, <4>1, <4>2, PairStays
      <4> QED BY <1>1, <1>3, <1>4, <3>2, <4>2, <4>3
    <3> QED BY <3>3, <3>4, <3>5
  <2> QED BY <2>3, <2>4
<1>8. CASE ~p.in /\ Enters(before)
  <2>1. PICK first \in Int : first = FirstStop(b.o, before.atr)
    BY BarFacts, FirstStopTyped
  <2>2. PICK x : x = EntryAt(p, n, b, before)
    OBVIOUS
  <2>3. PICK y : y = EntryAt(q, n, b, before)
    OBVIOUS
  <2>4. x \in StudyRow /\ x.in /\ x.stop = first /\ x.peak = b.o /\ x.from = n /\ x.trades = p.trades
    <3>1. IsEntry(x, p, n, b, before)
      BY <1>2, <2>2, EntryIs
    <3> QED BY <2>1, <3>1 DEF IsEntry
  <2>5. y \in StudyRow /\ y.in /\ y.stop = first /\ y.peak = b.o /\ y.from = n /\ y.trades = q.trades
    <3>1. IsEntry(y, q, n, b, before)
      BY <1>2, <2>3, EntryIs
    <3> QED BY <2>1, <3>1 DEF IsEntry
  <2>6. /\ b.l <= TrailingStop(y, before) => Gone(y, n, q2)
        /\ ~(b.l <= TrailingStop(y, before)) => Stays(y, b, q2)
    <3>1. y = IF ~q.in /\ ~studies["shared"].in /\ Enters(before) THEN EntryAt(q, n, b, before) ELSE q
      BY <1>5, <1>8, <2>3
    <3> QED BY <1>2, <1>4, <2>5, <3>1, RandomFrom
  <2>7. CASE b.l <= first
    <3>1. Gone(x, n, p2)
      BY <1>2, <1>3, <1>8, <2>1, <2>2, <2>7, SharedOut
    <3>2. PICK t \in StudyTrade : t.from = x.from /\ t.to = n /\ Range(p2.trades) = Range(x.trades) \cup {t}
      BY <3>1 DEF Gone
    <3>3. p2 \in StudyRow /\ ~p2.in
      BY <3>1 DEF Gone
    <3>4. Gone(y, n, q2)
      <4>1. TrailingStop(y, before) \in Int /\ first <= TrailingStop(y, before)
        BY <2>5, TrailingStopTyped
      <4> QED BY <1>6, <2>6, <2>7, <4>1
    <3>5. PICK r \in StudyTrade : r.from = y.from /\ r.to = n /\ Range(q2.trades) = Range(y.trades) \cup {r}
      BY <3>4 DEF Gone
    <3>6. q2 \in StudyRow /\ ~q2.in
      BY <3>4 DEF Gone
    <3>7. /\ r.from = t.from /\ r.to = m + 1 /\ t.to = m + 1
          /\ Range(p2.trades) = Range(p.trades) \cup {t} /\ Range(q2.trades) = Range(q.trades) \cup {r}
      BY <1>1, <2>4, <2>5, <3>2, <3>5
    <3>8. BothLeft(p, q, p2, q2, m)
      BY <3>7 DEF BothLeft
    <3>9. Paired(p2, q2, m + 1)
      BY <1>5, <3>3, <3>6, <3>8, PairLeaves
    <3> QED BY <1>1, <1>3, <1>4, <3>3, <3>6, <3>9
  <2>8. CASE ~(b.l <= first)
    <3>1. p2 = x
      BY <1>2, <1>3, <1>8, <2>1, <2>2, <2>8, SharedOut
    <3>2. CASE b.l <= TrailingStop(y, before)
      <4>1. Gone(y, n, q2)
        BY <2>6, <3>2
      <4>2. PICK r \in StudyTrade : r.from = y.from /\ r.to = n /\ Range(q2.trades) = Range(y.trades) \cup {r}
        BY <4>1 DEF Gone
      <4>3. q2 \in StudyRow /\ ~q2.in
        BY <4>1 DEF Gone
      <4>4. r.from = x.from /\ r.to = m + 1 /\ Range(q2.trades) = Range(q.trades) \cup {r}
        BY <1>1, <2>4, <2>5, <4>2
      <4>5. Paired(x, q2, m + 1)
        BY <1>5, <2>4, <4>3, <4>4, PairStays
      <4> QED BY <1>1, <1>3, <1>4, <2>4, <3>1, <4>3, <4>5
    <3>3. CASE ~(b.l <= TrailingStop(y, before))
      <4>1. Stays(y, b, q2)
        BY <2>6, <3>3
      <4>2. /\ q2 \in StudyRow /\ q2.in /\ q2.from = y.from /\ q2.stop = y.stop /\ q2.trades = y.trades
            /\ q2.peak = (IF y.peak >= b.c THEN y.peak ELSE b.c)
        BY <2>5, <4>1 DEF Stays
      <4>3. q2.peak >= x.peak /\ q2.from = x.from /\ q2.stop = x.stop /\ q2.trades = q.trades
        BY <1>6, <2>4, <2>5, <4>2
      <4>4. Paired(x, q2, m + 1)
        BY <1>5, <2>4, <4>2, <4>3, PairStays
      <4> QED BY <1>1, <1>3, <1>4, <2>4, <3>1, <4>2, <4>4
    <3> QED BY <3>2, <3>3
  <2> QED BY <2>7, <2>8
<1>9. CASE ~p.in /\ ~Enters(before)
  <2>1. p2 = p
    BY <1>2, <1>3, <1>9, SharedOut
  <2>2. q2 = q
    BY <1>4, <1>5, <1>9, RandomOut
  <2>3. \A r \in Range(q.trades) : r.to <= m + 1
    <3>1. \A r \in Range(q.trades) : r.to \in Nat
      BY TradesTyped
    <3> QED BY <1>5, <3>1
  <2>4. Paired(p, q, m + 1)
    BY <1>5, <2>3 DEF Paired
  <2> QED BY <1>1, <1>3, <1>4, <2>1, <2>2, <2>4
<1> QED BY <1>7, <1>8, <1>9

LEMMA StudiesSeen ==
    ASSUME NEW n, NEW b, Seeing(n, b)
    PROVE  studies' \in [Students -> StudyRow] /\ Followed'
<1>1. PICK p \in StudyRow : p = studies["shared"]
  BY DEF Seeing, SimInv, SimTyped, Students
<1>2. PICK q \in StudyRow : q = studies["random"]
  BY DEF Seeing, SimInv, SimTyped, Students
<1>3. PICK m \in Nat : m = seen.n
  BY BarSeen
<1>4. /\ n = m + 1 /\ m + 1 <= NSimBars /\ n \in Nat /\ b \in SimBars /\ seen'.n = n /\ ~setup'.ended
      /\ n > 1 => seen.last \in SimBars
  BY <1>3, BarSeen DEF Seeing
<1>5. studies["independent"] = p /\ Paired(p, q, m)
  BY <1>1, <1>2, <1>3 DEF Seeing, SimInv, Followed
<1>6. studies' = IF n = 1 THEN studies ELSE [s \in Students |-> StudiedBy(s, n, b)]
  BY <1>3, <1>4 DEF Seeing, NextBar
<1>7. CASE n = 1
  <2>1. studies' = studies
    BY <1>6, <1>7
  <2>2. \A r \in Range(q.trades) : r.to <= n
    <3>1. \A r \in Range(q.trades) : r.to \in Nat /\ r.to <= m
      BY <1>5, TradesTyped DEF Paired
    <3> QED BY <1>4, <3>1
  <2>3. Paired(p, q, n)
    BY <1>5, <2>2 DEF Paired
  <2>4. studies' \in [Students -> StudyRow]
    BY <2>1 DEF Seeing, SimInv, SimTyped
  <2>5. studies'["independent"] = studies'["shared"] /\ Paired(studies'["shared"], studies'["random"], seen'.n)
    BY <1>1, <1>2, <1>4, <1>5, <2>1, <2>3
  <2> QED BY <1>4, <2>4, <2>5 DEF Followed, Paired
<1>8. CASE n # 1
  <2>1. PICK before \in SimBars : before = seen.last
    BY <1>4, <1>8
  <2>2. /\ studies'["shared"] = StudiedBy("shared", n, b) /\ studies'["independent"] = StudiedBy("independent", n, b)
        /\ studies'["random"] = StudiedBy("random", n, b)
    BY <1>6, <1>8 DEF Students
  <2>3. studies'["shared"] = SharedStep(p, n, b, before)
    BY <1>1, <2>1, <2>2 DEF StudiedBy
  <2>4. studies'["independent"] = IndependentStep(p, n, b, before)
    BY <1>5, <2>1, <2>2 DEF StudiedBy
  <2>5. studies'["random"] = RandomStep(q, n, b, before)
    BY <1>2, <2>1, <2>2 DEF StudiedBy
  <2>6. n \in 0..NSimBars
    BY <1>4, LimitFacts
  <2>7. studies'["independent"] = studies'["shared"]
    BY <1>4, <2>3, <2>4, <2>6, IndependentIsShared
  <2>8. /\ SharedStep(p, m + 1, b, before) \in StudyRow /\ RandomStep(q, m + 1, b, before) \in StudyRow
        /\ Paired(SharedStep(p, m + 1, b, before), RandomStep(q, m + 1, b, before), m + 1)
    BY <1>1, <1>4, <1>5, PairStep
  <2>9. /\ studies'["shared"] \in StudyRow /\ studies'["random"] \in StudyRow
        /\ Paired(studies'["shared"], studies'["random"], seen'.n)
    BY <1>4, <2>3, <2>5, <2>8
  <2>10. DOMAIN studies' = Students /\ studies' = [s \in Students |-> studies'[s]]
    BY <1>6, <1>8
  <2>11. \A s \in Students : studies'[s] \in StudyRow
    BY <2>7, <2>9 DEF Students
  <2>12. studies' \in [Students -> StudyRow]
    BY <2>10, <2>11
  <2> QED BY <1>4, <2>7, <2>9, <2>12 DEF Followed, Paired
<1> QED BY <1>7, <1>8

LEMMA StudiesEnd ==
    ASSUME SimInv, DataEnds
    PROVE  studies' \in [Students -> StudyRow] /\ Followed'
<1>1. PICK p \in StudyRow : p = studies["shared"]
  BY DEF SimInv, SimTyped, Students
<1>2. PICK q \in StudyRow : q = studies["random"]
  BY DEF SimInv, SimTyped, Students
<1>3. PICK n \in Nat : n = seen.n
  BY DEF SimInv, SimTyped
<1>4. PICK price \in Int : price = seen.last.c
  <2>1. seen.last \in SimBars
    BY DEF SimInv, SimTyped, DataEnds
  <2> QED BY <2>1, BarFacts
<1>5. studies["independent"] = p /\ Paired(p, q, n) /\ seen' = seen
  BY <1>1, <1>2, <1>3 DEF SimInv, Followed, DataEnds
<1>6. studies' = [s \in Students |-> IF studies[s].in THEN Leaves(studies[s], n, price) ELSE studies[s]]
  BY <1>3, <1>4 DEF DataEnds
<1>7. PICK p2 : p2 = studies'["shared"]
  OBVIOUS
<1>8. PICK q2 : q2 = studies'["random"]
  OBVIOUS
<1>9. /\ p2 = (IF p.in THEN Leaves(p, n, price) ELSE p) /\ q2 = (IF q.in THEN Leaves(q, n, price) ELSE q)
      /\ studies'["independent"] = p2
  BY <1>1, <1>2, <1>5, <1>6, <1>7, <1>8 DEF Students
<1>10. (p.in => Gone(p, n, p2)) /\ (q.in => Gone(q, n, q2))
  BY <1>9, LeavesIs
<1>11. p2 \in StudyRow /\ ~p2.in /\ q2 \in StudyRow /\ ~q2.in
  BY <1>9, <1>10 DEF Gone
<1>12. Paired(p2, q2, n)
  <2>1. /\ \A r \in Range(q.trades) : r.to <= n /\ r.to \in Nat
        /\ \A u \in Range(p.trades) : \E r \in Range(q.trades) : r.from = u.from /\ r.to <= u.to
        /\ q.in => p.in
        /\ p.in => (q.in /\ q.from = p.from) \/ (~q.in /\ \E r \in Range(q.trades) : r.from = p.from)
    <3>1. \A r \in Range(q.trades) : r.to \in Nat
      BY TradesTyped
    <3> QED BY <1>5, <3>1 DEF Paired
  <2>2. CASE ~p.in
    BY <1>5, <1>9, <2>1, <2>2
  <2>3. CASE p.in
    <3>1. PICK t \in StudyTrade : t.from = p.from /\ t.to = n /\ Range(p2.trades) = Range(p.trades) \cup {t}
      BY <1>10, <2>3 DEF Gone
    <3>2. CASE q.in
      <4>1. PICK r \in StudyTrade : r.from = q.from /\ r.to = n /\ Range(q2.trades) = Range(q.trades) \cup {r}
        BY <1>10, <3>2 DEF Gone
      <4>2. \A x \in Range(q2.trades) : x.to <= n
        BY <2>1, <4>1
      <4>3. q.from = p.from
        BY <2>1, <2>3, <3>2
      <4>4. \A u \in Range(p2.trades) : \E x \in Range(q2.trades) : x.from = u.from /\ x.to <= u.to
        BY <2>1, <3>1, <4>1, <4>3
      <4> QED BY <1>11, <4>2, <4>4 DEF Paired
    <3>3. CASE ~q.in
      <4>1. q2 = q
        BY <1>9, <3>3
      <4>2. PICK r \in Range(q.trades) : r.from = p.from
        BY <2>1, <2>3, <3>3
      <4>3. \A u \in Range(p2.trades) : \E x \in Range(q2.trades) : x.from = u.from /\ x.to <= u.to
        BY <2>1, <3>1, <4>1, <4>2
      <4> QED BY <1>11, <2>1, <4>1, <4>3 DEF Paired
    <3> QED BY <3>2, <3>3
  <2> QED BY <2>2, <2>3
<1>13. \A s \in Students : studies'[s] \in StudyRow
  BY <1>7, <1>8, <1>9, <1>11 DEF Students
<1>14. studies' \in [Students -> StudyRow]
  BY <1>6, <1>13
<1>15. /\ studies'["independent"] = studies'["shared"] /\ ~studies'["shared"].in
       /\ Paired(studies'["shared"], studies'["random"], seen'.n)
  BY <1>3, <1>5, <1>7, <1>8, <1>9, <1>11, <1>12
<1> QED BY <1>14, <1>15 DEF Followed, Paired

----
\* The product of a quotient is not more than what was divided.
LEMMA QuotientBack ==
    ASSUME NEW a \in Nat, NEW d \in Nat \ {0}
    PROVE  a \div d \in Nat /\ d * (a \div d) <= a
  OBVIOUS

LEMMA FillsCost ==
    ASSUME NEW s \in Int, NEW x \in Int, NEW y \in Int, NEW e \in Int
    PROVE  s * (y * (100 - e) - x * (100 + e)) * 10000 = s * (y - x) * 1000000 - s * (x + y) * e * 10000
  OBVIOUS

LEMMA NotMoreThanPut ==
    ASSUME NEW v \in Nat, NEW k \in Nat, k >= 100, NEW a \in Nat, v * k <= a * 10000
    PROVE  v <= a * 100
<1>1. PICK w \in Nat : k = 100 + w
  <2>1. k - 100 \in Nat /\ k = 100 + (k - 100)
    OBVIOUS
  <2> QED BY <2>1
<1>2. v * w \in Nat
  BY <1>1
<1>3. v * k = v * 100 + v * w
  BY <1>1
<1> QED BY <1>2, <1>3

LEMMA CommissionTyped ==
    ASSUME NEW v \in Int
    PROVE  Commission(v) \in Int
<1>1. PICK x \in Int : x = v * FeePct
  BY SimulatorsAssumption
<1>2. PICK y \in Int : y = MinCommission * 10000
  BY SimulatorsAssumption
<1>3. Max({x, y}) \in Int
  BY MaxTwo
<1> QED BY <1>1, <1>2, <1>3 DEF Commission

LEMMA MoneyHolds ==
    ASSUME NEW entry \in Nat \ {0}, NEW exit \in Nat
    PROVE  /\ Economics(entry, exit).profit = Economics(entry, exit).gross - Economics(entry, exit).total
           /\ Economics(entry, exit).deployed <= Notional * 100
<1>1. ExecPct \in Nat /\ FeePct \in Nat /\ ExchangePct \in Nat /\ StampPct \in Nat /\ BsmvPct \in Nat /\ Notional \in Nat
  BY SimulatorsAssumption
<1>2. PICK entryFill : entryFill = entry * (100 + ExecPct)
  OBVIOUS
<1>3. entryFill \in Nat \ {0}
  <2>1. PICK k \in Nat \ {0} : k = 100 + ExecPct
    BY <1>1
  <2>2. entry * k \in Nat \ {0}
    OBVIOUS
  <2> QED BY <1>2, <2>1, <2>2
<1>4. PICK exitFill : exitFill = exit * (100 - ExecPct)
  OBVIOUS
<1>5. exitFill \in Int
  BY <1>1, <1>4
<1>6. PICK k \in Nat : k = 100 + FeePct + ExchangePct /\ k >= 100
  BY <1>1
<1>7. PICK d : d = entryFill * k
  OBVIOUS
<1>8. d \in Nat \ {0}
  BY <1>3, <1>6, <1>7
<1>9. PICK money \in Nat : money = Notional * 10000
  BY <1>1
<1>10. PICK shares : shares = money \div d
  OBVIOUS
<1>11. shares \in Nat /\ d * shares <= money
  BY <1>8, <1>9, <1>10, QuotientBack
<1>12. PICK v : v = shares * entryFill
  OBVIOUS
<1>13. v \in Nat
  BY <1>3, <1>11, <1>12
<1>14. v <= Notional * 100
  <2>1. d * shares = v * k
    BY <1>3, <1>6, <1>7, <1>11, <1>12
  <2>2. v * k <= Notional * 10000
    BY <1>9, <1>11, <2>1
  <2> QED BY <1>1, <1>6, <1>13, <2>2, NotMoreThanPut
<1>15. PICK w \in Int : w = shares * exitFill
  BY <1>5, <1>11
<1>16. PICK commission \in Int : commission = Commission(v) + Commission(w)
  BY <1>13, CommissionTyped
<1>17. PICK fees : fees = commission + (commission * BsmvPct) \div 100 + (v + w) * ExchangePct * 100 + w * StampPct * 100
  OBVIOUS
<1>18. fees \in Int
  <2>1. PICK x \in Int : x = commission * BsmvPct
    BY <1>1
  <2>2. PICK y \in Int : y = (v + w) * ExchangePct
    BY <1>1, <1>13
  <2>3. PICK z \in Int : z = w * StampPct
    BY <1>1
  <2>4. x \div 100 \in Int
    OBVIOUS
  <2> QED BY <1>17, <2>1, <2>2, <2>3, <2>4
<1>19. PICK e : e = Economics(entry, exit)
  OBVIOUS
<1>20. e = [shares |-> shares, deployed |-> v, gross |-> shares * (exit - entry) * 1000000,
            profit |-> shares * (exitFill - entryFill) * 10000 - fees,
            total |-> fees + shares * (entry + exit) * ExecPct * 10000]
  BY <1>2, <1>4, <1>6, <1>7, <1>9, <1>10, <1>12, <1>15, <1>16, <1>17, <1>19 DEF Economics, Impact
<1>21. /\ e.profit = shares * (exitFill - entryFill) * 10000 - fees /\ e.deployed = v
       /\ e.gross = shares * (exit - entry) * 1000000 /\ e.total = fees + shares * (entry + exit) * ExecPct * 10000
  BY <1>20
<1>22. shares * (exitFill - entryFill) * 10000 = shares * (exit - entry) * 1000000 - shares * (entry + exit) * ExecPct * 10000
  BY <1>1, <1>2, <1>4, <1>11, FillsCost
<1>23. PICK gross \in Int : gross = shares * (exit - entry) * 1000000
  BY <1>11
<1>24. PICK cost \in Int : cost = shares * (entry + exit) * ExecPct * 10000
  BY <1>1, <1>11
<1>25. e.profit = e.gross - e.total
  BY <1>18, <1>21, <1>22, <1>23, <1>24
<1> QED BY <1>14, <1>19, <1>21, <1>25

----
LEMMA SimInitial ==
    ASSUME SimInit
    PROVE  SimInv
<1>1. PICK l \in Levels, trail \in Mults : setup = [stop |-> l.stop, target |-> l.target, trail |-> trail, ended |-> FALSE]
  BY DEF SimInit
<1>2. setup \in Setups /\ ~setup.ended /\ setup.stop \in Nat
  BY <1>1, SimulatorsAssumption DEF Setups
<1>3. seen.n = 0 /\ ~seen.left /\ exits = [f \in Followers |-> Open]
  BY DEF SimInit
<1>4. stops = [f \in {"evaluator", "edge"} |-> [stop |-> setup.stop, peak |-> 0]] /\ studies = [s \in Students |-> Flat]
  BY DEF SimInit
<1>5. Flat \in StudyRow /\ ~Flat.in /\ Range(Flat.trades) = {}
  <2>1. <<>> \in Seq(StudyTrade) /\ Range(<<>>) = {}
    BY DEF Range
  <2> QED BY <2>1, LimitFacts DEF Flat, StudyRow
<1>6. SimTyped
  <2>1. \A s \in Students : studies[s] \in StudyRow
    BY <1>4, <1>5
  <2>2. stops \in [{"evaluator", "edge"} -> StopRow]
    BY <1>2, <1>4 DEF StopRow
  <2>3. studies \in [Students -> StudyRow]
    BY <1>4, <2>1
  <2>4. seen.left \in BOOLEAN
    BY DEF SimInit
  <2> QED BY <1>2, <1>3, <2>2, <2>3, <2>4, LimitFacts DEF SimTyped
<1>7. \A f \in Followers : exits[f] = Open
  BY <1>3
<1>8. ExitsPlaced
  <2>1. \A f \in Followers : ExitPlaced(f, exits[f])
    BY <1>2, <1>3, <1>7, LimitFacts DEF ExitPlaced, Open
  <2> QED BY <1>3, <2>1 DEF ExitsPlaced
<1>9. /\ exits["contract"] = Open /\ exits["evaluator"] = Open /\ exits["edge"] = Open /\ exits["replay"] = Open
      /\ exits["short"] = Open
  BY <1>7 DEF Followers
<1>10. LevelsAgree
  <2>1. Upright(Open) = Open
    BY DEF Upright, Open
  <2>2. SamePlace(Open, Open) /\ Open.reason = "open"
    BY DEF SamePlace, Open
  <2>3. Open.at = 0
    BY DEF Open
  <2> QED BY <1>3, <1>9, <2>1, <2>2, <2>3 DEF LevelsAgree
<1>11. StopsAgree
  BY <1>2, <1>4 DEF StopsAgree
<1>12. Followed
  BY <1>2, <1>4, <1>5 DEF Followed, Paired, Students
<1> QED BY <1>6, <1>8, <1>10, <1>11, <1>12 DEF SimInv

LEMMA SimInductive ==
    /\ SimInit => SimInv
    /\ SimInv /\ [SimNext]_simVars => SimInv'
<1>1. SimInit => SimInv
  BY SimInitial
<1>2. ASSUME SimInv, NEW b \in SimBars, NextBar(b) PROVE SimInv'
  <2>1. PICK n : n = seen.n + 1
    OBVIOUS
  <2>2. Seeing(n, b)
    BY <1>2, <2>1 DEF Seeing
  <2>3. ExitsPlaced' /\ StopsAgree' /\ LevelsAgree'
    BY <2>2, PlacedSeen, StopsSeen, LevelsSeen
  <2>4. studies' \in [Students -> StudyRow] /\ Followed'
    BY <2>2, StudiesSeen
  <2>5. stops' \in [{"evaluator", "edge"} -> StopRow]
    BY <2>2, ExitsSeen
  <2>6. /\ n \in Nat \ {0} /\ n <= NSimBars /\ setup \in Setups /\ setup' = setup
        /\ seen'.n = n /\ seen'.last = b /\ seen'.left \in BOOLEAN /\ seen'.entry \in Nat \ {0}
    BY <2>2, BarSeen
  <2>7. setup' \in Setups
    BY <2>6 DEF Setups
  <2>8. SimTyped'
    BY <2>4, <2>5, <2>6, <2>7, LimitFacts DEF SimTyped, Setups, StopRow, StudyRow, StudyTrade
  <2> QED BY <2>3, <2>4, <2>8 DEF SimInv
<1>3. ASSUME SimInv, DataEnds PROVE SimInv'
  <2>1. ExitsPlaced' /\ StopsAgree' /\ LevelsAgree'
    BY <1>3, LevelsEnd
  <2>2. studies' \in [Students -> StudyRow] /\ Followed'
    BY <1>3, StudiesEnd
  <2>3. setup' = [setup EXCEPT !.ended = TRUE] /\ seen' = seen /\ stops' = stops /\ seen.n > 0
    BY <1>3 DEF DataEnds
  <2>4. setup' \in Setups
    BY <1>3, <2>3 DEF SimInv, SimTyped, Setups
  <2>5. SimTyped'
    BY <1>3, <2>2, <2>3, <2>4 DEF SimInv, SimTyped, Setups, StopRow, StudyRow, StudyTrade
  <2> QED BY <2>1, <2>2, <2>5 DEF SimInv
<1>4. ASSUME SimInv, UNCHANGED simVars PROVE SimInv'
  <2>1. setup' = setup /\ seen' = seen /\ exits' = exits /\ stops' = stops /\ studies' = studies
    BY <1>4 DEF simVars
  <2>2. SimTyped' /\ ExitsPlaced' /\ StopsAgree'
    BY <1>4, <2>1 DEF SimInv, SimTyped, ExitsPlaced, ExitPlaced, Replayed, StopsAgree, EdgeTarget, Setups, StopRow, StudyRow,
                      StudyTrade
  <2>3. LevelsAgree'
    BY <1>4, <2>1 DEF SimInv, LevelsAgree, Plain, Replayed, EdgeTarget
  <2>4. Followed'
    BY <1>4, <2>1 DEF SimInv, Followed, Paired
  <2> QED BY <2>2, <2>3, <2>4 DEF SimInv
<1> QED BY <1>1, <1>2, <1>3, <1>4 DEF SimNext

LEMMA SimImplies ==
    ASSUME SimInv
    PROVE  SimTypeOK /\ SimulatorsAgree
<1>1. SimTypeOK
  <2>1. \A f \in Followers : exits[f].at \in 0..HoldLimit
    BY LimitFacts DEF SimInv, SimTyped, ExitsPlaced, ExitPlaced, Open
  <2> QED BY <2>1 DEF SimInv, SimTyped, ExitsPlaced, Setups, StudyRow, SimTypeOK
<1>2. StudiesAgree
  BY DEF SimInv, Followed, Paired, StudiesAgree
<1>3. MoneyAddsUp
  <2> SUFFICES ASSUME exits["contract"] # Open
               PROVE  LET e == Economics(seen.entry, exits["contract"].price)
                      IN  e.profit = e.gross - e.total /\ e.deployed <= Notional * 100
    BY DEF MoneyAddsUp
  <2>1. ExitPlaced("contract", exits["contract"])
    BY DEF SimInv, ExitsPlaced, Followers
  <2>2. seen.n > 0 /\ exits["contract"].price \in Nat
    BY <2>1, LimitFacts DEF ExitPlaced, SimInv, SimTyped
  <2>3. seen.entry \in Nat \ {0}
    BY <2>2 DEF SimInv, SimTyped
  <2> QED BY <2>2, <2>3, MoneyHolds
<1>4. LevelsAgree
  BY DEF SimInv
<1> QED BY <1>1, <1>2, <1>3, <1>4 DEF SimulatorsAgree

\* For all bars, levels, rates and limits: evaluator, contract, replay, the reflected short position and the
\* edge diagnosis leave a position on the same bar at the same price wherever they follow the same levels, a
\* trailing stop never holds longer, the independent simulator confirms the shared one, the random one never
\* leaves later, and the profit of a trade is what the prices gave less all it cost.
THEOREM SimulatorsHold == SimSpec => []SimulatorsAgree
<1>1. SimInit => SimInv
  BY SimInductive
<1>2. SimInv /\ [SimNext]_simVars => SimInv'
  BY SimInductive
<1>3. SimInv => SimulatorsAgree
  BY SimImplies
<1> QED BY <1>1, <1>2, <1>3, PTL DEF SimSpec

\* Everything the simulators keep has its type: an exit is found within the holding limit, and a study begins
\* within the bars.
THEOREM SimulatorsTyped == SimSpec => []SimTypeOK
<1>1. SimInit => SimInv
  BY SimInductive
<1>2. SimInv /\ [SimNext]_simVars => SimInv'
  BY SimInductive
<1>3. SimInv => SimTypeOK
  BY SimImplies
<1> QED BY <1>1, <1>2, <1>3, PTL DEF SimSpec
=============================================================================
