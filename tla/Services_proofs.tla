-------------------------- MODULE Services_proofs --------------------------
(***************************************************************************)
(* What several threads or processes write or read without a lock between   *)
(* them: the rows of paper trades and of their mirror in the trade ledger,  *)
(* the payment requests of memberships, the positions of the virtual trade  *)
(* book, the histories of the fetcher with what is made of them, the         *)
(* results that workers leave for a page, the messages that threads send    *)
(* and the signals they are about; of every number of each.  And what the   *)
(* strategy makes of a market, live and in a backtest.                      *)
(***************************************************************************)
EXTENDS PaperTrades, Subscriptions, VirtualTrades, MarketData, SessionScans, Announcements,
        SignalDecision, FiniteSetTheorems, WellFoundedInduction, TLAPS

----
(* The paper trades and their mirror in the trade ledger.  Of every number *)
(* of services, of trades and of reasons for a close: the trade ledger     *)
(* follows the paper trades, it tells the same reason where one service    *)
(* closed a trade, and a pass at the end of the day leaves none of its     *)
(* trades open. The invariants say what a service knows of the trade it    *)
(* works on: a mirror is written after the close it tells of; a trade that *)
(* was not yet closed by its own service is open unless another set out to *)
(* close it.                                                               *)

Works(s) == task[s].pc \in {"pass", "close", "mirror"}

\* A service that writes has a trade, and one that closes has listed it and has a reason.
PaperPlaced ==
    \A s \in Services :
        /\ task[s].pc \in {"queue", "close", "mirror"} => task[s].next \in Trades
        /\ task[s].pc \in {"close", "mirror"} =>
              task[s].next \in task[s].listed /\ task[s].reason \in Reasons

\* A mirror of a close is written after the close.
MirrorsAfterClose ==
    \A s \in Services : task[s].pc = "mirror" => paper[task[s].next].status = "closed"

\* What a pass at the end of the day has gone by is closed.
EodGoneBy ==
    \A s \in Services : (Works(s) /\ task[s].eod) =>
        \A t \in task[s].listed : t < task[s].next => paper[t].status = "closed"

\* Whoever closes a trade is known to have set out to do so.
ClosersKnown ==
    /\ \A t \in Trades : paper[t].status = "closed" => closers[t] # {}
    /\ \A s \in Services : task[s].pc \in {"close", "mirror"} => s \in closers[task[s].next]

\* A trade still ahead of a service is open if no other set out to close it.
AheadIsOpen ==
    \A s \in Services, t \in Trades :
        (Works(s) /\ t \in task[s].listed /\ closers[t] \subseteq {s}
           /\ (t > task[s].next \/ (t = task[s].next /\ task[s].pc # "mirror")))
            => paper[t].status = "open"

\* A service that alone set out to close a trade mirrors what it wrote.
MirrorsOwnClose ==
    \A s \in Services :
        (task[s].pc = "mirror" /\ closers[task[s].next] = {s})
            => paper[task[s].next] = Closed(task[s].reason)

PaperInv ==
    /\ PaperTypeOK /\ PaperPlaced /\ MirrorsAfterClose /\ EodGoneBy /\ LedgerFollowsPaper
    /\ ClosersKnown /\ AheadIsOpen /\ MirrorsOwnClose /\ MirrorAgrees

----
TaskType == [pc : {"idle", "queue", "pass", "close", "mirror"}, listed : SUBSET Trades,
             next : 0..(NTrades + 1), eod : BOOLEAN, reason : Reasons \cup {"none"}]

\* The reason that is told is one of those that hold.
LEMMA FirstHolds ==
    ASSUME NEW holding \in SUBSET Reasons, holding # {}
    PROVE  FirstOf(holding) \in holding
<1> DEFINE First(i) == Priority[i] \in holding /\ \A j \in 1..(i - 1) : Priority[j] \notin holding
<1>1. PICK i \in 1..5 : Priority[i] \in holding
  BY PaperAssumption
<1>2. \E k \in 1..5 : First(k)
  <2>1. CASE Priority[1] \in holding
    BY <2>1
  <2>2. CASE Priority[1] \notin holding /\ Priority[2] \in holding
    BY <2>2
  <2>3. CASE Priority[1] \notin holding /\ Priority[2] \notin holding /\ Priority[3] \in holding
    BY <2>3
  <2>4. CASE /\ Priority[1] \notin holding /\ Priority[2] \notin holding
             /\ Priority[3] \notin holding /\ Priority[4] \in holding
    BY <2>4
  <2>5. CASE /\ Priority[1] \notin holding /\ Priority[2] \notin holding
             /\ Priority[3] \notin holding /\ Priority[4] \notin holding
    BY <1>1, <2>5
  <2> QED BY <2>1, <2>2, <2>3, <2>4, <2>5
<1>3. First(CHOOSE k \in 1..5 : First(k))
  BY <1>2
<1> QED BY <1>3 DEF FirstOf

\* Initially no trade is there and every service is idle.
LEMMA PaperInitially == PaperInit => PaperInv
<1> SUFFICES ASSUME PaperInit PROVE PaperInv
  OBVIOUS
<1>1. Idle \in TaskType
  BY PaperAssumption DEF Idle, TaskType
<1>2. PaperTypeOK
  BY <1>1 DEF PaperInit, PaperTypeOK, TaskType, Rows
<1>3. \A s \in Services : task[s].pc = "idle"
  BY DEF PaperInit, Idle
<1>4. \A t \in Trades : paper[t].status = "none" /\ ledger[t].status = "none"
  BY DEF PaperInit, NoRow
<1> QED BY <1>2, <1>3, <1>4
        DEF PaperInv, PaperPlaced, MirrorsAfterClose, EodGoneBy, LedgerFollowsPaper, ClosersKnown,
            AheadIsOpen, MirrorsOwnClose, MirrorAgrees, Works

\* A step of a service that writes nothing and ends or goes on with its pass.
LEMMA QuietSteps ==
    ASSUME PaperInv, NEW s \in Services, UNCHANGED <<paper, ledger, closers>>,
           task' \in [Services -> TaskType], \A u \in Services : u # s => task'[u] = task[u],
           \/ task'[s].pc = "idle"
           \/ /\ task'[s].pc = "pass" /\ task'[s].next = 1
              /\ \A t \in task'[s].listed : paper[t].status = "open"
           \/ /\ task[s].pc \in {"pass", "mirror"} /\ task'[s].pc = "pass"
              /\ task'[s].next = task[s].next + 1
              /\ task'[s].listed = task[s].listed /\ task'[s].eod = task[s].eod
              /\ (task[s].pc = "pass" /\ task[s].eod) => task[s].next \notin task[s].listed
    PROVE  PaperInv'
<1>1. \A u \in Services : task[u] \in TaskType
  BY DEF PaperInv, PaperTypeOK, TaskType
<1>2. \A u \in Services : task[u].next \in Nat /\ task'[u].next \in Nat
  BY <1>1, PaperAssumption DEF TaskType
<1>3. \A u \in Services : task[u].listed \subseteq Trades /\ task'[u].listed \subseteq Trades
  BY <1>1 DEF TaskType
<1>4. PaperTypeOK'
  BY DEF PaperInv, PaperTypeOK, TaskType
<1>5. task'[s].pc \in {"idle", "pass"}
  OBVIOUS
<1>6. PaperPlaced'
  BY <1>5 DEF PaperInv, PaperPlaced
<1>7. MirrorsAfterClose' /\ LedgerFollowsPaper' /\ MirrorsOwnClose' /\ MirrorAgrees'
  BY <1>5 DEF PaperInv, MirrorsAfterClose, LedgerFollowsPaper, MirrorsOwnClose, MirrorAgrees
<1>8. ClosersKnown'
  BY <1>5 DEF PaperInv, ClosersKnown
<1>9. EodGoneBy'
  <2>1. ASSUME Works(s)', task'[s].eod, NEW t \in task'[s].listed, t < task'[s].next
        PROVE  paper[t].status = "closed"
    <3>1. t \in Trades /\ t >= 1
      BY <1>3, PaperAssumption DEF Trades
    <3>2. task'[s].pc # "idle" /\ task'[s].next # 1
      BY <1>3, <2>1, <3>1 DEF Works, Trades
    <3>3. CASE /\ task[s].pc \in {"pass", "mirror"} /\ task'[s].next = task[s].next + 1
               /\ task'[s].listed = task[s].listed /\ task'[s].eod = task[s].eod
               /\ (task[s].pc = "pass" /\ task[s].eod) => task[s].next \notin task[s].listed
      <4>1. t < task[s].next \/ t = task[s].next
        BY <1>2, <2>1, <3>1, <3>3 DEF Trades
      <4>2. CASE t < task[s].next
        BY <2>1, <3>3, <4>2 DEF PaperInv, EodGoneBy, Works
      <4>3. CASE t = task[s].next
        BY <2>1, <3>3, <4>3 DEF PaperInv, MirrorsAfterClose
      <4> QED BY <4>1, <4>2, <4>3
    <3> QED BY <3>2, <3>3
  <2> QED BY <2>1 DEF PaperInv, EodGoneBy, Works
<1>10. AheadIsOpen'
  <2>1. ASSUME Works(s)', NEW t \in Trades, t \in task'[s].listed, closers[t] \subseteq {s},
               t >= task'[s].next
        PROVE  paper[t].status = "open"
    <3>1. CASE task[s].pc \in {"pass", "mirror"} /\ task'[s].next = task[s].next + 1
                  /\ t \in task[s].listed
      <4>1. t > task[s].next
        BY <1>2, <2>1, <3>1 DEF Trades
      <4> QED BY <2>1, <3>1, <4>1 DEF PaperInv, AheadIsOpen, Works
    <3> QED BY <2>1, <3>1 DEF Works
  <2> QED BY <1>2, <2>1 DEF PaperInv, AheadIsOpen, Works, Trades
<1> QED BY <1>4, <1>6, <1>7, <1>8, <1>9, <1>10 DEF PaperInv

\* A trade is queued.
LEMMA QueueKeeps ==
    ASSUME PaperInv, NEW s \in Services, NEW t \in Trades, NEW ignored \in BOOLEAN, Queue(s, t, ignored)
    PROVE  PaperInv'
<1>1. /\ paper \in [Trades -> Rows] /\ task \in [Services -> TaskType]
      /\ UNCHANGED <<ledger, closers>> /\ paper[t].status = "none"
  BY DEF PaperInv, PaperTypeOK, TaskType, Queue
<1>2. /\ paper'[t] = OpenRow /\ \A u \in Trades : u # t => paper'[u] = paper[u]
      /\ paper' \in [Trades -> Rows]
  BY <1>1 DEF Queue, Rows
<1>3. /\ task'[s].pc = "queue" /\ task'[s].next = t /\ task' \in [Services -> TaskType]
      /\ \A u \in Services : u # s => task'[u] = task[u]
  <2>1. t \in 0..(NTrades + 1)
    BY PaperAssumption DEF Trades
  <2> QED BY <1>1, <2>1, ZenonT(60) DEF Queue, TaskType
<1>4. \A u \in Trades : /\ paper[u].status = "closed" => paper'[u] = paper[u]
                        /\ paper'[u].status = "closed" => paper[u].status = "closed"
                        /\ paper[u].status = "open" => paper'[u].status = "open"
  BY <1>1, <1>2 DEF OpenRow
<1>5. PaperTypeOK'
  BY <1>1, <1>2, <1>3 DEF PaperInv, PaperTypeOK, TaskType
<1>6. PaperPlaced' /\ MirrorsAfterClose'
  BY <1>3, <1>4 DEF PaperInv, PaperPlaced, MirrorsAfterClose
<1>7. LedgerFollowsPaper' /\ MirrorAgrees'
  BY <1>1, <1>4 DEF PaperInv, LedgerFollowsPaper, MirrorAgrees
<1>8. EodGoneBy'
  BY <1>1, <1>3, <1>4 DEF PaperInv, EodGoneBy, Works, TaskType
<1>9. ClosersKnown'
  BY <1>1, <1>3, <1>4 DEF PaperInv, ClosersKnown
<1>10. AheadIsOpen'
  BY <1>1, <1>3, <1>4 DEF PaperInv, AheadIsOpen, Works
<1>11. MirrorsOwnClose'
  BY <1>1, <1>3, <1>4 DEF PaperInv, MirrorsOwnClose, PaperPlaced, MirrorsAfterClose
<1> QED BY <1>5, <1>6, <1>7, <1>8, <1>9, <1>10, <1>11 DEF PaperInv

\* The mirror of a queued trade is written.
LEMMA MirrorOpenKeeps ==
    ASSUME PaperInv, NEW s \in Services, MirrorOpen(s)
    PROVE  PaperInv'
<1>1. /\ task \in [Services -> TaskType] /\ task[s].next \in Trades /\ UNCHANGED <<paper, closers>>
      /\ ledger \in [Trades -> Rows]
  BY DEF PaperInv, PaperTypeOK, PaperPlaced, MirrorOpen, TaskType
<1>2. Idle \in TaskType
  BY PaperAssumption DEF Idle, TaskType
<1>3. /\ task' \in [Services -> TaskType] /\ task'[s].pc = "idle"
      /\ \A u \in Services : u # s => task'[u] = task[u]
  BY <1>1, <1>2 DEF MirrorOpen, Idle
<1>4. /\ ledger' \in [Trades -> Rows]
      /\ \A t \in Trades : ledger'[t].status = "closed" => ledger'[t] = ledger[t]
  BY <1>1 DEF MirrorOpen, Rows, OpenRow
<1>5. PaperTypeOK'
  BY <1>1, <1>3, <1>4 DEF PaperInv, PaperTypeOK, TaskType
<1>6. LedgerFollowsPaper' /\ MirrorAgrees'
  BY <1>1, <1>4 DEF PaperInv, LedgerFollowsPaper, MirrorAgrees
<1>7. PaperPlaced' /\ MirrorsAfterClose' /\ EodGoneBy' /\ ClosersKnown'
  BY <1>1, <1>3 DEF PaperInv, PaperPlaced, MirrorsAfterClose, EodGoneBy, ClosersKnown, Works
<1>8. AheadIsOpen' /\ MirrorsOwnClose'
  BY <1>1, <1>3 DEF PaperInv, AheadIsOpen, MirrorsOwnClose, Works
<1> QED BY <1>5, <1>6, <1>7, <1>8 DEF PaperInv

\* A service sets out to close the trade it looks at.
LEMMA SetOutKeeps ==
    ASSUME PaperInv, NEW s \in Services, NEW holding \in SUBSET Reasons, Consider(s, holding), holding # {}
    PROVE  PaperInv'
<1> DEFINE t == task[s].next
<1>1. /\ task \in [Services -> TaskType] /\ UNCHANGED <<paper, ledger>>
      /\ task[s].pc = "pass" /\ t \in task[s].listed /\ closers \in [Trades -> SUBSET Services]
  BY DEF PaperInv, PaperTypeOK, Consider, TaskType
<1>2. t \in Trades
  BY <1>1 DEF TaskType
<1>3. FirstOf(holding) \in Reasons
  BY FirstHolds
<1>4. /\ task' \in [Services -> TaskType]
      /\ task'[s].pc = "close" /\ task'[s].next = t /\ task'[s].listed = task[s].listed
      /\ task'[s].eod = task[s].eod /\ task'[s].reason \in Reasons
      /\ \A u \in Services : u # s => task'[u] = task[u]
  BY <1>1, <1>3 DEF Consider, TaskType
<1>5. /\ closers'[t] = closers[t] \cup {s} /\ closers' \in [Trades -> SUBSET Services]
      /\ \A u \in Trades : u # t => closers'[u] = closers[u]
  BY <1>1, <1>2 DEF Consider
<1> HIDE DEF t
<1>6. PaperTypeOK'
  BY <1>1, <1>4, <1>5 DEF PaperInv, PaperTypeOK, TaskType
<1>7. PaperPlaced' /\ MirrorsAfterClose' /\ LedgerFollowsPaper'
  BY <1>1, <1>2, <1>4 DEF PaperInv, PaperPlaced, MirrorsAfterClose, LedgerFollowsPaper
<1>8. EodGoneBy'
  BY <1>1, <1>4 DEF PaperInv, EodGoneBy, Works, t
<1>9. ClosersKnown'
  BY <1>1, <1>2, <1>4, <1>5 DEF PaperInv, ClosersKnown, PaperPlaced
<1>10. AheadIsOpen'
  <2>1. \A u \in Trades, v \in Services : closers'[u] \subseteq {v} => closers[u] \subseteq {v}
    BY <1>5
  <2> QED BY <1>1, <1>4, <2>1 DEF PaperInv, AheadIsOpen, Works, t
<1>11. MirrorsOwnClose'
  <2>1. ASSUME NEW v \in Services, task'[v].pc = "mirror", closers'[task'[v].next] = {v}
        PROVE  paper[task[v].next] = Closed(task[v].reason)
    <3>1. v # s /\ task'[v] = task[v] /\ task[v].next \in Trades
      BY <1>4, <2>1 DEF PaperInv, PaperPlaced
    <3>2. closers[task[v].next] = {v}
      BY <1>5, <2>1, <3>1
    <3> QED BY <2>1, <3>1, <3>2 DEF PaperInv, MirrorsOwnClose
  <2> QED BY <1>1, <1>4, <2>1 DEF MirrorsOwnClose
<1>12. MirrorAgrees'
  <2>1. ASSUME NEW u \in Trades, NEW v \in Services, closers'[u] = {v}, ledger[u].status = "closed"
        PROVE  paper[u] = ledger[u]
    <3>1. closers[u] # {}
      BY <2>1 DEF PaperInv, LedgerFollowsPaper, ClosersKnown
    <3>2. closers[u] = {v}
      BY <1>2, <1>5, <2>1, <3>1
    <3> QED BY <2>1, <3>2 DEF PaperInv, MirrorAgrees
  <2> QED BY <1>1, <2>1 DEF MirrorAgrees
<1> QED BY <1>6, <1>7, <1>8, <1>9, <1>10, <1>11, <1>12 DEF PaperInv

\* A close is written, or its row was closed meanwhile.
LEMMA WriteCloseKeeps ==
    ASSUME PaperInv, NEW s \in Services, WriteClose(s)
    PROVE  PaperInv'
<1> DEFINE t == task[s].next
<1>1. /\ task \in [Services -> TaskType] /\ UNCHANGED <<ledger, closers>>
      /\ task[s].pc = "close" /\ t \in Trades /\ t \in task[s].listed /\ task[s].reason \in Reasons
      /\ s \in closers[t] /\ paper \in [Trades -> Rows]
  BY DEF PaperInv, PaperTypeOK, PaperPlaced, ClosersKnown, WriteClose, TaskType
<1>2. /\ task' \in [Services -> TaskType]
      /\ task'[s].pc = "mirror" /\ task'[s].next = t /\ task'[s].listed = task[s].listed
      /\ task'[s].eod = task[s].eod /\ task'[s].reason = task[s].reason
      /\ \A u \in Services : u # s => task'[u] = task[u]
  BY <1>1 DEF WriteClose, TaskType
<1>3. /\ paper' \in [Trades -> Rows] /\ \A u \in Trades : u # t => paper'[u] = paper[u]
      /\ paper'[t] = Closed(task[s].reason) \/ (paper[t].status = "closed" /\ paper'[t] = paper[t])
  BY <1>1 DEF WriteClose, Rows
<1>4. paper'[t].status = "closed"
  BY <1>3 DEF Closed
<1>5. closers[t] \subseteq {s} => paper[t].status = "open" /\ paper'[t] = Closed(task[s].reason)
  <2>1. closers[t] \subseteq {s} => paper[t].status = "open"
    BY <1>1 DEF PaperInv, AheadIsOpen, Works
  <2> QED BY <1>3, <2>1
<1> HIDE DEF t
<1>6. PaperTypeOK'
  BY <1>1, <1>2, <1>3 DEF PaperInv, PaperTypeOK, TaskType
<1>7. PaperPlaced'
  BY <1>1, <1>2 DEF PaperInv, PaperPlaced
<1>8. \A u \in Trades : paper[u].status = "closed" => paper'[u].status = "closed"
  BY <1>3, <1>4
<1>9. MirrorsAfterClose' /\ LedgerFollowsPaper'
  BY <1>1, <1>2, <1>4, <1>8 DEF PaperInv, MirrorsAfterClose, LedgerFollowsPaper, PaperPlaced
<1>10. EodGoneBy'
  BY <1>1, <1>2, <1>8 DEF PaperInv, EodGoneBy, Works, TaskType, t
<1>11. ClosersKnown'
  BY <1>1, <1>2, <1>3 DEF PaperInv, ClosersKnown, t
<1>12. AheadIsOpen'
  <2>1. ASSUME NEW v \in Services, NEW u \in Trades, Works(v)', u \in task'[v].listed,
               closers[u] \subseteq {v},
               u > task'[v].next \/ (u = task'[v].next /\ task'[v].pc # "mirror")
        PROVE  paper'[u].status = "open"
    <3>1. u # t
      <4>1. CASE v = s
        BY <1>1, <1>2, <2>1, <4>1 DEF TaskType, Trades
      <4>2. CASE v # s
        BY <1>1, <2>1, <4>2
      <4> QED BY <4>1, <4>2
    <3>2. paper[u].status = "open"
      BY <1>1, <1>2, <2>1, <3>1 DEF PaperInv, AheadIsOpen, Works, t
    <3> QED BY <1>3, <3>1, <3>2
  <2> QED BY <1>1, <2>1 DEF AheadIsOpen
<1>13. MirrorsOwnClose'
  <2>1. ASSUME NEW v \in Services, task'[v].pc = "mirror", closers[task'[v].next] = {v}
        PROVE  paper'[task'[v].next] = Closed(task'[v].reason)
    <3>1. CASE v = s
      BY <1>2, <1>5, <2>1, <3>1
    <3>2. CASE v # s
      <4>1. task[v] = task'[v] /\ task[v].next \in Trades /\ task[v].next # t
        BY <1>1, <1>2, <2>1, <3>2 DEF PaperInv, PaperPlaced
      <4> QED BY <1>3, <2>1, <4>1 DEF PaperInv, MirrorsOwnClose
    <3> QED BY <3>1, <3>2
  <2> QED BY <1>1, <2>1 DEF MirrorsOwnClose
<1>14. MirrorAgrees'
  <2>1. ASSUME NEW u \in Trades, NEW v \in Services, closers[u] = {v}, ledger[u].status = "closed"
        PROVE  paper'[u] = ledger[u]
    <3>1. paper[u].status = "closed" /\ paper[u] = ledger[u]
      BY <2>1 DEF PaperInv, LedgerFollowsPaper, MirrorAgrees
    <3>2. u # t
      BY <1>1, <1>5, <2>1, <3>1
    <3> QED BY <1>3, <3>1, <3>2
  <2> QED BY <1>1, <2>1 DEF MirrorAgrees
<1> QED BY <1>6, <1>7, <1>9, <1>10, <1>11, <1>12, <1>13, <1>14 DEF PaperInv

\* What a service does to its task when it goes on after a close or its failure.
LEMMA GoesOn ==
    ASSUME PaperInv, NEW s \in Services, task[s].pc \in {"pass", "mirror"}, task[s].next \in Trades,
           \/ task' = [task EXCEPT ![s].pc = "pass", ![s].next = @ + 1, ![s].reason = "none"]
           \/ task' = [task EXCEPT ![s].next = @ + 1] /\ task[s].pc = "pass"
    PROVE  /\ task' \in [Services -> TaskType] /\ \A u \in Services : u # s => task'[u] = task[u]
           /\ task'[s].pc = "pass" /\ task'[s].next = task[s].next + 1
           /\ task'[s].listed = task[s].listed /\ task'[s].eod = task[s].eod
<1>1. task \in [Services -> TaskType] /\ task[s].next + 1 \in 0..(NTrades + 1)
  BY PaperAssumption DEF PaperInv, PaperTypeOK, TaskType, Trades
<1> QED BY <1>1 DEF TaskType

\* The mirror of a close is written.
LEMMA MirrorCloseKeeps ==
    ASSUME PaperInv, NEW s \in Services, MirrorClose(s)
    PROVE  PaperInv'
<1> DEFINE t == task[s].next
<1>1. /\ task \in [Services -> TaskType] /\ UNCHANGED <<paper, closers>>
      /\ task[s].pc = "mirror" /\ t \in Trades /\ task[s].reason \in Reasons
      /\ s \in closers[t] /\ ledger \in [Trades -> Rows] /\ paper[t].status = "closed"
  BY DEF PaperInv, PaperTypeOK, PaperPlaced, ClosersKnown, MirrorsAfterClose, MirrorClose, TaskType
<1>2. /\ task' \in [Services -> TaskType] /\ \A u \in Services : u # s => task'[u] = task[u]
      /\ task'[s].pc = "pass" /\ task'[s].next = t + 1
      /\ task'[s].listed = task[s].listed /\ task'[s].eod = task[s].eod
  BY <1>1, GoesOn DEF MirrorClose
<1>3. /\ ledger' \in [Trades -> Rows]
      /\ \A u \in Trades : u # t => ledger'[u] = ledger[u]
      /\ ledger'[t] = ledger[t] \/ ledger'[t] = Closed(task[s].reason)
  BY <1>1 DEF MirrorClose, Rows
<1>4. LedgerFollowsPaper'
  BY <1>1, <1>3 DEF PaperInv, LedgerFollowsPaper
<1>5. MirrorAgrees'
  <2>1. ASSUME NEW u \in Trades, NEW v \in Services, closers[u] = {v}, ledger'[u].status = "closed"
        PROVE  paper[u] = ledger'[u]
    <3>1. CASE ledger'[u] = ledger[u]
      BY <2>1, <3>1 DEF PaperInv, MirrorAgrees
    <3>2. CASE ledger'[u] # ledger[u]
      <4>1. u = t /\ v = s /\ ledger'[t] = Closed(task[s].reason)
        BY <1>1, <1>3, <2>1, <3>2
      <4> QED BY <1>1, <2>1, <4>1 DEF PaperInv, MirrorsOwnClose
    <3> QED BY <3>1, <3>2
  <2> QED BY <1>1, <2>1 DEF MirrorAgrees
<1>6. PaperTypeOK'
  BY <1>1, <1>2, <1>3 DEF PaperInv, PaperTypeOK, TaskType
<1>7. PaperPlaced' /\ MirrorsAfterClose' /\ MirrorsOwnClose' /\ ClosersKnown'
  BY <1>1, <1>2 DEF PaperInv, PaperPlaced, MirrorsAfterClose, MirrorsOwnClose, ClosersKnown
<1>8. EodGoneBy'
  <2>1. ASSUME task[s].eod, NEW u \in task[s].listed, u < t + 1 PROVE paper[u].status = "closed"
    <3>1. u < t \/ u = t
      BY <1>1, <2>1 DEF TaskType, Trades
    <3> QED BY <1>1, <2>1, <3>1 DEF PaperInv, EodGoneBy, Works
  <2> QED BY <1>1, <1>2, <2>1 DEF PaperInv, EodGoneBy, Works
<1>9. AheadIsOpen'
  <2>1. \A u \in Trades : u > t + 1 \/ u = t + 1 => u > t
    BY <1>1 DEF Trades
  <2> QED BY <1>1, <1>2, <2>1 DEF PaperInv, AheadIsOpen, Works
<1> QED BY <1>4, <1>5, <1>6, <1>7, <1>8, <1>9 DEF PaperInv

\* Every step keeps the invariant.
LEMMA PaperKept == PaperInv /\ [PaperNext]_paperVars => PaperInv'
<1> SUFFICES ASSUME PaperInv, [PaperNext]_paperVars PROVE PaperInv'
  OBVIOUS
<1>0. task \in [Services -> TaskType] /\ Idle \in TaskType
  BY PaperAssumption DEF PaperInv, PaperTypeOK, TaskType, Idle
<1>1. ASSUME NEW s \in Services, UNCHANGED <<paper, ledger, closers>>, task' = [task EXCEPT ![s] = Idle]
      PROVE  PaperInv'
  <2>1. /\ task' \in [Services -> TaskType] /\ task'[s].pc = "idle"
        /\ \A u \in Services : u # s => task'[u] = task[u]
    BY <1>0, <1>1 DEF Idle
  <2> QED BY <1>1, <2>1, QuietSteps
<1>2. ASSUME NEW s \in Services, NEW eod \in BOOLEAN, StartPass(s, eod) PROVE PaperInv'
  <2> DEFINE open == {t \in Trades : paper[t].status = "open"}
             work == [pc |-> "pass", listed |-> open, next |-> 1, eod |-> eod, reason |-> "none"]
  <2>1. task' = [task EXCEPT ![s] = work] /\ UNCHANGED <<paper, ledger, closers>>
    BY <1>2 DEF StartPass
  <2>2. work \in TaskType
    BY PaperAssumption DEF TaskType
  <2>3. /\ task' \in [Services -> TaskType] /\ task'[s] = work
        /\ \A u \in Services : u # s => task'[u] = task[u]
    BY <1>0, <2>1, <2>2
  <2>4. task'[s].pc = "pass" /\ task'[s].next = 1 /\ \A t \in task'[s].listed : paper[t].status = "open"
    BY <2>3
  <2> QED BY <2>1, <2>3, <2>4, QuietSteps
<1>3. ASSUME NEW s \in Services, NEW holding \in SUBSET Reasons, Consider(s, holding) PROVE PaperInv'
  <2>1. CASE holding = {}
    <3>1. /\ task[s].pc = "pass" /\ task[s].next \in Trades /\ ~task[s].eod
          /\ task' = [task EXCEPT ![s].next = @ + 1] /\ UNCHANGED <<paper, ledger, closers>>
      BY <1>0, <1>3, <2>1 DEF Consider, TaskType
    <3> QED BY <3>1, GoesOn, QuietSteps
  <2> QED BY <1>3, <2>1, SetOutKeeps
<1>4. ASSUME NEW s \in Services, PassOver(s) PROVE PaperInv'
  <2>1. /\ task[s].pc = "pass" /\ task[s].next \in Trades /\ task[s].next \notin task[s].listed
        /\ task' = [task EXCEPT ![s].next = @ + 1] /\ UNCHANGED <<paper, ledger, closers>>
    BY <1>4 DEF PassOver
  <2> QED BY <2>1, GoesOn, QuietSteps
<1>5. ASSUME NEW s \in Services, MirrorFails(s) PROVE PaperInv'
  <2>1. CASE task[s].pc = "queue"
    BY <1>1, <1>5, <2>1 DEF MirrorFails
  <2>2. CASE task[s].pc = "mirror"
    <3>1. /\ task[s].next \in Trades /\ UNCHANGED <<paper, ledger, closers>>
          /\ task' = [task EXCEPT ![s].pc = "pass", ![s].next = @ + 1, ![s].reason = "none"]
      BY <1>5, <2>2 DEF MirrorFails, PaperInv, PaperPlaced
    <3> QED BY <2>2, <3>1, GoesOn, QuietSteps
  <2> QED BY <1>5, <2>1, <2>2 DEF MirrorFails
<1>6. ASSUME NEW s \in Services, EndPass(s) \/ PassFails(s) \/ ServiceCrash(s) PROVE PaperInv'
  BY <1>1, <1>6 DEF EndPass, PassFails, ServiceCrash
<1>7. CASE UNCHANGED paperVars
  BY <1>7 DEF paperVars, PaperInv, PaperTypeOK, PaperPlaced, MirrorsAfterClose, EodGoneBy,
              LedgerFollowsPaper, ClosersKnown, AheadIsOpen, MirrorsOwnClose, MirrorAgrees, Works
<1> QED BY <1>2, <1>3, <1>4, <1>5, <1>6, <1>7,
           QueueKeeps, MirrorOpenKeeps, WriteCloseKeeps, MirrorCloseKeeps DEF PaperNext

\* Rows, mirrors and tasks always have their type (PaperTradeService).
THEOREM PaperTypeCorrect == PaperSpec => []PaperTypeOK
<1>1. PaperInv => PaperTypeOK
  BY DEF PaperInv
<1> QED BY <1>1, PaperInitially, PaperKept, PTL DEF PaperSpec

\* The ledger closes no trade that the paper trades still hold open: the reports built on it
\* never count a result before there is one (_close_trade).
THEOREM LedgerFollows == PaperSpec => []LedgerFollowsPaper
<1>1. PaperInv => LedgerFollowsPaper
  BY DEF PaperInv
<1> QED BY <1>1, PaperInitially, PaperKept, PTL DEF PaperSpec

\* Where one service alone set out to close a trade, its mirror tells the same reason, also
\* when a sibling of the same ticker is open (close by id, B3).
THEOREM MirrorsAgree == PaperSpec => []MirrorAgrees
<1>1. PaperInv => MirrorAgrees
  BY DEF PaperInv
<1> QED BY <1>1, PaperInitially, PaperKept, PTL DEF PaperSpec

\* An end-of-day pass that finds a price and comes to its end without a failure leaves none of
\* the trades it listed open, whatever else is written meanwhile (update_open_trades).
THEOREM EodCloses == PaperSpec => []EodLeavesNoneOpen
<1>1. PaperInv => EodLeavesNoneOpen
  BY PaperAssumption
  DEF PaperInv, EodGoneBy, EodLeavesNoneOpen, Works, PaperTypeOK, Trades
<1> QED BY <1>1, PaperInitially, PaperKept, PTL DEF PaperSpec

\* Paper trades and their ledger agree in these three ways together (PaperTradeService).
THEOREM PaperHolds == PaperSpec => []PaperTradesAgree
<1>1. LedgerFollowsPaper /\ MirrorAgrees /\ EodLeavesNoneOpen => PaperTradesAgree
  BY DEF PaperTradesAgree
<1> QED BY <1>1, LedgerFollows, MirrorsAgree, EodCloses, PTL

----
(* The memberships.  Of every number of handlers, payment requests and     *)
(* plans, of every length of a membership: a request is paid out once, and *)
(* a membership is what its grants add up to. The first rests on the row   *)
(* that the first write of a transaction locks, the second on an expiry    *)
(* that nobody wrote since it was read.                                    *)

Decides(h) == handler[h].pc \in {"decided", "write"} /\ handler[h].payment # 0

\* A request that is being decided is pending, and one transaction decides it.
DecidedIsPending ==
    \A h \in Handlers : Decides(h) =>
        handler[h].payment \in Payments /\ payment[handler[h].payment].status = "pending"
OneDecides ==
    \A g, h \in Handlers :
        (Decides(g) /\ Decides(h) /\ handler[g].payment = handler[h].payment) => g = h

PaidInv == SubscriptionTypeOK /\ DecidedIsPending /\ OneDecides /\ PaidOutOnce

\* An expiry that was read and has not changed since is the one that stands.
FreshIsCurrent ==
    \A h \in Handlers :
        (handler[h].pc = "write" /\ handler[h].stale = FALSE) => handler[h].seen = expires

AddUpInv == SubscriptionTypeOK /\ FreshIsCurrent /\ ExtensionsAddUp

----
HandlerType ==
    [pc : {"idle", "insert", "decided", "write"}, payment : 0..NPayments, plan : Plans \cup {"none"},
     approve : BOOLEAN, at : 0..LastDay, days : Nat, seen : Nat, stale : BOOLEAN]
PaymentType == [status : {"none", "pending", "approved", "rejected"}, plan : Plans \cup {"none"}]

\* The assumptions, one by one.
LEMMA SubscriptionConstants ==
    /\ NPayments \in Nat /\ SubscriptionDays \in Nat /\ TrialDays \in Nat /\ LastDay \in Nat
    /\ LastExpiry \in Nat /\ GrantDays \subseteq Nat
BY SubscriptionAssumption

\* An extension of a number of days is a number of days.
LEMMA ExtendedIsNat ==
    ASSUME NEW expiry \in Nat, NEW h, handler[h] \in HandlerType
    PROVE  Extended(expiry, h) \in Nat
BY SubscriptionConstants DEF Extended, HandlerType

\* The initial state has its type.
LEMMA SubscriptionInitTypes == SubscriptionInit => SubscriptionTypeOK
<1> SUFFICES ASSUME SubscriptionInit PROVE SubscriptionTypeOK
  OBVIOUS
<1>1. NoWork \in HandlerType /\ NoPayment \in PaymentType
  BY SubscriptionConstants DEF NoWork, NoPayment, HandlerType, PaymentType
<1>2. /\ handler \in [Handlers -> HandlerType] /\ payment \in [Payments -> PaymentType]
      /\ granted \in [Payments -> Nat] /\ lost \in BOOLEAN
  BY <1>1 DEF SubscriptionInit
<1>3. today \in 0..LastDay /\ expires \in Nat /\ due \in Nat
  BY SubscriptionConstants DEF SubscriptionInit
<1> QED BY <1>2, <1>3 DEF SubscriptionTypeOK, HandlerType, PaymentType

\* Every step keeps the type.
LEMMA SubscriptionNextTypes == SubscriptionTypeOK /\ [SubscriptionNext]_subVars => SubscriptionTypeOK'
<1> SUFFICES ASSUME SubscriptionTypeOK, [SubscriptionNext]_subVars PROVE SubscriptionTypeOK'
  OBVIOUS
<1>0. /\ handler \in [Handlers -> HandlerType] /\ payment \in [Payments -> PaymentType]
      /\ granted \in [Payments -> Nat] /\ expires \in Nat /\ due \in Nat /\ today \in 0..LastDay
  BY DEF SubscriptionTypeOK, HandlerType, PaymentType
<1>1. NoWork \in HandlerType
  BY SubscriptionConstants DEF NoWork, HandlerType
<1>2. ASSUME NEW h \in Handlers, NEW work \in HandlerType, Starts(h, work),
             payment' \in [Payments -> PaymentType],
             UNCHANGED <<today, expires, due, granted, lost>>
      PROVE  SubscriptionTypeOK'
  <2>1. handler' \in [Handlers -> HandlerType]
    BY <1>0, <1>2 DEF Starts
  <2> QED BY <1>2, <2>1 DEF SubscriptionTypeOK, HandlerType, PaymentType
<1>3. ASSUME NEW h \in Handlers, Ends(h), payment' \in [Payments -> PaymentType],
             UNCHANGED <<today, expires, due, granted, lost>>
      PROVE  SubscriptionTypeOK'
  BY <1>1, <1>2, <1>3 DEF Starts, Ends
<1>4. ASSUME NEW h \in Handlers, NEW plan \in Plans, ClaimLooks(h, plan) PROVE SubscriptionTypeOK'
  <2>1. [NoWork EXCEPT !.pc = "insert", !.plan = plan] \in HandlerType
    BY <1>1 DEF HandlerType
  <2> QED BY <1>0, <1>2, <1>4, <2>1 DEF ClaimLooks
<1>5. ASSUME NEW h \in Handlers, ClaimInserts(h) PROVE SubscriptionTypeOK'
  <2>1. handler[h].plan \in Plans \cup {"none"}
    BY <1>0 DEF HandlerType
  <2>2. [status |-> "pending", plan |-> handler[h].plan] \in PaymentType
    BY <2>1 DEF PaymentType
  <2>3. payment' \in [Payments -> PaymentType]
    BY <1>0, <1>5, <2>2 DEF ClaimInserts
  <2> QED BY <1>3, <1>5, <2>3 DEF ClaimInserts
<1>6. ASSUME NEW h \in Handlers, NEW r \in Payments, NEW approve \in BOOLEAN, Decide(h, r, approve)
      PROVE  SubscriptionTypeOK'
  <2>1. r \in 0..NPayments
    BY SubscriptionConstants DEF Payments
  <2>2. [NoWork EXCEPT !.pc = "decided", !.payment = r, !.approve = approve,
                       !.at = today, !.days = SubscriptionDays] \in HandlerType
    BY <1>0, <1>1, <2>1, SubscriptionConstants DEF HandlerType
  <2> QED BY <1>0, <1>2, <1>6, <2>2 DEF Decide
<1>7. ASSUME NEW h \in Handlers, Reject(h) PROVE SubscriptionTypeOK'
  <2>1. payment' \in [Payments -> PaymentType]
    BY <1>0, <1>7 DEF Reject, PaymentType
  <2> QED BY <1>3, <1>7, <2>1 DEF Reject
<1>8. ASSUME NEW h \in Handlers, ReadsExpiry(h) PROVE SubscriptionTypeOK'
  <2>1. [handler[h] EXCEPT !.pc = "write", !.seen = expires] \in HandlerType
    BY <1>0 DEF HandlerType
  <2> QED BY <1>0, <1>2, <1>8, <2>1 DEF ReadsExpiry
<1>9. ASSUME NEW h \in Handlers, NEW days \in GrantDays, SetPlanReads(h, days) PROVE SubscriptionTypeOK'
  <2>1. [NoWork EXCEPT !.pc = "write", !.at = today, !.days = days, !.seen = expires] \in HandlerType
    BY <1>0, <1>1, SubscriptionConstants DEF HandlerType
  <2> QED BY <1>0, <1>2, <1>9, <2>1 DEF SetPlanReads
<1>10. ASSUME NEW h \in Handlers, WritesExpiry(h) PROVE SubscriptionTypeOK'
  <2>1. handler[h] \in HandlerType /\ handler[h].seen \in Nat
    BY <1>0 DEF HandlerType
  <2>2. expires' \in Nat
    BY <1>10, <2>1, ExtendedIsNat DEF WritesExpiry
  <2>3. due' \in Nat
    <3>1. handler[h].at \in Nat /\ handler[h].days \in Nat
      BY <2>1, SubscriptionConstants DEF HandlerType
    <3> QED BY <1>0, <1>10, <3>1 DEF WritesExpiry
  <2>4. payment' \in [Payments -> PaymentType] /\ granted' \in [Payments -> Nat]
    <3>1. CASE handler[h].payment = 0
      BY <1>0, <1>10, <3>1 DEF WritesExpiry
    <3>2. CASE handler[h].payment # 0
      <4>1. payment' = [payment EXCEPT ![handler[h].payment].status = "approved"]
               /\ granted' = [granted EXCEPT ![handler[h].payment] = @ + 1]
        BY <1>10, <3>2 DEF WritesExpiry
      <4>2. handler[h].payment \in Payments
        BY <2>1, <3>2, SubscriptionConstants DEF HandlerType, Payments
      <4>3. granted[handler[h].payment] + 1 \in Nat
        BY <1>0, <4>2
      <4>4. granted' \in [Payments -> Nat]
        BY <1>0, <4>1, <4>2, <4>3
      <4> QED BY <1>0, <4>1, <4>2, <4>4 DEF PaymentType
    <3> QED BY <3>1, <3>2
  <2>5. handler' \in [Handlers -> HandlerType]
    <3>1. \A g \in Handlers : [handler[g] EXCEPT !.stale = TRUE] \in HandlerType
      BY <1>0 DEF HandlerType
    <3> QED BY <1>0, <1>1, <1>10, <3>1 DEF WritesExpiry
  <2>6. today' = today /\ lost' \in BOOLEAN
    <3>1. handler[h].stale \in BOOLEAN
      BY <2>1 DEF HandlerType
    <3> QED BY <1>10, <3>1 DEF WritesExpiry
  <2> QED BY <1>0, <2>2, <2>3, <2>4, <2>5, <2>6 DEF SubscriptionTypeOK, HandlerType, PaymentType
<1>11. ASSUME NEW h \in Handlers, RollsBack(h) PROVE SubscriptionTypeOK'
  BY <1>0, <1>3, <1>11 DEF RollsBack
<1>12. CASE DayPasses
  BY <1>12, SubscriptionConstants DEF DayPasses, SubscriptionTypeOK
<1>13. CASE UNCHANGED subVars
  BY <1>13 DEF subVars, SubscriptionTypeOK
<1> QED BY <1>4, <1>5, <1>6, <1>7, <1>8, <1>9, <1>10, <1>11, <1>12, <1>13 DEF SubscriptionNext

\* Payment requests, the expiry and the transactions under way always have their type
\* (dashboard.py, the billing handlers).
THEOREM SubscriptionTypeCorrect == SubscriptionSpec => []SubscriptionTypeOK
BY SubscriptionInitTypes, SubscriptionNextTypes, PTL DEF SubscriptionSpec

----
\* A handler that decides nothing new, while no request changes.
LEMMA PaidFrame ==
    ASSUME PaidInv, SubscriptionTypeOK', UNCHANGED <<payment, granted>>,
           \A g \in Handlers : Decides(g)' => Decides(g) /\ handler'[g].payment = handler[g].payment
    PROVE  PaidInv'
BY DEF PaidInv, DecidedIsPending, OneDecides, PaidOutOnce

\* A decision that is committed, as an approval that is paid out or as a rejection.
LEMMA PaidCommit ==
    ASSUME PaidInv, SubscriptionTypeOK', NEW h \in Handlers, Decides(h), ~(Decides(h))',
           \A g \in Handlers \ {h} : Decides(g)' => Decides(g) /\ handler'[g].payment = handler[g].payment,
           \/ /\ payment' = [payment EXCEPT ![handler[h].payment].status = "approved"]
              /\ granted' = [granted EXCEPT ![handler[h].payment] = @ + 1]
           \/ /\ payment' = [payment EXCEPT ![handler[h].payment].status = "rejected"]
              /\ granted' = granted
    PROVE  PaidInv'
<1> DEFINE r == handler[h].payment
<1>1. r \in Payments /\ payment[r].status = "pending" /\ granted[r] = 0
  BY DEF PaidInv, DecidedIsPending, PaidOutOnce
<1>2. payment \in [Payments -> PaymentType] /\ granted \in [Payments -> Nat]
  BY DEF PaidInv, SubscriptionTypeOK, PaymentType
<1>3. /\ \A q \in Payments : q # r => payment'[q] = payment[q] /\ granted'[q] = granted[q]
      /\ \/ payment'[r].status = "approved" /\ granted'[r] = 1
         \/ payment'[r].status = "rejected" /\ granted'[r] = 0
  BY <1>1, <1>2 DEF PaymentType
<1>4. \A g \in Handlers : Decides(g)' => g # h /\ handler'[g].payment # r
  BY DEF PaidInv, OneDecides
<1> HIDE DEF r
<1>5. DecidedIsPending' /\ OneDecides'
  BY <1>3, <1>4 DEF PaidInv, DecidedIsPending, OneDecides
<1>6. PaidOutOnce'
  BY <1>1, <1>3 DEF PaidInv, PaidOutOnce
<1> QED BY <1>5, <1>6 DEF PaidInv

\* Every step keeps the invariant of the payments.
LEMMA PaidKept == PaidInv /\ [SubscriptionNext]_subVars => PaidInv'
<1> SUFFICES ASSUME PaidInv, [SubscriptionNext]_subVars PROVE PaidInv'
  OBVIOUS
<1>0. /\ SubscriptionTypeOK /\ SubscriptionTypeOK'
      /\ handler \in [Handlers -> HandlerType] /\ payment \in [Payments -> PaymentType]
  BY SubscriptionNextTypes DEF PaidInv, SubscriptionTypeOK, HandlerType, PaymentType
<1>1. ASSUME NEW h \in Handlers, NEW work, Starts(h, work), UNCHANGED <<payment, granted>>,
             work.pc \in {"idle", "insert"} \/ work.payment = 0
                \/ (Decides(h) /\ work.payment = handler[h].payment)
      PROVE  PaidInv'
  <2>1. \A g \in Handlers : handler'[g] = IF g = h THEN work ELSE handler[g]
    BY <1>0, <1>1 DEF Starts
  <2>2. \A g \in Handlers : Decides(g)' => Decides(g) /\ handler'[g].payment = handler[g].payment
    BY <1>1, <2>1 DEF Decides
  <2> QED BY <1>0, <1>1, <2>2, PaidFrame
<1>2. ASSUME NEW h \in Handlers, NEW plan \in Plans, ClaimLooks(h, plan) PROVE PaidInv'
  BY <1>1, <1>2 DEF ClaimLooks, NoWork
<1>3. ASSUME NEW h \in Handlers, ClaimInserts(h) PROVE PaidInv'
  <2>1. PICK r \in Payments :
           /\ payment[r].status = "none"
           /\ payment' = [payment EXCEPT ![r] = [status |-> "pending", plan |-> handler[h].plan]]
    BY <1>3 DEF ClaimInserts
  <2>2. /\ \A g \in Handlers : g # h => handler'[g] = handler[g]
        /\ handler'[h].pc = "idle" /\ granted' = granted
    BY <1>0, <1>3 DEF ClaimInserts, Ends, NoWork
  <2>3. /\ payment'[r].status = "pending" /\ granted[r] = 0
        /\ \A q \in Payments : q # r => payment'[q] = payment[q]
    BY <1>0, <2>1 DEF PaidInv, PaidOutOnce
  <2>4. DecidedIsPending' /\ OneDecides' /\ PaidOutOnce'
    BY <2>2, <2>3 DEF PaidInv, DecidedIsPending, OneDecides, PaidOutOnce, Decides
  <2> QED BY <1>0, <2>4 DEF PaidInv
<1>4. ASSUME NEW h \in Handlers, NEW r \in Payments, NEW approve \in BOOLEAN, Decide(h, r, approve)
      PROVE  PaidInv'
  <2>1. /\ handler'[h].pc = "decided" /\ handler'[h].payment = r /\ payment[r].status = "pending"
        /\ \A g \in Handlers : g # h => handler'[g] = handler[g]
        /\ UNCHANGED <<payment, granted>>
        /\ \A g \in Handlers : g # h => ~(Decides(g) /\ handler[g].payment = r)
    BY <1>0, <1>4 DEF Decide, Starts, NoWork, Decides
  <2>2. DecidedIsPending' /\ OneDecides'
    BY <2>1 DEF PaidInv, DecidedIsPending, OneDecides, Decides
  <2>3. PaidOutOnce'
    BY <2>1 DEF PaidInv, PaidOutOnce
  <2> QED BY <1>0, <2>2, <2>3 DEF PaidInv
<1>5. ASSUME NEW h \in Handlers, Reject(h) PROVE PaidInv'
  <2>1. /\ handler'[h].pc = "idle" /\ \A g \in Handlers \ {h} : handler'[g] = handler[g]
        /\ granted' = granted
        /\ payment' = [payment EXCEPT ![handler[h].payment].status = "rejected"]
    BY <1>0, <1>5 DEF Reject, Ends, NoWork
  <2>2. CASE Decides(h)
    BY <1>0, <2>1, <2>2, PaidCommit DEF Decides
  <2>3. CASE handler[h].payment = 0
    <3>1. payment' = payment
      BY <1>0, <2>1, <2>3, SubscriptionConstants DEF Payments
    <3>2. \A g \in Handlers : Decides(g)' => Decides(g) /\ handler'[g].payment = handler[g].payment
      BY <2>1 DEF Decides
    <3> QED BY <1>0, <2>1, <3>1, <3>2, PaidFrame
  <2> QED BY <1>5, <2>2, <2>3 DEF Reject, Decides
<1>6. ASSUME NEW h \in Handlers, ReadsExpiry(h) PROVE PaidInv'
  <2> DEFINE work == [handler[h] EXCEPT !.pc = "write", !.seen = expires]
  <2>1. work.payment = handler[h].payment
    BY <1>0 DEF HandlerType
  <2>2. Starts(h, work) /\ UNCHANGED <<payment, granted>> /\ handler[h].pc = "decided"
    BY <1>6 DEF ReadsExpiry
  <2>3. work.payment = 0 \/ Decides(h)
    BY <2>1, <2>2 DEF Decides
  <2> HIDE DEF work
  <2> QED BY <1>1, <2>1, <2>2, <2>3
<1>7. ASSUME NEW h \in Handlers, NEW days \in GrantDays, SetPlanReads(h, days) PROVE PaidInv'
  BY <1>1, <1>7 DEF SetPlanReads, NoWork
<1>8. ASSUME NEW h \in Handlers, WritesExpiry(h) PROVE PaidInv'
  <2>1. /\ handler[h].pc = "write" /\ handler'[h].pc = "idle"
        /\ \A g \in Handlers \ {h} : handler'[g].pc = handler[g].pc /\ handler'[g].payment = handler[g].payment
    BY <1>0, <1>8 DEF WritesExpiry, NoWork, HandlerType
  <2>2. \A g \in Handlers : Decides(g)' => Decides(g) /\ handler'[g].payment = handler[g].payment
    BY <2>1 DEF Decides
  <2>3. CASE handler[h].payment = 0
    <3>1. UNCHANGED <<payment, granted>>
      BY <1>8, <2>3 DEF WritesExpiry
    <3> QED BY <1>0, <2>2, <3>1, PaidFrame
  <2>4. CASE handler[h].payment # 0
    <3>1. /\ payment' = [payment EXCEPT ![handler[h].payment].status = "approved"]
          /\ granted' = [granted EXCEPT ![handler[h].payment] = @ + 1]
      BY <1>8, <2>4 DEF WritesExpiry
    <3>2. Decides(h) /\ ~(Decides(h))'
      BY <2>1, <2>4 DEF Decides
    <3> QED BY <1>0, <2>2, <3>1, <3>2, PaidCommit
  <2> QED BY <2>3, <2>4
<1>9. ASSUME NEW h \in Handlers, RollsBack(h) PROVE PaidInv'
  BY <1>1, <1>9 DEF RollsBack, Ends, Starts, NoWork
<1>10. CASE DayPasses \/ UNCHANGED subVars
  <2>1. UNCHANGED <<payment, granted, handler>>
    BY <1>10 DEF DayPasses, subVars
  <2> QED BY <1>0, <2>1, PaidFrame DEF Decides
<1> QED BY <1>2, <1>3, <1>4, <1>5, <1>6, <1>7, <1>8, <1>9, <1>10 DEF SubscriptionNext

\* A request is paid out once if it is approved and never otherwise, however many admins decide
\* it at the same time and whatever is rolled back (_decide_request: "single success wins").
THEOREM PaysOutOnce == SubscriptionSpec => []PaidOutOnce
<1>1. SubscriptionInit => PaidInv
  BY SubscriptionInitTypes
  DEF SubscriptionInit, PaidInv, DecidedIsPending, OneDecides, PaidOutOnce, Decides, NoWork, NoPayment
<1>2. PaidInv => PaidOutOnce
  BY DEF PaidInv
<1> QED BY <1>1, <1>2, PaidKept, PTL DEF SubscriptionSpec

----
\* Every step keeps the invariant of the expiry.
LEMMA AddUpKept == AddUpInv /\ [SubscriptionNext]_subVars => AddUpInv'
<1> SUFFICES ASSUME AddUpInv, [SubscriptionNext]_subVars PROVE AddUpInv'
  OBVIOUS
<1>0. /\ SubscriptionTypeOK /\ SubscriptionTypeOK' /\ handler \in [Handlers -> HandlerType]
  BY SubscriptionNextTypes DEF AddUpInv, SubscriptionTypeOK, HandlerType
<1>1. ASSUME NEW h \in Handlers, NEW work, Starts(h, work), UNCHANGED <<expires, due, lost>>,
             work.pc # "write" \/ work.seen = expires
      PROVE  AddUpInv'
  <2>1. \A g \in Handlers : handler'[g] = IF g = h THEN work ELSE handler[g]
    BY <1>0, <1>1 DEF Starts
  <2> QED BY <1>0, <1>1, <2>1 DEF AddUpInv, FreshIsCurrent, ExtensionsAddUp
<1>2. ASSUME NEW h \in Handlers,
             \/ ClaimInserts(h) \/ Reject(h) \/ RollsBack(h)
             \/ \E plan \in Plans : ClaimLooks(h, plan)
             \/ \E r \in Payments, approve \in BOOLEAN : Decide(h, r, approve)
      PROVE  AddUpInv'
  BY <1>1, <1>2 DEF ClaimInserts, Reject, RollsBack, ClaimLooks, Decide, Ends, Starts, NoWork
<1>3. ASSUME NEW h \in Handlers, ReadsExpiry(h) PROVE AddUpInv'
  <2>1. [handler[h] EXCEPT !.pc = "write", !.seen = expires].seen = expires
    BY <1>0 DEF HandlerType
  <2> QED BY <1>1, <1>3, <2>1 DEF ReadsExpiry
<1>4. ASSUME NEW h \in Handlers, NEW days \in GrantDays, SetPlanReads(h, days) PROVE AddUpInv'
  BY <1>1, <1>4 DEF SetPlanReads, NoWork
<1>5. ASSUME NEW h \in Handlers, WritesExpiry(h) PROVE AddUpInv'
  <2>1. \A g \in Handlers : handler'[g].pc = "write" => handler'[g].stale = TRUE
    BY <1>0, <1>5 DEF WritesExpiry, NoWork, HandlerType
  <2>2. FreshIsCurrent'
    BY <2>1 DEF FreshIsCurrent
  <2>3. lost' \/ (~lost /\ handler[h].stale = FALSE)
    BY <1>0, <1>5 DEF WritesExpiry, HandlerType
  <2>4. ExtensionsAddUp'
    BY <1>5, <2>3 DEF WritesExpiry, AddUpInv, FreshIsCurrent, ExtensionsAddUp, Extended
  <2> QED BY <1>0, <2>2, <2>4 DEF AddUpInv
<1>6. CASE DayPasses \/ UNCHANGED subVars
  BY <1>0, <1>6 DEF DayPasses, subVars, AddUpInv, FreshIsCurrent, ExtensionsAddUp
<1> QED BY <1>2, <1>3, <1>4, <1>5, <1>6 DEF SubscriptionNext

\* A membership is exactly what its approvals and grants add up to, in the order in which they
\* are committed, unless two transactions of the user overlapped between reading and writing
\* (_decide_request, api_admin_set_plan).
THEOREM GrantsAddUp == SubscriptionSpec => []ExtensionsAddUp
<1>1. SubscriptionInit => AddUpInv
  BY SubscriptionInitTypes DEF SubscriptionInit, AddUpInv, FreshIsCurrent, ExtensionsAddUp, NoWork
<1>2. AddUpInv => ExtensionsAddUp
  BY DEF AddUpInv
<1> QED BY <1>1, <1>2, AddUpKept, PTL DEF SubscriptionSpec

\* Requests are paid out once and memberships are what was paid and granted, for any number of
\* admins, users' requests and rollbacks (_decide_request, api_admin_set_plan).
THEOREM MembershipsHold == SubscriptionSpec => []MembershipsAddUp
<1>1. PaidOutOnce /\ ExtensionsAddUp => MembershipsAddUp
  BY DEF MembershipsAddUp
<1> QED BY <1>1, PaysOutOnce, GrantsAddUp, PTL

----
(* The virtual trades.  Of every number of services and positions: the end *)
(* of a position is reported once and its row is closed with its own       *)
(* result, as long as services do not overlap. A position that is on file, *)
(* or that the one pass at work holds or is about to report, has no report *)
(* yet, and its row is the newest that is open: what passes that broke off *)
(* have left behind is older.                                              *)

AtWork(p) == pass[p].pc # "idle"

\* What a pass carries by what it does.
PassShape ==
    \A p \in Passers :
        /\ pass[p].pc \in {"idle", "enter"} => pass[p].holds = 0 /\ pass[p].closing = 0
        /\ pass[p].closing # 0 => pass[p].holds = 0
        /\ pass[p].pc \in {"append", "mirror"} => pass[p].closing # 0

\* One pass is at work, and beside what it opens or has taken off there is no position.
OneAtWork ==
    overlapped \/
      /\ \A p, q \in Passers : (AtWork(p) /\ AtWork(q)) => p = q
      /\ \A p \in Passers : pass[p].pc \in {"enter", "append", "mirror"} => onFile = 0

\* A position that is not yet reported has no report.
Unreported ==
    overlapped \/
      /\ onFile # 0 => reports[onFile].times = 0
      /\ \A p \in Passers :
            /\ pass[p].holds # 0 => reports[pass[p].holds].times = 0
            /\ (pass[p].closing # 0 /\ pass[p].pc \in {"write", "append"})
                  => reports[pass[p].closing].times = 0

IsNewest(e) == mirror[e] = "open" /\ \A o \in Entries : mirror[o] = "open" => o <= e

\* The row of a position that is kept, opened or closed is the newest open one.
RowIsNewest ==
    overlapped \/ unmirrored \/
      /\ onFile # 0 => IsNewest(onFile)
      /\ \A p \in Passers :
            /\ pass[p].holds # 0 => IsNewest(pass[p].holds)
            /\ pass[p].closing # 0 => IsNewest(pass[p].closing)

VirtualInv ==
    /\ VirtualTypeOK /\ PassShape /\ OneAtWork /\ Unreported /\ RowIsNewest
    /\ ReportedOnce /\ MirrorIsOwn

----
PassType == [pc : {"idle", "enter", "write", "append", "mirror"},
             holds : 0..NEntries, closing : 0..NEntries, hit : Hits \cup {"none"}]
ReportType == [times : 0..MaxReports, stopped : BOOLEAN]

\* The assumptions, one by one.
LEMMA VirtualConstants == NEntries \in Nat /\ MaxReports \in Nat
BY VirtualAssumption

\* What an invariant state is made of.
LEMMA VirtualTypes ==
    ASSUME VirtualTypeOK
    PROVE  /\ pass \in [Passers -> PassType] /\ reports \in [Entries -> ReportType]
           /\ mirror \in [Entries -> {"none", "open", "closed"}]
           /\ closedFor \in [Entries -> 0..NEntries]
           /\ onFile \in 0..NEntries /\ book \in Books
           /\ overlapped \in BOOLEAN /\ unmirrored \in BOOLEAN
BY DEF VirtualTypeOK, PassType, ReportType

\* The number of a new position is larger than every number in use.
LEMMA NextIsFresh ==
    ASSUME VirtualTypeOK
    PROVE  NextEntry \notin Used /\ \A u \in Used : u < NextEntry
<1>1. Used \subseteq 0..NEntries
  BY VirtualTypes DEF Used, Entries, PassType
<1>2. NEntries + 1 \in 1..(NEntries + 1)
  BY VirtualConstants
<1>3. NEntries + 1 \notin Used /\ \A u \in Used : u < NEntries + 1
  BY <1>1, VirtualConstants
<1> QED BY <1>2, <1>3 DEF NextEntry

\* Initially there is no position, and no pass is at work.
LEMMA VirtualInitially == VirtualInit => VirtualInv
<1> SUFFICES ASSUME VirtualInit PROVE VirtualInv
  OBVIOUS
<1>1. NoPass \in PassType
  BY VirtualConstants DEF NoPass, PassType
<1>2. VirtualTypeOK
  <2>1. pass \in [Passers -> PassType] /\ reports \in [Entries -> ReportType]
    BY <1>1, VirtualConstants DEF VirtualInit, ReportType
  <2>2. 0 \in 0..NEntries
    BY VirtualConstants
  <2> QED BY <2>1, <2>2 DEF VirtualInit, VirtualTypeOK, PassType, ReportType
<1>3. onFile = 0 /\ \A p \in Passers : pass[p] = NoPass
  BY DEF VirtualInit
<1>4. \A p \in Passers : pass[p].pc = "idle" /\ pass[p].holds = 0 /\ pass[p].closing = 0
  BY <1>3 DEF NoPass
<1>5. ReportedOnce /\ MirrorIsOwn
  BY DEF VirtualInit, ReportedOnce, MirrorIsOwn
<1> QED BY <1>2, <1>3, <1>4, <1>5
        DEF VirtualInv, PassShape, OneAtWork, Unreported, RowIsNewest, AtWork

\* A pass begins.
LEMMA BeginKeeps ==
    ASSUME VirtualInv, NEW p \in Passers, NEW doing \in PassType, Begin(p, doing),
           \/ doing.pc = "write" /\ doing.holds = onFile /\ doing.closing = 0
           \/ doing.pc = "write" /\ doing.holds = 0 /\ doing.closing = onFile
           \/ doing.pc = "enter" /\ doing.holds = 0 /\ doing.closing = 0 /\ onFile = 0
    PROVE  VirtualInv'
<1>1. VirtualTypeOK
  BY DEF VirtualInv
<1>2. /\ pass' \in [Passers -> PassType] /\ pass'[p] = doing
      /\ \A q \in Passers : q # p => pass'[q] = pass[q]
  BY <1>1, VirtualTypes DEF Begin
<1>3. /\ UNCHANGED <<book, onFile, reports, mirror, closedFor, unmirrored>>
      /\ overlapped' = (overlapped \/ \E q \in Passers : AtWork(q))
  BY DEF Begin, AtWork
<1>4. VirtualTypeOK'
  BY <1>1, <1>2, <1>3, VirtualTypes DEF VirtualTypeOK, PassType
<1>5. PassShape'
  BY <1>2 DEF VirtualInv, PassShape
<1>6. overlapped' \/ (~overlapped /\ \A q \in Passers : ~AtWork(q))
  BY <1>1, <1>3, VirtualTypes
<1>7. OneAtWork'
  BY <1>2, <1>3, <1>6 DEF VirtualInv, OneAtWork, AtWork
<1>8. Unreported'
  BY <1>2, <1>3, <1>6 DEF VirtualInv, Unreported
<1>9. RowIsNewest'
  BY <1>2, <1>3, <1>6 DEF VirtualInv, RowIsNewest, IsNewest
<1>10. ReportedOnce' /\ MirrorIsOwn'
  BY <1>3, <1>6 DEF VirtualInv, ReportedOnce, MirrorIsOwn
<1> QED BY <1>4, <1>5, <1>7, <1>8, <1>9, <1>10 DEF VirtualInv

\* A position is opened under a number that was never used.
LEMMA OpensKeeps ==
    ASSUME VirtualInv, NEW p \in Passers, NEW mirrored \in BOOLEAN, Opens(p, mirrored)
    PROVE  VirtualInv'
<1> DEFINE n == NextEntry
<1>1. VirtualTypeOK /\ n \in Entries /\ n \in 0..NEntries /\ n # 0
  BY VirtualConstants DEF VirtualInv, Opens, Entries
<1>2. /\ pass[p].pc = "enter" /\ pass[p].holds = 0 /\ pass[p].closing = 0
      /\ overlapped \/ (onFile = 0 /\ \A q \in Passers : q # p => ~AtWork(q))
  BY DEF VirtualInv, Opens, PassShape, OneAtWork, AtWork
<1>3. /\ pass' \in [Passers -> PassType] /\ pass'[p].pc = "write"
      /\ pass'[p].holds = n /\ pass'[p].closing = 0
      /\ \A q \in Passers : q # p => pass'[q] = pass[q]
  BY <1>1, <1>2, VirtualTypes DEF Opens, PassType
<1>4. /\ UNCHANGED <<book, onFile, reports, closedFor, overlapped>>
      /\ unmirrored' \in BOOLEAN
      /\ unmirrored' \/ (~unmirrored /\ mirrored = TRUE)
      /\ mirror' \in [Entries -> {"none", "open", "closed"}]
  BY <1>1, VirtualTypes DEF Opens
<1>5. reports[n].times = 0 /\ \A o \in Entries : mirror[o] = "open" => o <= n
  <2>1. n \notin Used /\ \A u \in Used : u < n
    BY <1>1, NextIsFresh
  <2>2. reports[n].times \in Nat /\ ~(reports[n].times > 0)
    BY <1>1, <2>1, VirtualTypes, VirtualConstants DEF Used, ReportType
  <2>3. \A o \in Entries : mirror[o] = "open" => o < n
    BY <2>1 DEF Used
  <2> QED BY <1>1, <2>2, <2>3 DEF Entries
<1>6. mirrored = TRUE => /\ mirror'[n] = "open"
                         /\ \A o \in Entries : mirror'[o] = "open" => o <= n
  BY <1>1, <1>5, VirtualTypes DEF Opens, Entries
<1> HIDE DEF n
<1>7. VirtualTypeOK'
  <2>1. overlapped \in BOOLEAN /\ overlapped' = overlapped
    BY <1>1, <1>4, VirtualTypes
  <2>2. {overlapped', unmirrored'} \subseteq BOOLEAN
    BY <1>4, <2>1
  <2> QED BY <1>1, <1>3, <1>4, <2>2 DEF VirtualTypeOK, PassType
<1>8. PassShape'
  BY <1>3 DEF VirtualInv, PassShape
<1>9. OneAtWork'
  BY <1>2, <1>3, <1>4 DEF VirtualInv, OneAtWork, AtWork
<1>10. Unreported'
  BY <1>2, <1>3, <1>4, <1>5 DEF VirtualInv, Unreported
<1>11. RowIsNewest'
  <2>1. overlapped \/ \A q \in Passers : q # p => pass[q].holds = 0 /\ pass[q].closing = 0
    BY <1>2 DEF VirtualInv, PassShape, AtWork
  <2> QED BY <1>2, <1>3, <1>4, <1>6, <2>1 DEF RowIsNewest, IsNewest
<1>12. ReportedOnce' /\ MirrorIsOwn'
  BY <1>4 DEF VirtualInv, ReportedOnce, MirrorIsOwn
<1> QED BY <1>7, <1>8, <1>9, <1>10, <1>11, <1>12 DEF VirtualInv

\* The file is written; a pass that closes nothing ends here.
LEMMA WritesKeeps ==
    ASSUME VirtualInv, NEW p \in Passers, Writes(p)
    PROVE  VirtualInv'
<1>1. /\ VirtualTypeOK /\ pass[p] \in PassType /\ pass[p].pc = "write" /\ onFile' = pass[p].holds
      /\ UNCHANGED <<book, reports, mirror, closedFor, overlapped, unmirrored>>
  BY VirtualTypes DEF VirtualInv, Writes
<1>2. NoPass \in PassType /\ NoPass.pc = "idle" /\ NoPass.holds = 0 /\ NoPass.closing = 0
  BY VirtualConstants DEF NoPass, PassType
<1>3. /\ pass' \in [Passers -> PassType]
      /\ \A q \in Passers : q # p => pass'[q] = pass[q]
      /\ \/ pass[p].closing = 0 /\ pass'[p] = NoPass
         \/ /\ pass[p].closing # 0 /\ pass'[p].pc = "append" /\ pass'[p].closing = pass[p].closing
            /\ pass'[p].holds = pass[p].holds
  BY <1>1, <1>2, VirtualTypes DEF Writes, PassType
<1>4. VirtualTypeOK'
  BY <1>1, <1>3, VirtualTypes DEF VirtualTypeOK, PassType
<1>5. PassShape'
  BY <1>2, <1>3 DEF VirtualInv, PassShape
<1>6. OneAtWork'
  <2>1. overlapped \/ \A q \in Passers : q # p => pass[q].pc = "idle"
    BY <1>1 DEF VirtualInv, OneAtWork, AtWork
  <2>2. pass'[p].pc = "append" => onFile' = 0
    BY <1>1, <1>2, <1>3 DEF VirtualInv, PassShape
  <2>3. pass'[p].pc \in {"idle", "append"}
    BY <1>2, <1>3
  <2> QED BY <1>1, <1>3, <2>1, <2>2, <2>3 DEF OneAtWork, AtWork
<1>7. Unreported'
  BY <1>1, <1>2, <1>3 DEF VirtualInv, Unreported
<1>8. RowIsNewest'
  BY <1>1, <1>2, <1>3 DEF VirtualInv, RowIsNewest, IsNewest
<1>9. ReportedOnce' /\ MirrorIsOwn'
  BY <1>1 DEF VirtualInv, ReportedOnce, MirrorIsOwn
<1> QED BY <1>4, <1>5, <1>6, <1>7, <1>8, <1>9 DEF VirtualInv

\* The end of a position is reported.
LEMMA ReportsKeeps ==
    ASSUME VirtualInv, NEW p \in Passers, Reports(p)
    PROVE  VirtualInv'
<1> DEFINE e == pass[p].closing
<1>1. /\ VirtualTypeOK /\ pass[p] \in PassType /\ pass[p].pc = "append" /\ e # 0
      /\ pass[p].holds = 0 /\ e \in Entries
      /\ UNCHANGED <<book, onFile, mirror, closedFor, overlapped, unmirrored>>
  <2>1. VirtualTypeOK /\ pass[p] \in PassType /\ pass[p].pc = "append" /\ e # 0 /\ pass[p].holds = 0
    BY VirtualTypes DEF VirtualInv, Reports, PassShape
  <2> QED BY <2>1, VirtualConstants DEF Reports, PassType, Entries
<1>2. /\ pass' \in [Passers -> PassType] /\ pass'[p].pc = "mirror"
      /\ pass'[p].holds = 0 /\ pass'[p].closing = e
      /\ \A q \in Passers : q # p => pass'[q] = pass[q]
  BY <1>1, VirtualTypes DEF Reports, PassType
<1>3. /\ reports' \in [Entries -> ReportType] /\ reports'[e].times = reports[e].times + 1
      /\ \A o \in Entries : o # e => reports'[o] = reports[o]
  <2>1. reports[e] \in ReportType /\ reports[e].times + 1 \in 0..MaxReports
    BY <1>1, VirtualTypes, VirtualConstants DEF Reports, ReportType
  <2>2. (reports[e].stopped \/ pass[p].hit = "stop") \in BOOLEAN
    OBVIOUS
  <2> QED BY <1>1, <2>1, <2>2, VirtualTypes DEF Reports, ReportType
<1>4. overlapped \/ (onFile = 0 /\ reports[e].times = 0 /\ \A q \in Passers : q # p => pass[q].pc = "idle")
  BY <1>1 DEF VirtualInv, OneAtWork, Unreported, AtWork
<1> HIDE DEF e
<1>5. VirtualTypeOK'
  BY <1>1, <1>2, <1>3, VirtualTypes DEF VirtualTypeOK, PassType, ReportType
<1>6. PassShape'
  BY <1>1, <1>2 DEF VirtualInv, PassShape
<1>7. OneAtWork'
  BY <1>1, <1>2, <1>4 DEF OneAtWork, AtWork
<1>8. Unreported'
  <2>1. overlapped \/ \A q \in Passers : q # p => pass[q].holds = 0 /\ pass[q].closing = 0
    BY <1>4 DEF VirtualInv, PassShape
  <2> QED BY <1>1, <1>2, <1>4, <2>1 DEF Unreported
<1>9. RowIsNewest'
  BY <1>1, <1>2 DEF VirtualInv, RowIsNewest, IsNewest, e
<1>10. ReportedOnce'
  BY <1>1, <1>3, <1>4 DEF VirtualInv, ReportedOnce
<1>11. MirrorIsOwn'
  BY <1>1 DEF VirtualInv, MirrorIsOwn
<1> QED BY <1>5, <1>6, <1>7, <1>8, <1>9, <1>10, <1>11 DEF VirtualInv

\* The row of the position is closed.
LEMMA MirrorsKeeps ==
    ASSUME VirtualInv, NEW p \in Passers, Mirrors(p)
    PROVE  VirtualInv'
<1>1. /\ VirtualTypeOK /\ pass[p] \in PassType /\ pass[p].pc = "mirror" /\ pass[p].closing \in Entries
      /\ UNCHANGED <<book, onFile, reports, overlapped, unmirrored>>
  <2>1. VirtualTypeOK /\ pass[p] \in PassType /\ pass[p].pc = "mirror" /\ pass[p].closing # 0
    BY VirtualTypes DEF VirtualInv, Mirrors, PassShape
  <2> QED BY <2>1, VirtualConstants DEF Mirrors, PassType, Entries
<1>2. PICK e \in Entries : /\ e \in RowToClose(p)
                           /\ mirror' = [mirror EXCEPT ![e] = "closed"]
                           /\ closedFor' = [closedFor EXCEPT ![e] = pass[p].closing]
  BY DEF Mirrors, RowToClose, OpenRows, OwnRow
<1>3. NoPass \in PassType /\ NoPass.pc = "idle" /\ NoPass.holds = 0 /\ NoPass.closing = 0
  BY VirtualConstants DEF NoPass, PassType
<1>4. /\ pass' \in [Passers -> PassType] /\ pass'[p] = NoPass
      /\ \A q \in Passers : q # p => pass'[q] = pass[q]
  BY <1>1, <1>3, VirtualTypes DEF Mirrors
<1>5. VirtualTypeOK'
  <2>1. pass[p].closing \in 0..NEntries
    BY <1>1 DEF PassType
  <2>2. mirror' \in [Entries -> {"none", "open", "closed"}] /\ closedFor' \in [Entries -> 0..NEntries]
    BY <1>1, <1>2, <2>1, VirtualTypes
  <2> QED BY <1>1, <1>4, <2>2, VirtualTypes DEF VirtualTypeOK, PassType
<1>6. overlapped \/ (onFile = 0 /\ \A q \in Passers : q # p => pass[q].pc = "idle")
  BY <1>1 DEF VirtualInv, OneAtWork, AtWork
<1>7. overlapped \/ (onFile = 0 /\ \A q \in Passers :
                        /\ pass'[q].pc = "idle" /\ pass'[q].holds = 0 /\ pass'[q].closing = 0)
  BY <1>3, <1>4, <1>6 DEF VirtualInv, PassShape
<1>8. PassShape'
  BY <1>3, <1>4 DEF VirtualInv, PassShape
<1>9. OneAtWork' /\ Unreported' /\ RowIsNewest'
  BY <1>1, <1>7 DEF OneAtWork, Unreported, RowIsNewest, AtWork
<1>10. ReportedOnce'
  BY <1>1 DEF VirtualInv, ReportedOnce
<1>11. MirrorIsOwn'
  <2>1. CASE overlapped \/ unmirrored
    BY <1>1, <2>1 DEF MirrorIsOwn
  <2>2. CASE ~overlapped /\ ~unmirrored
    <3>1. IsNewest(pass[p].closing)
      BY <1>1, <2>2, VirtualConstants DEF VirtualInv, RowIsNewest, Entries
    <3>2. e = pass[p].closing
      BY <1>1, <1>2, <3>1, VirtualConstants DEF RowToClose, OpenRows, OwnRow, IsNewest, Entries
    <3>3. closedFor'[e] = e /\ \A o \in Entries : o # e => closedFor'[o] = closedFor[o]
      BY <1>1, <1>2, <3>2, VirtualTypes
    <3> QED BY <2>2, <3>3 DEF VirtualInv, MirrorIsOwn
  <2> QED BY <2>1, <2>2
<1> QED BY <1>5, <1>8, <1>9, <1>10, <1>11 DEF VirtualInv

\* A pass ends without a further write.
LEMMA PassEnds ==
    ASSUME VirtualInv, NEW p \in Passers, pass' = [pass EXCEPT ![p] = NoPass],
           UNCHANGED <<book, onFile, reports, mirror, closedFor, overlapped, unmirrored>>
    PROVE  VirtualInv'
<1>1. NoPass \in PassType /\ NoPass.pc = "idle" /\ NoPass.holds = 0 /\ NoPass.closing = 0
  BY VirtualConstants DEF NoPass, PassType
<1>2. VirtualTypeOK
  BY DEF VirtualInv
<1>3. /\ pass' \in [Passers -> PassType] /\ pass'[p] = NoPass
      /\ \A q \in Passers : q # p => pass'[q] = pass[q]
  BY <1>1, <1>2, VirtualTypes
<1>4. VirtualTypeOK'
  BY <1>2, <1>3, VirtualTypes DEF VirtualTypeOK, PassType
<1>5. PassShape' /\ OneAtWork'
  BY <1>1, <1>3 DEF VirtualInv, PassShape, OneAtWork, AtWork
<1>6. Unreported' /\ RowIsNewest'
  BY <1>1, <1>3 DEF VirtualInv, Unreported, RowIsNewest, IsNewest
<1>7. ReportedOnce' /\ MirrorIsOwn'
  BY DEF VirtualInv, ReportedOnce, MirrorIsOwn
<1> QED BY <1>4, <1>5, <1>6, <1>7 DEF VirtualInv

\* Every step keeps the invariant.
LEMMA VirtualKept == VirtualInv /\ [VirtualNext]_virtualVars => VirtualInv'
<1> SUFFICES ASSUME VirtualInv, [VirtualNext]_virtualVars PROVE VirtualInv'
  OBVIOUS
<1>0. onFile \in 0..NEntries /\ NoPass \in PassType
  BY VirtualTypes, VirtualConstants DEF VirtualInv, NoPass, PassType
<1>1. ASSUME NEW p \in Passers, Keeps(p) PROVE VirtualInv'
  <2> DEFINE doing == [NoPass EXCEPT !.pc = "write", !.holds = onFile]
  <2>1. doing \in PassType /\ doing.pc = "write" /\ doing.holds = onFile /\ doing.closing = 0
    BY <1>0 DEF NoPass, PassType
  <2>2. Begin(p, doing)
    BY <1>1 DEF Keeps
  <2> HIDE DEF doing
  <2> QED BY <2>1, <2>2, BeginKeeps
<1>2. ASSUME NEW p \in Passers, NEW hit \in Hits, FindsDue(p, hit) PROVE VirtualInv'
  <2> DEFINE doing == [pc |-> "write", holds |-> 0, closing |-> onFile, hit |-> hit]
  <2>1. doing \in PassType /\ doing.pc = "write" /\ doing.holds = 0 /\ doing.closing = onFile
    BY <1>0, VirtualConstants DEF PassType
  <2>2. Begin(p, doing)
    BY <1>2 DEF FindsDue
  <2> HIDE DEF doing
  <2> QED BY <2>1, <2>2, BeginKeeps
<1>3. ASSUME NEW p \in Passers, NEW longAgo \in BOOLEAN, FindsCandidate(p, longAgo) PROVE VirtualInv'
  <2> DEFINE doing == [NoPass EXCEPT !.pc = "enter"]
  <2>1. doing \in PassType /\ doing.pc = "enter" /\ doing.holds = 0 /\ doing.closing = 0
    BY <1>0 DEF NoPass, PassType
  <2>2. Begin(p, doing) /\ onFile = 0
    BY <1>3 DEF FindsCandidate
  <2> HIDE DEF doing
  <2> QED BY <2>1, <2>2, BeginKeeps
<1>4. ASSUME NEW p \in Passers, BreaksOff(p) PROVE VirtualInv'
  BY <1>4, PassEnds DEF BreaksOff
<1>5. CASE UNCHANGED virtualVars
  BY <1>5 DEF virtualVars, VirtualInv, VirtualTypeOK, PassShape, OneAtWork, Unreported, RowIsNewest,
              ReportedOnce, MirrorIsOwn, AtWork, IsNewest
<1> QED BY <1>1, <1>2, <1>3, <1>4, <1>5, OpensKeeps, WritesKeeps, ReportsKeeps, MirrorsKeeps
        DEF VirtualNext

\* Files, rows and passes always have their type (ShadowTradeService, SignalOutcomeTracker).
THEOREM VirtualTypeCorrect == VirtualSpec => []VirtualTypeOK
<1>1. VirtualInv => VirtualTypeOK
  BY DEF VirtualInv
<1> QED BY <1>1, VirtualInitially, VirtualKept, PTL DEF VirtualSpec

\* The end of a position is reported at most once, wherever a pass breaks off, unless two
\* services were at work at the same time (process_scan writes the file before the report).
THEOREM ReportsOnce == VirtualSpec => []ReportedOnce
<1>1. VirtualInv => ReportedOnce
  BY DEF VirtualInv
<1> QED BY <1>1, VirtualInitially, VirtualKept, PTL DEF VirtualSpec

\* A row of the database is closed with the result of the position it was opened for, although
\* a pass that breaks off leaves an open row behind, unless a row could not be written or two
\* services were at work (close_entry: "safe for SHADOW").
THEOREM MirrorsOwn == VirtualSpec => []MirrorIsOwn
<1>1. VirtualInv => MirrorIsOwn
  BY DEF VirtualInv
<1> QED BY <1>1, VirtualInitially, VirtualKept, PTL DEF VirtualSpec

\* Reports and rows of virtual positions are their own, and come once (process_scan).
THEOREM VirtualHolds == VirtualSpec => []VirtualTradesOwn
<1>1. ReportedOnce /\ MirrorIsOwn => VirtualTradesOwn
  BY DEF VirtualTradesOwn
<1> QED BY <1>1, ReportsOnce, MirrorsOwn, PTL

----
(* What readers of the fetcher are given, for every number of threads and  *)
(* every outlook of the providers: a fetch that ends with nothing has      *)
(* passed nobody who could have delivered all along, or was given a        *)
(* useless frame first.                                                    *)
(*                                                                         *)
(* The argument needs that who could deliver when a fetch began and has    *)
(* not changed since is available still, however many other threads have   *)
(* reported failures: only a provider that breaks is reported.             *)

FetchRow ==
    [pc : {"idle", "batch", "single", "rescue", "compute", "empty"}, at : Nat, raised : BOOLEAN,
     spoilt : BOOLEAN, sound : SUBSET Providers, frame : Frames \cup {None}]

HealthRow == [failures : Nat, last : Nat]

MarketShape ==
    /\ time \in Times /\ newest \in Times
    /\ chain \in Seq(Providers) /\ Len(chain) > 0
    /\ outlook \in [Providers -> Answers]
    /\ health \in [Providers -> HealthRow]
    /\ history \in Frames \cup {None}
    /\ fetch \in [Fetchers -> FetchRow]

\* Where a fetch is in the chain, and whom it has passed.
Passed(ch, c) ==
    /\ c.at <= Len(ch)
    /\ c.pc = "single" => \A j \in 1..Len(ch) : c.at = 0 \/ j < c.at => ch[j] \notin c.sound
    /\ c.pc \in {"rescue", "empty"} => c.sound = {} \/ c.spoilt

MarketInv ==
    /\ MarketShape /\ SplitKeptOut /\ AnalysisFollowsHistory
    /\ \A f \in Fetchers : Passed(chain, fetch[f]) /\ fetch[f].sound \subseteq Sound

LEMMA NoFetchRow ==
    /\ NoFetch \in FetchRow /\ NoFetch.pc = "idle" /\ NoFetch.sound = {} /\ NoFetch.at = 0
    /\ ~NoFetch.spoilt /\ ~NoFetch.raised
BY DEF NoFetch, FetchRow

LEMMA MarketBegin == MarketInit => MarketInv
<1> SUFFICES ASSUME MarketInit PROVE MarketInv
  OBVIOUS
<1>1. chain \in {<<"yahoo">>, <<"official">>, <<"official", "yahoo">>}
  BY MarketAssumption DEF MarketInit
<1>2. chain \in Seq(Providers) /\ Len(chain) > 0
  <2>1. "yahoo" \in Providers /\ "official" \in Providers
    BY DEF Providers
  <2> HIDE DEF Providers
  <2>2. CASE chain = <<"yahoo">>
    BY <2>1, <2>2
  <2>3. CASE chain = <<"official">>
    BY <2>1, <2>3
  <2>4. CASE chain = <<"official", "yahoo">>
    BY <2>1, <2>4
  <2> QED BY <1>1, <2>2, <2>3, <2>4
<1>3. 0 \in Times
  BY MarketAssumption DEF Times
<1>4. MarketShape
  <2>1. [p \in Providers |-> [failures |-> 0, last |-> 0]] \in [Providers -> HealthRow]
    BY DEF HealthRow
  <2>2. [p \in Providers |-> "ok"] \in [Providers -> Answers]
    BY DEF Answers
  <2>3. [f \in Fetchers |-> NoFetch] \in [Fetchers -> FetchRow]
    BY NoFetchRow
  <2> HIDE DEF HealthRow, Answers, FetchRow, NoFetch, Fetchers, Providers, Times
  <2> QED BY <1>2, <1>3, <2>1, <2>2, <2>3 DEF MarketInit, MarketShape
<1>5. Passed(chain, NoFetch) /\ NoFetch.sound \subseteq Sound
  BY <1>2, NoFetchRow DEF Passed
<1> HIDE DEF NoFetch
<1>6. \A f \in Fetchers : fetch[f] = NoFetch
  BY DEF MarketInit
<1> QED BY <1>4, <1>5, <1>6 DEF MarketInv, MarketInit, SplitKeptOut, AnalysisFollowsHistory

\* A step of one thread that leaves nobody less available.
LEMMA FetchMoves ==
    ASSUME MarketInv, MarketShape', NEW f \in Fetchers, NEW x \in FetchRow,
           fetch' = [fetch EXCEPT ![f] = x], chain' = chain,
           SplitKeptOut', AnalysisFollowsHistory',
           Sound \subseteq Sound', Passed(chain, x), x.sound \subseteq Sound'
    PROVE  MarketInv'
<1>1. \A g \in Fetchers : fetch'[g] = IF g = f THEN x ELSE fetch[g]
  BY DEF MarketInv, MarketShape
<1>2. ASSUME NEW g \in Fetchers
      PROVE  Passed(chain, fetch'[g]) /\ fetch'[g].sound \subseteq Sound'
  <2>1. CASE g = f
    BY <1>1, <2>1
  <2>2. CASE g # f
    <3>1. Passed(chain, fetch[g]) /\ fetch[g].sound \subseteq Sound
      BY DEF MarketInv
    <3> QED BY <1>1, <2>2, <3>1
  <2> QED BY <2>1, <2>2
<1> QED BY <1>2 DEF MarketInv

\* Nothing is less available for a failure of one that breaks, a success, or the time.
LEMMA HealthMoves ==
    ASSUME MarketShape, NEW p \in Providers, UNCHANGED <<time, chain, outlook>>,
           \/ health' = health
           \/ health' = Failed(p) /\ outlook[p] = "breaks"
           \/ health' = Succeeded(p)
    PROVE  Sound \subseteq Sound' /\ health' \in [Providers -> HealthRow]
<1>1. /\ health \in [Providers -> HealthRow] /\ time \in Nat
  BY DEF MarketShape, Times
<1>2. FailureThreshold \in Nat /\ 0 < FailureThreshold
  BY MarketAssumption
<1>3. /\ health' \in [Providers -> HealthRow]
      /\ \A q \in Providers : q # p => health'[q] = health[q]
      /\ health' = Succeeded(p) => health'[p].failures = 0
  <2>1. CASE health' = health
    <3>1. Succeeded(p)[p].failures = 0
      BY <1>1 DEF Succeeded, HealthRow
    <3> QED BY <1>1, <2>1, <3>1
  <2>2. CASE health' = Succeeded(p)
    <3> DEFINE h == health[p]
               one == [h EXCEPT !.failures = 0]
               two == [one EXCEPT !.last = 0]
    <3>1. health' = [health EXCEPT ![p] = two]
      BY <1>1, <2>2 DEF Succeeded
    <3>2. h \in HealthRow
      BY <1>1
    <3>3. two \in HealthRow /\ two.failures = 0
      <4> HIDE DEF h
      <4> QED BY <3>2 DEF HealthRow
    <3> HIDE DEF two, HealthRow
    <3> QED BY <1>1, <2>2, <3>1, <3>3
  <2>3. CASE health' = Failed(p) /\ health' # health
    <3> DEFINE h == health[p]
               x == [failures |-> IF h.failures < FailureThreshold THEN h.failures + 1 ELSE h.failures,
                     last |-> time]
    <3>1. health' = [health EXCEPT ![p] = x]
      BY <2>3 DEF Failed
    <3>2. x \in HealthRow
      BY <1>1 DEF HealthRow
    <3>3. CASE health' # Succeeded(p)
      <4> HIDE DEF x, HealthRow
      <4> QED BY <1>1, <3>1, <3>2, <3>3
    <3>4. CASE health' = Succeeded(p)
      BY <2>2, <3>4
    <3> QED BY <3>3, <3>4
  <2> QED BY <2>1, <2>2, <2>3
<1>4. Sound \subseteq Sound'
  <2> SUFFICES ASSUME NEW q \in Sound PROVE q \in Sound'
    OBVIOUS
  <2>1. q \in Providers /\ InChain(q) /\ outlook[q] = "ok" /\ Available(q)
    BY DEF Sound
  <2>2. InChain(q)' /\ outlook'[q] = "ok"
    BY <2>1 DEF InChain
  <2>3. Available(q)'
    <3>1. CASE health'[q] = health[q]
      BY <2>1, <3>1 DEF Available, Routed
    <3>2. CASE health'[q] # health[q]
      <4>1. q = p /\ health' = Succeeded(p)
        BY <1>3, <2>1, <3>2
      <4> QED BY <1>2, <1>3, <4>1 DEF Available
    <3> QED BY <3>1, <3>2
  <2> QED BY <2>1, <2>2, <2>3 DEF Sound
<1> QED BY <1>3, <1>4

\* What every action finds.
LEMMA FetchFound ==
    ASSUME MarketInv, NEW f \in Fetchers
    PROVE  /\ MarketShape /\ fetch[f] \in FetchRow /\ Passed(chain, fetch[f]) /\ fetch[f].sound \subseteq Sound
           /\ Len(chain) \in Nat /\ \A i \in 1..Len(chain) : chain[i] \in Providers
<1>1. MarketShape /\ chain \in Seq(Providers)
  BY DEF MarketInv, MarketShape
<1>2. Len(chain) \in Nat /\ \A i \in 1..Len(chain) : chain[i] \in Providers
  <2> HIDE DEF Providers
  <2> QED BY <1>1
<1>3. fetch[f] \in FetchRow
  <2> HIDE DEF FetchRow, Fetchers
  <2> QED BY <1>1 DEF MarketShape
<1> QED BY <1>1, <1>2, <1>3 DEF MarketInv

\* Who is asked is a provider of the chain.
LEMMA AskedTyped ==
    ASSUME MarketInv, NEW f \in Fetchers
    PROVE  /\ Asked(f) \in Providers
           /\ fetch[f].at \in 1..Len(chain) => Asked(f) = chain[fetch[f].at]
<1>1. /\ fetch[f] \in FetchRow /\ fetch[f].at <= Len(chain) /\ Len(chain) \in Nat /\ Len(chain) > 0
      /\ \A i \in 1..Len(chain) : chain[i] \in Providers
  BY FetchFound DEF Passed, MarketShape
<1>2. fetch[f].at \in Nat
  BY <1>1 DEF FetchRow
<1> QED BY <1>1, <1>2 DEF Asked, LoopOver

\* The thread is done and the histories are as they were.
LEMMA RestsInv ==
    ASSUME MarketInv, NEW f \in Fetchers, Rests(f), UNCHANGED <<time, chain, outlook, history>>,
           newest' \in Times, SplitKeptOut', AnalysisFollowsHistory',
           Sound \subseteq Sound', health' \in [Providers -> HealthRow]
    PROVE  MarketInv'
<1>1. /\ MarketShape /\ fetch' = [fetch EXCEPT ![f] = NoFetch]
  BY DEF Rests, MarketInv
<1>2. fetch' \in [Fetchers -> FetchRow]
  <2> HIDE DEF FetchRow, Fetchers, NoFetch
  <2> QED BY <1>1, NoFetchRow DEF MarketShape
<1>3. MarketShape'
  BY <1>1, <1>2 DEF MarketShape
<1>4. Passed(chain, NoFetch) /\ NoFetch.sound \subseteq Sound'
  BY <1>1, NoFetchRow DEF Passed, MarketShape
<1> HIDE DEF NoFetch, Fetchers
<1> QED BY <1>1, <1>3, <1>4, NoFetchRow, FetchMoves

\* An analysis that is to be computed from a frame.
Computed(frame) == [NoFetch EXCEPT !.pc = "compute", !.frame = frame]

LEMMA ComputedRow ==
    ASSUME NEW frame \in Frames
    PROVE  /\ Computed(frame) \in FetchRow /\ Computed(frame).pc = "compute" /\ Computed(frame).sound = {}
           /\ Computed(frame).at = 0
<1> DEFINE one == [NoFetch EXCEPT !.pc = "compute"]
           two == [one EXCEPT !.frame = frame]
<1>1. one \in FetchRow /\ one.pc = "compute" /\ one.sound = {} /\ one.at = 0
  BY DEF NoFetch, FetchRow
<1>2. Computed(frame) = two
  BY Zenon DEF Computed
<1> HIDE DEF one, Frames
<1>3. two \in FetchRow /\ two.pc = "compute" /\ two.sound = {} /\ two.at = 0
  BY <1>1 DEF FetchRow
<1> QED BY <1>2, <1>3

LEMMA ComputesInv ==
    ASSUME MarketInv, NEW f \in Fetchers, NEW frame \in Frames, Computes(f, frame),
           UNCHANGED <<time, chain, outlook>>, history' \in Frames \cup {None},
           newest' \in Times, SplitKeptOut', AnalysisFollowsHistory',
           Sound \subseteq Sound', health' \in [Providers -> HealthRow]
    PROVE  MarketInv'
<1> DEFINE x == Computed(frame)
<1>1. /\ MarketShape /\ fetch' = [fetch EXCEPT ![f] = x]
  BY DEF Computes, MarketInv, Computed
<1>2. x \in FetchRow /\ x.pc = "compute" /\ x.sound = {} /\ x.at = 0
  BY ComputedRow
<1> HIDE DEF x
<1>3. fetch' \in [Fetchers -> FetchRow]
  <2> HIDE DEF FetchRow, Fetchers
  <2> QED BY <1>1, <1>2 DEF MarketShape
<1>4. MarketShape'
  BY <1>1, <1>3 DEF MarketShape
<1>5. Passed(chain, x) /\ x.sound \subseteq Sound'
  BY <1>1, <1>2 DEF Passed, MarketShape
<1> HIDE DEF Fetchers, FetchRow
<1> QED BY <1>1, <1>2, <1>4, <1>5, FetchMoves

\* A frame that is stored: a split only where nobody looked.
LEMMA StoresInv ==
    ASSUME MarketInv, NEW f \in Fetchers, NEW split \in BOOLEAN, NEW unchecked \in BOOLEAN,
           Stores(f, split, unchecked), ~split \/ unchecked, UNCHANGED <<time, chain, outlook>>,
           Sound \subseteq Sound', health' \in [Providers -> HealthRow]
    PROVE  MarketInv'
<1> DEFINE frame == [of |-> time, split |-> split, unchecked |-> unchecked]
<1>1. /\ history' = frame /\ analysis' = None /\ newest' = time
      /\ IF f \in Analysts THEN Computes(f, frame) ELSE Rests(f)
      /\ MarketShape /\ time \in Times
  BY DEF Stores, MarketInv, MarketShape
<1>2. frame \in Frames
  BY <1>1 DEF Frames
<1>3. frame.split => frame.unchecked
  OBVIOUS
<1> HIDE DEF frame
<1>4. SplitKeptOut' /\ AnalysisFollowsHistory'
  BY <1>1, <1>3 DEF SplitKeptOut, AnalysisFollowsHistory
<1>5. CASE f \in Analysts
  BY <1>1, <1>2, <1>4, <1>5, ComputesInv
<1>6. CASE f \notin Analysts
  <2>1. /\ MarketShape /\ fetch' = [fetch EXCEPT ![f] = NoFetch]
    BY <1>1, <1>6 DEF Rests
  <2>2. fetch' \in [Fetchers -> FetchRow]
    <3> HIDE DEF FetchRow, Fetchers, NoFetch
    <3> QED BY <2>1, NoFetchRow DEF MarketShape
  <2>3. MarketShape'
    BY <1>1, <1>2, <2>2 DEF MarketShape
  <2>4. Passed(chain, NoFetch) /\ NoFetch.sound \subseteq Sound'
    BY <1>1, NoFetchRow DEF Passed, MarketShape
  <2> HIDE DEF NoFetch, Fetchers
  <2> QED BY <1>4, <2>1, <2>3, <2>4, NoFetchRow, FetchMoves
<1> QED BY <1>5, <1>6

\* A thread that turns to something else with what it has.
LEMMA FetchTurns ==
    ASSUME MarketInv, NEW f \in Fetchers, NEW x \in FetchRow, fetch' = [fetch EXCEPT ![f] = x],
           UNCHANGED <<time, chain, outlook, newest>>, history' \in {history, None},
           analysis' \in {analysis, None},
           Sound \subseteq Sound', health' \in [Providers -> HealthRow],
           Passed(chain, x), x.sound \subseteq Sound
    PROVE  MarketInv'
<1>1. MarketShape /\ SplitKeptOut /\ AnalysisFollowsHistory
  BY DEF MarketInv
<1>2. fetch' \in [Fetchers -> FetchRow]
  <2> HIDE DEF FetchRow, Fetchers
  <2> QED BY <1>1 DEF MarketShape
<1>3. MarketShape'
  BY <1>1, <1>2 DEF MarketShape
<1>4. SplitKeptOut' /\ AnalysisFollowsHistory'
  BY <1>1 DEF SplitKeptOut, AnalysisFollowsHistory
<1> HIDE DEF Fetchers, FetchRow
<1> QED BY <1>3, <1>4, FetchMoves

\* A frame that is usable, and shows a split or not.
LEMMA AcceptsInv ==
    ASSUME MarketInv, NEW f \in Fetchers, NEW answer \in Answers, Accepts(f, answer),
           UNCHANGED <<time, chain, outlook>>,
           Sound \subseteq Sound', health' \in [Providers -> HealthRow]
    PROVE  MarketInv'
<1>1. CASE answer = "split"
  <2> DEFINE k == fetch[f]
             one == [k EXCEPT !.pc = "empty"]
             x == [one EXCEPT !.spoilt = TRUE]
  <2>1. /\ k \in FetchRow /\ Passed(chain, k) /\ k.sound \subseteq Sound
        /\ fetch \in [Fetchers -> FetchRow]
    BY FetchFound DEF MarketShape
  <2>2. /\ fetch' = [fetch EXCEPT ![f] = x] /\ UNCHANGED <<history, analysis, newest>>
    <3>1. fetch' = [fetch EXCEPT ![f].pc = "empty", ![f].spoilt = TRUE]
      BY <1>1 DEF Accepts
    <3> HIDE DEF Fetchers, FetchRow
    <3> QED BY <1>1, <2>1, <3>1 DEF Accepts
  <2> HIDE DEF k
  <2>3. one \in FetchRow /\ one.pc = "empty" /\ one.at = k.at /\ one.sound = k.sound
    BY <2>1 DEF FetchRow
  <2> HIDE DEF one
  <2>4. x \in FetchRow /\ x.pc = "empty" /\ x.at = k.at /\ x.sound = k.sound /\ x.spoilt
    BY <2>3 DEF FetchRow
  <2> HIDE DEF x
  <2>5. Passed(chain, x)
    BY <2>1, <2>4 DEF Passed
  <2> QED BY <2>1, <2>2, <2>4, <2>5, FetchTurns
<1>2. CASE answer # "split"
  BY <1>2, StoresInv DEF Accepts
<1> QED BY <1>1, <1>2

Gone(k, pc) == [k EXCEPT !.pc = pc, !.at = 1]

LEMMA GoneRow ==
    ASSUME NEW k \in FetchRow, NEW pc \in {"batch", "single", "rescue"}
    PROVE  /\ Gone(k, pc) \in FetchRow /\ Gone(k, pc).pc = pc /\ Gone(k, pc).at = 1
           /\ Gone(k, pc).sound = k.sound /\ (k.spoilt => Gone(k, pc).spoilt)
<1> DEFINE one == [k EXCEPT !.pc = pc]
           two == [one EXCEPT !.at = 1]
<1>1. one \in FetchRow /\ one.pc = pc /\ one.sound = k.sound /\ (k.spoilt => one.spoilt)
  BY DEF FetchRow
<1>2. Gone(k, pc) = two
  BY Zenon DEF Gone
<1> HIDE DEF one
<1>3. two \in FetchRow /\ two.pc = pc /\ two.sound = k.sound /\ two.at = 1 /\ (k.spoilt => two.spoilt)
  BY <1>1 DEF FetchRow
<1> QED BY <1>2, <1>3

\* A fetch begins with whom could deliver.
LEMMA BeginsInv ==
    ASSUME MarketInv, NEW f \in Fetchers, NEW pc \in {"batch", "single"}, Begins(f, pc),
           UNCHANGED <<time, chain, outlook, newest, health>>, history' \in {history, None},
           analysis' \in {analysis, None}
    PROVE  MarketInv'
<1> DEFINE y == Gone(NoFetch, pc)
           x == [y EXCEPT !.sound = Sound]
<1>1. y \in FetchRow /\ y.pc = pc /\ y.at = 1
  BY NoFetchRow, GoneRow
<1>2. fetch' = [fetch EXCEPT ![f] = x]
  <2>1. x = [NoFetch EXCEPT !.pc = pc, !.at = 1, !.sound = Sound]
    BY Zenon DEF Gone
  <2> QED BY <2>1 DEF Begins
<1>3. Sound \in SUBSET Providers
  BY DEF Sound
<1> HIDE DEF y
<1>4. x \in FetchRow /\ x.pc = pc /\ x.at = 1 /\ x.sound = Sound
  <2> HIDE DEF Sound
  <2> QED BY <1>1, <1>3 DEF FetchRow
<1> HIDE DEF x
<1>5. MarketShape /\ Len(chain) > 0 /\ Len(chain) \in Nat
  BY FetchFound DEF MarketShape
<1>6. Passed(chain, x)
  BY <1>4, <1>5 DEF Passed
<1>7. Sound' = Sound
  BY DEF Sound, InChain, Available, Routed
<1>8. health' \in [Providers -> HealthRow]
  BY <1>5 DEF MarketShape
<1> QED BY <1>2, <1>4, <1>6, <1>7, <1>8, FetchTurns

\* The next of the chain, or none: nobody who could deliver is passed.
LEMMA NextInv ==
    ASSUME MarketInv, NEW f \in Fetchers, fetch[f].at \in 1..Len(chain),
           fetch' = [fetch EXCEPT ![f].at = IF @ < Len(chain) THEN @ + 1 ELSE 0],
           UNCHANGED <<time, chain, outlook, newest, history, analysis>>,
           Sound \subseteq Sound', health' \in [Providers -> HealthRow],
           chain[fetch[f].at] \notin Sound
    PROVE  MarketInv'
<1> DEFINE k == fetch[f]
           n == IF k.at < Len(chain) THEN k.at + 1 ELSE 0
           x == [k EXCEPT !.at = n]
<1>1. /\ k \in FetchRow /\ Passed(chain, k) /\ k.sound \subseteq Sound /\ Len(chain) \in Nat
      /\ fetch \in [Fetchers -> FetchRow]
  BY FetchFound DEF MarketShape
<1>2. fetch' = [fetch EXCEPT ![f] = x]
  <2> HIDE DEF Fetchers, FetchRow
  <2> QED BY <1>1
<1>3. n \in Nat /\ n <= Len(chain) /\ k.at \in 1..Len(chain) /\ (n # 0 => n = k.at + 1) /\ (n = 0 => k.at = Len(chain))
  BY <1>1 DEF FetchRow, Passed
<1>4. chain[k.at] \notin k.sound
  BY <1>1
<1> HIDE DEF n, k
<1>5. x \in FetchRow /\ x.pc = k.pc /\ x.at = n /\ x.sound = k.sound /\ (k.spoilt => x.spoilt)
  BY <1>1, <1>3 DEF FetchRow
<1> HIDE DEF x
<1>6. Passed(chain, x)
  <2>1. x.pc = "single" => \A j \in 1..Len(chain) : x.at = 0 \/ j < x.at => chain[j] \notin x.sound
    <3> SUFFICES ASSUME x.pc = "single", NEW j \in 1..Len(chain), x.at = 0 \/ j < x.at
                 PROVE  chain[j] \notin x.sound
      OBVIOUS
    <3>1. j = k.at \/ j < k.at
      BY <1>1, <1>3, <1>5
    <3> QED BY <1>1, <1>4, <1>5, <3>1 DEF Passed
  <2> QED BY <1>1, <1>3, <1>5, <2>1 DEF Passed
<1> QED BY <1>1, <1>2, <1>5, <1>6, FetchTurns

LEMMA SoundSame == UNCHANGED <<time, chain, outlook, health>> => Sound' = Sound
BY DEF Sound, InChain, Available, Routed

LEMMA ScanFetchesInv ==
    ASSUME MarketInv, NEW f \in Scanners, NEW force \in BOOLEAN, ScanFetches(f, force) PROVE MarketInv'
<1>1. f \in Fetchers /\ Begins(f, "batch")
  BY DEF ScanFetches, Fetchers
<1>2. /\ UNCHANGED <<time, chain, outlook, newest, health>> /\ history' \in {history, None}
      /\ analysis' \in {analysis, None}
  BY DEF ScanFetches
<1> QED BY <1>1, <1>2, BeginsInv

LEMMA AnalysisFetchesInv ==
    ASSUME MarketInv, NEW f \in Analysts, NEW force \in BOOLEAN, AnalysisFetches(f, force) PROVE MarketInv'
<1>1. f \in Fetchers
  BY DEF Fetchers
<1>2. UNCHANGED <<time, chain, outlook, newest, health>> /\ analysis' = None
  BY DEF AnalysisFetches
<1>3. CASE Computes(f, history) /\ UNCHANGED history /\ history # None
  <2>1. history \in Frames /\ MarketShape /\ SplitKeptOut
    BY <1>3 DEF MarketInv, MarketShape
  <2>2. SplitKeptOut' /\ AnalysisFollowsHistory'
    BY <1>2, <1>3, <2>1 DEF SplitKeptOut, AnalysisFollowsHistory
  <2>3. Sound' = Sound /\ health' \in [Providers -> HealthRow] /\ newest' \in Times /\ history' \in Frames \cup {None}
    BY <1>2, <1>3, <2>1, SoundSame DEF MarketShape
  <2> QED BY <1>1, <1>2, <1>3, <2>1, <2>2, <2>3, ComputesInv
<1>4. CASE history' \in {history, None} /\ Begins(f, "single")
  BY <1>1, <1>2, <1>4, BeginsInv
<1> QED BY <1>3, <1>4 DEF AnalysisFetches

LEMMA StoresAnalysisInv ==
    ASSUME MarketInv, NEW f \in Fetchers, StoresAnalysis(f) PROVE MarketInv'
<1> DEFINE of == fetch[f].frame.of
           late == of # newest
           a == [of |-> of, stored |-> time, late |-> late]
<1>1. /\ analysis' = a /\ Rests(f) /\ UNCHANGED <<time, chain, outlook, health, history, newest>>
      /\ MarketShape /\ SplitKeptOut
  BY DEF StoresAnalysis, MarketInv
<1>2. a.of = of /\ (a.late <=> late)
  OBVIOUS
<1> HIDE DEF a
<1>3. AnalysisFollowsHistory'
  BY <1>1, <1>2 DEF AnalysisFollowsHistory
<1>4. SplitKeptOut' /\ Sound' = Sound /\ newest' \in Times /\ health' \in [Providers -> HealthRow]
  BY <1>1, SoundSame DEF SplitKeptOut, MarketShape
<1> QED BY <1>1, <1>3, <1>4, RestsInv

LEMMA PassesProviderInv ==
    ASSUME MarketInv, NEW f \in Fetchers, PassesProvider(f) PROVE MarketInv'
<1>1. /\ fetch[f].at \in 1..Len(chain) /\ ~Available(chain[fetch[f].at]) /\ KeepsCaches
      /\ fetch' = [fetch EXCEPT ![f].at = IF @ < Len(chain) THEN @ + 1 ELSE 0]
      /\ UNCHANGED <<time, chain, outlook, health>>
  BY DEF PassesProvider
<1>2. chain[fetch[f].at] \notin Sound
  BY <1>1 DEF Sound
<1>3. health' \in [Providers -> HealthRow]
  BY <1>1 DEF MarketInv, MarketShape
<1> QED BY <1>1, <1>2, <1>3, SoundSame, NextInv DEF KeepsCaches

\* What an answer tells of who gave it.
LEMMA AnswerTyped ==
    ASSUME MarketInv, NEW p \in Providers
    PROVE  /\ BatchAnswer(p) \in Answers /\ HistoryAnswer(p) \in Answers
           /\ BatchAnswer(p) = "breaks" => outlook[p] = "breaks"
           /\ BatchAnswer(p) \notin {"ok"} => outlook[p] # "ok"
           /\ outlook[p] # "ok" => p \notin Sound
BY DEF MarketInv, MarketShape, BatchAnswer, HistoryAnswer, Answers, Sound

\* A provider that breaks under the router: the failure is recorded, and the next one tried.
LEMMA BreaksInv ==
    ASSUME MarketInv, NEW f \in Fetchers, ~LoopOver(f), outlook[Asked(f)] = "breaks",
           TriesNext(f), health' \in {health, Failed(Asked(f))}, KeepsCaches,
           UNCHANGED <<time, chain, outlook>>
    PROVE  MarketInv'
<1>1. /\ fetch[f] \in FetchRow /\ fetch[f].at <= Len(chain) /\ MarketShape /\ Len(chain) \in Nat
  BY FetchFound DEF Passed
<1>2. fetch[f].at \in 1..Len(chain)
  BY <1>1 DEF LoopOver, FetchRow
<1>3. Asked(f) \in Providers /\ Asked(f) = chain[fetch[f].at]
  BY <1>2, AskedTyped
<1>4. Sound \subseteq Sound' /\ health' \in [Providers -> HealthRow]
  BY <1>1, <1>3, HealthMoves
<1>5. chain[fetch[f].at] \notin Sound
  BY <1>3 DEF Sound
<1> QED BY <1>2, <1>4, <1>5, NextInv DEF TriesNext, KeepsCaches

\* The thread goes on to another way of fetching, at the start of the chain.
LEMMA GoesInv ==
    ASSUME MarketInv, NEW f \in Fetchers, NEW pc \in {"single", "rescue"}, Goes(f, pc),
           pc = "rescue" => fetch[f].sound = {},
           UNCHANGED <<time, chain, outlook, newest, history, analysis>>,
           Sound \subseteq Sound', health' \in [Providers -> HealthRow]
    PROVE  MarketInv'
<1> DEFINE k == fetch[f]
           x == Gone(k, pc)
<1>1. /\ k \in FetchRow /\ Passed(chain, k) /\ k.sound \subseteq Sound /\ Len(chain) \in Nat
      /\ fetch \in [Fetchers -> FetchRow] /\ Len(chain) > 0
  BY FetchFound DEF MarketShape
<1>2. fetch' = [fetch EXCEPT ![f] = x]
  <2>1. fetch' = [fetch EXCEPT ![f] = [[fetch[f] EXCEPT !.pc = pc] EXCEPT !.at = 1]]
    <3> HIDE DEF Fetchers, FetchRow
    <3> QED BY <1>1 DEF Goes
  <2>2. [[fetch[f] EXCEPT !.pc = pc] EXCEPT !.at = 1] = Gone(fetch[f], pc)
    BY Zenon DEF Gone
  <2> QED BY <2>1, <2>2
<1>3. x \in FetchRow /\ x.pc = pc /\ x.at = 1 /\ x.sound = k.sound
  <2> HIDE DEF k
  <2> QED BY <1>1, GoneRow
<1>4. pc = "rescue" => k.sound = {}
  OBVIOUS
<1> HIDE DEF x, k
<1>5. Passed(chain, x)
  BY <1>1, <1>3, <1>4 DEF Passed
<1> QED BY <1>1, <1>2, <1>3, <1>5, FetchTurns

LEMMA AnswersBatchInv ==
    ASSUME MarketInv, NEW f \in Fetchers, AnswersBatch(f) PROVE MarketInv'
<1> DEFINE p == Asked(f)
           answer == BatchAnswer(p)
<1>1. p \in Providers /\ MarketShape
  BY AskedTyped DEF MarketInv
<1>2. /\ answer \in Answers /\ (answer = "breaks" => outlook[p] = "breaks")
  BY <1>1, AnswerTyped
<1>3. UNCHANGED <<time, chain, outlook>>
  BY DEF AnswersBatch
<1>4. CASE answer = "breaks" /\ Routed /\ ~LoopOver(f)
  <2>1. TriesNext(f) /\ health' = Failed(p) /\ KeepsCaches
    BY <1>4 DEF AnswersBatch
  <2> QED BY <1>2, <1>3, <1>4, <2>1, BreaksInv
<1>5. CASE ~(answer = "breaks" /\ Routed /\ ~LoopOver(f))
  <2>1. /\ health' = Succeeded(p) \/ health' = health
        /\ IF Usable(answer) THEN Accepts(f, answer) ELSE Goes(f, "single") /\ KeepsCaches
    BY <1>5 DEF AnswersBatch
  <2>2. Sound \subseteq Sound' /\ health' \in [Providers -> HealthRow]
    BY <1>1, <1>3, <2>1, HealthMoves
  <2>3. CASE Usable(answer)
    BY <1>2, <1>3, <2>1, <2>2, <2>3, AcceptsInv
  <2>4. CASE ~Usable(answer)
    BY <1>3, <2>1, <2>2, <2>4, GoesInv DEF KeepsCaches
  <2> QED BY <2>3, <2>4
<1> QED BY <1>4, <1>5

\* A fetch by the batch of one, and why.
RescueRow(k, r, g) == [k EXCEPT !.pc = "rescue", !.at = 1, !.raised = r, !.spoilt = g]

LEMMA RescueRowTyped ==
    ASSUME NEW k \in FetchRow, NEW r \in BOOLEAN, NEW g \in BOOLEAN
    PROVE  /\ RescueRow(k, r, g) \in FetchRow /\ RescueRow(k, r, g).pc = "rescue" /\ RescueRow(k, r, g).at = 1
           /\ RescueRow(k, r, g).sound = k.sound /\ (g => RescueRow(k, r, g).spoilt)
<1> DEFINE two == Gone(k, "rescue")
           three == [two EXCEPT !.raised = r]
           four == [three EXCEPT !.spoilt = g]
<1>1. two \in FetchRow /\ two.pc = "rescue" /\ two.at = 1 /\ two.sound = k.sound
  BY GoneRow
<1>2. RescueRow(k, r, g) = four
  BY Zenon DEF RescueRow, Gone
<1> HIDE DEF two
<1>3. three \in FetchRow /\ three.pc = "rescue" /\ three.at = 1 /\ three.sound = k.sound
  BY <1>1 DEF FetchRow
<1> HIDE DEF three
<1>4. four \in FetchRow /\ four.pc = "rescue" /\ four.at = 1 /\ four.sound = k.sound /\ (g => four.spoilt)
  BY <1>3 DEF FetchRow
<1> QED BY <1>2, <1>4

\* A single fetch ends in the batch of one when nobody is left, or what came was garbled.
LEMMA AnswersSingleInv ==
    ASSUME MarketInv, NEW f \in Fetchers, AnswersSingle(f) PROVE MarketInv'
<1> DEFINE p == Asked(f)
           answer == HistoryAnswer(p)
           k == fetch[f]
           r == answer = "breaks"
           g == answer = "garbled"
           x == RescueRow(k, r, g)
<1>1. p \in Providers /\ MarketShape
  BY AskedTyped DEF MarketInv
<1>2. /\ answer \in Answers /\ answer = outlook[p]
  BY <1>1, AnswerTyped DEF HistoryAnswer
<1>3. UNCHANGED <<time, chain, outlook>> /\ ~LoopOver(f) /\ k.pc = "single"
  BY DEF AnswersSingle, Asks
<1>4. /\ k \in FetchRow /\ Passed(chain, k) /\ k.sound \subseteq Sound /\ Len(chain) \in Nat /\ Len(chain) > 0
  BY FetchFound DEF MarketShape
<1>5. k.at \in 1..Len(chain) /\ p = chain[k.at]
  BY <1>3, <1>4, AskedTyped DEF LoopOver, FetchRow, Passed
<1>6. r \in BOOLEAN /\ g \in BOOLEAN
  OBVIOUS
<1>7. ASSUME fetch' = [fetch EXCEPT ![f] = x], KeepsCaches, g \/ k.sound = {},
             Sound \subseteq Sound', health' \in [Providers -> HealthRow]
      PROVE  MarketInv'
  <2> HIDE DEF r, g, k
  <2>1. x \in FetchRow /\ x.pc = "rescue" /\ x.at = 1 /\ x.sound = k.sound /\ (g => x.spoilt)
    BY <1>4, <1>6, RescueRowTyped
  <2> HIDE DEF x
  <2>2. Passed(chain, x)
    BY <1>4, <1>7, <2>1 DEF Passed
  <2> QED BY <1>3, <1>4, <1>7, <2>1, <2>2, FetchTurns DEF KeepsCaches
<1>8. CASE Usable(answer)
  <2>1. Accepts(f, answer) /\ health' = Succeeded(p)
    BY <1>8 DEF AnswersSingle, Usable
  <2>2. Sound \subseteq Sound' /\ health' \in [Providers -> HealthRow]
    BY <1>1, <1>3, <2>1, HealthMoves
  <2> QED BY <1>2, <1>3, <2>1, <2>2, AcceptsInv
<1>9. CASE answer = "garbled"
  <2>1. fetch' = [fetch EXCEPT ![f] = x] /\ health' = Succeeded(p) /\ KeepsCaches
    BY <1>9 DEF AnswersSingle, Usable, Rescued, RescueRow
  <2>2. Sound \subseteq Sound' /\ health' \in [Providers -> HealthRow]
    BY <1>1, <1>3, <2>1, HealthMoves
  <2> QED BY <1>7, <1>9, <2>1, <2>2
<1>10. CASE ~Usable(answer) /\ answer # "garbled"
  <2>1. /\ IF Routed THEN TriesNext(f) ELSE fetch' = [fetch EXCEPT ![f] = x]
        /\ health' = IF answer = "breaks" THEN Failed(p) ELSE health
        /\ KeepsCaches
    BY <1>10 DEF AnswersSingle, Rescued, RescueRow
  <2>2. Sound \subseteq Sound' /\ health' \in [Providers -> HealthRow]
    BY <1>1, <1>2, <1>3, <2>1, HealthMoves
  <2>3. p \notin Sound
    BY <1>1, <1>2, <1>10, AnswerTyped DEF Usable
  <2>4. CASE Routed
    <3>1. chain[fetch[f].at] \notin Sound /\ fetch[f].at \in 1..Len(chain)
      BY <1>5, <2>3
    <3>2. fetch' = [fetch EXCEPT ![f].at = IF @ < Len(chain) THEN @ + 1 ELSE 0]
      BY <2>1, <2>4 DEF TriesNext
    <3> QED BY <1>3, <2>1, <2>2, <3>1, <3>2, NextInv DEF KeepsCaches
  <2>5. CASE ~Routed
    <3>1. Len(chain) = 1
      <4>1. Len(chain) \in Nat /\ Len(chain) > 0 /\ ~(Len(chain) > 1)
        BY <1>4, <2>5 DEF Routed
      <4> QED BY ONLY <4>1, SMT
    <3>2. Sound \subseteq {p}
      BY <1>4, <1>5, <3>1 DEF Sound, InChain
    <3>3. k.sound = {}
      BY <1>4, <2>3, <3>2
    <3> QED BY <1>7, <2>1, <2>2, <2>5, <3>3
  <2> QED BY <2>4, <2>5
<1> QED BY <1>8, <1>9, <1>10

LEMMA SingleIsOverInv ==
    ASSUME MarketInv, NEW f \in Fetchers, SingleIsOver(f) PROVE MarketInv'
<1>1. /\ fetch[f].pc = "single" /\ fetch[f].at = 0 /\ Goes(f, "rescue") /\ KeepsCaches
      /\ UNCHANGED <<time, chain, outlook, health>>
  BY DEF SingleIsOver, LoopOver
<1>2. /\ Passed(chain, fetch[f]) /\ fetch[f].sound \subseteq Sound /\ MarketShape
  BY FetchFound
<1>3. fetch[f].sound = {}
  BY <1>1, <1>2 DEF Passed, Sound, InChain
<1>4. health' \in [Providers -> HealthRow]
  BY <1>1, <1>2 DEF MarketShape
<1> QED BY <1>1, <1>3, <1>4, SoundSame, GoesInv DEF KeepsCaches

LEMMA AnswersRescueInv ==
    ASSUME MarketInv, NEW f \in Fetchers, AnswersRescue(f) PROVE MarketInv'
<1> DEFINE p == Asked(f)
           answer == BatchAnswer(p)
           k == fetch[f]
           x == [k EXCEPT !.pc = "empty"]
<1>1. p \in Providers /\ MarketShape
  BY AskedTyped DEF MarketInv
<1>2. /\ answer \in Answers /\ (answer = "breaks" => outlook[p] = "breaks")
  BY <1>1, AnswerTyped
<1>3. UNCHANGED <<time, chain, outlook>> /\ k.pc = "rescue"
  BY DEF AnswersRescue, Asks
<1>4. CASE answer = "breaks" /\ Routed /\ ~LoopOver(f)
  <2>1. TriesNext(f) /\ health' = Failed(p) /\ KeepsCaches
    BY <1>4 DEF AnswersRescue
  <2> QED BY <1>2, <1>3, <1>4, <2>1, BreaksInv
<1>5. CASE ~(answer = "breaks" /\ Routed /\ ~LoopOver(f))
  <2>1. /\ health' = Succeeded(p) \/ health' = health
        /\ IF ~Usable(answer) THEN fetch' = [fetch EXCEPT ![f].pc = "empty"] /\ KeepsCaches
           ELSE IF fetch[f].raised THEN Stores(f, answer = "split", TRUE)
           ELSE Accepts(f, answer)
    BY <1>5 DEF AnswersRescue
  <2>2. Sound \subseteq Sound' /\ health' \in [Providers -> HealthRow]
    BY <1>1, <1>3, <2>1, HealthMoves
  <2>3. CASE ~Usable(answer)
    <3>1. /\ k \in FetchRow /\ Passed(chain, k) /\ k.sound \subseteq Sound /\ fetch \in [Fetchers -> FetchRow]
      BY FetchFound DEF MarketShape
    <3>2. fetch' = [fetch EXCEPT ![f] = x] /\ KeepsCaches
      <4> HIDE DEF Fetchers, FetchRow, p
      <4> QED BY <2>1, <2>3, <3>1
    <3>3. k.pc = "rescue"
      BY <1>3
    <3> HIDE DEF k
    <3>4. x \in FetchRow /\ x.pc = "empty" /\ x.at = k.at /\ x.sound = k.sound /\ (k.spoilt => x.spoilt)
      BY <3>1 DEF FetchRow
    <3> HIDE DEF x
    <3>5. Passed(chain, x)
      BY <3>1, <3>3, <3>4 DEF Passed
    <3> QED BY <1>3, <2>2, <3>1, <3>2, <3>4, <3>5, FetchTurns DEF KeepsCaches
  <2>4. CASE Usable(answer) /\ Accepts(f, answer)
    BY <1>2, <1>3, <2>2, <2>4, AcceptsInv
  <2>5. CASE Usable(answer) /\ Stores(f, answer = "split", TRUE)
    <3>1. (answer = "split") \in BOOLEAN /\ TRUE \in BOOLEAN
      OBVIOUS
    <3> QED BY <1>3, <2>2, <2>5, <3>1, StoresInv
  <2> QED BY <2>1, <2>3, <2>4, <2>5
<1> QED BY <1>4, <1>5

LEMMA GivesUpInv ==
    ASSUME MarketInv, NEW f \in Fetchers, GivesUp(f) PROVE MarketInv'
<1>1. /\ Rests(f) /\ KeepsCaches /\ UNCHANGED <<time, chain, outlook, health>> /\ MarketShape
      /\ SplitKeptOut /\ AnalysisFollowsHistory
  BY DEF GivesUp, MarketInv
<1>2. /\ SplitKeptOut' /\ AnalysisFollowsHistory' /\ newest' \in Times /\ health' \in [Providers -> HealthRow]
  BY <1>1 DEF SplitKeptOut, AnalysisFollowsHistory, MarketShape, KeepsCaches
<1> QED BY <1>1, <1>2, SoundSame, RestsInv DEF KeepsCaches

\* A provider that changes is no longer one that could deliver all along.
LEMMA OutlookChangesInv ==
    ASSUME MarketInv, NEW p \in Providers, NEW answer \in Outlooks[p], OutlookChanges(p, answer)
    PROVE  MarketInv'
<1> DEFINE lessOf(c) == [c EXCEPT !.sound = @ \ {p}]
<1>1. /\ outlook' = [outlook EXCEPT ![p] = answer] /\ KeepsCaches /\ UNCHANGED <<time, chain, health>>
      /\ MarketShape /\ SplitKeptOut /\ AnalysisFollowsHistory
      /\ fetch' = [f \in Fetchers |-> lessOf(fetch[f])]
  BY DEF OutlookChanges, MarketInv
<1>2. answer \in Answers
  BY MarketAssumption
<1>3. Sound \ {p} \subseteq Sound'
  <2> SUFFICES ASSUME NEW q \in Sound, q # p PROVE q \in Sound'
    OBVIOUS
  <2>1. q \in Providers /\ InChain(q) /\ outlook[q] = "ok" /\ Available(q)
    BY DEF Sound
  <2>2. InChain(q)' /\ outlook'[q] = "ok" /\ Available(q)'
    BY <1>1, <2>1 DEF InChain, Available, Routed, MarketShape
  <2> QED BY <2>1, <2>2 DEF Sound
<1>4. ASSUME NEW f \in Fetchers
      PROVE  LET x == lessOf(fetch[f])
             IN  x \in FetchRow /\ Passed(chain, x) /\ x.sound \subseteq Sound'
  <2> DEFINE k == fetch[f]
             x == lessOf(k)
  <2>1. /\ k \in FetchRow /\ Passed(chain, k) /\ k.sound \subseteq Sound
    BY FetchFound
  <2> HIDE DEF k
  <2>2. x \in FetchRow /\ x.pc = k.pc /\ x.at = k.at /\ x.sound = k.sound \ {p} /\ (k.spoilt => x.spoilt)
    BY <2>1 DEF FetchRow
  <2> HIDE DEF x
  <2>3. Passed(chain, x) /\ x.sound \subseteq Sound'
    BY <1>3, <2>1, <2>2 DEF Passed
  <2> QED BY <2>2, <2>3 DEF x, k
<1> HIDE DEF lessOf
<1>5. \A f \in Fetchers : fetch'[f] = lessOf(fetch[f])
  BY <1>1
<1>6. MarketShape'
  <2>1. fetch' \in [Fetchers -> FetchRow]
    <3> HIDE DEF Fetchers, FetchRow
    <3> QED BY <1>1, <1>4
  <2>2. outlook' \in [Providers -> Answers]
    BY <1>1, <1>2 DEF MarketShape
  <2> QED BY <1>1, <2>1, <2>2 DEF MarketShape, KeepsCaches
<1>7. SplitKeptOut' /\ AnalysisFollowsHistory'
  BY <1>1 DEF SplitKeptOut, AnalysisFollowsHistory, KeepsCaches
<1> QED BY <1>1, <1>4, <1>5, <1>6, <1>7 DEF MarketInv

LEMMA MarketRestInv ==
    ASSUME MarketInv, Clears \/ MarketTime \/ UNCHANGED marketVars PROVE MarketInv'
<1>1. /\ history' \in {history, None} /\ analysis' \in {analysis, None} /\ time' \in Times /\ time <= time'
      /\ UNCHANGED <<chain, outlook, health, fetch, newest>>
      /\ MarketShape /\ SplitKeptOut /\ AnalysisFollowsHistory
  <2>1. time \in Times /\ time \in Nat
    BY DEF MarketInv, MarketShape, Times
  <2>2. CASE Clears \/ UNCHANGED marketVars
    BY <2>1, <2>2 DEF Clears, marketVars, MarketInv, Times
  <2>3. CASE MarketTime
    BY <2>1, <2>3, MarketAssumption DEF MarketTime, MarketInv, Times, KeepsCaches
  <2> QED BY <2>2, <2>3
<1>2. SplitKeptOut' /\ AnalysisFollowsHistory' /\ MarketShape'
  BY <1>1 DEF SplitKeptOut, AnalysisFollowsHistory, MarketShape
<1>3. Sound \subseteq Sound'
  <2> SUFFICES ASSUME NEW q \in Sound PROVE q \in Sound'
    OBVIOUS
  <2>1. q \in Providers /\ InChain(q) /\ outlook[q] = "ok" /\ Available(q)
    BY DEF Sound
  <2>2. health[q].last \in Nat /\ time \in Nat /\ time' \in Nat /\ RouterCooldown \in Nat
    BY <1>1, <2>1, MarketAssumption DEF MarketShape, HealthRow, Times
  <2>3. InChain(q)' /\ outlook'[q] = "ok" /\ Available(q)'
    BY <1>1, <2>1, <2>2 DEF InChain, Available, Routed
  <2> QED BY <2>1, <2>3 DEF Sound
<1> QED BY <1>1, <1>2, <1>3 DEF MarketInv

LEMMA MarketInductive == MarketInv /\ [MarketNext]_marketVars => MarketInv'
<1> SUFFICES ASSUME MarketInv, [MarketNext]_marketVars PROVE MarketInv'
  OBVIOUS
<1>1. ASSUME NEW f \in Scanners, NEW force \in BOOLEAN, ScanFetches(f, force) PROVE MarketInv'
  BY <1>1, ScanFetchesInv
<1>2. ASSUME NEW f \in Analysts, NEW force \in BOOLEAN, AnalysisFetches(f, force) PROVE MarketInv'
  BY <1>2, AnalysisFetchesInv
<1>3. ASSUME NEW f \in Fetchers, StoresAnalysis(f) \/ PassesProvider(f) \/ AnswersBatch(f) \/ AnswersSingle(f)
      PROVE  MarketInv'
  BY <1>3, StoresAnalysisInv, PassesProviderInv, AnswersBatchInv, AnswersSingleInv
<1>4. ASSUME NEW f \in Fetchers, SingleIsOver(f) \/ AnswersRescue(f) \/ GivesUp(f) PROVE MarketInv'
  BY <1>4, SingleIsOverInv, AnswersRescueInv, GivesUpInv
<1>5. ASSUME NEW p \in Providers, NEW answer \in Outlooks[p], OutlookChanges(p, answer) PROVE MarketInv'
  BY <1>5, OutlookChangesInv
<1> QED BY <1>1, <1>2, <1>3, <1>4, <1>5, MarketRestInv DEF MarketNext

\* Of every number of threads, every outlook and every threshold of the router: who gets nothing has
\* passed nobody who could deliver all along, or was given a useless frame first, a split is in the
\* cache only where nobody looked, and an analysis is of the newest history (fetch_single, ProviderRouter, _is_split_anomaly, _store_cache).
THEOREM ReadersAreServed == MarketSpec => []ReadersServed
<1>1. MarketSpec => []MarketInv
  BY MarketBegin, MarketInductive, PTL DEF MarketSpec
<1>2. MarketInv => ReadersServed
  BY DEF MarketInv, Passed, ReadersServed, FailoverDelivers
<1> QED BY <1>1, <1>2, PTL


----
(* The scans of a page, however long the session and whatever is clicked.  *)
(* A key has one worker at most, so its scans follow one another; a result  *)
(* left for the session is older than the scan that runs; and what the      *)
(* script believes of its worker is so again when it has looked twice.      *)

SessionRow == [key : Keys, shown : Nat, inProgress : BOOLEAN, initialStarted : BOOLEAN]
ScanRow == [key : Keys, state : {"running", "abandoned", "page", "over"}]
ScriptRow == [pc : {"login", "rest", "failed", "ensure", "apply", "page", "final", "refresh", "sleep"},
              button : Buttons]

SessionShape ==
    /\ script \in ScriptRow /\ session \in SessionRow /\ scans \in Seq(ScanRow)
    /\ session.shown <= Len(scans)
    /\ pending \in [Keys -> Results] /\ active \subseteq Keys /\ clicks \in 0..MaxClicks
    /\ beside \in BOOLEAN

\* Each reset takes a click, and the keys to come are unused.
KeysFresh ==
    /\ session.key <= clicks + 1 /\ (script.button = "reset" => session.key <= clicks)
    /\ \A k \in Keys : k > session.key => k \notin active /\ pending[k] = NoResult

\* The scans of a key follow one another.
OneWorker ==
    /\ \A i \in ScanIds : scans[i].state = "running" => scans[i].key \in active
    /\ \A i, j \in ScanIds : scans[i].state = "running" /\ scans[j].state = "running"
                             /\ scans[i].key = scans[j].key => i = j
    /\ \A k \in Keys : pending[k] # NoResult => pending[k].scan \in ScanIds
    /\ \A i \in ScanIds : scans[i].state = "running" /\ pending[scans[i].key] # NoResult
                          => i > pending[scans[i].key].scan

ShownBehind ==
    ~beside =>
       /\ pending[session.key] # NoResult => pending[session.key].scan > session.shown
       /\ \A i \in ScanIds : scans[i].state = "running" /\ scans[i].key = session.key => i > session.shown
       /\ script.pc = "refresh" => pending[session.key] = NoResult /\ session.key \notin active

\* What the script knows of its worker.
Knows ==
    /\ script.pc = "apply" /\ pending[session.key] # NoResult => session.key \notin active
    /\ script.pc \in {"page", "final"} /\ ~session.inProgress =>
          pending[session.key] = NoResult /\ session.key \notin active
    /\ script.pc = "rest" => pending[session.key] = NoResult /\ session.key \notin active
    /\ script.pc = "refresh" => Len(scans) > 0

SessionsInv == SessionShape /\ KeysFresh /\ OneWorker /\ ShownBehind /\ Knows

LEMMA SessionBegins == SessionInit => SessionsInv
<1> SUFFICES ASSUME SessionInit PROVE SessionsInv
  OBVIOUS
<1>1. MaxClicks \in Nat /\ 1 \in Keys
  BY SessionAssumption DEF Keys
<1>2. /\ session = [key |-> 1, shown |-> 0, inProgress |-> FALSE, initialStarted |-> FALSE]
      /\ script = [pc |-> "login", button |-> "none"] /\ scans = <<>> /\ beside = FALSE /\ clicks = 0
      /\ active = {} /\ pending = [k \in Keys |-> NoResult]
  BY DEF SessionInit, NewSession
<1>3. session \in SessionRow /\ script \in ScriptRow /\ session.key = 1 /\ session.shown = 0
      /\ script.pc = "login" /\ script.button = "none"
  BY <1>1, <1>2 DEF SessionRow, ScriptRow, Buttons
<1>4. scans \in Seq(ScanRow) /\ Len(scans) = 0 /\ ScanIds = {}
  BY <1>2 DEF ScanIds
<1>5. pending \in [Keys -> Results] /\ \A k \in Keys : pending[k] = NoResult
  BY <1>2 DEF Results
<1> HIDE DEF Keys, SessionRow, ScriptRow, ScanRow, Results, ScanIds
<1>6. SessionShape
  <2>1. clicks \in 0..MaxClicks /\ active \subseteq Keys /\ session.shown <= Len(scans)
    BY <1>1, <1>2, <1>3, <1>4
  <2>2. beside \in BOOLEAN
    BY <1>2
  <2> QED BY <1>3, <1>4, <1>5, <2>1, <2>2 DEF SessionShape
<1>7. KeysFresh
  BY <1>1, <1>2, <1>3, <1>5 DEF KeysFresh, Keys
<1>8. OneWorker
  BY <1>4, <1>5 DEF OneWorker
<1>9. ShownBehind /\ Knows
  BY <1>1, <1>3, <1>4, <1>5 DEF ShownBehind, Knows
<1> QED BY <1>6, <1>7, <1>8, <1>9 DEF SessionsInv

\* The session after a result has been looked for.
LEMMA AppliedRow ==
    ASSUME SessionsInv
    PROVE  LET k == session.key
               r == pending[k]
           IN  /\ Applied \in SessionRow /\ Applied.key = k /\ Applied.shown <= Len(scans)
               /\ Applied.shown = session.shown \/ (r # NoResult /\ Applied.shown = r.scan)
               /\ r = NoResult => Applied.shown = session.shown /\ (Applied.inProgress <=> k \in active)
               /\ r # NoResult => ~Applied.inProgress
<1> DEFINE k == session.key
           r == pending[k]
           b == k \in active
           one == [session EXCEPT !.inProgress = b]
           n == IF r.ok THEN r.scan ELSE session.shown
           two == [session EXCEPT !.inProgress = FALSE]
           three == [two EXCEPT !.shown = n]
<1>1. /\ session \in SessionRow /\ session.key \in Keys /\ r \in Results /\ Len(scans) \in Nat
      /\ session.shown <= Len(scans) /\ session.shown \in Nat
      /\ (r # NoResult => r.scan \in 1..Len(scans))
  BY DEF SessionsInv, SessionShape, SessionRow, OneWorker, ScanIds
<1>2. CASE r = NoResult
  <2>1. Applied = one
    BY <1>2 DEF Applied
  <2>2. b \in BOOLEAN
    OBVIOUS
  <2> HIDE DEF b
  <2>3. one \in SessionRow /\ one.key = session.key /\ one.shown = session.shown /\ (one.inProgress <=> b)
    BY <1>1, <2>2 DEF SessionRow
  <2> HIDE DEF one
  <2> QED BY <1>1, <1>2, <2>1, <2>3 DEF b
<1>3. CASE r # NoResult
  <2>1. Applied = three
    <3>1. Applied = [session EXCEPT !.inProgress = FALSE, !.shown = IF r.ok THEN r.scan ELSE @]
      BY <1>3 DEF Applied
    <3>2. [session EXCEPT !.inProgress = FALSE, !.shown = IF r.ok THEN r.scan ELSE @]
          = [session EXCEPT !.inProgress = FALSE, !.shown = n]
      BY Zenon
    <3>3. three = [session EXCEPT !.inProgress = FALSE, !.shown = n]
      BY Zenon
    <3> QED BY <3>1, <3>2, <3>3
  <2>2. n \in Nat /\ n <= Len(scans) /\ n \in {session.shown, r.scan}
    BY <1>1, <1>3
  <2>3. two \in SessionRow /\ two.key = session.key /\ ~two.inProgress
    BY <1>1 DEF SessionRow
  <2> HIDE DEF two, n
  <2>4. three \in SessionRow /\ three.key = session.key /\ ~three.inProgress /\ three.shown = n
    BY <2>2, <2>3 DEF SessionRow
  <2> HIDE DEF three
  <2> QED BY <1>1, <1>3, <2>1, <2>2, <2>4
<1> QED BY <1>2, <1>3

\* The scans and their numbers.
LEMMA ScansTyped ==
    ASSUME SessionsInv
    PROVE  /\ Len(scans) \in Nat /\ ScanIds = 1..Len(scans) /\ scans \in Seq(ScanRow)
           /\ \A i \in ScanIds : scans[i] \in ScanRow /\ scans[i].key \in Keys
           /\ session.key \in Keys /\ session.shown \in Nat /\ script \in ScriptRow
<1>1. scans \in Seq(ScanRow) /\ session \in SessionRow /\ script \in ScriptRow
  BY DEF SessionsInv, SessionShape
<1>2. Len(scans) \in Nat /\ \A i \in 1..Len(scans) : scans[i] \in ScanRow
  <2> HIDE DEF ScanRow
  <2> QED BY <1>1
<1>3. \A i \in 1..Len(scans) : scans[i].key \in Keys
  BY <1>2 DEF ScanRow
<1>4. session.key \in Keys /\ session.shown \in Nat
  BY <1>1 DEF SessionRow
<1> QED BY <1>1, <1>2, <1>3, <1>4 DEF ScanIds

\* A scan more, of the page or of a worker.
LEMMA OneScanMore ==
    ASSUME SessionsInv, NEW s \in ScanRow, scans' = Append(scans, s)
    PROVE  /\ scans' \in Seq(ScanRow) /\ Len(scans') = Len(scans) + 1 /\ ScanIds' = 1..(Len(scans) + 1)
           /\ \A i \in ScanIds : i \in ScanIds' /\ scans'[i] = scans[i] /\ i # Len(scans) + 1
           /\ scans'[Len(scans) + 1] = s
<1>1. scans \in Seq(ScanRow) /\ Len(scans) \in Nat /\ ScanIds = 1..Len(scans)
  BY ScansTyped
<1> HIDE DEF ScanRow
<1>2. /\ scans' \in Seq(ScanRow) /\ Len(scans') = Len(scans) + 1
      /\ \A i \in 1..Len(scans) : scans'[i] = scans[i]
      /\ scans'[Len(scans) + 1] = s
  BY <1>1
<1> QED BY <1>1, <1>2 DEF ScanIds

\* A scan that changes its state.
LEMMA OneScanTurns ==
    ASSUME SessionsInv, NEW n \in ScanIds, NEW state \in {"abandoned", "over"},
           scans' = [scans EXCEPT ![n].state = state]
    PROVE  /\ scans' \in Seq(ScanRow) /\ Len(scans') = Len(scans) /\ ScanIds' = ScanIds
           /\ \A i \in ScanIds : /\ scans'[i].key = scans[i].key
                                 /\ scans'[i].state = IF i = n THEN state ELSE scans[i].state
<1>1. scans \in Seq(ScanRow) /\ Len(scans) \in Nat /\ ScanIds = 1..Len(scans)
      /\ \A i \in ScanIds : scans[i] \in ScanRow
  BY ScansTyped
<1> DEFINE x == [scans[n] EXCEPT !.state = state]
<1>2. x \in ScanRow /\ x.key = scans[n].key /\ x.state = state
  BY <1>1 DEF ScanRow
<1>3. scans' = [scans EXCEPT ![n] = x]
  <2> HIDE DEF ScanRow
  <2> QED BY <1>1
<1> HIDE DEF x, ScanRow
<1>4. /\ scans' \in Seq(ScanRow) /\ Len(scans') = Len(scans)
      /\ \A i \in 1..Len(scans) : scans'[i] = IF i = n THEN x ELSE scans[i]
  BY <1>1, <1>2, <1>3
<1> QED BY <1>1, <1>2, <1>4 DEF ScanIds

\* The parts of the invariant that a run of the script leaves alone, as long as the scans do not change
\* and only a result of its own key is taken.
LEMMA ScriptKeeps ==
    ASSUME SessionsInv, UNCHANGED scans, session'.key = session.key,
           pending' \in {pending, [pending EXCEPT ![session.key] = NoResult]},
           active' \in {active, active \cup {session.key}},
           clicks' \in 0..MaxClicks, clicks' >= clicks, beside' \in BOOLEAN,
           script' \in ScriptRow, session' \in SessionRow, session'.shown <= Len(scans),
           script'.button = "reset" => session.key <= clicks'
    PROVE  SessionShape' /\ KeysFresh' /\ OneWorker'
<1> DEFINE k == session.key
<1>1. /\ k \in Keys /\ pending \in [Keys -> Results] /\ NoResult \in Results /\ active \subseteq Keys
      /\ clicks \in Nat /\ clicks' \in Nat
  BY ScansTyped, SessionAssumption DEF SessionsInv, SessionShape, Results
<1>2. k \in Nat
  BY <1>1 DEF Keys
<1> HIDE DEF Keys, Results
<1>3. /\ pending' \in [Keys -> Results]
      /\ \A j \in Keys : pending'[j] # NoResult => pending'[j] = pending[j]
  BY <1>1
<1>4. active' \subseteq Keys /\ active \subseteq active' /\ \A j \in Keys : j # k => (j \in active' <=> j \in active)
  BY <1>1
<1>5. SessionShape'
  BY <1>3, <1>4 DEF SessionsInv, SessionShape, Keys, Results
<1>6. KeysFresh'
  <2>1. session'.key <= clicks' + 1 /\ (script'.button = "reset" => session'.key <= clicks')
    BY <1>1, <1>2 DEF SessionsInv, KeysFresh
  <2>2. ASSUME NEW j \in Keys, j > session'.key PROVE j \notin active' /\ pending'[j] = NoResult
    <3>1. j > k /\ j # k
      BY <1>2, <2>2
    <3> QED BY <1>3, <1>4, <3>1 DEF SessionsInv, KeysFresh
  <2> QED BY <2>1, <2>2 DEF KeysFresh, Keys
<1>7. OneWorker'
  <2>1. ScanIds' = ScanIds /\ \A i \in ScanIds : scans[i].key \in Keys
    BY ScansTyped DEF ScanIds
  <2> QED BY <1>3, <1>4, <2>1 DEF SessionsInv, OneWorker, Keys
<1> QED BY <1>5, <1>6, <1>7

Stops == {"login", "rest", "failed", "ensure", "apply", "page", "final", "refresh", "sleep"}

LEMMA RunsOnRow ==
    ASSUME SessionsInv, NEW pc \in Stops, RunsOn(pc)
    PROVE  script' \in ScriptRow /\ script'.pc = pc /\ script'.button = script.button
BY ScansTyped DEF RunsOn, ScriptRow, Stops

LEMMA ComesRow ==
    ASSUME SessionsInv, NEW button \in Buttons, Comes(button)
    PROVE  /\ script' \in ScriptRow /\ script'.pc \in {"login", "ensure"} /\ script'.button = button
           /\ clicks' \in 0..MaxClicks /\ clicks' >= clicks /\ session.key <= clicks'
<1>1. script' = [pc |-> IF button = "logout" THEN "login" ELSE "ensure", button |-> button]
      /\ clicks' = clicks + 1 /\ clicks < MaxClicks
  BY DEF Comes
<1>2. clicks \in 0..MaxClicks /\ MaxClicks \in Nat /\ session.key <= clicks + 1 /\ session.key \in Nat
  BY ScansTyped, SessionAssumption DEF SessionsInv, SessionShape, KeysFresh, Keys
<1>3. script' \in ScriptRow /\ script'.pc \in {"login", "ensure"} /\ script'.button = button
  BY <1>1 DEF ScriptRow
<1> QED BY <1>1, <1>2, <1>3

LEMMA AgainRow ==
    ASSUME RunsAgain
    PROVE  script' \in ScriptRow /\ script'.pc = "ensure" /\ script'.button = "none"
BY DEF RunsAgain, ScriptRow, Buttons

\* A step of the script that starts no scan, and shows what it has shown or the result it takes.
LEMMA ScriptStep ==
    ASSUME SessionsInv, UNCHANGED <<scans, beside>>, session' \in SessionRow, session'.key = session.key,
           script' \in ScriptRow, script'.button = "reset" => session.key <= clicks',
           clicks' \in 0..MaxClicks, clicks' >= clicks,
           active' \in {active, active \cup {session.key}},
           \/ pending' = pending /\ session'.shown = session.shown
           \/ /\ pending' = [pending EXCEPT ![session.key] = NoResult]
              /\ \/ session'.shown = session.shown
                 \/ pending[session.key] # NoResult /\ session'.shown = pending[session.key].scan,
           script'.pc # "refresh", Knows'
    PROVE  SessionsInv'
<1> DEFINE k == session.key
           r == pending[k]
<1>1. /\ k \in Keys /\ Len(scans) \in Nat /\ ScanIds = 1..Len(scans) /\ session.shown \in Nat
      /\ session.shown <= Len(scans) /\ pending \in [Keys -> Results]
      /\ (r # NoResult => r.scan \in 1..Len(scans))
  BY ScansTyped DEF SessionsInv, SessionShape, OneWorker
<1>2. session'.shown <= Len(scans) /\ beside' \in BOOLEAN
  BY <1>1 DEF SessionsInv, SessionShape
<1>3. pending' \in {pending, [pending EXCEPT ![session.key] = NoResult]}
  OBVIOUS
<1>4. SessionShape' /\ KeysFresh' /\ OneWorker'
  BY <1>2, <1>3, ScriptKeeps
<1>5. ShownBehind'
  <2> SUFFICES ASSUME ~beside'
               PROVE  /\ pending'[k] # NoResult => pending'[k].scan > session'.shown
                      /\ \A i \in ScanIds : scans[i].state = "running" /\ scans[i].key = k => i > session'.shown
    BY ScansTyped DEF ShownBehind, ScanIds
  <2>1. /\ r # NoResult => r.scan > session.shown
        /\ \A i \in ScanIds : scans[i].state = "running" /\ scans[i].key = k => i > session.shown
        /\ \A i \in ScanIds : scans[i].state = "running" /\ scans[i].key = k /\ r # NoResult => i > r.scan
    BY DEF SessionsInv, ShownBehind, OneWorker
  <2>2. CASE pending' = pending /\ session'.shown = session.shown
    BY <2>1, <2>2
  <2>3. CASE pending' = [pending EXCEPT ![session.key] = NoResult]
    <3>1. pending'[k] = NoResult
      BY <1>1, <2>3
    <3>2. session'.shown = session.shown \/ (r # NoResult /\ session'.shown = r.scan)
      BY <2>3
    <3> QED BY <2>1, <3>1, <3>2
  <2> QED BY <2>2, <2>3
<1> QED BY <1>4, <1>5 DEF SessionsInv

\* A worker is started for a session that has none.
LEMMA StartStep ==
    ASSUME SessionsInv, MayStart, UNCHANGED <<beside, clicks>>,
           session' \in SessionRow, session'.key = session.key, session'.inProgress,
           scans' = Append(scans, [key |-> session.key, state |-> "running"]),
           active' = active \cup {session.key},
           script' \in ScriptRow, script'.button = "reset" => script.button = "reset",
           \/ /\ pending' = pending /\ session'.shown = session.shown /\ script'.pc \in {"ensure", "final"}
           \/ /\ pending' = [pending EXCEPT ![session.key] = NoResult] /\ script'.pc = "apply"
              /\ \/ session'.shown = session.shown
                 \/ pending[session.key] # NoResult /\ session'.shown = pending[session.key].scan
    PROVE  SessionsInv'
<1> DEFINE k == session.key
           r == pending[k]
           s == [key |-> k, state |-> "running"]
           n == Len(scans) + 1
<1>1. /\ k \in Keys /\ Len(scans) \in Nat /\ ScanIds = 1..Len(scans) /\ session.shown \in Nat
      /\ session.shown <= Len(scans) /\ pending \in [Keys -> Results] /\ active \subseteq Keys
      /\ (r # NoResult => r.scan \in 1..Len(scans)) /\ NoResult \in Results /\ k \in Nat
      /\ clicks \in 0..MaxClicks /\ beside \in BOOLEAN /\ k \notin active
      /\ \A i \in ScanIds : scans[i].key \in Keys
  BY ScansTyped DEF SessionsInv, SessionShape, OneWorker, Results, Keys, MayStart
<1>2. s \in ScanRow /\ s.key = k /\ s.state = "running" /\ scans' = Append(scans, s)
  BY <1>1 DEF ScanRow
<1> HIDE DEF s
<1>3. /\ scans' \in Seq(ScanRow) /\ Len(scans') = n /\ ScanIds' = 1..n
      /\ \A i \in ScanIds : i \in ScanIds' /\ scans'[i] = scans[i] /\ i # n
      /\ scans'[n] = s
  BY <1>2, OneScanMore
<1>4. \A i \in ScanIds' : i \in ScanIds \/ i = n
  BY <1>1, <1>3
<1>5. /\ pending' \in [Keys -> Results]
      /\ \A j \in Keys : pending'[j] # NoResult => pending'[j] = pending[j]
  <2> HIDE DEF Keys, Results
  <2> QED BY <1>1
<1>6. session'.shown \in Nat /\ session'.shown <= Len(scans)
  BY <1>1
<1>7. SessionShape'
  BY <1>1, <1>3, <1>5, <1>6 DEF SessionShape
<1>8. KeysFresh'
  <2>1. session'.key <= clicks' + 1 /\ (script'.button = "reset" => session'.key <= clicks')
    BY DEF SessionsInv, KeysFresh
  <2>2. \A j \in Keys : j > k => j # k /\ j \notin active' /\ pending'[j] = NoResult
    <3> SUFFICES ASSUME NEW j \in Keys, j > k PROVE j # k /\ j \notin active' /\ pending'[j] = NoResult
      OBVIOUS
    <3>1. j # k /\ j \notin active /\ pending[j] = NoResult
      BY <1>1 DEF SessionsInv, KeysFresh
    <3> QED BY <1>5, <3>1
  <2> QED BY <2>1, <2>2 DEF KeysFresh
<1>9. \A i \in ScanIds : scans[i].state = "running" => scans[i].key # k /\ scans[i].key \in active
  BY <1>1 DEF SessionsInv, OneWorker
<1>10. OneWorker'
  <2>1. \A i \in ScanIds' : scans'[i].state = "running" => scans'[i].key \in active'
    BY <1>2, <1>3, <1>4, <1>9
  <2>2. \A i, j \in ScanIds' : scans'[i].state = "running" /\ scans'[j].state = "running"
                               /\ scans'[i].key = scans'[j].key => i = j
    BY <1>2, <1>3, <1>4, <1>9 DEF SessionsInv, OneWorker
  <2>3. \A j \in Keys : pending'[j] # NoResult => pending'[j].scan \in ScanIds'
    BY <1>3, <1>5 DEF SessionsInv, OneWorker
  <2>4. \A i \in ScanIds' : scans'[i].state = "running" /\ pending'[scans'[i].key] # NoResult
                            => i > pending'[scans'[i].key].scan
    <3> SUFFICES ASSUME NEW i \in ScanIds', scans'[i].state = "running", pending'[scans'[i].key] # NoResult
                 PROVE  i > pending'[scans'[i].key].scan
      OBVIOUS
    <3>1. CASE i \in ScanIds
      BY <1>1, <1>3, <1>5, <3>1 DEF SessionsInv, OneWorker
    <3>2. CASE i = n
      <4>1. scans'[i].key = k
        BY <1>2, <1>3, <3>2
      <4>2. pending'[k] = r /\ r # NoResult
        BY <1>1, <1>5, <4>1
      <4>3. r.scan \in 1..Len(scans)
        BY <1>1, <4>2
      <4> HIDE DEF r
      <4> QED BY <1>1, <3>2, <4>1, <4>2, <4>3
    <3> QED BY <1>4, <3>1, <3>2
  <2> QED BY <2>1, <2>2, <2>3, <2>4 DEF OneWorker
<1>11. ShownBehind'
  <2>1. ASSUME ~beside', pending'[k] # NoResult PROVE pending'[k].scan > session'.shown
    <3>1. pending' = pending /\ session'.shown = session.shown
      BY <1>1, <2>1
    <3> QED BY <2>1, <3>1 DEF SessionsInv, ShownBehind
  <2>2. ASSUME NEW i \in ScanIds', scans'[i].state = "running", scans'[i].key = k PROVE i > session'.shown
    <3>1. i = n
      BY <1>3, <1>4, <1>9, <2>2
    <3> QED BY <1>1, <1>6, <3>1
  <2>3. script'.pc # "refresh"
    OBVIOUS
  <2> QED BY <2>1, <2>2, <2>3 DEF ShownBehind
<1>12. Knows'
  BY <1>1 DEF Knows
<1> QED BY <1>7, <1>8, <1>10, <1>11, <1>12 DEF SessionsInv

LEMMA EnsuresDataInv == ASSUME SessionsInv, EnsuresData PROVE SessionsInv'
<1> DEFINE k == session.key
           r == pending[k]
<1>1. /\ script.pc = "ensure" /\ RunsOn("apply") /\ UNCHANGED <<beside, clicks>>
      /\ pending' = [pending EXCEPT ![k] = NoResult]
  BY DEF EnsuresData, Script, TakesPending
<1>11. StartsNone(Applied) \/ StartsNone(FirstStarted) \/ (MayStart /\ StartsFrom(FirstStarted))
  BY Zenon DEF EnsuresData
<1>2. script' \in ScriptRow /\ script'.pc = "apply" /\ script'.button = script.button
  BY <1>1, RunsOnRow DEF Stops
<1>3. /\ Applied \in SessionRow /\ Applied.key = k
      /\ Applied.shown = session.shown \/ (r # NoResult /\ Applied.shown = r.scan)
  BY AppliedRow
<1> HIDE DEF Applied
<1>4. /\ FirstStarted \in SessionRow /\ FirstStarted.key = k /\ FirstStarted.shown = Applied.shown
  BY <1>3 DEF FirstStarted, SessionRow
<1> HIDE DEF FirstStarted
<1>5. /\ k \in Keys /\ pending \in [Keys -> Results] /\ clicks \in 0..MaxClicks
      /\ (script.button = "reset" => k <= clicks) /\ clicks \in Nat
  BY ScansTyped, SessionAssumption DEF SessionsInv, SessionShape, KeysFresh
<1>6. ASSUME NEW s \in SessionRow, s.key = k, s.shown = Applied.shown, StartsNone(s)
      PROVE  SessionsInv'
  <2>1. session' = s /\ UNCHANGED <<scans, active>>
    BY <1>6 DEF StartsNone
  <2>2. pending'[k] = NoResult
    BY <1>1, <1>5
  <2>3. Knows'
    BY <1>2, <1>6, <2>1, <2>2 DEF Knows
  <2> QED BY <1>1, <1>2, <1>3, <1>5, <1>6, <2>1, <2>3, ScriptStep
<1>7. ASSUME MayStart, StartsFrom(FirstStarted)
      PROVE  SessionsInv'
  <2> DEFINE x == [FirstStarted EXCEPT !.inProgress = TRUE]
  <2>1. x \in SessionRow /\ x.key = k /\ x.shown = Applied.shown /\ x.inProgress
    BY <1>4 DEF SessionRow
  <2>2. /\ session' = x /\ scans' = Append(scans, [key |-> session.key, state |-> "running"])
        /\ active' = active \cup {session.key}
    BY <1>7 DEF StartsFrom
  <2> HIDE DEF x
  <2> QED BY <1>1, <1>2, <1>3, <1>7, <2>1, <2>2, StartStep
<1> QED BY <1>3, <1>4, <1>6, <1>7, <1>11

LEMMA AppliesAgainInv == ASSUME SessionsInv, AppliesAgain PROVE SessionsInv'
<1> DEFINE k == session.key
           r == pending[k]
<1>1. /\ script.pc = "apply" /\ RunsOn("page") /\ UNCHANGED <<scans, active, beside, clicks>>
      /\ pending' = [pending EXCEPT ![k] = NoResult] /\ session' = Applied
  BY DEF AppliesAgain, Script, TakesPending
<1>2. script' \in ScriptRow /\ script'.pc = "page" /\ script'.button = script.button
  BY <1>1, RunsOnRow DEF Stops
<1>3. /\ Applied \in SessionRow /\ Applied.key = k
      /\ Applied.shown = session.shown \/ (r # NoResult /\ Applied.shown = r.scan)
      /\ r = NoResult => (Applied.inProgress <=> k \in active)
  BY AppliedRow
<1> HIDE DEF Applied
<1>4. /\ k \in Keys /\ pending \in [Keys -> Results] /\ clicks \in 0..MaxClicks
      /\ (script.button = "reset" => k <= clicks) /\ clicks \in Nat
      /\ (r # NoResult => k \notin active)
  BY <1>1, ScansTyped, SessionAssumption DEF SessionsInv, SessionShape, KeysFresh, Knows
<1>5. pending'[k] = NoResult
  BY <1>1, <1>4
<1>6. Knows'
  BY <1>1, <1>2, <1>3, <1>4, <1>5 DEF Knows
<1> QED BY <1>1, <1>2, <1>3, <1>4, <1>6, ScriptStep

\* A run of the script, or a click, that leaves the session and its worker alone.
LEMMA NothingStarts ==
    ASSUME SessionsInv, UNCHANGED <<session, scans, pending, active, beside>>,
           script' \in ScriptRow, script'.button = "reset" => session.key <= clicks',
           clicks' \in 0..MaxClicks, clicks' >= clicks, script'.pc # "refresh", Knows'
    PROVE  SessionsInv'
<1>1. session \in SessionRow
  BY DEF SessionsInv, SessionShape
<1> QED BY <1>1, ScriptStep

LEMMA ServesPageInv == ASSUME SessionsInv, ServesPage PROVE SessionsInv'
<1> DEFINE x == [session EXCEPT !.inProgress = TRUE]
<1>1. /\ script.pc = "page" /\ UNCHANGED <<pending, beside, clicks>>
      /\ session \in SessionRow /\ clicks \in 0..MaxClicks /\ clicks \in Nat
      /\ (script.button = "reset" => session.key <= clicks)
  BY SessionAssumption DEF ServesPage, Script, SessionsInv, SessionShape, KeysFresh
<1>2. x \in SessionRow /\ x.key = session.key /\ x.shown = session.shown /\ x.inProgress
  BY <1>1 DEF SessionRow
<1>3. CASE RunsOn("final") /\ StartsNone(session)
  <2>1. script' \in ScriptRow /\ script'.pc = "final" /\ script'.button = script.button
    BY <1>3, RunsOnRow DEF Stops
  <2>2. UNCHANGED <<session, scans, active>>
    BY <1>3 DEF StartsNone
  <2>3. Knows'
    BY <1>1, <2>1, <2>2 DEF Knows, SessionsInv
  <2> QED BY <1>1, <2>1, <2>2, <2>3, NothingStarts
<1>4. ASSUME MayStart, StartsFrom(session), script' \in ScriptRow, script'.pc \in {"ensure", "final"},
             script'.button = "reset" => script.button = "reset"
      PROVE  SessionsInv'
  <2>1. /\ session' = x /\ scans' = Append(scans, [key |-> session.key, state |-> "running"])
        /\ active' = active \cup {session.key}
    BY <1>4 DEF StartsFrom
  <2> HIDE DEF x
  <2> QED BY <1>1, <1>2, <1>4, <2>1, StartStep
<1>5. CASE MayStart /\ RunsAgain /\ StartsFrom(session)
  BY <1>4, <1>5, AgainRow
<1>6. CASE MayStart /\ RunsOn("final") /\ StartsFrom(session)
  BY <1>4, <1>6, RunsOnRow DEF Stops
<1> QED BY <1>3, <1>5, <1>6 DEF ServesPage

\* A new key, for which nothing has ever been done.
LEMMA ResetsInv == ASSUME SessionsInv, Resets PROVE SessionsInv'
<1> DEFINE k == session.key + 1
<1>1. /\ script.pc = "page" /\ script.button = "reset" /\ session' = NewSession(k)
      /\ script' = [pc |-> "login", button |-> "none"]
      /\ UNCHANGED <<scans, pending, active, beside, clicks>>
  BY DEF Resets, Script
<1>2. /\ session.key \in Nat /\ session.key <= clicks /\ clicks \in 0..MaxClicks /\ MaxClicks \in Nat
      /\ Len(scans) \in Nat /\ ScanIds = 1..Len(scans) /\ session.key > 0
      /\ \A i \in ScanIds : scans[i].key \in Keys /\ scans[i].key \in Nat
  BY <1>1, ScansTyped, SessionAssumption DEF SessionsInv, SessionShape, KeysFresh, Keys
<1>3. k \in Keys /\ k \in Nat /\ k > session.key /\ k <= clicks + 1
  BY <1>2 DEF Keys
<1>4. k \notin active /\ pending[k] = NoResult
  BY <1>3 DEF SessionsInv, KeysFresh
<1>5. session' \in SessionRow /\ session'.key = k /\ session'.shown = 0
  BY <1>1, <1>3 DEF NewSession, SessionRow
<1>6. script' \in ScriptRow /\ script'.pc = "login" /\ script'.button = "none"
  BY <1>1 DEF ScriptRow, Buttons
<1>7. ScanIds' = ScanIds
  BY <1>1 DEF ScanIds
<1> HIDE DEF k
<1>8. SessionShape'
  BY <1>1, <1>2, <1>5, <1>6 DEF SessionsInv, SessionShape
<1>9. KeysFresh'
  <2>1. \A j \in Keys : j > k => j > session.key
    BY <1>2, <1>3 DEF Keys
  <2> QED BY <1>1, <1>3, <1>5, <1>6, <2>1 DEF SessionsInv, KeysFresh
<1>10. OneWorker'
  BY <1>1, <1>7 DEF SessionsInv, OneWorker
<1>11. ShownBehind' /\ Knows'
  <2>1. \A i \in ScanIds : scans[i].state = "running" => scans[i].key # k
    BY <1>4 DEF SessionsInv, OneWorker
  <2> QED BY <1>1, <1>4, <1>5, <1>6, <1>7, <2>1 DEF ShownBehind, Knows
<1> QED BY <1>8, <1>9, <1>10, <1>11 DEF SessionsInv

LEMMA RefreshesInv == ASSUME SessionsInv, Refreshes PROVE SessionsInv'
<1> DEFINE k == session.key
           s == [key |-> k, state |-> "page"]
           n == Len(scans) + 1
<1>1. /\ script.pc = "final" /\ session.shown # 0 /\ RunsOn("refresh") /\ scans' = Append(scans, s)
      /\ UNCHANGED <<session, pending, active, clicks>>
      /\ beside' = (beside \/ k \in active \/ pending[k] # NoResult)
  BY DEF Refreshes, Script
<1>2. /\ k \in Keys /\ Len(scans) \in Nat /\ ScanIds = 1..Len(scans) /\ session.shown \in Nat
      /\ session.shown <= Len(scans)
  BY ScansTyped DEF SessionsInv, SessionShape
<1>3. script' \in ScriptRow /\ script'.pc = "refresh" /\ script'.button = script.button
  BY <1>1, RunsOnRow DEF Stops
<1>4. s \in ScanRow /\ s.state = "page"
  BY <1>2 DEF ScanRow
<1> HIDE DEF s
<1>5. /\ scans' \in Seq(ScanRow) /\ Len(scans') = n /\ ScanIds' = 1..n
      /\ \A i \in ScanIds : i \in ScanIds' /\ scans'[i] = scans[i] /\ i # n
      /\ scans'[n] = s
  BY <1>1, <1>4, OneScanMore
<1>6. \A i \in ScanIds' : scans'[i].state = "running" => i \in ScanIds /\ scans'[i] = scans[i]
  BY <1>2, <1>4, <1>5
<1>7. SessionShape'
  BY <1>1, <1>2, <1>3, <1>5 DEF SessionsInv, SessionShape
<1>8. KeysFresh'
  BY <1>1, <1>3 DEF SessionsInv, KeysFresh
<1>9. OneWorker'
  BY <1>1, <1>5, <1>6 DEF SessionsInv, OneWorker
<1>10. ShownBehind'
  <2>1. ~beside' => ~beside /\ k \notin active /\ pending[k] = NoResult
    BY <1>1
  <2> QED BY <1>1, <1>6, <2>1 DEF SessionsInv, ShownBehind
<1>11. Knows'
  BY <1>2, <1>3, <1>5 DEF Knows
<1> QED BY <1>7, <1>8, <1>9, <1>10, <1>11 DEF SessionsInv

LEMMA EndsRunInv == ASSUME SessionsInv, EndsRun PROVE SessionsInv'
<1> DEFINE pc == IF session.inProgress THEN "sleep" ELSE "rest"
<1>1. /\ script.pc = "final" /\ RunsOn(pc) /\ UNCHANGED <<session, scans, pending, active, beside, clicks>>
      /\ clicks \in 0..MaxClicks /\ clicks \in Nat /\ (script.button = "reset" => session.key <= clicks)
      /\ pc \in Stops
  BY SessionAssumption DEF EndsRun, Script, Stops, SessionsInv, SessionShape, KeysFresh
<1>2. script' \in ScriptRow /\ script'.pc = pc /\ script'.button = script.button
  BY <1>1, RunsOnRow
<1>3. Knows'
  BY <1>1, <1>2 DEF Knows, SessionsInv
<1> QED BY <1>1, <1>2, <1>3, NothingStarts

\* The script has scanned by itself.
LEMMA PageScanned ==
    ASSUME SessionsInv, script.pc = "refresh", scans' = [scans EXCEPT ![Len(scans)].state = "over"],
           UNCHANGED <<pending, active, beside>>, session' \in SessionRow, session'.key = session.key,
           session'.shown \in {session.shown, Len(scans)}, script' \in ScriptRow,
           script'.pc \in {"ensure", "failed", "login"}, clicks' \in 0..MaxClicks, clicks' >= clicks,
           script'.button = "reset" => session.key <= clicks'
    PROVE  SessionsInv'
<1> DEFINE n == Len(scans)
<1>1. /\ n \in Nat /\ ScanIds = 1..n /\ session.shown <= n /\ n > 0 /\ session.key \in Nat
      /\ clicks \in Nat /\ clicks' \in Nat
  BY ScansTyped, SessionAssumption DEF SessionsInv, SessionShape, Knows, Keys
<1>2. n \in ScanIds
  BY <1>1
<1>3. /\ scans' \in Seq(ScanRow) /\ Len(scans') = n /\ ScanIds' = ScanIds
      /\ \A i \in ScanIds : /\ scans'[i].key = scans[i].key
                            /\ scans'[i].state = IF i = n THEN "over" ELSE scans[i].state
  BY <1>2, OneScanTurns
<1>4. \A i \in ScanIds : scans'[i].state = "running" => scans[i].state = "running"
  BY <1>3
<1>5. SessionShape'
  BY <1>1, <1>3 DEF SessionsInv, SessionShape
<1>6. KeysFresh'
  BY <1>1 DEF SessionsInv, KeysFresh
<1>7. OneWorker'
  BY <1>3, <1>4 DEF SessionsInv, OneWorker
<1>8. ShownBehind'
  <2>1. ~beside => pending[session.key] = NoResult /\ session.key \notin active
    BY DEF SessionsInv, ShownBehind
  <2> QED BY <1>3, <1>4, <2>1 DEF SessionsInv, OneWorker, ShownBehind
<1>9. Knows'
  BY DEF Knows
<1> QED BY <1>5, <1>6, <1>7, <1>8, <1>9 DEF SessionsInv

LEMMA RefreshedInv == ASSUME SessionsInv, Refreshed PROVE SessionsInv'
<1>1. /\ script.pc = "refresh" /\ scans' = [scans EXCEPT ![Len(scans)].state = "over"]
      /\ UNCHANGED <<pending, active, beside, clicks>> /\ session \in SessionRow
      /\ clicks \in 0..MaxClicks /\ clicks \in Nat /\ (script.button = "reset" => session.key <= clicks)
      /\ Len(scans) \in Nat
  BY ScansTyped, SessionAssumption DEF Refreshed, Script, SessionsInv, SessionShape, KeysFresh
<1>2. CASE RunsAgain /\ session' = [session EXCEPT !.shown = Len(scans), !.inProgress = FALSE]
  <2> DEFINE n == Len(scans)
             one == [session EXCEPT !.shown = n]
             two == [one EXCEPT !.inProgress = FALSE]
  <2>1. session' = two
    BY <1>2, Zenon
  <2>2. one \in SessionRow /\ one.key = session.key /\ one.shown = n
    <3>1. n \in Nat
      BY <1>1
    <3> HIDE DEF n
    <3> QED BY <1>1, <3>1 DEF SessionRow
  <2> HIDE DEF one
  <2>3. two \in SessionRow /\ two.key = session.key /\ two.shown = n
    BY <2>2 DEF SessionRow
  <2> HIDE DEF two
  <2> QED BY <1>1, <1>2, <2>1, <2>3, AgainRow, PageScanned
<1>3. CASE RunsOn("failed") /\ UNCHANGED session
  BY <1>1, <1>3, RunsOnRow, PageScanned DEF Stops
<1> QED BY <1>2, <1>3 DEF Refreshed

LEMMA ComesBackInv == ASSUME SessionsInv, ComesBack PROVE SessionsInv'
<1>1. /\ RunsAgain /\ UNCHANGED <<session, scans, pending, active, beside, clicks>>
      /\ clicks \in 0..MaxClicks /\ clicks \in Nat
  BY SessionAssumption DEF ComesBack, SessionsInv, SessionShape
<1>2. Knows'
  BY <1>1, AgainRow DEF Knows
<1> QED BY <1>1, <1>2, AgainRow, NothingStarts

LEMMA ClicksInv == ASSUME SessionsInv, NEW b \in Buttons, Clicks(b) PROVE SessionsInv'
<1>1. Comes(b) /\ UNCHANGED <<session, scans, pending, active, beside>>
  BY DEF Clicks
<1>2. Knows'
  BY <1>1, ComesRow DEF Knows
<1> QED BY <1>1, <1>2, ComesRow, NothingStarts

LEMMA LosesResultInv == ASSUME SessionsInv, NEW b \in Buttons, LosesResult(b) PROVE SessionsInv'
<1> DEFINE k == session.key
           r == pending[k]
           busy == k \in active
<1>1. Comes(b) /\ UNCHANGED <<scans, active, beside>> /\ pending' = [pending EXCEPT ![k] = NoResult]
  BY DEF LosesResult, TakesPending
<1>2. PICK s \in {session, Applied} : session' = [s EXCEPT !.inProgress = busy]
  BY DEF LosesResult
<1>3. /\ s \in SessionRow /\ s.key = k
      /\ s.shown = session.shown \/ (r # NoResult /\ s.shown = r.scan)
  BY AppliedRow DEF SessionsInv, SessionShape
<1>4. busy \in BOOLEAN
  OBVIOUS
<1> HIDE DEF busy
<1>5. session' \in SessionRow /\ session'.key = k /\ session'.shown = s.shown
  BY <1>2, <1>3, <1>4 DEF SessionRow
<1>6. Knows'
  BY <1>1, ComesRow DEF Knows
<1> QED BY <1>1, <1>3, <1>5, <1>6, ComesRow, ScriptStep

LEMMA LosesRefreshInv == ASSUME SessionsInv, NEW b \in Buttons, LosesRefresh(b) PROVE SessionsInv'
<1>1. /\ script.pc = "refresh" /\ Comes(b) /\ scans' = [scans EXCEPT ![Len(scans)].state = "over"]
      /\ UNCHANGED <<pending, active, beside>>
  BY DEF LosesRefresh, Script
<1>2. PICK n \in {session.shown, Len(scans)} : session' = [session EXCEPT !.shown = n]
  BY DEF LosesRefresh
<1>3. session \in SessionRow /\ n \in Nat
  BY ScansTyped DEF SessionsInv, SessionShape
<1>4. session' \in SessionRow /\ session'.key = session.key /\ session'.shown = n
  BY <1>2, <1>3 DEF SessionRow
<1> QED BY <1>1, <1>4, ComesRow, PageScanned

LEMMA LosesWorkerInv == ASSUME SessionsInv, NEW b \in Buttons, LosesWorker(b) PROVE SessionsInv'
<1> DEFINE k == session.key
           r == pending[k]
<1>1. Comes(b) /\ UNCHANGED <<scans, beside>> /\ active' = active \cup {k} /\ session \in SessionRow
  BY DEF LosesWorker, SessionsInv, SessionShape
<1>2. Knows'
  BY <1>1, ComesRow DEF Knows
<1>3. CASE UNCHANGED <<session, pending>>
  BY <1>1, <1>2, <1>3, ComesRow, ScriptStep
<1>4. CASE pending' = [pending EXCEPT ![k] = NoResult] /\ session' = FirstStarted
  <2>1. /\ Applied \in SessionRow /\ Applied.key = k
        /\ Applied.shown = session.shown \/ (r # NoResult /\ Applied.shown = r.scan)
    BY AppliedRow
  <2> HIDE DEF Applied
  <2>2. /\ FirstStarted \in SessionRow /\ FirstStarted.key = k /\ FirstStarted.shown = Applied.shown
    BY <2>1 DEF FirstStarted, SessionRow
  <2> HIDE DEF FirstStarted
  <2> QED BY <1>1, <1>2, <1>4, <2>1, <2>2, ComesRow, ScriptStep
<1> QED BY <1>3, <1>4 DEF LosesWorker, TakesPending

\* A worker that ends: what it leaves is newer than all that was shown, and it was the only one.
LEMMA WorkerEndsInv == ASSUME SessionsInv, NEW n \in ScanIds, WorkerEnds(n) PROVE SessionsInv'
<1> DEFINE k == scans[n].key
<1>1. PICK ok \in BOOLEAN, late \in BOOLEAN :
         /\ scans' = [scans EXCEPT ![n].state = IF late THEN "abandoned" ELSE "over"]
         /\ pending' = [pending EXCEPT ![k] = [scan |-> n, ok |-> ok]]
  BY DEF WorkerEnds
<1>2. scans[n].state = "running" /\ active' = active \ {k} /\ UNCHANGED <<script, session, beside, clicks>>
  BY DEF WorkerEnds
<1> DEFINE state == IF late THEN "abandoned" ELSE "over"
           r == [scan |-> n, ok |-> ok]
<1>3. /\ Len(scans) \in Nat /\ ScanIds = 1..Len(scans) /\ k \in Keys /\ session.key \in Keys
      /\ \A i \in ScanIds : scans[i].key \in Keys
      /\ pending \in [Keys -> Results] /\ active \subseteq Keys /\ k \in active
  BY <1>2, ScansTyped DEF SessionsInv, SessionShape, OneWorker
<1>4. state \in {"abandoned", "over"}
  OBVIOUS
<1>5. r \in Results /\ r.scan = n
  BY <1>3 DEF Results
<1> HIDE DEF r, state, Keys, Results
<1>6. /\ scans' \in Seq(ScanRow) /\ Len(scans') = Len(scans) /\ ScanIds' = ScanIds
      /\ \A i \in ScanIds : /\ scans'[i].key = scans[i].key
                            /\ scans'[i].state = IF i = n THEN state ELSE scans[i].state
  BY <1>1, <1>4, OneScanTurns DEF state
<1>7. /\ pending' \in [Keys -> Results] /\ \A j \in Keys : pending'[j] = IF j = k THEN r ELSE pending[j]
  BY <1>1, <1>3, <1>5 DEF r
<1>8. \A i \in ScanIds : scans'[i].state = "running" => /\ i # n /\ scans[i].state = "running"
                                                        /\ scans[i].key # k
  BY <1>2, <1>4, <1>6 DEF SessionsInv, OneWorker
<1>9. SessionShape'
  BY <1>2, <1>3, <1>6, <1>7 DEF SessionsInv, SessionShape
<1>10. KeysFresh'
  BY <1>2, <1>3, <1>7 DEF SessionsInv, KeysFresh
<1>11. OneWorker'
  <2>1. \A i \in ScanIds' : scans'[i].state = "running" => scans'[i].key \in active'
    BY <1>2, <1>6, <1>8 DEF SessionsInv, OneWorker
  <2>2. \A i, j \in ScanIds' : scans'[i].state = "running" /\ scans'[j].state = "running"
                               /\ scans'[i].key = scans'[j].key => i = j
    BY <1>6, <1>8 DEF SessionsInv, OneWorker
  <2>3. \A j \in Keys : pending'[j] # NoResult => pending'[j].scan \in ScanIds'
    BY <1>5, <1>6, <1>7 DEF SessionsInv, OneWorker
  <2>4. \A i \in ScanIds' : scans'[i].state = "running" /\ pending'[scans'[i].key] # NoResult
                            => i > pending'[scans'[i].key].scan
    BY <1>3, <1>6, <1>7, <1>8 DEF SessionsInv, OneWorker
  <2> QED BY <2>1, <2>2, <2>3, <2>4 DEF OneWorker
<1>12. ShownBehind'
  <2> SUFFICES ASSUME ~beside'
               PROVE  /\ pending'[session.key] # NoResult => pending'[session.key].scan > session.shown
                      /\ \A i \in ScanIds : scans'[i].state = "running" /\ scans'[i].key = session.key
                                            => i > session.shown
                      /\ script.pc = "refresh" => pending'[session.key] = NoResult /\ session.key \notin active'
    BY <1>2, <1>6 DEF ShownBehind
  <2>1. ~beside /\ (k = session.key => n > session.shown) /\ (script.pc = "refresh" => k # session.key)
    BY <1>2, <1>3 DEF SessionsInv, ShownBehind
  <2>2. pending'[session.key] = IF session.key = k THEN r ELSE pending[session.key]
    BY <1>3, <1>7
  <2> HIDE DEF k
  <2> QED BY <1>2, <1>5, <1>6, <1>8, <2>1, <2>2 DEF SessionsInv, ShownBehind
<1>13. Knows'
  <2>1. pending'[session.key] = IF session.key = k THEN r ELSE pending[session.key]
    BY <1>3, <1>7
  <2>2. k \notin active' /\ k \in active
    BY <1>2, <1>3
  <2> HIDE DEF k
  <2> QED BY <1>2, <1>6, <2>1, <2>2 DEF SessionsInv, Knows
<1> QED BY <1>9, <1>10, <1>11, <1>12, <1>13 DEF SessionsInv

LEMMA CollectorEndsInv == ASSUME SessionsInv, NEW n \in ScanIds, CollectorEnds(n) PROVE SessionsInv'
<1>1. /\ scans' = [scans EXCEPT ![n].state = "over"] /\ scans[n].state = "abandoned"
      /\ UNCHANGED <<script, session, pending, active, beside, clicks>>
  BY DEF CollectorEnds
<1>2. /\ scans' \in Seq(ScanRow) /\ Len(scans') = Len(scans) /\ ScanIds' = ScanIds
      /\ \A i \in ScanIds : /\ scans'[i].key = scans[i].key
                            /\ scans'[i].state = IF i = n THEN "over" ELSE scans[i].state
  BY <1>1, OneScanTurns
<1>3. \A i \in ScanIds : scans'[i].state = "running" => scans[i].state = "running"
  BY <1>2
<1>4. SessionShape' /\ KeysFresh' /\ Knows'
  BY <1>1, <1>2 DEF SessionsInv, SessionShape, KeysFresh, Knows
<1>5. OneWorker' /\ ShownBehind'
  BY <1>1, <1>2, <1>3 DEF SessionsInv, OneWorker, ShownBehind
<1> QED BY <1>4, <1>5 DEF SessionsInv

LEMMA SessionStutters == SessionsInv /\ UNCHANGED sessionVars => SessionsInv'
BY DEF SessionsInv, SessionShape, KeysFresh, OneWorker, ShownBehind, Knows, sessionVars, ScanIds

LEMMA SessionInductive == SessionsInv /\ [SessionNext]_sessionVars => SessionsInv'
<1> SUFFICES ASSUME SessionsInv, [SessionNext]_sessionVars PROVE SessionsInv'
  OBVIOUS
<1>1. ASSUME EnsuresData \/ AppliesAgain \/ ServesPage \/ Resets PROVE SessionsInv'
  BY <1>1, EnsuresDataInv, AppliesAgainInv, ServesPageInv, ResetsInv
<1>2. ASSUME Refreshes \/ EndsRun \/ Refreshed \/ ComesBack PROVE SessionsInv'
  BY <1>2, RefreshesInv, EndsRunInv, RefreshedInv, ComesBackInv
<1>3. ASSUME NEW b \in Buttons, Clicks(b) \/ LosesResult(b) \/ LosesRefresh(b) \/ LosesWorker(b)
      PROVE  SessionsInv'
  BY <1>3, ClicksInv, LosesResultInv, LosesRefreshInv, LosesWorkerInv
<1>4. ASSUME NEW i \in ScanIds, WorkerEnds(i) \/ CollectorEnds(i) PROVE SessionsInv'
  BY <1>4, WorkerEndsInv, CollectorEndsInv
<1> QED BY <1>1, <1>2, <1>3, <1>4, SessionStutters DEF SessionNext

\* However long a session lasts, and wherever a click cuts off its script: what is still to be shown is
\* newer than what is shown, a key has one worker, and a script that rests has left nothing behind
\* (start_background_scan, apply_pending_scan_result, sync_runtime_feedback).
THEOREM PageFollows == SessionSpec => []PageFollowsScans
<1>1. SessionSpec => []SessionsInv
  BY SessionBegins, SessionInductive, PTL DEF SessionSpec
<1>2. SessionsInv => PageFollowsScans
  BY DEF SessionsInv, OneWorker, ShownBehind, Knows, PageFollowsScans, ShownGoesForward,
         NothingIsLeftWaiting, Script
<1> QED BY <1>1, <1>2, PTL


----
(* The messages: how many a window holds, what is reported of them, and how  *)
(* far the alarms lie apart, whatever the number of threads, tries and       *)
(* pauses.                                                                 *)
Clocked == {"head", "age", "pop", "room", "take"}
Underway == {"look", "full", "post", "sleep", "pause"} \cup Clocked
Places == Underway \cup {"rest", "alarm"}
MessageRow == [arrived : Nat, lost : Nat, outcome : {"pending", "sent", "dead", "failed", "broken"}]
AlarmRow == [at : Nat, seen : Nat]

\* The pauses are powers of two, of which nothing is used: their times are of some set.
SenderRow(T) == [pc : Places, at : Nat, until : T, tries : Nat, transient : Nat, limited : BOOLEAN,
                 m : Nat, seen : Nat]
OutboxShape(T) ==
    /\ Nat \subseteq T /\ sender \in [Senders -> SenderRow(T)]
    /\ second \in Nat /\ lastAlarm \in Int
    /\ slots \in Seq(Nat) /\ taken \in Seq(Nat)
    /\ message \in Seq(MessageRow) /\ alarms \in Seq(AlarmRow)

\* Whoever is under way has a message of its own that is not decided.
Honest(e) == (e.outcome = "sent" => e.arrived = e.lost + 1) /\ (e.outcome # "sent" => e.arrived = e.lost)
MessagesInv ==
    /\ \A i \in 1..Len(message) : Honest(message[i])
    /\ \A t \in Senders : sender[t].pc \in Underway =>
          sender[t].m \in 1..Len(message) /\ message[sender[t].m].outcome = "pending"
    /\ \A t, u \in Senders : t # u /\ sender[t].pc \in Underway /\ sender[u].pc \in Underway =>
          sender[t].m # sender[u].m

\* The slots are what was taken last.
Dropped == Len(taken) - Len(slots)
SlotsInv ==
    /\ Dropped \in Nat
    /\ \A i \in 1..Len(slots) : slots[i] = taken[Dropped + i]
    /\ wronged \subseteq 1..Len(taken)

\* What is taken in a window and not wronged, who is about to take a slot in it, and who has
\* read the clock in it.
TakenIn(from) == {i \in (1..Len(taken)) \ wronged : taken[i] \in from..(from + Window - 1)}
TakingIn(from) == {t \in Senders : sender[t].pc = "take" /\ sender[t].at \in from..(from + Window - 1)}
LateIn(from) == {t \in Senders : sender[t].pc \in Clocked /\ sender[t].at \in from..(from + Window - 1)}

\* Until the first slot of a window is dropped as expired, whoever finds room sees all of them.
\* That is after the window, by a thread that read the clock after it; the others can be late with
\* one slot each, and whoever reads the clock again is in a later window.
Open(from) ==
    /\ \A i \in TakenIn(from) : Dropped < i
    /\ Cardinality(TakenIn(from)) + Cardinality(TakingIn(from)) <= Budget + Cardinality(Senders) - 1
Over(from) ==
    /\ from + Window <= second
    /\ Cardinality(TakenIn(from)) + Cardinality(LateIn(from)) <= Budget + 2 * (Cardinality(Senders) - 1)
RateInv ==
    /\ \A t \in Senders : sender[t].pc \in Clocked => sender[t].at <= second
    /\ \A from \in Nat : Open(from) \/ Over(from)

\* A scan at its alarm has seen the last alarm of those it has seen rest.
AlarmsInv ==
    /\ lastAlarm = IF alarms = <<>> THEN -1 ELSE alarms[Len(alarms)].at
    /\ \A t \in Senders : sender[t].pc = "alarm" =>
          /\ sender[t].seen <= Len(alarms)
          /\ sender[t].seen > 0 => sender[t].at - alarms[sender[t].seen].at >= AlarmCooldown
    /\ AlarmsCoolDown

OutboxInv == (\E T : OutboxShape(T)) /\ MessagesInv /\ SlotsInv /\ RateInv /\ AlarmsInv

LEMMA OutboxConstants ==
    /\ Budget \in Nat /\ 0 < Budget /\ Window \in Nat /\ AlarmCooldown \in Nat /\ 0 < AlarmCooldown
    /\ IsFiniteSet(Senders) /\ Cardinality(Senders) \in Nat /\ 1 <= Cardinality(Senders)
<1>1. IsFiniteSet(Senders) /\ Senders # {} /\ Cardinality(Senders) \in Nat
  BY OutboxAssumption, FS_CardinalityType
<1>2. Cardinality(Senders) # 0
  BY <1>1, FS_EmptySet
<1> QED BY <1>1, <1>2, OutboxAssumption

----
(* Rows. *)

LEMMA SenderFields ==
    ASSUME NEW T, NEW k \in SenderRow(T)
    PROVE  /\ k.pc \in Places /\ k.at \in Nat /\ k.until \in T /\ k.tries \in Nat /\ k.transient \in Nat
           /\ k.limited \in BOOLEAN /\ k.m \in Nat /\ k.seen \in Nat
BY DEF SenderRow

LEMMA UnusedRow ==
    ASSUME NEW T, Nat \subseteq T
    PROVE  Unused \in SenderRow(T) /\ Unused.pc = "rest"
BY DEF Unused, SenderRow, Places, Underway, Clocked

OpenedRow(n) == [Unused EXCEPT !.pc = "look", !.m = n]
LEMMA OpenedRowIs ==
    ASSUME NEW T, Nat \subseteq T, NEW n \in Nat
    PROVE  OpenedRow(n) \in SenderRow(T) /\ OpenedRow(n).pc = "look" /\ OpenedRow(n).m = n
<1> DEFINE one == [Unused EXCEPT !.pc = "look"]
           two == [one EXCEPT !.m = n]
<1>1. OpenedRow(n) = two
  BY Zenon DEF OpenedRow, one, two
<1>2. one \in SenderRow(T) /\ one.pc = "look"
  BY UnusedRow DEF SenderRow, Places, Underway, Clocked
<1> HIDE DEF one
<1>3. two \in SenderRow(T) /\ two.pc = "look" /\ two.m = n
  BY <1>2 DEF SenderRow
<1> HIDE DEF two
<1> QED BY <1>1, <1>3

AlarmingRow(x, n) == [Unused EXCEPT !.pc = "alarm", !.at = x, !.seen = n]
LEMMA AlarmingRowIs ==
    ASSUME NEW T, Nat \subseteq T, NEW x \in Nat, NEW n \in Nat
    PROVE  /\ AlarmingRow(x, n) \in SenderRow(T) /\ AlarmingRow(x, n).pc = "alarm"
           /\ AlarmingRow(x, n).at = x /\ AlarmingRow(x, n).seen = n
<1> DEFINE one == [Unused EXCEPT !.pc = "alarm"]
           two == [one EXCEPT !.at = x]
           three == [two EXCEPT !.seen = n]
<1>1. AlarmingRow(x, n) = three
  BY Zenon DEF AlarmingRow, one, two, three
<1>2. one \in SenderRow(T) /\ one.pc = "alarm"
  BY UnusedRow DEF SenderRow, Places
<1> HIDE DEF one
<1>3. two \in SenderRow(T) /\ two.pc = "alarm" /\ two.at = x
  BY <1>2 DEF SenderRow
<1> HIDE DEF two
<1>4. three \in SenderRow(T) /\ three.pc = "alarm" /\ three.at = x /\ three.seen = n
  BY <1>3 DEF SenderRow
<1> HIDE DEF three
<1> QED BY <1>1, <1>4

LookedRow(k, pc, x) == [k EXCEPT !.pc = pc, !.at = x]
LEMMA LookedRowIs ==
    ASSUME NEW T, NEW k \in SenderRow(T), NEW pc \in Places, NEW x \in Nat
    PROVE  /\ LookedRow(k, pc, x) \in SenderRow(T) /\ LookedRow(k, pc, x).pc = pc
           /\ LookedRow(k, pc, x).at = x /\ LookedRow(k, pc, x).m = k.m
<1> DEFINE one == [k EXCEPT !.pc = pc]
           two == [one EXCEPT !.at = x]
<1>1. LookedRow(k, pc, x) = two
  BY Zenon DEF LookedRow, one, two
<1>2. one \in SenderRow(T) /\ one.pc = pc /\ one.m = k.m
  BY DEF SenderRow
<1> HIDE DEF one
<1>3. two \in SenderRow(T) /\ two.pc = pc /\ two.at = x /\ two.m = k.m
  BY <1>2 DEF SenderRow
<1> HIDE DEF two
<1> QED BY <1>1, <1>3

PostingRow(k) == [k EXCEPT !.pc = "post", !.at = 0, !.tries = @ + 1]
LEMMA PostingRowIs ==
    ASSUME NEW T, NEW k \in SenderRow(T)
    PROVE  PostingRow(k) \in SenderRow(T) /\ PostingRow(k).pc = "post" /\ PostingRow(k).m = k.m
<1> DEFINE n == k.tries + 1
           one == [k EXCEPT !.pc = "post"]
           two == [one EXCEPT !.at = 0]
           three == [two EXCEPT !.tries = n]
<1>1. PostingRow(k) = three
  BY Zenon DEF PostingRow, one, two, three, n
<1>2. n \in Nat
  BY SenderFields
<1> HIDE DEF n
<1>3. one \in SenderRow(T) /\ one.pc = "post" /\ one.m = k.m
  BY DEF SenderRow, Places, Underway, Clocked
<1> HIDE DEF one
<1>4. two \in SenderRow(T) /\ two.pc = "post" /\ two.m = k.m
  BY <1>3 DEF SenderRow
<1> HIDE DEF two
<1>5. three \in SenderRow(T) /\ three.pc = "post" /\ three.m = k.m
  BY <1>2, <1>4 DEF SenderRow
<1> HIDE DEF three
<1> QED BY <1>1, <1>5

SleepingRow(k, x) == [k EXCEPT !.pc = "sleep", !.at = 0, !.until = x]
LEMMA SleepingRowIs ==
    ASSUME NEW T, NEW k \in SenderRow(T), NEW x \in T
    PROVE  SleepingRow(k, x) \in SenderRow(T) /\ SleepingRow(k, x).pc = "sleep" /\ SleepingRow(k, x).m = k.m
<1> DEFINE one == [k EXCEPT !.pc = "sleep"]
           two == [one EXCEPT !.at = 0]
           three == [two EXCEPT !.until = x]
<1>1. SleepingRow(k, x) = three
  BY Zenon DEF SleepingRow, one, two, three
<1>2. one \in SenderRow(T) /\ one.pc = "sleep" /\ one.m = k.m
  BY DEF SenderRow, Places, Underway, Clocked
<1> HIDE DEF one
<1>3. two \in SenderRow(T) /\ two.pc = "sleep" /\ two.m = k.m
  BY <1>2 DEF SenderRow
<1> HIDE DEF two
<1>4. three \in SenderRow(T) /\ three.pc = "sleep" /\ three.m = k.m
  BY <1>3 DEF SenderRow
<1> HIDE DEF three
<1> QED BY <1>1, <1>4

\* Whoever waits until some time, or wakes.
TimedRow(k, pc, x) == [k EXCEPT !.pc = pc, !.until = x]
LEMMA TimedRowIs ==
    ASSUME NEW T, NEW k \in SenderRow(T), NEW pc \in Places, NEW x \in T
    PROVE  TimedRow(k, pc, x) \in SenderRow(T) /\ TimedRow(k, pc, x).pc = pc /\ TimedRow(k, pc, x).m = k.m
<1> DEFINE one == [k EXCEPT !.pc = pc]
           two == [one EXCEPT !.until = x]
<1>1. TimedRow(k, pc, x) = two
  BY Zenon DEF TimedRow, one, two
<1>2. one \in SenderRow(T) /\ one.pc = pc /\ one.m = k.m
  BY DEF SenderRow
<1> HIDE DEF one
<1>3. two \in SenderRow(T) /\ two.pc = pc /\ two.m = k.m
  BY <1>2 DEF SenderRow
<1> HIDE DEF two
<1> QED BY <1>1, <1>3

\* What an answer is counted as.
LEMMA CountedRow ==
    ASSUME NEW T, NEW k \in SenderRow(T), NEW b \in BOOLEAN
    PROVE  LET counted == [k EXCEPT !.transient = @ + 1]
               limited == [k EXCEPT !.limited = b]
           IN  /\ counted \in SenderRow(T) /\ counted.m = k.m
               /\ limited \in SenderRow(T) /\ limited.m = k.m
<1> DEFINE n == k.transient + 1
           counted == [k EXCEPT !.transient = n]
           limited == [k EXCEPT !.limited = b]
<1>1. [k EXCEPT !.transient = @ + 1] = counted
  BY Zenon DEF counted, n
<1>2. n \in Nat
  BY SenderFields
<1> HIDE DEF n
<1>3. counted \in SenderRow(T) /\ counted.m = k.m
  BY <1>2 DEF SenderRow
<1> HIDE DEF counted
<1>4. limited \in SenderRow(T) /\ limited.m = k.m
  BY DEF SenderRow
<1> QED BY <1>1, <1>3, <1>4

\* Messages with their answers.
LEMMA MessageRows ==
    ASSUME NEW e \in MessageRow, NEW o \in {"pending", "sent", "dead", "failed", "broken"}
    PROVE  LET ended == [e EXCEPT !.outcome = o]
               heard == [e EXCEPT !.arrived = @ + 1]
               missed == [e EXCEPT !.arrived = @ + 1, !.lost = @ + 1]
           IN  /\ ended \in MessageRow /\ ended.outcome = o /\ ended.arrived = e.arrived /\ ended.lost = e.lost
               /\ heard \in MessageRow /\ heard.outcome = e.outcome /\ heard.arrived = e.arrived + 1
               /\ heard.lost = e.lost
               /\ missed \in MessageRow /\ missed.outcome = e.outcome /\ missed.arrived = e.arrived + 1
               /\ missed.lost = e.lost + 1
<1> DEFINE a == e.arrived + 1
           l == e.lost + 1
           ended == [e EXCEPT !.outcome = o]
           heard == [e EXCEPT !.arrived = a]
           missed == [heard EXCEPT !.lost = l]
<1>1. [e EXCEPT !.arrived = @ + 1] = heard /\ [e EXCEPT !.arrived = @ + 1, !.lost = @ + 1] = missed
  <2>1. [e EXCEPT !.arrived = @ + 1] = heard
    BY Zenon DEF heard, a
  <2>2. heard.lost = e.lost
    BY DEF MessageRow
  <2>3. [e EXCEPT !.arrived = @ + 1, !.lost = @ + 1] = missed
    BY <2>2, Zenon DEF missed, heard, a, l
  <2> QED BY <2>1, <2>3
<1>2. a \in Nat /\ l \in Nat
  BY DEF MessageRow
<1>3. ended \in MessageRow /\ ended.outcome = o /\ ended.arrived = e.arrived /\ ended.lost = e.lost
  BY DEF MessageRow
<1> HIDE DEF a, l, ended
<1>4. heard \in MessageRow /\ heard.outcome = e.outcome /\ heard.arrived = a /\ heard.lost = e.lost
  BY <1>2 DEF MessageRow
<1> HIDE DEF heard
<1>5. missed \in MessageRow /\ missed.outcome = e.outcome /\ missed.arrived = a /\ missed.lost = l
  BY <1>2, <1>4 DEF MessageRow
<1> HIDE DEF missed
<1> QED BY <1>1, <1>3, <1>4, <1>5 DEF a, l, ended

----
(* Steps. *)

LEMMA Becoming ==
    ASSUME NEW T, OutboxShape(T), NEW t \in Senders, NEW r \in SenderRow(T), Becomes(t, r)
    PROVE  /\ sender' \in [Senders -> SenderRow(T)] /\ sender'[t] = r
           /\ \A u \in Senders \ {t} : sender'[u] = sender[u]
BY DEF Becomes, OutboxShape

LEMMA ShapeWidens ==
    ASSUME NEW T, OutboxShape(T), NEW x
    PROVE  OutboxShape(T \cup {x})
<1> DEFINE V == T \cup {x}
<1>1. T \subseteq V
  OBVIOUS
<1> HIDE DEF V
<1>2. SenderRow(T) \subseteq SenderRow(V)
  BY <1>1 DEF SenderRow
<1>3. sender \in [Senders -> SenderRow(V)]
  BY <1>2 DEF OutboxShape
<1>4. OutboxShape(V)
  BY <1>1, <1>3 DEF OutboxShape
<1> QED BY <1>4 DEF V

LEMMA MessagesStay ==
    ASSUME NEW T, OutboxShape(T), MessagesInv, NEW t \in Senders, NEW r \in SenderRow(T), Becomes(t, r),
           message' = message,
           r.pc \in Underway => sender[t].pc \in Underway /\ r.m = sender[t].m
    PROVE  MessagesInv'
<1>1. sender'[t] = r /\ \A u \in Senders \ {t} : sender'[u] = sender[u]
  BY Becoming
<1>2. \A u \in Senders : sender'[u].pc \in Underway => sender[u].pc \in Underway /\ sender'[u].m = sender[u].m
  BY <1>1
<1> QED BY <1>2 DEF MessagesInv

LEMMA MessageBegins ==
    ASSUME NEW T, OutboxShape(T), MessagesInv, NEW t \in Senders,
           sender[t].pc \notin Underway, BeginsMessage(t)
    PROVE  /\ MessagesInv' /\ sender'[t].pc = "look" /\ sender' \in [Senders -> SenderRow(T)]
           /\ message' \in Seq(MessageRow)
           /\ \A u \in Senders \ {t} : sender'[u] = sender[u]
<1> DEFINE n == Len(message) + 1
           r == OpenedRow(n)
<1>1. message \in Seq(MessageRow) /\ Len(message) \in Nat /\ n \in Nat /\ Nat \subseteq T
  BY DEF OutboxShape
<1>2. message' = Append(message, NewMessage) /\ Becomes(t, r)
  BY DEF BeginsMessage, OpenedRow
<1> HIDE DEF r
<1>3. r \in SenderRow(T) /\ r.pc = "look" /\ r.m = n
  BY <1>1, OpenedRowIs DEF r
<1>4. sender'[t] = r /\ sender' \in [Senders -> SenderRow(T)] /\ \A u \in Senders \ {t} : sender'[u] = sender[u]
  BY <1>2, <1>3, Becoming
<1>5. NewMessage \in MessageRow /\ Honest(NewMessage) /\ NewMessage.outcome = "pending"
  BY DEF NewMessage, MessageRow, Honest
<1>6. /\ message' \in Seq(MessageRow) /\ Len(message') = n /\ message'[n] = NewMessage
      /\ \A i \in 1..Len(message) : message'[i] = message[i]
  BY <1>1, <1>2, <1>5
<1>7. \A i \in 1..n : i = n \/ i \in 1..Len(message)
  BY <1>1
<1>8. \A i \in 1..Len(message') : Honest(message'[i])
  BY <1>5, <1>6, <1>7 DEF MessagesInv
<1>9. \A u \in Senders : sender'[u].pc \in Underway =>
        sender'[u].m \in 1..Len(message') /\ message'[sender'[u].m].outcome = "pending"
  <2>1. n \in 1..Len(message') /\ \A i \in 1..Len(message) : i \in 1..Len(message')
    BY <1>1, <1>6
  <2> QED BY <1>3, <1>4, <1>5, <1>6, <2>1 DEF MessagesInv
<1>10. \A u \in Senders \ {t} : sender[u].pc \in Underway => sender[u].m # n
  <2>1. \A i \in 1..Len(message) : i # n
    BY <1>1
  <2> QED BY <2>1 DEF MessagesInv
<1>11. \A u, v \in Senders : u # v /\ sender'[u].pc \in Underway /\ sender'[v].pc \in Underway =>
          sender'[u].m # sender'[v].m
  BY <1>3, <1>4, <1>10 DEF MessagesInv
<1>12. MessagesInv'
  BY <1>8, <1>9, <1>11 DEF MessagesInv
<1> QED BY <1>3, <1>4, <1>6, <1>12

LEMMA MessageGoesOn ==
    ASSUME NEW T, OutboxShape(T), MessagesInv, NEW t \in Senders, sender[t].pc \in Underway,
           NEW r \in SenderRow(T), Becomes(t, r), NEW e \in MessageRow, Honest(e),
           message' = [message EXCEPT ![sender[t].m] = e],
           r.pc \in Underway => r.m = sender[t].m /\ e.outcome = "pending"
    PROVE  MessagesInv' /\ message' \in Seq(MessageRow)
<1> DEFINE n == sender[t].m
<1>1. n \in 1..Len(message) /\ message \in Seq(MessageRow)
  BY DEF MessagesInv, OutboxShape
<1>2. message' = [message EXCEPT ![n] = e]
  OBVIOUS
<1>3. sender'[t] = r /\ \A u \in Senders \ {t} : sender'[u] = sender[u]
  BY Becoming
<1>4. \A u \in Senders \ {t} : sender[u].pc \in Underway => sender[u].m # n
  BY DEF MessagesInv
<1>5. \A u \in Senders : sender[u].pc \in Underway =>
        sender[u].m \in 1..Len(message) /\ message[sender[u].m].outcome = "pending"
  BY DEF MessagesInv
<1>6. r.pc \in Underway => r.m = n /\ e.outcome = "pending"
  OBVIOUS
<1> HIDE DEF n
<1>7. /\ message' \in Seq(MessageRow) /\ Len(message') = Len(message) /\ message'[n] = e
      /\ \A i \in 1..Len(message) : i # n => message'[i] = message[i]
  <2>1. message \in [1..Len(message) -> MessageRow] /\ Len(message) \in Nat
    BY <1>1
  <2>2. message' \in [1..Len(message) -> MessageRow]
    BY <1>2, <2>1
  <2>3. message' \in Seq(MessageRow) /\ Len(message') = Len(message)
    BY <2>1, <2>2
  <2> QED BY <1>1, <1>2, <2>1, <2>3
<1>8. \A i \in 1..Len(message') : Honest(message'[i])
  BY <1>7 DEF MessagesInv
<1>9. \A u \in Senders : sender'[u].pc \in Underway =>
        sender'[u].m \in 1..Len(message') /\ message'[sender'[u].m].outcome = "pending"
  BY <1>1, <1>3, <1>4, <1>5, <1>6, <1>7
<1>10. \A u, v \in Senders : u # v /\ sender'[u].pc \in Underway /\ sender'[v].pc \in Underway =>
          sender'[u].m # sender'[v].m
  <2>1. \A u \in Senders \ {t} : sender'[u].pc \in Underway => sender'[u].m # n
    BY <1>3, <1>4
  <2>2. \A u, v \in Senders \ {t} : u # v /\ sender'[u].pc \in Underway /\ sender'[v].pc \in Underway =>
          sender'[u].m # sender'[v].m
    BY <1>3 DEF MessagesInv
  <2> QED BY <1>3, <1>6, <2>1, <2>2
<1> QED BY <1>7, <1>8, <1>9, <1>10 DEF MessagesInv

LEMMA SlotsStay ==
    ASSUME SlotsInv, UNCHANGED <<slots, taken, wronged>>
    PROVE  SlotsInv'
BY DEF SlotsInv, Dropped

LEMMA TakenFinite ==
    ASSUME taken \in Seq(Nat), NEW from \in Nat
    PROVE  IsFiniteSet(TakenIn(from)) /\ Cardinality(TakenIn(from)) \in Nat
<1>1. TakenIn(from) \in SUBSET (1..Len(taken)) /\ Len(taken) \in Nat
  BY DEF TakenIn
<1>2. IsFiniteSet(1..Len(taken))
  BY <1>1, FS_Interval
<1>3. IsFiniteSet(TakenIn(from))
  BY <1>1, <1>2, FS_Subset
<1> QED BY <1>3, FS_CardinalityType

LEMMA SendersFinite ==
    ASSUME NEW S \in SUBSET Senders
    PROVE  IsFiniteSet(S) /\ Cardinality(S) \in Nat /\ Cardinality(S) <= Cardinality(Senders)
BY OutboxConstants, FS_Subset, FS_CardinalityType

\* No slot is taken or dropped, and nobody is about to take one who was not: who has read the
\* clock has read it before, or now.
LEMMA RateStays ==
    ASSUME taken \in Seq(Nat), second \in Nat, second' \in Nat, second <= second', RateInv,
           UNCHANGED <<slots, taken, wronged>>,
           \A u \in Senders : sender'[u].pc = "take" => sender[u].pc = "take" /\ sender'[u].at = sender[u].at,
           \A u \in Senders : sender'[u].pc \in Clocked =>
              \/ sender'[u].at = second'
              \/ sender[u].pc \in Clocked /\ sender'[u].at = sender[u].at /\ sender[u].at \in Nat
    PROVE  RateInv'
<1>1. ASSUME NEW u \in Senders, sender'[u].pc \in Clocked PROVE sender'[u].at <= second'
  <2>1. CASE sender'[u].at = second'
    BY <2>1
  <2>2. CASE sender[u].pc \in Clocked /\ sender'[u].at = sender[u].at /\ sender[u].at \in Nat
    <3>1. sender[u].at <= second
      BY <2>2 DEF RateInv
    <3> QED BY <2>2, <3>1
  <2> QED BY <1>1, <2>1, <2>2
<1>2. ASSUME NEW from \in Nat PROVE Open(from)' \/ Over(from)'
  <2>1. TakenIn(from)' = TakenIn(from) /\ Dropped' = Dropped /\ Cardinality(TakenIn(from)) \in Nat
    BY TakenFinite DEF TakenIn, Dropped
  <2>2. CASE Open(from)
    <3>1. TakingIn(from)' \in SUBSET TakingIn(from) /\ TakingIn(from) \in SUBSET Senders
      BY DEF TakingIn
    <3>2. /\ IsFiniteSet(TakingIn(from)) /\ Cardinality(TakingIn(from)) \in Nat
          /\ Cardinality(TakingIn(from)') \in Nat /\ Cardinality(TakingIn(from)') <= Cardinality(TakingIn(from))
      BY <3>1, SendersFinite, FS_Subset, FS_CardinalityType
    <3>3. Open(from)'
      BY <2>1, <2>2, <3>2, OutboxConstants DEF Open
    <3> QED BY <3>3
  <2>3. CASE Over(from)
    <3>1. LateIn(from)' \in SUBSET LateIn(from) /\ LateIn(from) \in SUBSET Senders
      <4>1. ASSUME NEW u \in LateIn(from)' PROVE u \in LateIn(from)
        <5>1. u \in Senders /\ sender'[u].pc \in Clocked /\ sender'[u].at \in from..(from + Window - 1)
          BY DEF LateIn
        <5>2. ~(sender'[u].at = second')
          BY <2>3, <5>1, OutboxConstants DEF Over
        <5> QED BY <5>1, <5>2 DEF LateIn
      <4> QED BY <4>1 DEF LateIn
    <3>2. /\ IsFiniteSet(LateIn(from)) /\ Cardinality(LateIn(from)) \in Nat
          /\ Cardinality(LateIn(from)') \in Nat /\ Cardinality(LateIn(from)') <= Cardinality(LateIn(from))
      BY <3>1, SendersFinite, FS_Subset, FS_CardinalityType
    <3>3. Over(from)'
      BY <2>1, <2>3, <3>2, OutboxConstants DEF Over
    <3> QED BY <3>3
  <2> QED BY <2>2, <2>3 DEF RateInv
<1> QED BY <1>1, <1>2 DEF RateInv

\* The last alarm given, the alarms and the scans at theirs are as they were.
LEMMA AlarmsStay ==
    ASSUME AlarmsInv, UNCHANGED <<lastAlarm, alarms>>,
           \A u \in Senders : sender'[u].pc = "alarm" =>
              /\ sender[u].pc = "alarm" /\ sender'[u].at = sender[u].at /\ sender'[u].seen = sender[u].seen
    PROVE  AlarmsInv'
BY DEF AlarmsInv, AlarmsCoolDown

----
(* The window. *)

\* Less than on the natural numbers, of which the library knows that it is well-founded.
Below == {ss \in Nat \X Nat : ss[1] < ss[2]}

LEMMA LeastOf ==
    ASSUME NEW S \in SUBSET Nat, S # {}
    PROVE  \E x \in S : \A y \in S : x <= y
<1>1. IsWellFoundedOn(Below, Nat)
  BY NatLessThanWellFounded, Zenon DEF Below, OpToRel
<1>2. PICK x \in S : \A y \in S : ~(<<y, x>> \in Below)
  BY <1>1, WFMin
<1>3. ASSUME NEW y \in S PROVE x <= y
  <2>1. x \in Nat /\ y \in Nat /\ <<y, x>> \in Nat \X Nat
    OBVIOUS
  <2>2. ~(<<y, x>>[1] < <<y, x>>[2])
    BY <1>2, <2>1 DEF Below
  <2> QED BY <2>1, <2>2
<1> QED BY <1>3

----
(* What a thread does. *)

\* Nothing but the thread's place and its message is touched, and it goes neither to a slot nor to an alarm.
LEMMA RestStays ==
    ASSUME NEW T, OutboxShape(T), SlotsInv, RateInv, AlarmsInv, NEW t \in Senders,
           sender'[t].pc \notin {"head", "age", "pop", "room", "take", "alarm"},
           \A u \in Senders \ {t} : sender'[u] = sender[u],
           UNCHANGED <<second, slots, lastAlarm, taken, wronged, alarms>>
    PROVE  SlotsInv' /\ RateInv' /\ AlarmsInv'
<1>1. /\ second \in Nat /\ second <= second /\ taken \in Seq(Nat)
      /\ \A u \in Senders : sender[u].at \in Nat
  BY SenderFields DEF OutboxShape
<1>2. SlotsInv'
  BY <1>1, SlotsStay
<1>3. RateInv'
  <2>1. \A u \in Senders : sender'[u].pc \in Clocked \cup {"alarm"} => sender'[u] = sender[u]
    BY DEF Clocked
  <2>2. "take" \in Clocked
    BY DEF Clocked
  <2> QED BY <1>1, <2>1, <2>2, RateStays
<1>4. AlarmsInv'
  <2>1. \A u \in Senders : sender'[u].pc \in Clocked \cup {"alarm"} => sender'[u] = sender[u]
    BY DEF Clocked
  <2>2. \A u \in Senders : sender'[u].pc = "alarm" => sender'[u].pc \in Clocked \cup {"alarm"}
    OBVIOUS
  <2> QED BY <2>1, <2>2, AlarmsStay
<1> QED BY <1>2, <1>3, <1>4

LEMMA SendsKeeps ==
    ASSUME OutboxInv, NEW t \in Senders, Sends(t)
    PROVE  OutboxInv'
<1>1. PICK T : OutboxShape(T)
  BY DEF OutboxInv
<1>2. MessagesInv /\ SlotsInv /\ RateInv /\ AlarmsInv
  BY DEF OutboxInv
<1>3. BeginsMessage(t) /\ sender[t].pc \notin Underway /\ UNCHANGED <<second, slots, lastAlarm, taken, wronged, alarms>>
  BY DEF Sends, Busy, Underway, Clocked
<1>4. /\ MessagesInv' /\ sender'[t].pc = "look" /\ sender' \in [Senders -> SenderRow(T)]
      /\ message' \in Seq(MessageRow) /\ \A u \in Senders \ {t} : sender'[u] = sender[u]
  BY <1>1, <1>2, <1>3, MessageBegins
<1>5. SlotsInv' /\ RateInv' /\ AlarmsInv'
  BY <1>1, <1>2, <1>3, <1>4, RestStays
<1>6. OutboxShape(T)'
  BY <1>1, <1>3, <1>4 DEF OutboxShape
<1> QED BY <1>4, <1>5, <1>6 DEF OutboxInv

LEMMA FindsStaleKeeps ==
    ASSUME OutboxInv, NEW t \in Senders, FindsStale(t)
    PROVE  OutboxInv'
<1> DEFINE r == AlarmingRow(second, Len(alarms))
<1>1. PICK T : OutboxShape(T)
  BY DEF OutboxInv
<1>2. MessagesInv /\ SlotsInv /\ RateInv /\ AlarmsInv
  BY DEF OutboxInv
<1>3. Becomes(t, r) /\ UNCHANGED <<second, slots, message, lastAlarm, taken, wronged, alarms>> /\ ~AlarmRests
  BY DEF FindsStale, AlarmingRow
<1> HIDE DEF r
<1>4. /\ second \in Nat /\ lastAlarm \in Int /\ Nat \subseteq T /\ taken \in Seq(Nat)
      /\ alarms \in Seq(AlarmRow) /\ Len(alarms) \in Nat
  BY <1>1 DEF OutboxShape
<1>5. r \in SenderRow(T) /\ r.pc = "alarm" /\ r.at = second /\ r.seen = Len(alarms)
  BY <1>4, AlarmingRowIs DEF r
<1>6. sender'[t] = r /\ sender' \in [Senders -> SenderRow(T)] /\ \A u \in Senders \ {t} : sender'[u] = sender[u]
  BY <1>1, <1>3, <1>5, Becoming
<1>7. MessagesInv'
  <2>1. r.pc \notin Underway
    BY <1>5 DEF Underway, Clocked
  <2> QED BY <1>1, <1>2, <1>3, <1>5, <2>1, MessagesStay
<1>8. SlotsInv'
  BY <1>1, <1>2, <1>3, <1>4, SlotsStay
<1>9. RateInv'
  <2>1. \A u \in Senders : sender'[u].pc = "take" => sender[u].pc = "take" /\ sender'[u].at = sender[u].at
    BY <1>5, <1>6
  <2>2. \A u \in Senders : sender'[u].pc \in Clocked => sender[u].pc \in Clocked /\ sender'[u].at = sender[u].at
    BY <1>5, <1>6 DEF Clocked
  <2>3. \A u \in Senders : sender[u].at \in Nat
    BY <1>1, SenderFields DEF OutboxShape
  <2> QED BY <1>2, <1>3, <1>4, <2>1, <2>2, <2>3, RateStays
<1>10. AlarmsInv'
  <2>1. /\ lastAlarm = IF alarms = <<>> THEN -1 ELSE alarms[Len(alarms)].at
        /\ AlarmsCoolDown
        /\ \A u \in Senders : sender[u].pc = "alarm" =>
              /\ sender[u].seen <= Len(alarms)
              /\ sender[u].seen > 0 => sender[u].at - alarms[sender[u].seen].at >= AlarmCooldown
    BY <1>2 DEF AlarmsInv
  <2>2. r.seen > 0 => r.at - alarms[r.seen].at >= AlarmCooldown
    <3> SUFFICES ASSUME Len(alarms) > 0 PROVE second - alarms[Len(alarms)].at >= AlarmCooldown
      BY <1>5
    <3>1. Len(alarms) \in 1..Len(alarms) /\ alarms # <<>>
      BY <1>4
    <3>2. alarms[Len(alarms)] \in AlarmRow
      BY <1>4, <3>1
    <3>3. alarms[Len(alarms)].at \in Nat /\ lastAlarm = alarms[Len(alarms)].at
      BY <2>1, <3>1, <3>2 DEF AlarmRow
    <3>4. second - lastAlarm >= AlarmCooldown
      BY <1>3, <1>4, <3>3, OutboxConstants DEF AlarmRests
    <3> QED BY <3>3, <3>4
  <2>3. \A u \in Senders : sender'[u].pc = "alarm" =>
              /\ sender'[u].seen <= Len(alarms)
              /\ sender'[u].seen > 0 => sender'[u].at - alarms[sender'[u].seen].at >= AlarmCooldown
    <3> SUFFICES ASSUME NEW u \in Senders, sender'[u].pc = "alarm"
                 PROVE  /\ sender'[u].seen <= Len(alarms)
                        /\ sender'[u].seen > 0 => sender'[u].at - alarms[sender'[u].seen].at >= AlarmCooldown
      OBVIOUS
    <3>1. CASE u = t
      BY <1>4, <1>5, <1>6, <2>2, <3>1
    <3>2. CASE u # t
      BY <1>6, <2>1, <3>2
    <3> QED BY <3>1, <3>2
  <2>4. AlarmsCoolDown'
    BY <1>3, <2>1 DEF AlarmsCoolDown
  <2> QED BY <1>3, <2>1, <2>3, <2>4 DEF AlarmsInv
<1>11. OutboxShape(T)'
  BY <1>1, <1>3, <1>6 DEF OutboxShape
<1> QED BY <1>7, <1>8, <1>9, <1>10, <1>11 DEF OutboxInv

LEMMA WakesKeeps ==
    ASSUME OutboxInv, NEW t \in Senders, Wakes(t)
    PROVE  OutboxInv'
<1> DEFINE r == TimedRow(sender[t], "look", 0)
<1>1. PICK T : OutboxShape(T)
  BY DEF OutboxInv
<1>2. MessagesInv /\ SlotsInv /\ RateInv /\ AlarmsInv
  BY DEF OutboxInv
<1>3. /\ Becomes(t, r) /\ UNCHANGED <<second, slots, message, lastAlarm, taken, wronged, alarms>>
      /\ sender[t].pc \in Underway
  BY DEF Wakes, TimedRow, Waits, Underway, Clocked
<1> HIDE DEF r
<1>4. 0 \in T /\ sender[t] \in SenderRow(T)
  BY <1>1 DEF OutboxShape
<1>5. r \in SenderRow(T) /\ r.pc = "look" /\ r.m = sender[t].m
  <2>1. "look" \in Places
    BY DEF Places, Underway, Clocked
  <2> QED BY <1>4, <2>1, TimedRowIs DEF r
<1>6. sender'[t] = r /\ sender' \in [Senders -> SenderRow(T)] /\ \A u \in Senders \ {t} : sender'[u] = sender[u]
  BY <1>1, <1>3, <1>5, Becoming
<1>7. MessagesInv'
  BY <1>1, <1>2, <1>3, <1>5, MessagesStay
<1>8. SlotsInv' /\ RateInv' /\ AlarmsInv'
  BY <1>1, <1>2, <1>3, <1>5, <1>6, RestStays
<1>9. OutboxShape(T)'
  BY <1>1, <1>3, <1>6 DEF OutboxShape
<1> QED BY <1>7, <1>8, <1>9 DEF OutboxInv

LEMMA LosesMessageKeeps ==
    ASSUME OutboxInv, NEW t \in Senders, sender[t].pc \in Underway, LosesMessage(t),
           UNCHANGED <<second, slots, lastAlarm, taken, wronged, alarms>>
    PROVE  OutboxInv'
<1> DEFINE e == [message[sender[t].m] EXCEPT !.outcome = "broken"]
<1>1. PICK T : OutboxShape(T)
  BY DEF OutboxInv
<1>2. MessagesInv /\ SlotsInv /\ RateInv /\ AlarmsInv
  BY DEF OutboxInv
<1>3. Becomes(t, Unused) /\ message' = [message EXCEPT ![sender[t].m] = e]
  BY Zenon DEF LosesMessage, e
<1>4. /\ message[sender[t].m] \in MessageRow /\ message[sender[t].m].outcome = "pending"
      /\ Honest(message[sender[t].m])
  BY <1>1, <1>2 DEF MessagesInv, OutboxShape
<1>5. e \in MessageRow /\ Honest(e)
  BY <1>4, MessageRows DEF Honest
<1> HIDE DEF e
<1>6. Unused \in SenderRow(T) /\ Unused.pc = "rest" /\ Unused.pc \notin Underway
  BY <1>1, UnusedRow DEF Underway, Clocked, OutboxShape
<1>7. MessagesInv' /\ message' \in Seq(MessageRow)
  BY <1>1, <1>2, <1>3, <1>5, <1>6, MessageGoesOn
<1>8. /\ sender'[t] = Unused /\ sender' \in [Senders -> SenderRow(T)]
      /\ \A u \in Senders \ {t} : sender'[u] = sender[u]
  BY <1>1, <1>3, <1>6, Becoming
<1>9. SlotsInv' /\ RateInv' /\ AlarmsInv'
  BY <1>1, <1>2, <1>6, <1>8, RestStays
<1>10. OutboxShape(T)'
  BY <1>1, <1>7, <1>8 DEF OutboxShape
<1> QED BY <1>7, <1>9, <1>10 DEF OutboxInv

LEMMA WaitsForSlotKeeps ==
    ASSUME OutboxInv, NEW t \in Senders, WaitsForSlot(t)
    PROVE  OutboxInv'
<1>1. PICK T : OutboxShape(T)
  BY DEF OutboxInv
<1>2. MessagesInv /\ SlotsInv /\ RateInv /\ AlarmsInv
  BY DEF OutboxInv
<1>3. sender[t].pc \in Underway /\ UNCHANGED <<second, slots, lastAlarm, taken, wronged, alarms>>
  BY DEF WaitsForSlot, Underway, Clocked
<1>4. sender[t] \in SenderRow(T) /\ Nat \subseteq T
  BY <1>1 DEF OutboxShape
<1>5. CASE slots = <<>>
  <2>1. LosesMessage(t)
    BY <1>5, Zenon DEF WaitsForSlot
  <2> QED BY <1>3, <2>1, LosesMessageKeeps
<1>6. CASE slots # <<>>
  <2> DEFINE x == second + (IF sender[t].at - slots[1] > Window THEN 0 ELSE Window - (sender[t].at - slots[1]))
             r == SleepingRow(sender[t], x)
  <2>1. Becomes(t, r) /\ message' = message
    BY <1>6, Zenon DEF WaitsForSlot, SleepingRow, r, x
  <2> HIDE DEF x, r
  <2>2. PICK V : OutboxShape(V) /\ x \in V
    <3>1. OutboxShape(T \cup {x}) /\ x \in T \cup {x}
      BY <1>1, ShapeWidens
    <3> QED BY <3>1
  <2>3. sender[t] \in SenderRow(V)
    BY <2>2 DEF OutboxShape
  <2>4. r \in SenderRow(V) /\ r.pc = "sleep" /\ r.m = sender[t].m
    BY <2>2, <2>3, SleepingRowIs DEF r
  <2>5. /\ sender'[t] = r /\ sender' \in [Senders -> SenderRow(V)]
        /\ \A u \in Senders \ {t} : sender'[u] = sender[u]
    BY <2>1, <2>2, <2>4, Becoming
  <2>6. MessagesInv'
    BY <1>2, <1>3, <2>1, <2>2, <2>4, MessagesStay
  <2>7. SlotsInv' /\ RateInv' /\ AlarmsInv'
    BY <1>1, <1>2, <1>3, <2>4, <2>5, RestStays
  <2>8. OutboxShape(V)'
    BY <1>3, <2>1, <2>2, <2>5 DEF OutboxShape
  <2> QED BY <2>6, <2>7, <2>8 DEF OutboxInv
<1> QED BY <1>5, <1>6

\* The tries: k is the thread's row after the answer, e what became of the message by it.
LEMMA TriesAgainKeeps ==
    ASSUME OutboxInv, NEW t \in Senders, sender[t].pc \in Underway,
           UNCHANGED <<second, slots, lastAlarm, taken, wronged, alarms>>,
           NEW T, OutboxShape(T), NEW k \in SenderRow(T), k.m = sender[t].m,
           NEW e \in MessageRow, Honest(e), e.outcome = "pending", NEW delay, TriesAgain(t, k, delay, e)
    PROVE  OutboxInv'
<1>1. MessagesInv /\ SlotsInv /\ RateInv /\ AlarmsInv
  BY DEF OutboxInv
<1>2. CASE TriesLeft(k)
  <2> DEFINE x == second + delay
             r == TimedRow(k, "pause", x)
  <2>1. Becomes(t, r) /\ message' = [message EXCEPT ![sender[t].m] = e]
    BY <1>2, Zenon DEF TriesAgain, TimedRow, r, x
  <2> HIDE DEF x, r
  <2>2. PICK V : OutboxShape(V) /\ x \in V /\ k \in SenderRow(V)
    <3> DEFINE W == T \cup {x}
    <3>1. OutboxShape(W) /\ x \in W /\ T \subseteq W
      BY ShapeWidens
    <3> HIDE DEF W
    <3>2. k \in SenderRow(W)
      BY <3>1 DEF SenderRow
    <3> QED BY <3>1, <3>2
  <2>3. r \in SenderRow(V) /\ r.pc = "pause" /\ r.m = sender[t].m
    <3>1. "pause" \in Places
      BY DEF Places, Underway, Clocked
    <3> QED BY <2>2, <3>1, TimedRowIs DEF r
  <2>4. MessagesInv' /\ message' \in Seq(MessageRow)
    BY <1>1, <2>1, <2>2, <2>3, MessageGoesOn
  <2>5. sender'[t] = r /\ sender' \in [Senders -> SenderRow(V)] /\ \A u \in Senders \ {t} : sender'[u] = sender[u]
    BY <2>1, <2>2, <2>3, Becoming
  <2>6. SlotsInv' /\ RateInv' /\ AlarmsInv'
    BY <1>1, <2>3, <2>5, RestStays
  <2>7. OutboxShape(V)'
    BY <2>2, <2>4, <2>5 DEF OutboxShape
  <2> QED BY <2>4, <2>6, <2>7 DEF OutboxInv
<1>3. CASE ~TriesLeft(k)
  <2> DEFINE o == IF k.limited THEN "dead" ELSE "failed"
             d == [e EXCEPT !.outcome = o]
  <2>1. Becomes(t, Unused) /\ message' = [message EXCEPT ![sender[t].m] = d]
    BY <1>3, Zenon DEF TriesAgain, d, o
  <2>2. o \in {"pending", "sent", "dead", "failed", "broken"} /\ o # "sent"
    OBVIOUS
  <2> HIDE DEF o
  <2>3. d \in MessageRow /\ Honest(d)
    BY <2>2, MessageRows, ZenonT(60) DEF Honest
  <2> HIDE DEF d
  <2>4. Unused \in SenderRow(T) /\ Unused.pc = "rest" /\ Unused.pc \notin Underway
    BY UnusedRow DEF Underway, Clocked, OutboxShape
  <2>5. MessagesInv' /\ message' \in Seq(MessageRow)
    BY <1>1, <2>1, <2>3, <2>4, MessageGoesOn
  <2>6. /\ sender'[t] = Unused /\ sender' \in [Senders -> SenderRow(T)]
        /\ \A u \in Senders \ {t} : sender'[u] = sender[u]
    BY <2>1, <2>4, Becoming
  <2>7. SlotsInv' /\ RateInv' /\ AlarmsInv'
    BY <1>1, <2>4, <2>6, RestStays
  <2>8. OutboxShape(T)'
    BY <2>5, <2>6 DEF OutboxShape
  <2> QED BY <2>5, <2>7, <2>8 DEF OutboxInv
<1> QED BY <1>2, <1>3

LEMMA PostsKeeps ==
    ASSUME OutboxInv, NEW t \in Senders, Posts(t)
    PROVE  OutboxInv'
<1> DEFINE k == sender[t]
           limited == [k EXCEPT !.limited = TRUE]
           e == message[k.m]
           heard == [e EXCEPT !.arrived = @ + 1]
           missed == [e EXCEPT !.arrived = @ + 1, !.lost = @ + 1]
<1>1. PICK T : OutboxShape(T)
  BY DEF OutboxInv
<1>2. MessagesInv /\ SlotsInv /\ RateInv /\ AlarmsInv
  BY DEF OutboxInv
<1>3. k.pc \in Underway /\ UNCHANGED <<second, slots, lastAlarm, taken, wronged, alarms>>
  BY DEF Posts, Underway, Clocked
<1>4. k \in SenderRow(T) /\ Nat \subseteq T
  BY <1>1 DEF OutboxShape
<1>5. e \in MessageRow /\ Honest(e) /\ e.outcome = "pending"
  BY <1>1, <1>2, <1>3 DEF MessagesInv, OutboxShape
<1>6. missed \in MessageRow /\ Honest(missed) /\ missed.outcome = "pending"
  <2>1. missed \in MessageRow /\ missed.outcome = "pending" /\ missed.arrived = e.arrived + 1 /\ missed.lost = e.lost + 1
    BY <1>5, MessageRows
  <2>2. e.arrived = e.lost
    BY <1>5 DEF Honest
  <2> HIDE DEF missed, e
  <2> QED BY <2>1, <2>2 DEF Honest
<1>7. CASE Delivers(t)
  <2> DEFINE d == [e EXCEPT !.arrived = @ + 1, !.outcome = "sent"]
             h == [heard EXCEPT !.outcome = "sent"]
  <2>1. Becomes(t, Unused) /\ message' = [message EXCEPT ![sender[t].m] = d]
    BY <1>7, Zenon DEF Delivers, d, e, k
  <2>2. heard \in MessageRow /\ heard.arrived = e.arrived + 1 /\ heard.lost = e.lost
    BY <1>5, MessageRows
  <2>3. d = h
    BY Zenon DEF d, h, heard
  <2>4. e.arrived = e.lost
    BY <1>5 DEF Honest
  <2> HIDE DEF heard, e
  <2>5. h \in MessageRow /\ h.outcome = "sent" /\ h.arrived = heard.arrived /\ h.lost = heard.lost
    BY <2>2, MessageRows
  <2>6. d \in MessageRow /\ Honest(d)
    BY <2>2, <2>3, <2>4, <2>5 DEF Honest
  <2> HIDE DEF d
  <2>7. Unused \in SenderRow(T) /\ Unused.pc = "rest" /\ Unused.pc \notin Underway
    BY <1>4, UnusedRow DEF Underway, Clocked
  <2>8. MessagesInv' /\ message' \in Seq(MessageRow)
    BY <1>1, <1>2, <1>3, <2>1, <2>6, <2>7, MessageGoesOn
  <2>9. /\ sender'[t] = Unused /\ sender' \in [Senders -> SenderRow(T)]
        /\ \A u \in Senders \ {t} : sender'[u] = sender[u]
    BY <1>1, <2>1, <2>7, Becoming
  <2>10. SlotsInv' /\ RateInv' /\ AlarmsInv'
    BY <1>1, <1>2, <1>3, <2>7, <2>9, RestStays
  <2>11. OutboxShape(T)'
    BY <1>1, <1>3, <2>8, <2>9 DEF OutboxShape
  <2> QED BY <2>8, <2>10, <2>11 DEF OutboxInv
<1>8. CASE Limits(t)
  <2> DEFINE counted == [limited EXCEPT !.transient = @ + 1]
  <2>1. limited \in SenderRow(T) /\ limited.m = k.m
    BY <1>4, CountedRow
  <2>2. counted \in SenderRow(T) /\ counted.m = k.m
    <3> HIDE DEF limited
    <3> QED BY <2>1, CountedRow
  <2>3. \/ \E after \in RetryAfters : TriesAgain(t, limited, after, message[limited.m])
        \/ TriesAgain(t, counted, Backoff(limited.transient), message[limited.m])
    BY <1>8, Zenon DEF Limits, limited, counted, k
  <2>4. message[limited.m] = e
    BY <2>1
  <2> HIDE DEF limited, counted, e
  <2> QED BY <1>1, <1>3, <1>5, <2>1, <2>2, <2>3, <2>4, TriesAgainKeeps
<1>9. CASE Refuses(t)
  <2> DEFINE counted == [k EXCEPT !.transient = @ + 1]
  <2>1. counted \in SenderRow(T) /\ counted.m = k.m
    BY <1>4, CountedRow
  <2>2. \/ TriesAgain(t, k, Backoff(k.transient - 1), e)
        \/ TriesAgain(t, counted, Backoff(k.transient), e)
    BY <1>9, Zenon DEF Refuses, counted, k, e
  <2> HIDE DEF counted, e
  <2> QED BY <1>1, <1>3, <1>4, <1>5, <2>1, <2>2, TriesAgainKeeps
<1>10. CASE NoAnswer(t)
  <2> DEFINE b == k.limited /\ TriesLeft(k)
             counted == [k EXCEPT !.transient = @ + 1]
             row == [counted EXCEPT !.limited = b]
  <2>1. counted \in SenderRow(T) /\ counted.m = k.m
    BY <1>4, CountedRow
  <2>2. b \in BOOLEAN
    OBVIOUS
  <2>3. counted.limited = k.limited
    BY <1>4 DEF SenderRow
  <2>4. row = [k EXCEPT !.transient = @ + 1, !.limited = @ /\ TriesLeft(k)]
    BY <2>3, Zenon DEF row, counted, b
  <2>5. \/ TriesAgain(t, row, Backoff(k.transient), message[row.m])
        \/ TriesAgain(t, row, Backoff(k.transient),
                      [message[row.m] EXCEPT !.arrived = @ + 1, !.lost = @ + 1])
    BY <1>10, <2>4, Zenon DEF NoAnswer, k
  <2> HIDE DEF counted, b
  <2>6. row \in SenderRow(T) /\ row.m = k.m
    BY <2>1, <2>2, CountedRow
  <2> HIDE DEF row
  <2>7. TriesAgain(t, row, Backoff(k.transient), e) \/ TriesAgain(t, row, Backoff(k.transient), missed)
    BY <2>5, <2>6, Zenon DEF e, missed
  <2> HIDE DEF e, missed
  <2> QED BY <1>1, <1>3, <1>5, <1>6, <2>6, <2>7, TriesAgainKeeps
<1> QED BY <1>7, <1>8, <1>9, <1>10 DEF Posts

\* Whoever has read the clock goes on with it.
LEMMA Going ==
    ASSUME NEW T, OutboxShape(T), MessagesInv, NEW t \in Senders, sender[t].pc \in Underway,
           NEW pc \in Underway, GoesTo(t, pc)
    PROVE  /\ MessagesInv' /\ UNCHANGED message /\ sender' \in [Senders -> SenderRow(T)]
           /\ sender'[t].pc = pc /\ sender'[t].at = sender[t].at
           /\ \A u \in Senders \ {t} : sender'[u] = sender[u]
<1> DEFINE r == [sender[t] EXCEPT !.pc = pc]
<1>1. Becomes(t, r) /\ UNCHANGED message
  BY DEF GoesTo
<1>2. sender[t] \in SenderRow(T) /\ pc \in Places
  BY DEF OutboxShape, Places
<1>3. r \in SenderRow(T) /\ r.pc = pc /\ r.at = sender[t].at /\ r.m = sender[t].m
  BY <1>2 DEF SenderRow
<1> HIDE DEF r
<1>4. sender'[t] = r /\ sender' \in [Senders -> SenderRow(T)] /\ \A u \in Senders \ {t} : sender'[u] = sender[u]
  BY <1>1, <1>3, Becoming
<1>5. MessagesInv'
  BY <1>1, <1>3, MessagesStay
<1> QED BY <1>1, <1>3, <1>4, <1>5

LEMMA GoesToKeeps ==
    ASSUME OutboxInv, NEW t \in Senders, sender[t].pc \in Clocked, NEW pc \in {"head", "age", "pop", "room", "full"},
           GoesTo(t, pc), UNCHANGED <<second, slots, lastAlarm, taken, wronged, alarms>>
    PROVE  OutboxInv'
<1>1. PICK T : OutboxShape(T)
  BY DEF OutboxInv
<1>2. MessagesInv /\ SlotsInv /\ RateInv /\ AlarmsInv
  BY DEF OutboxInv
<1>3. sender[t].pc \in Underway /\ pc \in Underway
  BY DEF Underway, Clocked
<1>4. /\ MessagesInv' /\ UNCHANGED message /\ sender' \in [Senders -> SenderRow(T)]
      /\ sender'[t].pc = pc /\ sender'[t].at = sender[t].at
      /\ \A u \in Senders \ {t} : sender'[u] = sender[u]
  BY <1>1, <1>2, <1>3, Going
<1>5. SlotsInv'
  BY <1>2, SlotsStay
<1>6. RateInv'
  <2>1. /\ taken \in Seq(Nat) /\ second \in Nat /\ second <= second
        /\ \A u \in Senders : sender[u].at \in Nat
    BY <1>1, SenderFields DEF OutboxShape
  <2>2. \A u \in Senders : sender'[u].pc = "take" => sender[u].pc = "take" /\ sender'[u].at = sender[u].at
    BY <1>4
  <2>3. \A u \in Senders : sender'[u].pc \in Clocked => sender[u].pc \in Clocked /\ sender'[u].at = sender[u].at
    BY <1>4
  <2> QED BY <1>2, <2>1, <2>2, <2>3, RateStays
<1>7. AlarmsInv'
  <2>1. \A u \in Senders : sender'[u].pc = "alarm" =>
          sender[u].pc = "alarm" /\ sender'[u].at = sender[u].at /\ sender'[u].seen = sender[u].seen
    BY <1>4
  <2> QED BY <1>2, <2>1, AlarmsStay
<1>8. OutboxShape(T)'
  BY <1>1, <1>4 DEF OutboxShape
<1> QED BY <1>4, <1>5, <1>6, <1>7, <1>8 DEF OutboxInv

LEMMA ReadsClockKeeps ==
    ASSUME OutboxInv, NEW t \in Senders, ReadsClock(t)
    PROVE  OutboxInv'
<1> DEFINE r == LookedRow(sender[t], "head", second)
<1>1. PICK T : OutboxShape(T)
  BY DEF OutboxInv
<1>2. MessagesInv /\ SlotsInv /\ RateInv /\ AlarmsInv
  BY DEF OutboxInv
<1>3. /\ Becomes(t, r) /\ UNCHANGED <<second, slots, message, lastAlarm, taken, wronged, alarms>>
      /\ sender[t].pc = "look"
  BY DEF ReadsClock, LookedRow
<1> HIDE DEF r
<1>4. /\ sender[t] \in SenderRow(T) /\ second \in Nat /\ second <= second /\ taken \in Seq(Nat)
      /\ \A u \in Senders : sender[u].at \in Nat
  BY <1>1, SenderFields DEF OutboxShape
<1>5. r \in SenderRow(T) /\ r.pc = "head" /\ r.at = second /\ r.m = sender[t].m
  <2>1. "head" \in Places
    BY DEF Places, Underway, Clocked
  <2> QED BY <1>4, <2>1, LookedRowIs DEF r
<1>6. sender'[t] = r /\ sender' \in [Senders -> SenderRow(T)] /\ \A u \in Senders \ {t} : sender'[u] = sender[u]
  BY <1>1, <1>3, <1>5, Becoming
<1>7. MessagesInv'
  <2>1. sender[t].pc \in Underway
    BY <1>3 DEF Underway, Clocked
  <2> QED BY <1>1, <1>2, <1>3, <1>5, <2>1, MessagesStay
<1>8. SlotsInv'
  BY <1>2, <1>3, SlotsStay
<1>9. RateInv'
  <2>1. \A u \in Senders : sender'[u].pc = "take" => sender[u].pc = "take" /\ sender'[u].at = sender[u].at
    BY <1>5, <1>6
  <2>2. \A u \in Senders : sender'[u].pc \in Clocked =>
          sender'[u].at = second' \/ (sender[u].pc \in Clocked /\ sender'[u].at = sender[u].at)
    BY <1>3, <1>5, <1>6
  <2> QED BY <1>2, <1>3, <1>4, <2>1, <2>2, RateStays
<1>10. AlarmsInv'
  <2>1. \A u \in Senders : sender'[u].pc = "alarm" =>
          sender[u].pc = "alarm" /\ sender'[u].at = sender[u].at /\ sender'[u].seen = sender[u].seen
    BY <1>5, <1>6
  <2> QED BY <1>2, <1>3, <2>1, AlarmsStay
<1>11. OutboxShape(T)'
  BY <1>1, <1>3, <1>6 DEF OutboxShape
<1> QED BY <1>7, <1>8, <1>9, <1>10, <1>11 DEF OutboxInv

LEMMA LooksForSlotKeeps ==
    ASSUME OutboxInv, NEW t \in Senders, LooksForSlot(t)
    PROVE  OutboxInv'
<1> DEFINE pc == IF slots = <<>> THEN "room" ELSE "age"
<1>1. GoesTo(t, pc) /\ UNCHANGED <<second, slots, lastAlarm, taken, wronged, alarms>> /\ sender[t].pc \in Clocked
  BY DEF LooksForSlot, Clocked
<1>2. pc \in {"head", "age", "pop", "room", "full"}
  OBVIOUS
<1> HIDE DEF pc
<1> QED BY <1>1, <1>2, GoesToKeeps

LEMMA TestsOldestKeeps ==
    ASSUME OutboxInv, NEW t \in Senders, TestsOldest(t)
    PROVE  OutboxInv'
<1>1. /\ UNCHANGED <<second, slots, lastAlarm, taken, wronged, alarms>>
      /\ sender[t].pc \in Clocked /\ sender[t].pc \in Underway
  BY DEF TestsOldest, Clocked, Underway
<1>2. CASE slots = <<>>
  <2>1. LosesMessage(t)
    BY <1>2, Zenon DEF TestsOldest
  <2> QED BY <1>1, <2>1, LosesMessageKeeps
<1>3. CASE slots # <<>>
  <2> DEFINE pc == IF sender[t].at - slots[1] >= Window THEN "pop" ELSE "room"
  <2>1. GoesTo(t, pc)
    BY <1>3, Zenon DEF TestsOldest
  <2>2. pc \in {"head", "age", "pop", "room", "full"}
    OBVIOUS
  <2> HIDE DEF pc
  <2> QED BY <1>1, <2>1, <2>2, GoesToKeeps
<1> QED BY <1>2, <1>3

\* Who finds room sees every slot of a window of which none was dropped.
LEMMA LooksForRoomKeeps ==
    ASSUME OutboxInv, NEW t \in Senders, LooksForRoom(t)
    PROVE  OutboxInv'
<1>1. PICK T : OutboxShape(T)
  BY DEF OutboxInv
<1>2. MessagesInv /\ SlotsInv /\ RateInv /\ AlarmsInv
  BY DEF OutboxInv
<1>3. /\ UNCHANGED <<second, slots, lastAlarm, taken, wronged, alarms>>
      /\ sender[t].pc = "room" /\ sender[t].pc \in Clocked /\ sender[t].pc \in Underway
  BY DEF LooksForRoom, Clocked, Underway
<1>4. CASE ~(Len(slots) < Budget)
  <2>1. GoesTo(t, "full")
    BY <1>4 DEF LooksForRoom
  <2> QED BY <1>3, <2>1, GoesToKeeps
<1>5. CASE Len(slots) < Budget
  <2>1. GoesTo(t, "take")
    BY <1>5 DEF LooksForRoom
  <2>2. "take" \in Underway /\ "take" \in Clocked
    BY DEF Underway, Clocked
  <2>3. /\ MessagesInv' /\ UNCHANGED message /\ sender' \in [Senders -> SenderRow(T)]
        /\ sender'[t].pc = "take" /\ sender'[t].at = sender[t].at
        /\ \A u \in Senders \ {t} : sender'[u] = sender[u]
    BY <1>1, <1>2, <1>3, <2>1, <2>2, Going
  <2>4. SlotsInv'
    BY <1>2, <1>3, SlotsStay
  <2>5. AlarmsInv'
    <3>1. \A u \in Senders : sender'[u].pc = "alarm" =>
            sender[u].pc = "alarm" /\ sender'[u].at = sender[u].at /\ sender'[u].seen = sender[u].seen
      BY <2>3
    <3> QED BY <1>2, <1>3, <3>1, AlarmsStay
  <2>6. ASSUME NEW u \in Senders, sender'[u].pc \in Clocked PROVE sender'[u].at <= second'
    <3>1. sender[u].pc \in Clocked /\ sender'[u].at = sender[u].at
      BY <1>3, <2>3, <2>6
    <3> QED BY <1>2, <1>3, <3>1 DEF RateInv
  <2>7. ASSUME NEW from \in Nat PROVE Open(from)' \/ Over(from)'
    <3>1. /\ taken \in Seq(Nat) /\ slots \in Seq(Nat) /\ second \in Nat /\ Len(taken) \in Nat /\ Len(slots) \in Nat
          /\ Dropped \in Nat
      BY <1>1, <1>2 DEF OutboxShape, SlotsInv
    <3>2. TakenIn(from)' = TakenIn(from) /\ Dropped' = Dropped /\ Cardinality(TakenIn(from)) \in Nat
      BY <1>3, <3>1, TakenFinite DEF TakenIn, Dropped
    <3>3. CASE Open(from)
      <4>1. TakenIn(from) \in SUBSET ((Dropped + 1)..Len(taken))
        <5>1. ASSUME NEW i \in TakenIn(from) PROVE i \in (Dropped + 1)..Len(taken)
          <6>1. i \in 1..Len(taken) /\ Dropped < i
            BY <3>3 DEF Open, TakenIn
          <6> QED BY <3>1, <6>1
        <5> QED BY <5>1
      <4>2. IsFiniteSet((Dropped + 1)..Len(taken)) /\ Cardinality((Dropped + 1)..Len(taken)) = Len(slots)
        <5>1. Dropped + 1 \in Int /\ Len(taken) \in Int /\ Len(taken) - (Dropped + 1) + 1 = Len(slots)
          BY <3>1 DEF Dropped
        <5>2. Dropped + 1 > Len(taken) => Len(slots) = 0
          BY <3>1 DEF Dropped
        <5> QED BY <5>1, <5>2, FS_Interval
      <4>3. Cardinality(TakenIn(from)) <= Budget - 1
        <5>1. Cardinality(TakenIn(from)) <= Len(slots)
          BY <4>1, <4>2, FS_Subset
        <5> QED BY <1>5, <3>1, <3>2, <5>1, OutboxConstants
      <4>4. TakingIn(from)' \in SUBSET Senders
        BY DEF TakingIn
      <4>5. Cardinality(TakingIn(from)') \in Nat /\ Cardinality(TakingIn(from)') <= Cardinality(Senders)
        BY <4>4, SendersFinite
      <4>6. Open(from)'
        BY <3>2, <3>3, <4>3, <4>5, OutboxConstants DEF Open
      <4> QED BY <4>6
    <3>4. CASE Over(from)
      <4>1. LateIn(from)' = LateIn(from)
        BY <1>3, <2>2, <2>3 DEF LateIn
      <4>2. Over(from)'
        BY <1>3, <3>2, <3>4, <4>1 DEF Over
      <4> QED BY <4>2
    <3> QED BY <1>2, <3>3, <3>4 DEF RateInv
  <2>8. RateInv'
    BY <2>6, <2>7 DEF RateInv
  <2>9. OutboxShape(T)'
    BY <1>1, <1>3, <2>3 DEF OutboxShape
  <2> QED BY <2>3, <2>4, <2>5, <2>8, <2>9 DEF OutboxInv
<1> QED BY <1>4, <1>5

\* A slot dropped in place of another leaves what is counted; the first one dropped as expired is
\* dropped by a thread that is itself not late.
LEMMA DropsOldestKeeps ==
    ASSUME OutboxInv, NEW t \in Senders, DropsOldest(t)
    PROVE  OutboxInv'
<1>1. PICK T : OutboxShape(T)
  BY DEF OutboxInv
<1>2. MessagesInv /\ SlotsInv /\ RateInv /\ AlarmsInv
  BY DEF OutboxInv
<1>3. /\ UNCHANGED <<second, lastAlarm, taken, alarms>>
      /\ sender[t].pc = "pop" /\ sender[t].pc \in Clocked /\ sender[t].pc \in Underway
  BY DEF DropsOldest, Clocked, Underway
<1>4. CASE slots = <<>>
  <2>1. LosesMessage(t) /\ UNCHANGED <<slots, wronged>>
    BY <1>4, Zenon DEF DropsOldest
  <2> QED BY <1>3, <2>1, LosesMessageKeeps
<1>5. CASE slots # <<>>
  <2> DEFINE j == Dropped + 1
  <2>1. /\ GoesTo(t, "head") /\ slots' = Tail(slots)
        /\ wronged' = IF sender[t].at - slots[1] < Window
                      THEN wronged \cup {Len(taken) - Len(slots) + 1} ELSE wronged
    BY <1>5, Zenon DEF DropsOldest
  <2>2. /\ slots \in Seq(Nat) /\ taken \in Seq(Nat) /\ Len(slots) \in Nat /\ Len(taken) \in Nat /\ second \in Nat
        /\ sender[t].at \in Nat /\ sender[t].at <= second
    BY <1>1, <1>2, <1>3, SenderFields DEF OutboxShape, RateInv
  <2>3. /\ Len(slots) >= 1 /\ slots' \in Seq(Nat) /\ Len(slots') = Len(slots) - 1
        /\ \A i \in 1..Len(slots') : slots'[i] = slots[i + 1]
    BY <1>5, <2>1, <2>2
  <2>4. /\ Dropped \in Nat /\ Dropped' = Dropped + 1 /\ Len(taken) - Len(slots) + 1 = j
        /\ j \in 1..Len(taken) /\ taken[j] \in Nat /\ slots[1] = taken[j]
    <3>1. Dropped \in Nat /\ Dropped' = Dropped + 1 /\ Len(taken) - Len(slots) + 1 = j /\ j \in 1..Len(taken)
      BY <1>2, <1>3, <2>2, <2>3 DEF SlotsInv, Dropped
    <3>2. 1 \in 1..Len(slots)
      BY <2>2, <2>3
    <3>3. slots[1] = taken[j]
      BY <1>2, <3>2 DEF SlotsInv
    <3> HIDE DEF j
    <3> QED BY <2>2, <3>1, <3>3
  <2>5. "head" \in Underway /\ "head" \in Clocked
    BY DEF Underway, Clocked
  <2>6. /\ MessagesInv' /\ UNCHANGED message /\ sender' \in [Senders -> SenderRow(T)]
        /\ sender'[t].pc = "head" /\ sender'[t].at = sender[t].at
        /\ \A u \in Senders \ {t} : sender'[u] = sender[u]
    BY <1>1, <1>2, <1>3, <2>1, <2>5, Going
  <2>7. SlotsInv'
    <3>1. \A i \in 1..Len(slots') : slots'[i] = taken'[Dropped' + i]
      <4> SUFFICES ASSUME NEW i \in 1..Len(slots') PROVE slots[i + 1] = taken[Dropped + 1 + i]
        BY <1>3, <2>3, <2>4
      <4>1. i + 1 \in 1..Len(slots) /\ Dropped + (i + 1) = Dropped + 1 + i
        <5>1. Len(slots) \in Nat /\ i \in 1..(Len(slots) - 1) /\ Dropped \in Nat
          BY <2>2, <2>3, <2>4
        <5> QED BY ONLY <5>1
      <4> QED BY <1>2, <4>1 DEF SlotsInv
    <3>2. wronged' \subseteq 1..Len(taken')
      BY <1>2, <1>3, <2>1, <2>4 DEF SlotsInv
    <3>3. Dropped' \in Nat
      BY <2>4
    <3> QED BY <3>1, <3>2, <3>3 DEF SlotsInv
  <2>8. AlarmsInv'
    <3>1. \A u \in Senders : sender'[u].pc = "alarm" =>
            sender[u].pc = "alarm" /\ sender'[u].at = sender[u].at /\ sender'[u].seen = sender[u].seen
      BY <2>6
    <3> QED BY <1>2, <1>3, <3>1, AlarmsStay
  <2>9. ASSUME NEW u \in Senders, sender'[u].pc \in Clocked PROVE sender'[u].at <= second'
    <3>1. sender[u].pc \in Clocked /\ sender'[u].at = sender[u].at
      BY <1>3, <2>6, <2>9
    <3> QED BY <1>2, <1>3, <3>1 DEF RateInv
  <2> HIDE DEF j
  <2>10. ASSUME NEW from \in Nat PROVE Open(from)' \/ Over(from)'
    <3>1. IsFiniteSet(TakenIn(from)) /\ Cardinality(TakenIn(from)) \in Nat
      BY <2>2, TakenFinite
    <3>2. TakenIn(from)' \in SUBSET TakenIn(from)
      BY <1>3, <2>1 DEF TakenIn
    <3>3. Cardinality(TakenIn(from)') \in Nat /\ Cardinality(TakenIn(from)') <= Cardinality(TakenIn(from))
      BY <3>1, <3>2, FS_Subset, FS_CardinalityType
    <3>4. TakingIn(from)' = TakingIn(from) /\ LateIn(from)' = LateIn(from)
      BY <1>3, <2>5, <2>6 DEF TakingIn, LateIn
    <3>5. TakingIn(from) \in SUBSET Senders /\ LateIn(from) \in SUBSET Senders
      BY DEF TakingIn, LateIn
    <3>6. Cardinality(TakingIn(from)) \in Nat /\ Cardinality(LateIn(from)) \in Nat
      BY <3>5, SendersFinite
    <3>7. CASE Over(from)
      <4>1. Over(from)'
        BY <1>3, <3>3, <3>4, <3>1, <3>6, <3>7, OutboxConstants DEF Over
      <4> QED BY <4>1
    <3>8. CASE Open(from) /\ j \notin TakenIn(from)'
      <4>1. \A i \in TakenIn(from)' : Dropped' < i
        <5> SUFFICES ASSUME NEW i \in TakenIn(from)' PROVE Dropped + 1 < i
          BY <2>4
        <5>1. i \in TakenIn(from) /\ Dropped < i /\ i # j
          BY <3>2, <3>8 DEF Open
        <5>2. i \in Nat
          BY <5>1, <2>2 DEF TakenIn
        <5> QED BY <2>4, <5>1, <5>2 DEF j
      <4>2. Open(from)'
        BY <3>1, <3>3, <3>4, <3>6, <3>8, <4>1, OutboxConstants DEF Open
      <4> QED BY <4>2
    <3>9. CASE Open(from) /\ j \in TakenIn(from)'
      <4>1. j \notin wronged' /\ taken[j] \in from..(from + Window - 1)
        BY <1>3, <3>9 DEF TakenIn
      <4>2. sender[t].at - taken[j] >= Window
        <5>1. ~(sender[t].at - slots[1] < Window)
          BY <2>1, <2>4, <4>1, Zenon
        <5> QED BY <2>2, <2>4, <5>1, OutboxConstants
      <4>3. sender[t].at >= from + Window /\ from + Window <= second
        <5>1. /\ sender[t].at \in Nat /\ taken[j] \in Nat /\ from \in Nat /\ Window \in Nat /\ second \in Nat
              /\ sender[t].at <= second /\ taken[j] >= from /\ sender[t].at - taken[j] >= Window
          BY <2>2, <2>4, <4>1, <4>2, OutboxConstants
        <5> QED BY ONLY <5>1
      <4>4. LateIn(from) \in SUBSET (Senders \ {t})
        BY <2>2, <4>3, OutboxConstants DEF LateIn
      <4>5. IsFiniteSet(Senders \ {t}) /\ Cardinality(Senders \ {t}) = Cardinality(Senders) - 1
        BY OutboxConstants, FS_RemoveElement
      <4>6. Cardinality(LateIn(from)) <= Cardinality(Senders) - 1
        BY <4>4, <4>5, FS_Subset
      <4>7. Cardinality(TakenIn(from)) <= Budget + Cardinality(Senders) - 1
        BY <3>1, <3>6, <3>9, OutboxConstants DEF Open
      <4>8. Over(from)'
        BY <1>3, <3>1, <3>3, <3>4, <3>6, <4>3, <4>6, <4>7, OutboxConstants DEF Over
      <4> QED BY <4>8
    <3> QED BY <1>2, <3>7, <3>8, <3>9 DEF RateInv
  <2>11. RateInv'
    BY <2>9, <2>10 DEF RateInv
  <2>12. OutboxShape(T)'
    BY <1>1, <1>3, <2>3, <2>6 DEF OutboxShape
  <2> QED BY <2>6, <2>7, <2>8, <2>11, <2>12 DEF OutboxInv
<1> QED BY <1>4, <1>5

LEMMA TakesSlotKeeps ==
    ASSUME OutboxInv, NEW t \in Senders, TakesSlot(t)
    PROVE  OutboxInv'
<1> DEFINE r == PostingRow(sender[t])
           x == sender[t].at
<1>1. PICK T : OutboxShape(T)
  BY DEF OutboxInv
<1>2. MessagesInv /\ SlotsInv /\ RateInv /\ AlarmsInv
  BY DEF OutboxInv
<1>3. /\ Becomes(t, r) /\ UNCHANGED <<second, message, lastAlarm, wronged, alarms>>
      /\ slots' = Append(slots, x) /\ taken' = Append(taken, x) /\ sender[t].pc = "take"
  BY DEF TakesSlot, PostingRow
<1> HIDE DEF r
<1>4. /\ sender[t] \in SenderRow(T) /\ second \in Nat /\ slots \in Seq(Nat) /\ Len(slots) \in Nat
      /\ taken \in Seq(Nat) /\ Len(taken) \in Nat
  BY <1>1 DEF OutboxShape
<1>5. x \in Nat
  BY <1>4, SenderFields
<1>6. r \in SenderRow(T) /\ r.pc = "post" /\ r.m = sender[t].m
  BY <1>4, PostingRowIs DEF r
<1>7. sender'[t] = r /\ sender' \in [Senders -> SenderRow(T)] /\ \A u \in Senders \ {t} : sender'[u] = sender[u]
  BY <1>1, <1>3, <1>6, Becoming
<1>8. MessagesInv'
  <2>1. sender[t].pc \in Underway
    BY <1>3 DEF Underway, Clocked
  <2> QED BY <1>1, <1>2, <1>3, <1>6, <2>1, MessagesStay
<1>9. AlarmsInv'
  <2>1. \A u \in Senders : sender'[u].pc = "alarm" =>
          sender[u].pc = "alarm" /\ sender'[u].at = sender[u].at /\ sender'[u].seen = sender[u].seen
    BY <1>6, <1>7
  <2> QED BY <1>2, <1>3, <2>1, AlarmsStay
<1> DEFINE n == Len(taken) + 1
<1>10. /\ slots' \in Seq(Nat) /\ Len(slots') = Len(slots) + 1 /\ slots'[Len(slots) + 1] = x
       /\ \A i \in 1..Len(slots) : slots'[i] = slots[i]
  BY <1>3, <1>4, <1>5
<1>11. /\ taken' \in Seq(Nat) /\ Len(taken') = n /\ taken'[n] = x
       /\ \A i \in 1..Len(taken) : taken'[i] = taken[i]
  BY <1>3, <1>4, <1>5
<1>12. SlotsInv'
  <2>1. Dropped \in Nat /\ Dropped' = Dropped /\ wronged \subseteq 1..Len(taken)
        /\ \A i \in 1..Len(slots) : slots[i] = taken[Dropped + i]
    <3>1. Dropped' = Dropped
      BY <1>4, <1>10, <1>11 DEF Dropped
    <3> QED BY <1>2, <3>1 DEF SlotsInv
  <2>2. Dropped + Len(slots) = Len(taken) /\ Dropped + (Len(slots) + 1) = n
    BY <1>4 DEF Dropped
  <2>3. \A i \in 1..Len(slots') : slots'[i] = taken'[Dropped + i]
    <3> SUFFICES ASSUME NEW i \in 1..Len(slots') PROVE slots'[i] = taken'[Dropped + i]
      OBVIOUS
    <3>1. CASE i = Len(slots) + 1
      <4>1. Dropped + i = n
        BY <2>2, <3>1
      <4> QED BY <1>10, <1>11, <3>1, <4>1
    <3>2. CASE i # Len(slots) + 1
      <4>1. i \in 1..Len(slots) /\ Dropped + i \in 1..Len(taken)
        <5>1. /\ Dropped \in Nat /\ Len(slots) \in Nat /\ Len(taken) \in Nat /\ Dropped + Len(slots) = Len(taken)
              /\ i \in 1..(Len(slots) + 1) /\ i # Len(slots) + 1
          BY <1>4, <1>10, <2>1, <2>2, <3>2
        <5> QED BY ONLY <5>1
      <4> QED BY <1>10, <1>11, <2>1, <4>1
    <3> QED BY <3>1, <3>2
  <2>4. wronged' \subseteq 1..Len(taken')
    <3>1. \A i \in 1..Len(taken) : i \in 1..n
      BY <1>4
    <3> QED BY <1>3, <1>11, <2>1, <3>1
  <2> QED BY <2>1, <2>3, <2>4 DEF SlotsInv
<1>13. RateInv'
  <2> HIDE DEF x
  <2>1. ASSUME NEW u \in Senders, sender'[u].pc \in Clocked PROVE sender'[u].at <= second'
    <3>1. sender[u].pc \in Clocked /\ sender'[u].at = sender[u].at
      BY <1>6, <1>7, <2>1 DEF Clocked
    <3> QED BY <1>2, <1>3, <3>1 DEF RateInv
  <2>2. ASSUME NEW from \in Nat PROVE Open(from)' \/ Over(from)'
    <3>1. /\ IsFiniteSet(TakenIn(from)) /\ Cardinality(TakenIn(from)) \in Nat
          /\ n \notin TakenIn(from) /\ n \notin wronged /\ n \in 1..n
          /\ \A i \in 1..n : i = n \/ i \in 1..Len(taken)
          /\ \A i \in 1..Len(taken) : i \in 1..n
      <4>1. n \in Nat /\ 1 <= n /\ n \notin 1..Len(taken)
        BY <1>4
      <4>2. \A i \in 1..n : i = n \/ i \in 1..Len(taken)
        BY <1>4
      <4>3. \A i \in 1..Len(taken) : i \in 1..n
        BY <1>4
      <4>4. n \notin TakenIn(from) /\ n \notin wronged
        BY <1>2, <4>1 DEF TakenIn, SlotsInv
      <4> HIDE DEF n
      <4> QED BY <1>4, <4>1, <4>2, <4>3, <4>4, TakenFinite
    <3>2. TakingIn(from) \in SUBSET Senders /\ LateIn(from) \in SUBSET Senders
      BY DEF TakingIn, LateIn
    <3>3. /\ IsFiniteSet(TakingIn(from)) /\ Cardinality(TakingIn(from)) \in Nat
          /\ IsFiniteSet(LateIn(from)) /\ Cardinality(LateIn(from)) \in Nat
      BY <3>2, SendersFinite
    <3>4. Dropped' = Dropped /\ Dropped < n
      BY <1>2, <1>4, <1>10, <1>11 DEF Dropped, SlotsInv
    <3> HIDE DEF n
    <3>5. TakingIn(from)' = TakingIn(from) \ {t} /\ LateIn(from)' = LateIn(from) \ {t}
      BY <1>6, <1>7 DEF TakingIn, LateIn, Clocked
    <3>6. CASE x \in from..(from + Window - 1)
      <4>1. TakenIn(from)' = TakenIn(from) \cup {n}
        BY <1>3, <1>11, <3>1, <3>6 DEF TakenIn
      <4>2. t \in TakingIn(from) /\ t \in LateIn(from)
        BY <1>3, <3>6 DEF TakingIn, LateIn, Clocked, x
      <4>3. Cardinality(TakenIn(from)') = Cardinality(TakenIn(from)) + 1
        BY <3>1, <4>1, FS_AddElement
      <4>4. Cardinality(TakingIn(from)') = Cardinality(TakingIn(from)) - 1
        BY <3>3, <3>5, <4>2, FS_RemoveElement
      <4>5. Cardinality(LateIn(from)') = Cardinality(LateIn(from)) - 1
        BY <3>3, <3>5, <4>2, FS_RemoveElement
      <4>6. CASE Open(from)
        <5>1. \A i \in TakenIn(from)' : Dropped' < i
          BY <3>4, <4>1, <4>6 DEF Open
        <5>2. Open(from)'
          BY <3>1, <3>3, <4>3, <4>4, <4>6, <5>1, OutboxConstants DEF Open
        <5> QED BY <5>2
      <4>7. CASE Over(from)
        <5>1. Over(from)'
          BY <1>3, <3>1, <3>3, <4>3, <4>5, <4>7, OutboxConstants DEF Over
        <5> QED BY <5>1
      <4> QED BY <1>2, <4>6, <4>7 DEF RateInv
    <3>7. CASE x \notin from..(from + Window - 1)
      <4>1. TakenIn(from)' = TakenIn(from)
        BY <1>3, <1>11, <3>1, <3>7 DEF TakenIn
      <4>2. t \notin TakingIn(from) /\ t \notin LateIn(from)
        BY <3>7 DEF TakingIn, LateIn, x
      <4>3. TakingIn(from)' = TakingIn(from) /\ LateIn(from)' = LateIn(from)
        BY <3>5, <4>2
      <4>4. Open(from) => Open(from)'
        BY <3>4, <4>1, <4>3 DEF Open
      <4>5. Over(from) => Over(from)'
        BY <1>3, <4>1, <4>3 DEF Over
      <4> QED BY <1>2, <4>4, <4>5 DEF RateInv
    <3> QED BY <3>6, <3>7
  <2> QED BY <2>1, <2>2 DEF RateInv
<1>14. OutboxShape(T)'
  BY <1>1, <1>3, <1>7, <1>10, <1>11 DEF OutboxShape
<1> QED BY <1>8, <1>9, <1>12, <1>13, <1>14 DEF OutboxInv

\* An alarm of a scan that had not seen the last one has that scan in its favour; the others rest on the
\* alarm their scan had seen.
LEMMA AlarmAdded ==
    ASSUME NEW T, OutboxShape(T), AlarmsInv, NEW t \in Senders, sender[t].pc = "alarm",
           alarms' = Append(alarms, [at |-> sender[t].at, seen |-> sender[t].seen])
    PROVE  AlarmsCoolDown' /\ alarms' \in Seq(AlarmRow) /\ Len(alarms') = Len(alarms) + 1
           /\ alarms'[Len(alarms) + 1].at = sender[t].at
           /\ \A i \in 1..Len(alarms) : alarms'[i] = alarms[i]
<1> DEFINE n == Len(alarms)
           a == [at |-> sender[t].at, seen |-> sender[t].seen]
           s == sender[t].seen
<1>1. alarms \in Seq(AlarmRow) /\ n \in Nat /\ sender[t] \in SenderRow(T)
  BY DEF OutboxShape
<1>2. a \in AlarmRow /\ a.at = sender[t].at /\ a.seen = s /\ s \in Nat /\ sender[t].at \in Nat
  BY <1>1, SenderFields DEF AlarmRow
<1>3. alarms' = Append(alarms, a)
  OBVIOUS
<1>4. s <= n /\ (s > 0 => a.at - alarms[s].at >= AlarmCooldown)
  BY <1>2 DEF AlarmsInv
<1>5. \A i, j \in 1..n :
        i < j => \/ alarms[j].at - alarms[i].at >= AlarmCooldown
                 \/ \E k \in (i + 1)..j : alarms[k].seen < i
  BY DEF AlarmsInv, AlarmsCoolDown
<1> HIDE DEF a, s
<1>6. alarms' \in Seq(AlarmRow) /\ Len(alarms') = n + 1 /\ alarms'[n + 1] = a /\ \A i \in 1..n : alarms'[i] = alarms[i]
  BY <1>1, <1>2, <1>3
<1>7. \A i \in 1..n : alarms[i] \in AlarmRow /\ alarms[i].at \in Nat
  <2>1. \A i \in 1..n : alarms[i] \in AlarmRow
    BY <1>1
  <2> QED BY <2>1 DEF AlarmRow
<1>8. ASSUME NEW i \in 1..(n + 1), NEW j \in 1..(n + 1), i < j
      PROVE  \/ alarms'[j].at - alarms'[i].at >= AlarmCooldown
             \/ \E k \in (i + 1)..j : alarms'[k].seen < i
  <2> HIDE DEF n
  <2>1. i \in 1..n /\ i \in Nat /\ j \in Nat /\ i >= 1
    BY <1>1, <1>8
  <2>2. CASE j # n + 1
    <3>1. j \in 1..n /\ \A k \in (i + 1)..j : k \in 1..n
      BY <1>1, <2>1, <2>2
    <3> QED BY <1>5, <1>6, <1>8, <2>1, <3>1
  <2>3. CASE j = n + 1 /\ s < i
    <3>1. j \in (i + 1)..j
      BY <1>8, <2>1
    <3> QED BY <1>2, <1>6, <2>3, <3>1
  <2>4. CASE j = n + 1 /\ s = i
    BY <1>4, <1>6, <2>1, <2>4
  <2>5. CASE j = n + 1 /\ s > i
    <3>1. s \in 1..n
      BY <1>1, <1>2, <1>4, <2>1, <2>5
    <3>2. a.at - alarms[s].at >= AlarmCooldown
      BY <1>4, <3>1
    <3>3. CASE alarms[s].at - alarms[i].at >= AlarmCooldown
      <4>1. a.at \in Nat /\ alarms[s].at \in Nat /\ alarms[i].at \in Nat
        BY <1>2, <1>7, <2>1, <3>1
      <4>2. a.at - alarms[i].at >= AlarmCooldown
        BY <3>2, <3>3, <4>1, OutboxConstants
      <4> QED BY <1>6, <2>1, <2>5, <4>2
    <3>4. CASE \E k \in (i + 1)..s : alarms[k].seen < i
      <4>1. PICK k \in (i + 1)..s : alarms[k].seen < i
        BY <3>4
      <4>2. k \in 1..n /\ k \in (i + 1)..j
        BY <1>1, <2>1, <2>5, <3>1, <4>1
      <4> QED BY <1>6, <4>1, <4>2
    <3> QED BY <1>5, <2>1, <2>5, <3>1, <3>3, <3>4
  <2>6. s < i \/ s = i \/ s > i
    BY <1>2, <2>1
  <2> QED BY <2>2, <2>3, <2>4, <2>5, <2>6
<1>9. AlarmsCoolDown'
  BY <1>6, <1>8 DEF AlarmsCoolDown
<1> QED BY <1>2, <1>6, <1>9

LEMMA GivesAlarmKeeps ==
    ASSUME OutboxInv, NEW t \in Senders, GivesAlarm(t)
    PROVE  OutboxInv'
<1>1. PICK T : OutboxShape(T)
  BY DEF OutboxInv
<1>2. MessagesInv /\ SlotsInv /\ RateInv /\ AlarmsInv
  BY DEF OutboxInv
<1>3. /\ sender[t].pc = "alarm" /\ lastAlarm' = sender[t].at /\ UNCHANGED <<second, slots, taken, wronged>>
      /\ alarms' = Append(alarms, [at |-> sender[t].at, seen |-> sender[t].seen])
      /\ BeginsMessage(t) \/ (Becomes(t, Unused) /\ UNCHANGED message)
  BY DEF GivesAlarm
<1>4. /\ Nat \subseteq T /\ sender[t] \in SenderRow(T) /\ second \in Nat /\ taken \in Seq(Nat)
      /\ message \in Seq(MessageRow) /\ alarms \in Seq(AlarmRow) /\ Len(alarms) \in Nat
  BY <1>1 DEF OutboxShape
<1>5. sender[t].pc \notin Underway /\ sender[t].at \in Nat
  BY <1>3, <1>4, SenderFields DEF Underway, Clocked
<1>6. /\ MessagesInv' /\ sender'[t].pc \in {"look", "rest"} /\ sender' \in [Senders -> SenderRow(T)]
      /\ message' \in Seq(MessageRow) /\ \A u \in Senders \ {t} : sender'[u] = sender[u]
  <2>1. CASE BeginsMessage(t)
    BY <1>1, <1>2, <1>5, <2>1, MessageBegins
  <2>2. CASE Becomes(t, Unused) /\ UNCHANGED message
    <3>1. Unused \in SenderRow(T) /\ Unused.pc = "rest" /\ Unused.pc \notin Underway
      BY <1>4, UnusedRow DEF Underway, Clocked
    <3>2. /\ sender'[t] = Unused /\ sender' \in [Senders -> SenderRow(T)]
          /\ \A u \in Senders \ {t} : sender'[u] = sender[u]
      BY <1>1, <2>2, <3>1, Becoming
    <3>3. MessagesInv'
      BY <1>1, <1>2, <2>2, <3>1, MessagesStay
    <3> QED BY <1>4, <2>2, <3>1, <3>2, <3>3
  <2> QED BY <1>3, <2>1, <2>2
<1>7. SlotsInv'
  BY <1>1, <1>2, <1>3, <1>4, SlotsStay
<1>8. RateInv'
  <2>1. \A u \in Senders : sender'[u].pc = "take" => sender[u].pc = "take" /\ sender'[u].at = sender[u].at
    BY <1>6
  <2>2. \A u \in Senders : sender'[u].pc \in Clocked => sender[u].pc \in Clocked /\ sender'[u].at = sender[u].at
    BY <1>6 DEF Clocked
  <2>3. \A u \in Senders : sender[u].at \in Nat
    BY <1>1, SenderFields DEF OutboxShape
  <2> QED BY <1>2, <1>3, <1>4, <2>1, <2>2, <2>3, RateStays
<1> DEFINE n == Len(alarms) + 1
<1>9. /\ AlarmsCoolDown' /\ alarms' \in Seq(AlarmRow) /\ Len(alarms') = n /\ alarms'[n].at = sender[t].at
      /\ \A i \in 1..Len(alarms) : alarms'[i] = alarms[i]
  BY <1>1, <1>2, <1>3, AlarmAdded
<1>10. AlarmsInv'
  <2>1. lastAlarm' = IF alarms' = <<>> THEN -1 ELSE alarms'[Len(alarms')].at
    <3>1. alarms' # <<>>
      BY <1>4, <1>9
    <3> QED BY <1>3, <1>9, <3>1
  <2>2. \A u \in Senders : sender'[u].pc = "alarm" =>
          /\ sender'[u].seen <= Len(alarms')
          /\ sender'[u].seen > 0 => sender'[u].at - alarms'[sender'[u].seen].at >= AlarmCooldown
    <3> SUFFICES ASSUME NEW u \in Senders, sender'[u].pc = "alarm"
                 PROVE  /\ sender'[u].seen <= n
                        /\ sender'[u].seen > 0 => sender'[u].at - alarms'[sender'[u].seen].at >= AlarmCooldown
      BY <1>9
    <3>1. sender'[u] = sender[u] /\ sender[u].pc = "alarm"
      BY <1>6
    <3>2. sender[u].seen \in Nat
      BY <1>1, SenderFields DEF OutboxShape
    <3>3. /\ sender[u].seen <= Len(alarms)
          /\ sender[u].seen > 0 => sender[u].at - alarms[sender[u].seen].at >= AlarmCooldown
      BY <1>2, <3>1 DEF AlarmsInv
    <3>4. sender[u].seen > 0 => sender[u].seen \in 1..Len(alarms)
      BY <1>4, <3>2, <3>3
    <3> QED BY <1>4, <1>9, <3>1, <3>2, <3>3, <3>4
  <2> QED BY <1>9, <2>1, <2>2 DEF AlarmsInv
<1>11. OutboxShape(T)'
  BY <1>1, <1>3, <1>5, <1>6, <1>9 DEF OutboxShape
<1> QED BY <1>6, <1>7, <1>8, <1>10, <1>11 DEF OutboxInv

LEMMA SecondPassesKeeps ==
    ASSUME OutboxInv, SecondPasses
    PROVE  OutboxInv'
<1>1. PICK T : OutboxShape(T)
  BY DEF OutboxInv
<1>2. MessagesInv /\ SlotsInv /\ RateInv /\ AlarmsInv
  BY DEF OutboxInv
<1>3. second' = second + 1 /\ UNCHANGED <<slots, sender, message, lastAlarm, taken, wronged, alarms>>
  BY DEF SecondPasses
<1>4. second \in Nat /\ second' \in Nat /\ second <= second' /\ taken \in Seq(Nat)
  BY <1>1, <1>3 DEF OutboxShape
<1>5. MessagesInv'
  BY <1>2, <1>3 DEF MessagesInv
<1>6. SlotsInv'
  BY <1>1, <1>2, <1>3, <1>4, SlotsStay
<1>7. RateInv'
  <2>1. \A u \in Senders : sender'[u] = sender[u] /\ sender[u].at \in Nat
    BY <1>1, <1>3, SenderFields DEF OutboxShape
  <2> QED BY <1>2, <1>3, <1>4, <2>1, RateStays
<1>8. AlarmsInv'
  BY <1>2, <1>3, AlarmsStay
<1>9. OutboxShape(T)'
  BY <1>1, <1>3, <1>4 DEF OutboxShape
<1> QED BY <1>5, <1>6, <1>7, <1>8, <1>9 DEF OutboxInv

LEMMA OutboxInvInit ==
    ASSUME OutboxInit
    PROVE  OutboxInv
<1>0. \A t \in Senders : sender[t].pc = "rest"
  <2>1. Unused.pc = "rest"
    BY DEF Unused
  <2> QED BY <2>1 DEF OutboxInit
<1>1. OutboxShape(Nat)
  BY UnusedRow DEF OutboxInit, OutboxShape
<1>2. MessagesInv
  BY <1>0 DEF OutboxInit, MessagesInv, Underway, Clocked
<1>3. SlotsInv
  BY DEF OutboxInit, SlotsInv, Dropped
<1>4. RateInv
  <2>1. \A t \in Senders : sender[t].pc \notin Clocked /\ sender[t].pc # "take"
    BY <1>0 DEF Clocked
  <2>2. ASSUME NEW from \in Nat PROVE Open(from)
    <3>1. TakenIn(from) = {} /\ TakingIn(from) = {}
      BY <2>1 DEF OutboxInit, TakenIn, TakingIn
    <3> QED BY <3>1, FS_EmptySet, OutboxConstants DEF Open
  <2> QED BY <2>1, <2>2 DEF RateInv
<1>5. AlarmsInv
  BY <1>0 DEF OutboxInit, AlarmsInv, AlarmsCoolDown
<1> QED BY <1>1, <1>2, <1>3, <1>4, <1>5 DEF OutboxInv

LEMMA OutboxInvStep ==
    ASSUME OutboxInv, [OutboxNext]_outboxVars
    PROVE  OutboxInv'
<1>1. CASE SecondPasses
  BY <1>1, SecondPassesKeeps
<1>2. ASSUME NEW t \in Senders,
             \/ Sends(t) \/ FindsStale(t) \/ GivesAlarm(t) \/ ReadsClock(t) \/ LooksForSlot(t)
             \/ TestsOldest(t) \/ DropsOldest(t) \/ LooksForRoom(t) \/ TakesSlot(t)
             \/ WaitsForSlot(t) \/ Wakes(t) \/ Posts(t)
      PROVE  OutboxInv'
  BY <1>2, SendsKeeps, FindsStaleKeeps, GivesAlarmKeeps, ReadsClockKeeps, LooksForSlotKeeps,
     TestsOldestKeeps, DropsOldestKeeps, LooksForRoomKeeps, TakesSlotKeeps, WaitsForSlotKeeps, WakesKeeps, PostsKeeps
<1>3. CASE UNCHANGED outboxVars
  BY <1>3 DEF outboxVars, OutboxInv, OutboxShape, MessagesInv, SlotsInv, RateInv, Open, Over, Dropped, TakenIn,
              TakingIn, LateIn, AlarmsInv, AlarmsCoolDown
<1> QED BY <1>1, <1>2, <1>3 DEF OutboxNext

LEMMA OutboxInvHolds ==
    ASSUME OutboxInv
    PROVE  SendsSparingly
<1>1. PICK T : OutboxShape(T)
  BY DEF OutboxInv
<1>2. MessagesInv /\ SlotsInv /\ RateInv /\ AlarmsInv
  BY DEF OutboxInv
<1>3. second \in Nat /\ taken \in Seq(Nat)
  BY <1>1 DEF OutboxShape
<1>4. ASSUME NEW from \in 0..second
      PROVE  Cardinality(TakenIn(from)) <= Budget + 2 * (Cardinality(Senders) - 1)
  <2>1. from \in Nat /\ Cardinality(TakenIn(from)) \in Nat
    BY <1>3, TakenFinite
  <2>2. TakingIn(from) \in SUBSET Senders /\ LateIn(from) \in SUBSET Senders
    BY DEF TakingIn, LateIn
  <2>3. Cardinality(TakingIn(from)) \in Nat /\ Cardinality(LateIn(from)) \in Nat
    BY <2>2, SendersFinite
  <2>4. CASE Open(from)
    BY <2>1, <2>3, <2>4, OutboxConstants DEF Open
  <2>5. CASE Over(from)
    BY <2>1, <2>3, <2>5, OutboxConstants DEF Over
  <2> QED BY <1>2, <2>1, <2>4, <2>5 DEF RateInv
<1>5. WithinRate
  BY <1>4 DEF WithinRate, TakenIn
<1>6. ReportsHonestly
  BY <1>2 DEF ReportsHonestly, MessagesInv, Honest
<1>7. AlarmsCoolDown
  BY <1>2 DEF AlarmsInv
<1> QED BY <1>5, <1>6, <1>7 DEF SendsSparingly

THEOREM SendsHold == OutboxSpec => []SendsSparingly
<1>1. OutboxSpec => []OutboxInv
  BY OutboxInvInit, OutboxInvStep, PTL DEF OutboxSpec
<1> QED BY <1>1, OutboxInvHolds, PTL

----
(* The signals of one ticker: what is stored of them and which changes are   *)
(* told, whatever the scans, the readings of the engine and the lookups that *)
(* fail.                                                                   *)
SignalTypes == {r.type : r \in Readings} \cup {"HOLD"}
Scores == {r.score : r \in Readings} \cup {0}
AnnouncerRow == [pc : {"idle", "compare", "filter", "save"}, n : Nat, type : SignalTypes, score : Scores,
                 at : Nat, keep : BOOLEAN, blind : BOOLEAN, seen : Nat]
SignalRow == [n : Nat, type : SignalTypes, score : Scores, at : Nat, blind : BOOLEAN, now : Nat]
ChangeRow == [n : Nat, at : Nat, row : Nat, known : SUBSET Nat]
AnnouncementsShape ==
    /\ minute \in Nat /\ announcer \in [Announcers -> AnnouncerRow]
    /\ stored \in Seq(SignalRow) /\ changes \in Seq(ChangeRow)
    /\ fate \in Seq({"pending", "stored", "dropped"})

\* No signal is of a later minute.
TimesInv ==
    /\ \A q \in 1..Len(stored) : stored[q].at <= minute
    /\ \A a \in Announcers : announcer[a].pc # "idle" => announcer[a].at <= minute

\* A scan under way has a signal of its own whose fate is open.
TurnsInv ==
    /\ \A a \in Announcers : announcer[a].pc # "idle" =>
          announcer[a].n \in 1..Len(fate) /\ fate[announcer[a].n] = "pending"
    /\ \A a, b \in Announcers : a # b /\ announcer[a].pc # "idle" /\ announcer[b].pc # "idle" =>
          announcer[a].n # announcer[b].n

\* What a signal has passed: the rows its filter saw, and the minute f of its look.
WentBy(s, f) ==
    /\ IsSell(s.type) => \A q \in 1..s.seen : ~(IsSell(stored[q].type) /\ DayOf(stored[q].at) = DayOf(f))
    /\ CategoryOf(s) = "AL" => \A q \in 1..s.seen :
          IsBuy(stored[q].type) /\ stored[q].score >= BuyAt => stored[q].at < f - BuyCooldown
FilterInv ==
    \A a \in Announcers : announcer[a].pc = "save" =>
        \/ ~announcer[a].keep \/ announcer[a].blind
        \/ announcer[a].seen <= Len(stored) /\ \E f \in announcer[a].at..minute : WentBy(announcer[a], f)

\* Of a stored signal whose change was told there is a row of its minute.
ChangesInv ==
    /\ \A i \in 1..Len(changes) :
          /\ changes[i].row \in 1..Len(stored) /\ changes[i].n \in 1..Len(fate)
          /\ fate[changes[i].n] = "stored" => \E q \in 1..Len(stored) : stored[q].at = changes[i].at
    /\ \A a \in Announcers : announcer[a].pc # "idle" =>
          \A i \in 1..Len(changes) : changes[i].n = announcer[a].n => changes[i].at = announcer[a].at

AnnouncementsInv ==
    /\ AnnouncementsShape /\ TimesInv /\ TurnsInv /\ FilterInv /\ ChangesInv
    /\ SellsOncePerDay /\ BuysCoolDown /\ ToldAgainOnlyIfUnstored

----
(* Days and rows. *)

LEMMA DaysFollow ==
    ASSUME NEW x \in Nat, NEW y \in Nat, x <= y
    PROVE  DayOf(x) \in Nat /\ DayOf(x) <= DayOf(y)
<1> DEFINE d == MinutesPerDay
           a == x \div d
           b == y \div d
<1>1. d \in Nat /\ 0 < d
  BY AnnouncementsAssumption
<1>2. d * a <= x /\ y < d * b + d /\ a \in Nat /\ b \in Nat
  BY <1>1
<1> HIDE DEF a, b, d
<1>3. d * a < d * (b + 1)
  BY <1>1, <1>2
<1>4. a < b + 1
  BY <1>1, <1>2, <1>3
<1> QED BY <1>2, <1>4 DEF a, b, d, DayOf

\* Of minutes: who looks a cooldown after x is later than x by the cooldown, less what passes until n.
LEMMA CooledDown ==
    ASSUME NEW x \in Nat, NEW y \in Nat, NEW f \in Nat, NEW n \in Nat, NEW c \in Nat, x < f - c, f <= n
    PROVE  y - x > c - (n - y)
OBVIOUS

\* There is a latest of some rows.
LEMMA GreatestOf ==
    ASSUME NEW S \in SUBSET Nat, S # {}, NEW n \in Nat, \A x \in S : x <= n
    PROVE  \E x \in S : \A y \in S : y <= x
<1> DEFINE B == {m \in Nat : \A x \in S : x <= m}
<1>1. B \in SUBSET Nat /\ B # {}
  <2>1. n \in B
    OBVIOUS
  <2> QED BY <2>1
<1>2. PICK b \in B : \A c \in B : b <= c
  BY <1>1, LeastOf
<1>3. b \in Nat /\ \A x \in S : x <= b /\ x \in Nat
  BY <1>2
<1>4. b \in S
  <2> SUFFICES ASSUME b \notin S PROVE FALSE
    OBVIOUS
  <2>1. \A x \in S : x <= b - 1 /\ b - 1 \in Nat
    BY <1>3
  <2>2. b - 1 \in B
    BY <2>1
  <2> QED BY <1>2, <1>3, <2>2
<1> QED BY <1>3, <1>4

LEMMA LatestRowIs ==
    ASSUME AnnouncementsShape, TimesInv, stored # <<>>
    PROVE  LatestRow \in 1..Len(stored) /\ \A q \in 1..Len(stored) : stored[q].at <= stored[LatestRow].at
<1> DEFINE I == 1..Len(stored)
           A == {stored[i].at : i \in I}
<1>1. stored \in Seq(SignalRow) /\ Len(stored) \in Nat /\ minute \in Nat
  BY DEF AnnouncementsShape
<1>2. \A i \in I : stored[i].at \in Nat /\ stored[i].at <= minute
  <2>1. \A i \in I : stored[i] \in SignalRow
    BY <1>1
  <2> QED BY <2>1 DEF SignalRow, TimesInv
<1>3. A \in SUBSET Nat /\ A # {} /\ \A x \in A : x <= minute
  <2>1. 1 \in I
    BY <1>1
  <2> QED BY <1>2, <2>1
<1>4. PICK x \in A : \A y \in A : y <= x
  BY <1>1, <1>3, GreatestOf
<1> DEFINE L == {i \in I : stored[i].at = x}
<1>5. L \in SUBSET Nat /\ L # {} /\ \A i \in L : i <= Len(stored)
  <2>1. PICK i \in I : stored[i].at = x
    BY <1>4
  <2> QED BY <1>1, <2>1
<1>6. PICK i \in L : \A j \in L : j <= i
  BY <1>1, <1>5, GreatestOf
<1>7. \A j \in I : stored[j].at < stored[i].at \/ (stored[j].at = stored[i].at /\ j <= i)
  <2> SUFFICES ASSUME NEW j \in I
               PROVE  stored[j].at < stored[i].at \/ (stored[j].at = stored[i].at /\ j <= i)
    OBVIOUS
  <2>1. stored[j].at \in A /\ stored[j].at \in Nat /\ x \in Nat /\ stored[i].at = x
    BY <1>2, <1>3, <1>4, <1>6
  <2>2. stored[j].at <= x
    BY <1>4, <2>1
  <2>3. stored[j].at = x => j <= i
    BY <1>6
  <2> HIDE DEF A, L
  <2> QED BY <2>1, <2>2, <2>3
<1>8. /\ LatestRow \in I
      /\ \A j \in I : \/ stored[j].at < stored[LatestRow].at
                      \/ (stored[j].at = stored[LatestRow].at /\ j <= LatestRow)
  <2>1. i \in I
    BY <1>6
  <2> QED BY <1>7, <2>1 DEF LatestRow
<1> QED BY <1>2, <1>8

LEMMA AnnouncerFields ==
    ASSUME NEW k \in AnnouncerRow
    PROVE  /\ k.n \in Nat /\ k.type \in SignalTypes /\ k.score \in Scores /\ k.at \in Nat
           /\ k.keep \in BOOLEAN /\ k.blind \in BOOLEAN /\ k.seen \in Nat
BY DEF AnnouncerRow

LEMMA UnengagedRow ==
    Unengaged \in AnnouncerRow /\ Unengaged.pc = "idle"
BY DEF Unengaged, AnnouncerRow, SignalTypes, Scores

MadeRow(n, r, x) == [Unengaged EXCEPT !.pc = "compare", !.n = n, !.type = r.type, !.score = r.score, !.at = x]
LEMMA MadeRowIs ==
    ASSUME NEW n \in Nat, NEW r \in Readings, NEW x \in Nat
    PROVE  /\ MadeRow(n, r, x) \in AnnouncerRow /\ MadeRow(n, r, x).pc = "compare"
           /\ MadeRow(n, r, x).n = n /\ MadeRow(n, r, x).at = x
<1> DEFINE one == [Unengaged EXCEPT !.pc = "compare"]
           two == [one EXCEPT !.n = n]
           three == [two EXCEPT !.type = r.type]
           four == [three EXCEPT !.score = r.score]
           five == [four EXCEPT !.at = x]
<1>1. MadeRow(n, r, x) = five
  BY Zenon DEF MadeRow, one, two, three, four, five
<1>2. one \in AnnouncerRow /\ one.pc = "compare"
  BY UnengagedRow DEF AnnouncerRow
<1> HIDE DEF one
<1>3. two \in AnnouncerRow /\ two.pc = "compare" /\ two.n = n
  BY <1>2 DEF AnnouncerRow
<1> HIDE DEF two
<1>4. r.type \in SignalTypes /\ r.score \in Scores
  BY DEF SignalTypes, Scores
<1>5. three \in AnnouncerRow /\ three.pc = "compare" /\ three.n = n
  BY <1>3, <1>4 DEF AnnouncerRow
<1> HIDE DEF three
<1>6. four \in AnnouncerRow /\ four.pc = "compare" /\ four.n = n
  BY <1>4, <1>5 DEF AnnouncerRow
<1> HIDE DEF four
<1>7. five \in AnnouncerRow /\ five.pc = "compare" /\ five.n = n /\ five.at = x
  BY <1>6 DEF AnnouncerRow
<1> HIDE DEF five
<1> QED BY <1>1, <1>7

\* What stays of a signal that is compared or filtered.
SameSignal(k, l) == l.n = k.n /\ l.type = k.type /\ l.score = k.score /\ l.at = k.at

ComparedRow(k) == [k EXCEPT !.pc = "filter"]
LEMMA ComparedRowIs ==
    ASSUME NEW k \in AnnouncerRow
    PROVE  ComparedRow(k) \in AnnouncerRow /\ ComparedRow(k).pc = "filter" /\ SameSignal(k, ComparedRow(k))
BY DEF ComparedRow, AnnouncerRow, SameSignal

FilteredRow(k, keep, n) == [k EXCEPT !.pc = "save", !.keep = keep, !.seen = n]
LEMMA FilteredRowIs ==
    ASSUME NEW k \in AnnouncerRow, NEW keep \in BOOLEAN, NEW n \in Nat
    PROVE  /\ FilteredRow(k, keep, n) \in AnnouncerRow /\ FilteredRow(k, keep, n).pc = "save"
           /\ FilteredRow(k, keep, n).keep = keep /\ FilteredRow(k, keep, n).seen = n
           /\ SameSignal(k, FilteredRow(k, keep, n))
<1> DEFINE one == [k EXCEPT !.pc = "save"]
           two == [one EXCEPT !.keep = keep]
           three == [two EXCEPT !.seen = n]
<1>1. FilteredRow(k, keep, n) = three
  BY Zenon DEF FilteredRow, one, two, three
<1>2. one \in AnnouncerRow /\ one.pc = "save" /\ SameSignal(k, one)
  BY DEF AnnouncerRow, SameSignal
<1> HIDE DEF one
<1>3. two \in AnnouncerRow /\ two.pc = "save" /\ two.keep = keep /\ SameSignal(k, two)
  BY <1>2 DEF AnnouncerRow, SameSignal
<1> HIDE DEF two
<1>4. three \in AnnouncerRow /\ three.pc = "save" /\ three.keep = keep /\ three.seen = n /\ SameSignal(k, three)
  BY <1>3 DEF AnnouncerRow, SameSignal
<1> HIDE DEF three
<1> QED BY <1>1, <1>4

BlindRow(k) == [k EXCEPT !.pc = "save", !.blind = TRUE]
LEMMA BlindRowIs ==
    ASSUME NEW k \in AnnouncerRow
    PROVE  BlindRow(k) \in AnnouncerRow /\ BlindRow(k).pc = "save" /\ BlindRow(k).blind /\ SameSignal(k, BlindRow(k))
<1> DEFINE one == [k EXCEPT !.pc = "save"]
           two == [one EXCEPT !.blind = TRUE]
<1>1. BlindRow(k) = two
  BY Zenon DEF BlindRow, one, two
<1>2. one \in AnnouncerRow /\ one.pc = "save" /\ SameSignal(k, one)
  BY DEF AnnouncerRow, SameSignal
<1> HIDE DEF one
<1>3. two \in AnnouncerRow /\ two.pc = "save" /\ two.blind /\ SameSignal(k, two)
  BY <1>2 DEF AnnouncerRow, SameSignal
<1> HIDE DEF two
<1> QED BY <1>1, <1>3

----
(* Steps. *)

LEMMA AnnouncerBecoming ==
    ASSUME AnnouncementsShape, NEW a \in Announcers, NEW r \in AnnouncerRow,
           announcer' = [announcer EXCEPT ![a] = r]
    PROVE  /\ announcer' \in [Announcers -> AnnouncerRow] /\ announcer'[a] = r
           /\ \A b \in Announcers \ {a} : announcer'[b] = announcer[b]
BY DEF AnnouncementsShape

LEMMA RowsAt ==
    ASSUME AnnouncementsShape
    PROVE  /\ Len(stored) \in Nat /\ Len(changes) \in Nat /\ Len(fate) \in Nat
           /\ \A q \in 1..Len(stored) : stored[q] \in SignalRow /\ stored[q].at \in Nat /\ stored[q].now \in Nat
           /\ \A i \in 1..Len(changes) : changes[i] \in ChangeRow /\ changes[i].at \in Nat
                                         /\ changes[i].n \in Nat /\ changes[i].row \in Nat
           /\ \A a \in Announcers : announcer[a] \in AnnouncerRow
<1>1. \A q \in 1..Len(stored) : stored[q] \in SignalRow
  BY DEF AnnouncementsShape
<1>2. \A i \in 1..Len(changes) : changes[i] \in ChangeRow
  BY DEF AnnouncementsShape
<1>3. Len(stored) \in Nat /\ Len(changes) \in Nat /\ Len(fate) \in Nat /\ \A a \in Announcers : announcer[a] \in AnnouncerRow
  BY DEF AnnouncementsShape
<1> QED BY <1>1, <1>2, <1>3 DEF SignalRow, ChangeRow

\* The rules of the rows that are there.
LEMMA RulesStay ==
    ASSUME SellsOncePerDay, BuysCoolDown, stored' = stored
    PROVE  SellsOncePerDay' /\ BuysCoolDown'
BY DEF SellsOncePerDay, BuysCoolDown

LEMMA TurnsStay ==
    ASSUME TurnsInv, fate' = fate,
           \A b \in Announcers : announcer'[b].pc # "idle" =>
              announcer[b].pc # "idle" /\ announcer'[b].n = announcer[b].n
    PROVE  TurnsInv'
BY DEF TurnsInv

\* Where the rows stay and no scan comes to its write.
LEMMA FiltersStay ==
    ASSUME FilterInv, UNCHANGED <<minute, stored>>,
           \A b \in Announcers : announcer'[b].pc = "save" => announcer'[b] = announcer[b]
    PROVE  FilterInv'
<1>1. \A s, f : WentBy(s, f)' <=> WentBy(s, f)
  BY DEF WentBy
<1> SUFFICES ASSUME NEW b \in Announcers, announcer'[b].pc = "save", announcer'[b].keep, ~announcer'[b].blind
             PROVE  announcer'[b].seen <= Len(stored) /\ \E f \in announcer'[b].at..minute : WentBy(announcer[b], f)'
  BY DEF FilterInv
<1> QED BY <1>1 DEF FilterInv

LEMMA MinutePassesKeeps ==
    ASSUME AnnouncementsInv, MinutePasses
    PROVE  AnnouncementsInv'
<1>1. minute' = minute + 1 /\ UNCHANGED <<stored, announcer, changes, fate, failedLookups>>
  BY DEF MinutePasses
<1>2. AnnouncementsShape /\ TimesInv /\ TurnsInv /\ FilterInv /\ ChangesInv
  BY DEF AnnouncementsInv
<1>3. minute \in Nat /\ minute' \in Nat /\ minute <= minute'
  BY <1>1, <1>2 DEF AnnouncementsShape
<1>4. AnnouncementsShape'
  BY <1>1, <1>2, <1>3 DEF AnnouncementsShape
<1>5. TimesInv'
  <2>1. \A q \in 1..Len(stored) : stored[q].at \in Nat /\ stored[q].at <= minute
    BY <1>2, RowsAt DEF TimesInv
  <2>2. \A a \in Announcers : announcer[a].at \in Nat /\ (announcer[a].pc # "idle" => announcer[a].at <= minute)
    BY <1>2, RowsAt, AnnouncerFields DEF TimesInv
  <2> QED BY <1>1, <1>3, <2>1, <2>2 DEF TimesInv
<1>6. TurnsInv'
  BY <1>1, <1>2, TurnsStay
<1>7. FilterInv'
  <2> SUFFICES ASSUME NEW a \in Announcers, announcer[a].pc = "save", announcer[a].keep, ~announcer[a].blind
               PROVE  announcer[a].seen <= Len(stored) /\ \E f \in announcer[a].at..minute' : WentBy(announcer[a], f)'
    BY <1>1 DEF FilterInv
  <2>1. announcer[a].seen <= Len(stored) /\ announcer[a].at \in Nat
    BY <1>2, RowsAt, AnnouncerFields DEF FilterInv
  <2>2. PICK f \in announcer[a].at..minute : WentBy(announcer[a], f)
    BY <1>2 DEF FilterInv
  <2>3. f \in announcer[a].at..minute'
    BY <1>3, <2>1
  <2>4. WentBy(announcer[a], f)'
    BY <1>1, <2>2 DEF WentBy
  <2> QED BY <2>1, <2>3, <2>4
<1>8. ChangesInv'
  BY <1>1, <1>2 DEF ChangesInv
<1>9. SellsOncePerDay' /\ BuysCoolDown' /\ ToldAgainOnlyIfUnstored'
  BY <1>1, RulesStay DEF AnnouncementsInv, ToldAgainOnlyIfUnstored
<1> QED BY <1>4, <1>5, <1>6, <1>7, <1>8, <1>9 DEF AnnouncementsInv

LEMMA MakesSignalKeeps ==
    ASSUME AnnouncementsInv, NEW a \in Announcers, MakesSignal(a)
    PROVE  AnnouncementsInv'
<1> DEFINE n == Len(fate) + 1
<1>1. PICK r \in Readings : announcer' = [announcer EXCEPT ![a] = MadeRow(n, r, minute)]
  BY DEF MakesSignal, MadeRow
<1> DEFINE k == MadeRow(n, r, minute)
<1>2. fate' = Append(fate, "pending") /\ UNCHANGED <<minute, stored, changes>>
  BY DEF MakesSignal
<1>3. AnnouncementsShape /\ TimesInv /\ TurnsInv /\ FilterInv /\ ChangesInv
  BY DEF AnnouncementsInv
<1>4. minute \in Nat /\ n \in Nat /\ Len(fate) \in Nat /\ fate \in Seq({"pending", "stored", "dropped"})
  BY <1>3 DEF AnnouncementsShape
<1>5. k \in AnnouncerRow /\ k.pc = "compare" /\ k.n = n /\ k.at = minute
  BY <1>4, MadeRowIs
<1>6. announcer' = [announcer EXCEPT ![a] = k]
  BY <1>1
<1> HIDE DEF k
<1>7. /\ announcer' \in [Announcers -> AnnouncerRow] /\ announcer'[a] = k
      /\ \A b \in Announcers \ {a} : announcer'[b] = announcer[b]
  BY <1>3, <1>5, <1>6, AnnouncerBecoming
<1>8. /\ fate' \in Seq({"pending", "stored", "dropped"}) /\ Len(fate') = n /\ fate'[n] = "pending"
      /\ \A i \in 1..Len(fate) : fate'[i] = fate[i] /\ i # n /\ i \in 1..n
      /\ n \in 1..n
  BY <1>2, <1>4
<1>9. AnnouncementsShape'
  BY <1>2, <1>3, <1>7, <1>8 DEF AnnouncementsShape
<1> HIDE DEF n
<1>10. TimesInv'
  BY <1>2, <1>3, <1>4, <1>5, <1>7 DEF TimesInv
<1>11. TurnsInv'
  <2>1. \A b \in Announcers \ {a} : announcer[b].pc # "idle" => announcer[b].n \in 1..Len(fate) /\ fate[announcer[b].n] = "pending"
    BY <1>3 DEF TurnsInv
  <2> QED BY <1>3, <1>5, <1>7, <1>8, <2>1 DEF TurnsInv
<1>12. FilterInv'
  <2>1. \A b \in Announcers : announcer'[b].pc = "save" => announcer'[b] = announcer[b]
    BY <1>5, <1>7
  <2> QED BY <1>2, <1>3, <2>1, FiltersStay
<1>13. ChangesInv'
  <2>1. \A i \in 1..Len(changes) :
          /\ changes[i].row \in 1..Len(stored) /\ changes[i].n \in 1..Len(fate)
          /\ fate[changes[i].n] = "stored" => \E q \in 1..Len(stored) : stored[q].at = changes[i].at
    BY <1>3 DEF ChangesInv
  <2>2. \A b \in Announcers : announcer'[b].pc # "idle" =>
          \A i \in 1..Len(changes) : changes[i].n = announcer'[b].n => changes[i].at = announcer'[b].at
    <3> SUFFICES ASSUME NEW b \in Announcers, announcer'[b].pc # "idle",
                        NEW i \in 1..Len(changes), changes[i].n = announcer'[b].n
                 PROVE  changes[i].at = announcer'[b].at
      OBVIOUS
    <3>1. changes[i].n # n
      BY <1>8, <2>1
    <3>2. b # a
      BY <1>5, <1>7, <3>1
    <3> QED BY <1>3, <1>7, <3>2 DEF ChangesInv
  <2> QED BY <1>2, <1>8, <2>1, <2>2 DEF ChangesInv
<1>14. SellsOncePerDay' /\ BuysCoolDown' /\ ToldAgainOnlyIfUnstored'
  BY <1>2, RulesStay DEF AnnouncementsInv, ToldAgainOnlyIfUnstored
<1> QED BY <1>9, <1>10, <1>11, <1>12, <1>13, <1>14 DEF AnnouncementsInv

LEMMA TellsChangeKeeps ==
    ASSUME AnnouncementsInv, NEW a \in Announcers, TellsChange(a)
    PROVE  AnnouncementsInv'
<1> DEFINE s == announcer[a]
           k == ComparedRow(s)
           known == {i \in 1..Len(fate) : fate[i] = "stored"}
           c == [n |-> s.n, at |-> s.at, row |-> LatestRow, known |-> known]
           m == Len(changes) + 1
<1>1. /\ announcer' = [announcer EXCEPT ![a] = k] /\ UNCHANGED <<minute, stored, fate>> /\ s.pc = "compare"
      /\ changes' = changes \/ (stored # <<>> /\ changes' = Append(changes, c))
  BY DEF TellsChange, ComparedRow
<1>2. /\ AnnouncementsShape /\ TimesInv /\ TurnsInv /\ FilterInv /\ ChangesInv
      /\ SellsOncePerDay /\ BuysCoolDown /\ ToldAgainOnlyIfUnstored
  BY DEF AnnouncementsInv
<1>3. /\ Len(fate) \in Nat /\ Len(changes) \in Nat /\ minute \in Nat /\ s \in AnnouncerRow
      /\ s.n \in Nat /\ s.at \in Nat
  BY <1>2, RowsAt, AnnouncerFields DEF AnnouncementsShape
<1>4. k \in AnnouncerRow /\ k.pc = "filter" /\ k.n = s.n /\ k.at = s.at
  BY <1>3, ComparedRowIs DEF SameSignal
<1> HIDE DEF k
<1>5. /\ announcer' \in [Announcers -> AnnouncerRow] /\ announcer'[a] = k
      /\ \A b \in Announcers \ {a} : announcer'[b] = announcer[b]
  BY <1>1, <1>2, <1>4, AnnouncerBecoming
<1>6. \A b \in Announcers : announcer'[b].pc # "idle" =>
        announcer[b].pc # "idle" /\ announcer'[b].n = announcer[b].n /\ announcer'[b].at = announcer[b].at
  BY <1>1, <1>4, <1>5
<1>7. TimesInv'
  BY <1>1, <1>2, <1>6 DEF TimesInv
<1>8. TurnsInv'
  BY <1>1, <1>2, <1>6, TurnsStay
<1>9. FilterInv'
  <2>1. \A b \in Announcers : announcer'[b].pc = "save" => announcer'[b] = announcer[b]
    BY <1>4, <1>5
  <2> QED BY <1>1, <1>2, <2>1, FiltersStay
<1>10. SellsOncePerDay' /\ BuysCoolDown'
  BY <1>1, <1>2, RulesStay
<1>11. CASE changes' = changes
  <2>1. AnnouncementsShape'
    BY <1>1, <1>2, <1>5, <1>11 DEF AnnouncementsShape
  <2>2. ChangesInv'
    BY <1>1, <1>2, <1>6, <1>11 DEF ChangesInv
  <2>3. ToldAgainOnlyIfUnstored'
    BY <1>1, <1>2, <1>11 DEF ToldAgainOnlyIfUnstored
  <2> QED BY <1>7, <1>8, <1>9, <1>10, <2>1, <2>2, <2>3 DEF AnnouncementsInv
<1>12. CASE stored # <<>> /\ changes' = Append(changes, c)
  <2>1. LatestRow \in 1..Len(stored) /\ \A q \in 1..Len(stored) : stored[q].at <= stored[LatestRow].at
    BY <1>2, <1>12, LatestRowIs
  <2>2. c \in ChangeRow /\ c.n = s.n /\ c.at = s.at /\ c.row = LatestRow /\ c.known = known
    <3>1. LatestRow \in Nat
      BY <1>2, <2>1, RowsAt
    <3>2. known \in SUBSET Nat
      OBVIOUS
    <3> HIDE DEF known
    <3> QED BY <1>3, <3>1, <3>2 DEF ChangeRow
  <2> HIDE DEF c
  <2>3. /\ changes' \in Seq(ChangeRow) /\ Len(changes') = m /\ changes'[m] = c
        /\ \A i \in 1..Len(changes) : changes'[i] = changes[i]
        /\ \A i \in 1..m : i = m \/ i \in 1..Len(changes)
    <3>1. changes \in Seq(ChangeRow)
      BY <1>2 DEF AnnouncementsShape
    <3> QED BY <1>3, <1>12, <2>2, <3>1
  <2>4. AnnouncementsShape'
    BY <1>1, <1>2, <1>5, <2>3 DEF AnnouncementsShape
  <2>5. s.n \in 1..Len(fate) /\ fate[s.n] = "pending"
    BY <1>1, <1>2 DEF TurnsInv
  <2>6. ChangesInv'
    <3>1. ASSUME NEW i \in 1..m
          PROVE  /\ changes'[i].row \in 1..Len(stored) /\ changes'[i].n \in 1..Len(fate)
                 /\ fate[changes'[i].n] = "stored" => \E q \in 1..Len(stored) : stored[q].at = changes'[i].at
      <4>1. CASE i = m
        BY <2>1, <2>2, <2>3, <2>5, <4>1
      <4>2. CASE i # m
        BY <1>2, <2>3, <4>2 DEF ChangesInv
      <4> QED BY <4>1, <4>2
    <3>2. ASSUME NEW b \in Announcers, announcer'[b].pc # "idle", NEW i \in 1..m,
                 changes'[i].n = announcer'[b].n
          PROVE  changes'[i].at = announcer'[b].at
      <4>1. CASE i = m
        <5>1. b = a
          BY <1>1, <1>2, <1>6, <2>2, <2>3, <3>2, <4>1 DEF TurnsInv
        <5> QED BY <1>4, <1>5, <2>2, <2>3, <4>1, <5>1
      <4>2. CASE i # m
        BY <1>2, <1>6, <2>3, <3>2, <4>2 DEF ChangesInv
      <4> QED BY <4>1, <4>2
    <3> QED BY <1>1, <2>3, <3>1, <3>2 DEF ChangesInv
  <2>7. ToldAgainOnlyIfUnstored'
    <3> SUFFICES ASSUME NEW i \in 1..m, NEW j \in 1..m, i < j, changes'[i].row = changes'[j].row,
                        changes'[i].n \in changes'[j].known
                 PROVE  changes'[i].at <= stored[changes'[i].row].at
      BY <1>1, <2>3 DEF ToldAgainOnlyIfUnstored
    <3>1. i \in 1..Len(changes) /\ changes'[i] = changes[i]
      BY <1>3, <2>3
    <3>2. CASE j = m
      <4>1. fate[changes[i].n] = "stored" /\ changes[i].row = LatestRow
        BY <2>2, <2>3, <3>1, <3>2
      <4>2. PICK q \in 1..Len(stored) : stored[q].at = changes[i].at
        BY <1>2, <3>1, <4>1 DEF ChangesInv
      <4> QED BY <2>1, <3>1, <4>1, <4>2
    <3>3. CASE j # m
      <4>1. j \in 1..Len(changes) /\ changes'[j] = changes[j]
        BY <2>3, <3>3
      <4> QED BY <1>2, <3>1, <4>1 DEF ToldAgainOnlyIfUnstored
    <3> QED BY <3>2, <3>3
  <2> QED BY <1>7, <1>8, <1>9, <1>10, <2>4, <2>6, <2>7 DEF AnnouncementsInv
<1> QED BY <1>1, <1>11, <1>12

LEMMA FiltersKeeps ==
    ASSUME AnnouncementsInv, NEW a \in Announcers, Filters(a)
    PROVE  AnnouncementsInv'
<1> DEFINE s == announcer[a]
           keep == ~(Concerned(s) /\ Repeats(s))
           k == FilteredRow(s, keep, Len(stored))
           d == BlindRow(s)
<1>1. /\ announcer' = [announcer EXCEPT ![a] = k] \/ announcer' = [announcer EXCEPT ![a] = d]
      /\ UNCHANGED <<minute, stored, changes, fate>> /\ s.pc = "filter"
  BY DEF Filters, FilteredRow, BlindRow
<1>2. /\ AnnouncementsShape /\ TimesInv /\ TurnsInv /\ FilterInv /\ ChangesInv
      /\ SellsOncePerDay /\ BuysCoolDown /\ ToldAgainOnlyIfUnstored
  BY DEF AnnouncementsInv
<1>3. Len(stored) \in Nat /\ minute \in Nat /\ s \in AnnouncerRow /\ s.at \in Nat
  BY <1>2, RowsAt, AnnouncerFields DEF AnnouncementsShape
<1>4. keep \in BOOLEAN
  OBVIOUS
<1>5. k \in AnnouncerRow /\ k.pc = "save" /\ k.keep = keep /\ k.seen = Len(stored) /\ SameSignal(s, k)
  <2> HIDE DEF keep
  <2> QED BY <1>3, <1>4, FilteredRowIs
<1>6. d \in AnnouncerRow /\ d.pc = "save" /\ d.blind /\ SameSignal(s, d)
  BY <1>3, BlindRowIs
<1> HIDE DEF k, d
<1>7. PICK l \in {k, d} : announcer' = [announcer EXCEPT ![a] = l]
  BY <1>1
<1>8. l \in AnnouncerRow /\ l.pc = "save" /\ l.n = s.n /\ l.at = s.at
  BY <1>5, <1>6 DEF SameSignal
<1>9. /\ announcer' \in [Announcers -> AnnouncerRow] /\ announcer'[a] = l
      /\ \A b \in Announcers \ {a} : announcer'[b] = announcer[b]
  BY <1>2, <1>7, <1>8, AnnouncerBecoming
<1>10. \A b \in Announcers : announcer'[b].pc # "idle" =>
        announcer[b].pc # "idle" /\ announcer'[b].n = announcer[b].n /\ announcer'[b].at = announcer[b].at
  BY <1>1, <1>8, <1>9
<1>11. AnnouncementsShape'
  BY <1>1, <1>2, <1>9 DEF AnnouncementsShape
<1>12. TimesInv'
  BY <1>1, <1>2, <1>10 DEF TimesInv
<1>13. TurnsInv'
  BY <1>1, <1>2, <1>10, TurnsStay
<1>14. k.keep => WentBy(k, minute)
  <2> SUFFICES ASSUME keep PROVE WentBy(k, minute)
    BY <1>5
  <2>1. k.type = s.type /\ k.score = s.score /\ CategoryOf(k) = CategoryOf(s)
    BY <1>5 DEF SameSignal, CategoryOf
  <2>2. IsSell(s.type) => ~SoldToday(s)
    BY DEF Concerned, Repeats
  <2>3. CategoryOf(s) = "AL" => ~IsSell(s.type) /\ ~BoughtLately(s)
    BY DEF Concerned, Repeats, CategoryOf
  <2>4. IsSell(k.type) => \A q \in 1..k.seen : ~(IsSell(stored[q].type) /\ DayOf(stored[q].at) = DayOf(minute))
    BY <1>5, <2>1, <2>2 DEF SoldToday
  <2>5. ASSUME CategoryOf(k) = "AL", NEW q \in 1..k.seen, IsBuy(stored[q].type), stored[q].score >= BuyAt
        PROVE  stored[q].at < minute - BuyCooldown
    <3>1. q \in 1..Len(stored) /\ ~(stored[q].at >= minute - BuyCooldown)
      BY <1>5, <2>1, <2>3, <2>5 DEF BoughtLately
    <3>2. stored[q].at \in Nat /\ BuyCooldown \in Nat
      BY <1>2, <3>1, RowsAt, AnnouncementsAssumption
    <3> QED BY <1>3, <3>1, <3>2
  <2> QED BY <2>4, <2>5 DEF WentBy
<1>15. FilterInv'
  <2>1. \A x, f : WentBy(x, f)' <=> WentBy(x, f)
    BY <1>1 DEF WentBy
  <2> SUFFICES ASSUME NEW b \in Announcers, announcer'[b].pc = "save", announcer'[b].keep, ~announcer'[b].blind
               PROVE  announcer'[b].seen <= Len(stored) /\ \E f \in announcer'[b].at..minute : WentBy(announcer[b], f)'
    BY <1>1 DEF FilterInv
  <2>2. CASE b = a
    <3>1. l = k /\ announcer'[b] = k /\ k.keep
      BY <1>6, <1>9, <2>2
    <3>2. minute \in k.at..minute
      BY <1>2, <1>3, <1>1, <1>5 DEF TimesInv, SameSignal
    <3> QED BY <1>3, <1>5, <1>14, <2>1, <3>1, <3>2
  <2>3. CASE b # a
    BY <1>2, <1>9, <2>1, <2>3 DEF FilterInv
  <2> QED BY <2>2, <2>3
<1>16. ChangesInv'
  BY <1>1, <1>2, <1>10 DEF ChangesInv
<1>17. SellsOncePerDay' /\ BuysCoolDown' /\ ToldAgainOnlyIfUnstored'
  BY <1>1, <1>2, RulesStay DEF ToldAgainOnlyIfUnstored
<1> QED BY <1>11, <1>12, <1>13, <1>15, <1>16, <1>17 DEF AnnouncementsInv

\* The rows that are there stay as they are when one is added.
LEMMA WentByStays ==
    ASSUME NEW s, NEW f, WentBy(s, f), NEW n \in Nat, s.seen \in Nat, s.seen <= n,
           \A q \in 1..n : stored'[q] = stored[q]
    PROVE  \A x : x = s => WentBy(x, f)'
<1> SUFFICES WentBy(s, f)'
  OBVIOUS
<1>1. \A q \in 1..s.seen : stored'[q] = stored[q]
  OBVIOUS
<1> QED BY <1>1 DEF WentBy

LEMMA WritesSignalKeeps ==
    ASSUME AnnouncementsInv, NEW a \in Announcers, WritesSignal(a)
    PROVE  AnnouncementsInv'
<1> DEFINE s == announcer[a]
           isKnown == \E i \in 1..Len(stored) : stored[i].type = s.type /\ stored[i].at = s.at
           unsure == s.blind \/ s.seen < Len(stored)
           e == StoredRow(s.n, s, s.at, unsure)
           n == Len(stored)
           m == n + 1
           end == IF s.keep THEN "stored" ELSE "dropped"
<1>1. /\ announcer' = [announcer EXCEPT ![a] = Unengaged] /\ UNCHANGED <<minute, changes>> /\ s.pc = "save"
      /\ stored' = IF s.keep /\ ~isKnown THEN Append(stored, e) ELSE stored
      /\ fate' = [fate EXCEPT ![s.n] = end]
  BY DEF WritesSignal
<1>2. /\ AnnouncementsShape /\ TimesInv /\ TurnsInv /\ FilterInv /\ ChangesInv
      /\ SellsOncePerDay /\ BuysCoolDown /\ ToldAgainOnlyIfUnstored
  BY DEF AnnouncementsInv
<1>3. /\ n \in Nat /\ minute \in Nat /\ s \in AnnouncerRow /\ s.n \in 1..Len(fate) /\ fate[s.n] = "pending"
      /\ s.at \in Nat /\ s.at <= minute /\ s.seen \in Nat /\ s.n \in Nat /\ s.type \in SignalTypes
      /\ s.score \in Scores /\ stored \in Seq(SignalRow)
  BY <1>1, <1>2, RowsAt, AnnouncerFields DEF AnnouncementsShape, TimesInv, TurnsInv
<1>4. /\ announcer' \in [Announcers -> AnnouncerRow] /\ announcer'[a].pc = "idle"
      /\ \A b \in Announcers \ {a} : announcer'[b] = announcer[b]
  BY <1>1, <1>2, UnengagedRow, AnnouncerBecoming
<1>5. /\ e \in SignalRow /\ e.type = s.type /\ e.score = s.score /\ e.at = s.at /\ e.now = minute
      /\ e.blind = unsure
  BY <1>3 DEF StoredRow, SignalRow
<1>6. CategoryOf(e) = CategoryOf(s)
  BY <1>5 DEF CategoryOf
<1> HIDE DEF e
<1>7. /\ stored' \in Seq(SignalRow) /\ \A q \in 1..n : stored'[q] = stored[q] /\ q \in 1..Len(stored')
      /\ n <= Len(stored')
      /\ \A q \in 1..Len(stored') : q \in 1..n \/ (q = m /\ stored'[q] = e /\ s.keep)
      /\ s.keep => \E q \in 1..Len(stored') : stored'[q].at = s.at
  <2>1. CASE s.keep /\ ~isKnown
    <3>1. /\ stored' \in Seq(SignalRow) /\ Len(stored') = m /\ stored'[m] = e
          /\ \A q \in 1..n : stored'[q] = stored[q] /\ q \in 1..m
          /\ \A q \in 1..m : q \in 1..n \/ q = m
          /\ m \in 1..m /\ n <= m
      BY <1>1, <1>3, <1>5, <2>1
    <3> QED BY <1>5, <2>1, <3>1
  <2>2. CASE s.keep /\ isKnown
    BY <1>1, <1>3, <2>2
  <2>3. CASE ~s.keep
    BY <1>1, <1>3, <2>3
  <2> QED BY <2>1, <2>2, <2>3
<1>8. /\ fate' \in Seq({"pending", "stored", "dropped"}) /\ Len(fate') = Len(fate)
      /\ fate'[s.n] = end /\ \A i \in 1..Len(fate) : i # s.n => fate'[i] = fate[i]
  <2>1. fate \in [1..Len(fate) -> {"pending", "stored", "dropped"}] /\ Len(fate) \in Nat
    BY <1>2 DEF AnnouncementsShape
  <2>2. end \in {"pending", "stored", "dropped"}
    OBVIOUS
  <2> HIDE DEF end
  <2>3. fate' \in [1..Len(fate) -> {"pending", "stored", "dropped"}]
    BY <1>1, <2>1, <2>2
  <2>4. fate' \in Seq({"pending", "stored", "dropped"}) /\ Len(fate') = Len(fate)
    BY <2>1, <2>3
  <2> QED BY <1>1, <1>3, <2>1, <2>4
<1>9. AnnouncementsShape'
  BY <1>1, <1>2, <1>4, <1>7, <1>8 DEF AnnouncementsShape
<1>10. TimesInv'
  <2>1. \A q \in 1..Len(stored') : stored'[q].at <= minute
    BY <1>2, <1>3, <1>5, <1>7 DEF TimesInv
  <2>2. \A b \in Announcers : announcer'[b].pc # "idle" => announcer'[b].at <= minute
    BY <1>2, <1>4 DEF TimesInv
  <2> QED BY <1>1, <2>1, <2>2 DEF TimesInv
<1>11. \A b \in Announcers : announcer'[b].pc # "idle" =>
         b # a /\ announcer'[b] = announcer[b] /\ announcer[b].pc # "idle" /\ announcer[b].n # s.n
  BY <1>1, <1>2, <1>4 DEF TurnsInv
<1>12. TurnsInv'
  <2>1. \A b \in Announcers : announcer[b].pc # "idle" =>
          announcer[b].n \in 1..Len(fate) /\ fate[announcer[b].n] = "pending"
    BY <1>2 DEF TurnsInv
  <2>2. \A b \in Announcers : announcer'[b].pc # "idle" =>
          announcer'[b].n \in 1..Len(fate') /\ fate'[announcer'[b].n] = "pending"
    BY <1>8, <1>11, <2>1
  <2>3. \A b, c \in Announcers : b # c /\ announcer'[b].pc # "idle" /\ announcer'[c].pc # "idle" =>
          announcer'[b].n # announcer'[c].n
    BY <1>2, <1>11 DEF TurnsInv
  <2> QED BY <2>2, <2>3 DEF TurnsInv
<1>13. FilterInv'
  <2> SUFFICES ASSUME NEW b \in Announcers, announcer'[b].pc = "save", announcer'[b].keep, ~announcer'[b].blind
               PROVE  /\ announcer'[b].seen <= Len(stored')
                      /\ \E f \in announcer'[b].at..minute : WentBy(announcer[b], f)'
    BY <1>1 DEF FilterInv
  <2>1. announcer'[b] = announcer[b] /\ announcer[b].seen \in Nat
    BY <1>2, <1>11, RowsAt, AnnouncerFields
  <2>2. announcer[b].seen <= n
    BY <1>2, <2>1 DEF FilterInv
  <2>3. PICK f \in announcer[b].at..minute : WentBy(announcer[b], f)
    BY <1>2, <2>1 DEF FilterInv
  <2>4. \A x : x = announcer[b] => WentBy(x, f)'
    BY <1>3, <1>7, <2>1, <2>2, <2>3, WentByStays
  <2>5. announcer[b].seen <= Len(stored')
    <3>1. Len(stored') \in Nat
      BY <1>7
    <3> QED BY <1>3, <1>7, <2>1, <2>2, <3>1
  <2> QED BY <2>1, <2>3, <2>4, <2>5
<1>14. ChangesInv'
  <2>1. ASSUME NEW i \in 1..Len(changes)
        PROVE  /\ changes[i].row \in 1..Len(stored') /\ changes[i].n \in 1..Len(fate')
               /\ fate'[changes[i].n] = "stored" => \E q \in 1..Len(stored') : stored'[q].at = changes[i].at
    <3>1. /\ changes[i].row \in 1..n /\ changes[i].n \in 1..Len(fate)
          /\ fate[changes[i].n] = "stored" => \E q \in 1..n : stored[q].at = changes[i].at
      BY <1>2 DEF ChangesInv
    <3>2. CASE changes[i].n = s.n
      <4>1. changes[i].at = s.at
        BY <1>1, <1>2, <3>2 DEF ChangesInv
      <4> QED BY <1>7, <1>8, <3>1, <3>2, <4>1
    <3>3. CASE changes[i].n # s.n
      BY <1>7, <1>8, <3>1, <3>3
    <3> QED BY <3>2, <3>3
  <2>2. \A b \in Announcers : announcer'[b].pc # "idle" =>
          \A i \in 1..Len(changes) : changes[i].n = announcer'[b].n => changes[i].at = announcer'[b].at
    BY <1>2, <1>11 DEF ChangesInv
  <2> QED BY <1>1, <2>1, <2>2 DEF ChangesInv
\* The row that is added, of a scan that could read the rows and was not overtaken.
<1>15. ASSUME s.keep, ~e.blind
       PROVE  s.seen = n /\ \E f \in s.at..minute : WentBy(s, f)
  <2>1. ~s.blind /\ ~(s.seen < n)
    BY <1>5, <1>15
  <2>2. s.seen <= n /\ \E f \in s.at..minute : WentBy(s, f)
    BY <1>1, <1>2, <1>15, <2>1 DEF FilterInv
  <2> QED BY <1>3, <2>1, <2>2
<1>16. SellsOncePerDay'
  <2> SUFFICES ASSUME NEW i \in 1..Len(stored'), NEW j \in 1..Len(stored'), i < j,
                      IsSell(stored'[i].type), IsSell(stored'[j].type),
                      DayOf(stored'[i].at) = DayOf(stored'[j].at), ~stored'[j].blind
               PROVE  DayOf(stored'[j].now) # DayOf(stored'[j].at)
    BY DEF SellsOncePerDay
  <2>1. CASE j \in 1..n
    <3>1. i \in 1..n
      BY <1>3, <2>1
    <3> QED BY <1>2, <1>7, <2>1, <3>1 DEF SellsOncePerDay
  <2>2. CASE j \notin 1..n
    <3>1. j = m /\ stored'[j] = e /\ s.keep /\ ~e.blind
      BY <1>7, <2>2
    <3>2. i \in 1..n /\ stored'[i] = stored[i]
      BY <1>3, <1>7, <3>1
    <3>3. s.seen = n /\ \E f \in s.at..minute : WentBy(s, f)
      BY <1>15, <3>1
    <3>4. PICK f \in s.at..minute : WentBy(s, f)
      BY <3>3
    <3>5. f \in Nat /\ s.at <= f /\ f <= minute
      BY <1>3
    <3>6. DayOf(s.at) \in Nat /\ DayOf(f) \in Nat /\ DayOf(minute) \in Nat /\ DayOf(s.at) <= DayOf(f)
          /\ DayOf(f) <= DayOf(minute)
      <4>1. s.at \in Nat /\ minute \in Nat /\ minute <= minute
        BY <1>3
      <4>2. DayOf(s.at) \in Nat /\ DayOf(s.at) <= DayOf(f)
        BY <3>5, <4>1, DaysFollow
      <4>3. DayOf(f) \in Nat /\ DayOf(f) <= DayOf(minute)
        BY <3>5, <4>1, DaysFollow
      <4>4. DayOf(minute) \in Nat
        BY <4>1, DaysFollow
      <4> QED BY <4>2, <4>3, <4>4
    <3>7. DayOf(stored[i].at) # DayOf(f)
      BY <1>5, <3>1, <3>2, <3>3, <3>4 DEF WentBy
    <3> QED BY <1>5, <3>1, <3>2, <3>6, <3>7
  <2> QED BY <2>1, <2>2
<1>17. BuysCoolDown'
  <2> SUFFICES ASSUME NEW i \in 1..Len(stored'), NEW j \in 1..Len(stored'), i < j,
                      CategoryOf(stored'[i]) = "AL", CategoryOf(stored'[j]) = "AL", ~stored'[j].blind
               PROVE  stored'[j].at - stored'[i].at > BuyCooldown - (stored'[j].now - stored'[j].at)
    BY DEF BuysCoolDown
  <2>1. CASE j \in 1..n
    <3>1. i \in 1..n
      BY <1>3, <2>1
    <3> QED BY <1>2, <1>7, <2>1, <3>1 DEF BuysCoolDown
  <2>2. CASE j \notin 1..n
    <3>1. j = m /\ stored'[j] = e /\ s.keep /\ ~e.blind
      BY <1>7, <2>2
    <3>2. i \in 1..n /\ stored'[i] = stored[i] /\ stored[i].at \in Nat
      BY <1>2, <1>3, <1>7, <3>1, RowsAt
    <3>3. s.seen = n /\ \E f \in s.at..minute : WentBy(s, f)
      BY <1>15, <3>1
    <3>4. PICK f \in s.at..minute : WentBy(s, f)
      BY <3>3
    <3>5. f \in Nat /\ f <= minute /\ BuyCooldown \in Nat
      BY <1>3, AnnouncementsAssumption, SMTT(30)
    <3>6. IsBuy(stored[i].type) /\ stored[i].score >= BuyAt
      BY <3>2 DEF CategoryOf
    <3>7. CategoryOf(s) = "AL"
      BY <1>6, <3>1
    <3>8. stored[i].at < f - BuyCooldown
      BY <3>2, <3>3, <3>4, <3>6, <3>7 DEF WentBy
    <3>9. s.at - stored[i].at > BuyCooldown - (minute - s.at)
      <4>1. s.at \in Nat /\ minute \in Nat
        BY <1>3
      <4> QED BY <3>2, <3>5, <3>8, <4>1, CooledDown
    <3> QED BY <1>5, <3>1, <3>2, <3>9
  <2> QED BY <2>1, <2>2
<1>18. ToldAgainOnlyIfUnstored'
  <2>1. \A i \in 1..Len(changes) : stored'[changes[i].row] = stored[changes[i].row]
    BY <1>2, <1>7 DEF ChangesInv
  <2> QED BY <1>1, <1>2, <2>1 DEF ToldAgainOnlyIfUnstored
<1> QED BY <1>9, <1>10, <1>12, <1>13, <1>14, <1>16, <1>17, <1>18 DEF AnnouncementsInv

LEMMA AnnouncementsInvInit ==
    ASSUME AnnouncementsInit
    PROVE  AnnouncementsInv
<1>1. minute = 0 /\ changes = <<>> /\ fate = <<>> /\ \A a \in Announcers : announcer[a] = Unengaged
  BY DEF AnnouncementsInit
<1>2. stored = <<>> \/ \E e \in SignalRow : stored = <<e>> /\ e.at = 0
  <2>1. ASSUME NEW r \in Readings
        PROVE  StoredRow(0, r, 0, FALSE) \in SignalRow /\ StoredRow(0, r, 0, FALSE).at = 0
    BY <1>1 DEF StoredRow, SignalRow, SignalTypes, Scores
  <2> QED BY <2>1 DEF AnnouncementsInit
<1>3. /\ stored \in Seq(SignalRow) /\ Len(stored) <= 1 /\ Len(stored) \in Nat
      /\ \A q \in 1..Len(stored) : stored[q].at = 0
  <2>1. CASE stored = <<>>
    BY <2>1
  <2>2. ASSUME NEW e \in SignalRow, stored = <<e>>, e.at = 0
        PROVE  stored \in Seq(SignalRow) /\ Len(stored) = 1 /\ stored[1].at = 0
    BY <2>2
  <2>3. 1 \in Nat /\ 1 <= 1 /\ \A q \in 1..1 : q = 1
    OBVIOUS
  <2> QED BY <1>2, <2>1, <2>2, <2>3
<1>4. AnnouncementsShape
  <2>1. announcer \in [Announcers -> AnnouncerRow]
    BY UnengagedRow DEF AnnouncementsInit
  <2> QED BY <1>1, <1>3, <2>1 DEF AnnouncementsShape
<1>5. \A a \in Announcers : announcer[a].pc = "idle"
  BY <1>1, UnengagedRow
<1>6. TimesInv /\ TurnsInv /\ FilterInv /\ ChangesInv
  BY <1>1, <1>3, <1>5 DEF TimesInv, TurnsInv, FilterInv, ChangesInv
<1>7. ToldAgainOnlyIfUnstored
  BY <1>1 DEF ToldAgainOnlyIfUnstored
<1>8. SellsOncePerDay /\ BuysCoolDown
  <2>1. \A i, j \in 1..Len(stored) : ~(i < j)
    BY <1>3
  <2> QED BY <2>1 DEF SellsOncePerDay, BuysCoolDown
<1> QED BY <1>4, <1>6, <1>7, <1>8 DEF AnnouncementsInv

LEMMA AnnouncementsInvStep ==
    ASSUME AnnouncementsInv, [AnnouncementsNext]_announceVars
    PROVE  AnnouncementsInv'
<1>1. CASE MinutePasses
  BY <1>1, MinutePassesKeeps
<1>2. ASSUME NEW a \in Announcers, MakesSignal(a) \/ TellsChange(a) \/ Filters(a) \/ WritesSignal(a)
      PROVE  AnnouncementsInv'
  BY <1>2, MakesSignalKeeps, TellsChangeKeeps, FiltersKeeps, WritesSignalKeeps
<1>3. CASE UNCHANGED announceVars
  BY <1>3 DEF announceVars, AnnouncementsInv, AnnouncementsShape, TimesInv, TurnsInv, FilterInv, WentBy, ChangesInv,
              SellsOncePerDay, BuysCoolDown, ToldAgainOnlyIfUnstored
<1> QED BY <1>1, <1>2, <1>3 DEF AnnouncementsNext

THEOREM StoresHold == AnnouncementsSpec => []StoredSparingly
<1>1. AnnouncementsSpec => []AnnouncementsInv
  BY AnnouncementsInvInit, AnnouncementsInvStep, PTL DEF AnnouncementsSpec
<1>2. AnnouncementsInv => StoredSparingly
  BY DEF AnnouncementsInv, StoredSparingly
<1> QED BY <1>1, <1>2, PTL

\* The two together: what is told, stored and sent, of every number of scans and of threads that send
\* (SignalChangeService, the filters of the scanner, TelegramNotifier).
THEOREM TellsHold == (OutboxSpec /\ AnnouncementsSpec) => []TellsSparingly
<1>1. SendsSparingly /\ StoredSparingly => TellsSparingly
  BY DEF TellsSparingly
<1> QED BY <1>1, SendsHold, StoresHold, PTL

----
(* The regimes: a backtest, which computes the bars at once, sees those the *)
(* live bot sees bar by bar, on every market and with every parameter.      *)
DatedBar == [day : Nat, bar : Bars]
FramesInv == frames \in [Benchmarks -> Seq(DatedBar)] /\ marketDay \in Nat

LEMMA FramesStep ==
    ASSUME FramesInv, [RegimeNext]_regimeVars
    PROVE  FramesInv'
<1>1. ASSUME NEW market \in Markets, MarketTrades(market)
      PROVE  FramesInv'
  <2>1. marketDay \in Nat /\ marketDay' = marketDay + 1 /\ marketDay' \in Nat
    BY <1>1 DEF MarketTrades, FramesInv
  <2>2. ASSUME NEW b \in Benchmarks
        PROVE  (IF market[b] = Untraded THEN frames[b]
                ELSE Append(frames[b], [day |-> marketDay + 1, bar |-> market[b]])) \in Seq(DatedBar)
    <3>1. frames[b] \in Seq(DatedBar)
      BY DEF FramesInv
    <3>2. CASE market[b] # Untraded
      <4>1. market[b] \in Bars
        BY <3>2 DEF Bars
      <4>2. [day |-> marketDay + 1, bar |-> market[b]] \in DatedBar
        BY <2>1, <4>1 DEF DatedBar
      <4> QED BY <3>1, <3>2, <4>2
    <3> QED BY <3>1, <3>2
  <2> QED BY <1>1, <2>1, <2>2 DEF MarketTrades, FramesInv
<1>2. CASE UNCHANGED regimeVars
  BY <1>2 DEF FramesInv, regimeVars
<1> QED BY <1>1, <1>2 DEF RegimeNext

\* A share of at least all is as much at least.
LEMMA RatioCounts ==
    ASSUME NEW x \in Nat, NEW y \in Nat, NEW r \in Nat, 100 <= r, x * 100 > y * r
    PROVE  x > y
<1>1. y * r >= y * 100
  OBVIOUS
<1> QED BY <1>1

LEMMA OneDirection ==
    ASSUME NEW bar \in Bars
    PROVE  ~(Rising(bar) /\ Falling(bar))
<1>1. bar.adx \in Nat /\ bar.plus \in Nat /\ bar.minus \in Nat /\ bar.momentum \in Int
  BY RegimeAssumption
<1>2. TrendAdx \in Nat /\ WeakAdx \in Nat /\ DiRatioPct \in Nat /\ 100 <= DiRatioPct /\ MomentumPct \in Nat
  BY RegimeAssumption
<1>3. bar.plus * 100 > bar.minus * DiRatioPct => bar.plus > bar.minus
  BY <1>1, <1>2, RatioCounts
<1>4. bar.minus * 100 > bar.plus * DiRatioPct => bar.minus > bar.plus
  BY <1>1, <1>2, RatioCounts
<1>5. Rising(bar) => bar.plus > bar.minus
  BY <1>3 DEF Rising
<1>6. Falling(bar) => bar.minus > bar.plus
  BY <1>4 DEF Falling
<1> QED BY <1>1, <1>5, <1>6

\* The first bars of a frame.
LEMMA FirstBars ==
    ASSUME NEW q \in Seq(DatedBar), NEW n \in 0..Len(q)
    PROVE  /\ Len(SubSeq(q, 1, n)) = n
           /\ \A i \in 1..n : SubSeq(q, 1, n)[i] = q[i] /\ i \in 1..Len(q)
OBVIOUS

\* What the bot makes of the first n bars is what the series makes of the bar n of a longer frame.
LEMMA SameRegime ==
    ASSUME NEW q \in Seq(DatedBar), NEW n \in 1..Len(q), n >= MinBars \/ n < Len(q)
    PROVE  Detected(SubSeq(q, 1, n)) = SeriesOf(q)[n]
<1> DEFINE f == SubSeq(q, 1, n)
<1>1. Len(f) = n /\ f[n] = q[n] /\ Len(q) \in Nat /\ n \in Nat /\ MinBars \in Nat
  BY FirstBars, RegimeAssumption
<1>2. q[n] \in DatedBar
  OBVIOUS
<1>3. q[n].bar \in Bars
  BY <1>2 DEF DatedBar
<1>4. Last(f).bar = q[n].bar
  BY <1>1 DEF Last
<1> HIDE DEF f
<1>5. n \in DOMAIN q
  OBVIOUS
<1>6. SeriesOf(q)[n] = IF n < MinBars /\ n < Len(q) THEN "UNKNOWN"
                       ELSE IF Falling(q[n].bar) THEN "BEAR" ELSE IF Rising(q[n].bar) THEN "BULL" ELSE "SIDEWAYS"
  BY <1>5 DEF SeriesOf
<1>7. Detected(f) = IF n < MinBars THEN "UNKNOWN"
                    ELSE IF Rising(q[n].bar) THEN "BULL" ELSE IF Falling(q[n].bar) THEN "BEAR" ELSE "SIDEWAYS"
  BY <1>1, <1>4 DEF Detected
<1>8. n < MinBars => n < Len(q)
  BY <1>1
<1>9. ~(Rising(q[n].bar) /\ Falling(q[n].bar))
  BY <1>3, OneDirection
<1> QED BY <1>6, <1>7, <1>8, <1>9 DEF f

LEMMA SameSlopes ==
    ASSUME NEW q \in Seq(DatedBar), NEW n \in 1..Len(q)
    PROVE  SlopesOppose(SubSeq(q, 1, n), n) <=> SlopesOppose(q, n)
<1> DEFINE f == SubSeq(q, 1, n)
<1>1. \A i \in 1..n : f[i] = q[i]
  BY FirstBars
<1>2. n \in 1..n /\ (n > SlopeLookback => n - SlopeLookback \in 1..n)
  BY RegimeAssumption
<1>3. f[n] = q[n] /\ (n > SlopeLookback => f[n - SlopeLookback] = q[n - SlopeLookback])
  BY <1>1, <1>2
<1> HIDE DEF f
<1>4. SlopesOppose(f, n) <=> SlopesOppose(q, n)
  BY <1>3 DEF SlopesOppose
<1> QED BY <1>4 DEF f

\* The bars up to a day are the first of the frame.
LEMMA AsOfIsFirst ==
    ASSUME NEW q \in Seq(DatedBar), NEW d
    PROVE  \E n \in 0..Len(q) : AsOf(q, d) = SubSeq(q, 1, n)
<1> DEFINE S == {0} \cup {i \in DOMAIN q : q[i].day <= d}
<1>1. S \in SUBSET Nat /\ S # {} /\ \A x \in S : x <= Len(q)
  OBVIOUS
<1>2. Len(q) \in Nat
  OBVIOUS
<1> HIDE DEF S
<1>3. PICK m \in S : \A y \in S : y <= m
  BY <1>1, <1>2, GreatestOf
<1>4. m \in S /\ \A y \in S : m >= y
  BY <1>1, <1>3
<1>5. Max(S) \in S
  BY <1>4 DEF Max
<1>6. Max(S) \in 0..Len(q)
  <2>1. \A x \in S : x \in 0..Len(q)
    BY <1>1, <1>2
  <2> QED BY <1>5, <2>1
<1>7. AsOf(q, d) = SubSeq(q, 1, Max(S))
  BY DEF AsOf, S
<1> QED BY <1>6, <1>7

\* A backtest sees the regimes that the live bot saw, on every market and with every number of
\* benchmarks (detect_regime, benchmark_regime_series, build_macro_regime_series).
THEOREM RegimesHold == RegimeSpec => []RegimesAgree
<1>1. RegimeInit => FramesInv
  BY DEF RegimeInit, FramesInv
<1>2. FramesInv => RegimesAgree
  <2> SUFFICES ASSUME FramesInv PROVE RegimesAgree
    OBVIOUS
  <2>1. ASSUME \A b \in Benchmarks : Len(frames[b]) >= MinBars, NEW d
        PROVE  MacroOn(d) = LiveMacro([b \in Benchmarks |-> AsOf(frames[b], d)])
    <3> DEFINE voters == {b \in Benchmarks : Len(AsOf(frames[b], d)) >= MinBars}
               fs == [b \in Benchmarks |-> AsOf(frames[b], d)]
               late == [b \in voters |-> SeriesOf(frames[b])[Len(AsOf(frames[b], d))]]
               live == [b \in voters |-> Detected(fs[b])]
    <3>1. ASSUME NEW b \in voters
          PROVE  SeriesOf(frames[b])[Len(AsOf(frames[b], d))] = Detected(fs[b])
      <4>1. frames[b] \in Seq(DatedBar) /\ Len(AsOf(frames[b], d)) >= MinBars /\ fs[b] = AsOf(frames[b], d)
        BY DEF FramesInv
      <4>2. PICK n \in 0..Len(frames[b]) : AsOf(frames[b], d) = SubSeq(frames[b], 1, n)
        BY <4>1, AsOfIsFirst
      <4>3. Len(AsOf(frames[b], d)) = n
        BY <4>1, <4>2, FirstBars
      <4>4. n >= MinBars /\ n \in 1..Len(frames[b])
        BY <4>1, <4>3, RegimeAssumption
      <4>5. Detected(SubSeq(frames[b], 1, n)) = SeriesOf(frames[b])[n]
        BY <4>1, <4>4, SameRegime
      <4> QED BY <4>1, <4>2, <4>3, <4>5
    <3>2. late = live
      BY <3>1
    <3>3. voters = {b \in Benchmarks : Len(fs[b]) >= MinBars}
      OBVIOUS
    <3>4. MacroOn(d) = Aggregate(late)
      BY DEF MacroOn
    <3>5. LiveMacro(fs) = Aggregate(live)
      BY <3>3 DEF LiveMacro
    <3> QED BY <3>2, <3>4, <3>5
  <2>2. ASSUME NEW b \in Benchmarks, Len(frames[b]) >= MinBars, NEW i \in 1..Len(frames[b])
        PROVE  BacktestRegime(frames[b], i) = LiveRegime(SubSeq(frames[b], 1, i))
    <3>1. frames[b] \in Seq(DatedBar) /\ Len(frames[b]) \in Nat
      BY DEF FramesInv
    <3>2. i >= MinBars \/ i < Len(frames[b])
      BY <2>2, <3>1, RegimeAssumption
    <3>3. Detected(SubSeq(frames[b], 1, i)) = SeriesOf(frames[b])[i]
      BY <3>1, <3>2, SameRegime
    <3>4. Len(SubSeq(frames[b], 1, i)) = i
      BY <3>1, FirstBars
    <3>5. SlopesOppose(SubSeq(frames[b], 1, i), i) <=> SlopesOppose(frames[b], i)
      BY <3>1, SameSlopes
    <3> QED BY <3>3, <3>4, <3>5 DEF BacktestRegime, LiveRegime
  <2> QED BY <2>1, <2>2 DEF RegimesAgree
<1> QED BY <1>1, <1>2, FramesStep, PTL DEF RegimeSpec

----
(* The decision about a candidate.  Its score is a number on a side; what    *)
(* the penalties and the session add to it is less than a threshold, so that *)
(* a signal to act on is still on the side of its components.               *)
DecidedRow ==
    [chart : ChartsSeen, combined : Int, score : Int, type : Types, acts : BOOLEAN,
     bias : Biases, framed : BOOLEAN]

\* How far penalties and the session can have carried a score.
Carried(c) ==
    /\ c.combined # 0
    /\ c.combined < 0 => c.score < 130
    /\ c.combined > 0 => c.score > -80

\* A candidate to act on may be, and so says its higher timeframe.
Backed(c) ==
    /\ c.acts => MayActOn(profile, c.type, c.score)
    /\ c.acts /\ c.framed => Confluent(c.type, c.bias)

DecidedInv ==
    /\ profile \in Profiles
    /\ candidate \in DecidedRow
    /\ phase \in {"new", "scored", "adjusted", "classified", "sized", "signal", "published", "none"}
    /\ rejections = (IF phase = "none" THEN 1 ELSE 0)
    /\ phase \notin {"new", "none"} => Carried(candidate)
    /\ phase = "scored" => candidate.score = candidate.combined
    /\ phase \in {"signal", "published"} => Backed(candidate)

LEMMA SignIs ==
    ASSUME NEW x \in Int
    PROVE  /\ Sign(x) \in Int
           /\ x > 0 => Sign(x) = 1
           /\ x < 0 => Sign(x) = -1
           /\ x = 0 => Sign(x) = 0
BY DEF Sign

LEMMA ClampedIs ==
    ASSUME NEW low \in Int, NEW x \in Int, NEW high \in Int
    PROVE  /\ Clamped(low, x, high) \in Int
           /\ low <= high => low <= Clamped(low, x, high) /\ Clamped(low, x, high) <= high
           /\ x <= 0 /\ low <= 0 => Clamped(low, x, high) <= 0
           /\ x >= 0 /\ high >= 0 => Clamped(low, x, high) >= 0
BY DEF Clamped

LEMMA ShareIs ==
    ASSUME NEW x \in Int, NEW pct \in Int
    PROVE  Share(x, pct) \in Int
<1>1. Sign(x) \in Int
  BY SignIs
<1>2. Sign(x) * x * pct \in Int
  BY <1>1
<1> DEFINE y == Sign(x) * x * pct
<1> HIDE DEF y
<1>3. y \div 100 \in Int
  BY <1>2 DEF y
<1>4. Sign(x) * (y \div 100) \in Int
  BY <1>1, <1>3
<1> QED BY <1>4 DEF Share, y

LEMMA WeighedIs ==
    ASSUME NEW x \in Int, NEW weight \in Int, NEW cap \in Nat \ {0}
    PROVE  Weighed(x, weight, cap) \in Int
<1>1. Sign(x) \in Int
  BY SignIs
<1>2. Sign(x) * x * weight \in Int
  BY <1>1
<1> DEFINE y == Sign(x) * x * weight
<1> HIDE DEF y
<1>3. y \div cap \in Int
  BY <1>2 DEF y
<1>4. Sign(x) * (y \div cap) \in Int
  BY <1>1, <1>3
<1> QED BY <1>4 DEF Weighed, y

LEMMA GradedIs ==
    ASSUME NEW r \in Int, NEW weak \in Int, NEW strong \in Int
    PROVE  Graded(r, weak, strong) \in Int
<1>1. Sign(r) \in Int
  BY SignIs
<1> QED BY <1>1 DEF Graded

LEMMA OversoldIs ==
    ASSUME NEW p \in Profiles, NEW c, NEW points \in Int
    PROVE  Oversold(p, c, points) \in Int
<1>1. p.unconfirmedPct \in Int
  BY DecisionAssumption
<1>2. Share(points, p.unconfirmedPct) \in Int
  BY <1>1, ShareIs
<1> QED BY <1>2 DEF Oversold

LEMMA MomentumIs ==
    ASSUME NEW p \in Profiles, NEW c \in ChartsSeen
    PROVE  MomentumScore(p, c) \in Int
<1>1. /\ p.momentumPct \in Int /\ c.rsi \in -3..3
      /\ c.stochCross \in Int /\ c.stochZone \in Int /\ c.stochLean \in Int /\ c.cci \in Int
  BY DecisionAssumption
<1>2. RsiPoints(c.rsi) \in Int
  <2>1. c.rsi + 4 \in 1..7
    BY <1>1
  <2> DEFINE i == c.rsi + 4
  <2> HIDE DEF i
  <2>2. i \in {1, 2, 3, 4, 5, 6, 7}
    BY <2>1 DEF i
  <2>3. <<-180, -140, -40, 0, 70, 140, 180>>[i] \in Int
    BY <2>2
  <2> QED BY <2>3 DEF RsiPoints, i
<1> DEFINE oscillators == RsiPoints(c.rsi) + 80 * c.stochCross + 60 * c.stochZone + 30 * c.stochLean
           cci == IF c.cci = 2 THEN Oversold(p, c, 80) ELSE Graded(c.cci, 40, 80)
<1>3. oscillators \in Int
  BY <1>1, <1>2
<1>4. Oversold(p, c, 80) \in Int
  BY OversoldIs
<1>5. Graded(c.cci, 40, 80) \in Int
  BY <1>1, GradedIs, 40 \in Int, 80 \in Int, Zenon
<1>6. cci \in Int
  BY <1>4, <1>5
<1> HIDE DEF oscillators, cci
<1>7. Share(oscillators, p.momentumPct) \in Int
  BY <1>1, <1>3, ShareIs
<1>8. Share(oscillators, p.momentumPct) + cci \in Int
  BY <1>6, <1>7
<1>9. Clamped(-450, Share(oscillators, p.momentumPct) + cci, 450) \in Int
  BY <1>8, ClampedIs
<1> QED BY <1>9 DEF MomentumScore, oscillators, cci

LEMMA TrendIs ==
    ASSUME NEW c \in ChartsSeen
    PROVE  TrendScore(c) \in Int
<1>1. /\ c.slope \in Int /\ c.adx \in Int /\ c.di \in Int /\ c.diCross \in Int /\ c.smaCross \in Int
      /\ c.smaTrend \in Int /\ c.emaCross \in Int /\ c.macdCross \in Int /\ c.histogram \in Int
      /\ c.hasAverage \in BOOLEAN /\ c.above \in BOOLEAN /\ c.wasAbove \in BOOLEAN
  BY DecisionAssumption
<1>2. AveragePoints(c) \in Int
  BY <1>1 DEF AveragePoints
<1> DEFINE sma == IF c.smaCross # 0 THEN 120 * c.smaCross ELSE 30 * c.smaTrend
           adx == IF c.adx > 25 THEN 80 * c.di ELSE 30 * c.di
           total == AveragePoints(c) + sma + 100 * c.emaCross + 120 * c.macdCross
                        + Graded(c.histogram, 30, 50) + adx + 60 * c.diCross
<1>3. sma \in Int /\ adx \in Int
  BY <1>1
<1>4. Graded(c.histogram, 30, 50) \in Int
  BY <1>1, GradedIs, 30 \in Int, 50 \in Int, Zenon
<1> HIDE DEF sma, adx
<1>5. total \in Int
  BY <1>1, <1>2, <1>3, <1>4
<1> HIDE DEF total
<1>6. Clamped(-700, total, 700) \in Int
  BY <1>5, ClampedIs
<1> QED BY <1>6 DEF TrendScore, sma, adx, total

LEMMA VolumeIs ==
    ASSUME NEW c \in ChartsSeen
    PROVE  VolumeScore(c) \in Int
<1>1. c.spike \in Int /\ c.priceVolume \in Int /\ c.volumeTrend \in Int /\ c.obv \in Int
  BY DecisionAssumption
<1> DEFINE total == (IF c.heavy THEN 80 ELSE 0) + 80 * c.spike + 20 * c.priceVolume
                    + 20 * c.volumeTrend + 40 * c.obv
<1>2. total \in Int
  BY <1>1
<1> HIDE DEF total
<1>3. Clamped(-260, total, 260) \in Int
  BY <1>2, ClampedIs
<1> QED BY <1>3 DEF VolumeScore, total

LEMMA StructureIs ==
    ASSUME NEW p \in Profiles, NEW c \in ChartsSeen
    PROVE  StructureScore(p, c) \in Int
<1>1. c.band \in Int /\ c.near \in Int /\ c.rsiDivergence \in Int /\ c.macdDivergence \in Int
  BY DecisionAssumption
<1> DEFINE bollinger == IF c.band = 2 THEN Oversold(p, c, 100) ELSE Graded(c.band, 50, 100)
           total == bollinger + 60 * c.near + 150 * c.rsiDivergence + 120 * c.macdDivergence
<1>2. Oversold(p, c, 100) \in Int
  BY OversoldIs
<1>3. Graded(c.band, 50, 100) \in Int
  BY <1>1, GradedIs, 50 \in Int, 100 \in Int, Zenon
<1>4. bollinger \in Int
  BY <1>2, <1>3
<1> HIDE DEF bollinger
<1>5. total \in Int
  BY <1>1, <1>4
<1> HIDE DEF total
<1>6. Clamped(-500, total, 500) \in Int
  BY <1>5, ClampedIs
<1> QED BY <1>6 DEF StructureScore, bollinger, total

\* The four scores of a chart.
FourScores == [1..4 -> Int]

LEMMA ComponentsAre ==
    ASSUME NEW p \in Profiles, NEW c \in ChartsSeen
    PROVE  Components(p, c) \in FourScores
<1>1. /\ MomentumScore(p, c) \in Int /\ TrendScore(c) \in Int /\ VolumeScore(c) \in Int
      /\ StructureScore(p, c) \in Int
  BY MomentumIs, TrendIs, VolumeIs, StructureIs
<1> DEFINE a == MomentumScore(p, c)
           b == TrendScore(c)
           d == VolumeScore(c)
           e == StructureScore(p, c)
<1> HIDE DEF a, b, d, e
<1>2. a \in Int /\ b \in Int /\ d \in Int /\ e \in Int
  BY <1>1 DEF a, b, d, e
<1>3. <<a, b, d, e>> \in FourScores
  BY <1>2 DEF FourScores
<1> QED BY <1>3 DEF Components, a, b, d, e

LEMMA CombinedIs ==
    ASSUME NEW p \in Profiles, NEW s \in FourScores
    PROVE  Combined(p, s) \in Int
<1>1. s[1] \in Int /\ s[2] \in Int /\ s[3] \in Int /\ s[4] \in Int
  BY DEF FourScores
<1>2. /\ Weighed(s[1], 150, 450) \in Int /\ Weighed(s[2], 600, 700) \in Int
      /\ Weighed(s[3], 150, 260) \in Int /\ Weighed(s[4], 100, 500) \in Int
  <2>1. Weighed(s[1], 150, 450) \in Int
    <3>1. PICK w \in Int : w = 150
      OBVIOUS
    <3>2. PICK cap \in Nat \ {0} : cap = 450
      OBVIOUS
    <3>3. Weighed(s[1], w, cap) \in Int
      BY <1>1, WeighedIs
    <3> QED BY <3>1, <3>2, <3>3
  <2>2. Weighed(s[2], 600, 700) \in Int
    <3>1. PICK w \in Int : w = 600
      OBVIOUS
    <3>2. PICK cap \in Nat \ {0} : cap = 700
      OBVIOUS
    <3>3. Weighed(s[2], w, cap) \in Int
      BY <1>1, WeighedIs
    <3> QED BY <3>1, <3>2, <3>3
  <2>3. Weighed(s[3], 150, 260) \in Int
    <3>1. PICK w \in Int : w = 150
      OBVIOUS
    <3>2. PICK cap \in Nat \ {0} : cap = 260
      OBVIOUS
    <3>3. Weighed(s[3], w, cap) \in Int
      BY <1>1, WeighedIs
    <3> QED BY <3>1, <3>2, <3>3
  <2>4. Weighed(s[4], 100, 500) \in Int
    <3>1. PICK w \in Int : w = 100
      OBVIOUS
    <3>2. PICK cap \in Nat \ {0} : cap = 500
      OBVIOUS
    <3>3. Weighed(s[4], w, cap) \in Int
      BY <1>1, WeighedIs
    <3> QED BY <3>1, <3>2, <3>3
  <2> QED BY <2>1, <2>2, <2>3, <2>4
<1> DEFINE plain == s[1] + s[2] + s[3] + s[4]
           shares == Weighed(s[1], 150, 450) + Weighed(s[2], 600, 700) + Weighed(s[3], 150, 260)
                        + Weighed(s[4], 100, 500)
<1>3. plain \in Int /\ shares \in Int
  BY <1>1, <1>2
<1>4. Combined(p, s) = IF ~p.normalized THEN plain ELSE shares
  BY DEF Combined
<1> HIDE DEF plain, shares
<1> QED BY <1>3, <1>4

LEMMA SuppressedIs ==
    ASSUME NEW p \in Profiles, NEW s \in FourScores
    PROVE  Suppressed(p, s) \in FourScores
<1>1. p.counterTrendPct \in Int /\ s[1] \in Int
  BY DecisionAssumption DEF FourScores
<1>2. Share(s[1], p.counterTrendPct) \in Int
  BY <1>1, ShareIs
<1>3. [s EXCEPT ![1] = Share(s[1], p.counterTrendPct)] \in FourScores
  BY <1>2 DEF FourScores
<1> QED BY <1>3 DEF Suppressed

LEMMA ChaseCappedIs ==
    ASSUME NEW p \in Profiles, NEW c, NEW s, NEW score \in Int
    PROVE  ChaseCapped(p, c, s, score) \in Int
<1>1. p.rideCap \in Int /\ p.chaseCap \in Int
  BY DecisionAssumption
<1>2. -p.rideCap \in Int /\ -p.chaseCap \in Int
  BY <1>1
<1>3. Clamped(-p.rideCap, score, p.rideCap) \in Int /\ Clamped(-p.chaseCap, score, p.chaseCap) \in Int
  BY <1>1, <1>2, ClampedIs, Zenon
<1> QED BY <1>3 DEF ChaseCapped

LEMMA VolumeCappedIs ==
    ASSUME NEW p \in Profiles, NEW c, NEW score \in Int
    PROVE  VolumeCapped(p, c, score) \in Int
<1>1. p.volumeCap \in Int
  BY DecisionAssumption
<1>2. -p.volumeCap \in Int
  BY <1>1
<1>3. Clamped(-p.volumeCap, score, p.volumeCap) \in Int
  BY <1>1, <1>2, ClampedIs, Zenon
<1> QED BY <1>3 DEF VolumeCapped

LEMMA AgreementCappedIs ==
    ASSUME NEW p \in Profiles, NEW s, NEW chased, NEW score \in Int
    PROVE  AgreementCapped(p, s, chased, score) \in Int
<1>1. p.agreementCap \in Int
  BY DecisionAssumption
<1>2. -p.agreementCap \in Int
  BY <1>1
<1>3. Clamped(-p.agreementCap, score, p.agreementCap) \in Int
  BY <1>1, <1>2, ClampedIs, Zenon
<1> QED BY <1>3 DEF AgreementCapped

\* A chart that no gate rejects has a score on a side.
LEMMA ScoringIs ==
    ASSUME NEW p \in Profiles, NEW c \in ChartsSeen
    PROVE  /\ Scoring(p, c).score \in Int
           /\ ~Scoring(p, c).rejected => Scoring(p, c).score # 0
<1> DEFINE before == Components(p, c)
           s == Suppressed(p, before)
           combined == Combined(p, s)
           chased == ChaseCapped(p, c, before, combined)
           damped == IF c.regime = "SIDEWAYS" THEN Share(chased, p.sidewaysPct) ELSE chased
           held == VolumeCapped(p, c, damped)
           capped == AgreementCapped(p, s, chased, held)
           score == Clamped(-1000, capped, 1000)
<1>1. before \in FourScores
  BY ComponentsAre
<1>2. Scoring(p, c).score = score /\ (score = 0 => Scoring(p, c).rejected)
  BY DEF Scoring
<1> HIDE DEF before
<1>3. s \in FourScores
  BY <1>1, SuppressedIs
<1> HIDE DEF s
<1>4. combined \in Int
  BY <1>3, CombinedIs
<1> HIDE DEF combined
<1>5. chased \in Int
  BY <1>4, ChaseCappedIs
<1> HIDE DEF chased
<1>6. Share(chased, p.sidewaysPct) \in Int
  <2>1. p.sidewaysPct \in Int
    BY DecisionAssumption
  <2> QED BY <2>1, <1>5, ShareIs
<1>7. damped \in Int
  BY <1>5, <1>6
<1> HIDE DEF damped
<1>8. held \in Int
  BY <1>7, VolumeCappedIs
<1> HIDE DEF held
<1>9. capped \in Int
  BY <1>8, AgreementCappedIs
<1> HIDE DEF capped
<1>10. score \in Int
  BY <1>9, ClampedIs
<1> HIDE DEF score
<1> QED BY <1>2, <1>10

\* The session moves a score by 8 points at most.
LEMMA SessionPointsAre ==
    ASSUME NEW s \in Sessions
    PROVE  SessionPoints(s) \in -80..80
<1>1. s.relative \in Int /\ s.pace \in Int
  BY DecisionAssumption
<1> DEFINE total == (IF s.limit = 1 THEN -60 ELSE 0) + (IF s.recovers THEN 40 ELSE 0) + 30 * s.relative
                    + 20 * s.pace + (IF s.narrow THEN -40 ELSE 0)
<1>2. total \in Int
  BY <1>1
<1> HIDE DEF total
<1>3. Clamped(-80, total, 80) \in Int /\ -80 <= Clamped(-80, total, 80) /\ Clamped(-80, total, 80) <= 80
  BY <1>2, ClampedIs
<1> QED BY <1>3 DEF SessionPoints, total

LEMMA TrendlessIs ==
    ASSUME NEW c, NEW x \in Int
    PROVE  Trendless(c, x) \in {x, x - 50 * Sign(x)}
BY DEF Trendless

\* The arithmetic of a correction.
Corrected(z, points) == IF z > 0 THEN Clamped(-1000, z + points, 1000) ELSE z

LEMMA CarriesAtMost ==
    ASSUME NEW x \in Int, NEW y \in Int, NEW z \in Int, NEW points \in -80..80, x # 0,
           y \in {x, x - 50 * Sign(x)}, z = y \/ (y > 0 /\ z = y - 50)
    PROVE  /\ Corrected(z, points) \in Int
           /\ x < 0 => Corrected(z, points) < 130
           /\ x > 0 => Corrected(z, points) > -80
<1>1. y = x \/ (x > 0 /\ y = x - 50) \/ (x < 0 /\ y = x + 50)
  BY DEF Sign
<1>2. (x < 0 => z < 50) /\ (x > 0 => z > -100) /\ z \in Int
  BY <1>1
<1> QED BY <1>1, <1>2 DEF Clamped, Corrected

LEMMA ActsIsBoolean ==
    ASSUME NEW p, NEW type, NEW score
    PROVE  MayActOn(p, type, score) \in BOOLEAN
BY DEF MayActOn

LEMMA TypeOfIs ==
    ASSUME NEW p, NEW score
    PROVE  TypeOf(p, score) \in Types
<1>1. {"STRONG_BUY", "BUY", "WEAK_BUY", "STRONG_SELL", "SELL", "WEAK_SELL", "HOLD"} \subseteq Types
  BY DEF Types, BuyTypes, SellTypes
<1> QED BY <1>1 DEF TypeOf

LEMMA ScoresStep ==
    ASSUME DecidedInv, NEW c \in ChartsSeen, ScoresChart(c)
    PROVE  DecidedInv'
<1> DEFINE result == Scoring(profile, c)
<1>1. result.score \in Int /\ (~result.rejected => result.score # 0)
  BY ScoringIs DEF DecidedInv
<1>2. phase = "new" /\ IF result.rejected THEN Rejected
                       ELSE MovesOn("scored", [candidate EXCEPT !.chart = c, !.combined = result.score,
                                                              !.score = result.score])
  BY DEF ScoresChart
<1> HIDE DEF result
<1>3. CASE result.rejected
  BY <1>2, <1>3 DEF DecidedInv, Rejected
<1>4. CASE ~result.rejected
  <2> DEFINE x == result.score
             one == [candidate EXCEPT !.chart = c]
             two == [one EXCEPT !.combined = x]
             three == [two EXCEPT !.score = x]
  <2>1. candidate' = three /\ phase' = "scored" /\ profile' = profile /\ rejections' = rejections
    BY <1>2, <1>4 DEF MovesOn
  <2>2. x \in Int /\ x # 0
    BY <1>1, <1>4
  <2> HIDE DEF x
  <2>3. one \in DecidedRow
    BY DEF DecidedInv, DecidedRow
  <2> HIDE DEF one
  <2>4. two \in DecidedRow /\ two.combined = x
    BY <2>2, <2>3 DEF DecidedRow
  <2> HIDE DEF two
  <2>5. three \in DecidedRow /\ three.combined = x /\ three.score = x
    BY <2>2, <2>4 DEF DecidedRow
  <2> HIDE DEF three
  <2>6. Carried(three)
    BY <2>2, <2>5 DEF Carried
  <2> QED BY <1>2, <2>1, <2>5, <2>6 DEF DecidedInv
<1> QED BY <1>3, <1>4

LEMMA AdjustsStep ==
    ASSUME DecidedInv, NEW currencyRisk \in BOOLEAN, NEW s \in Sessions, Adjusts(currencyRisk, s)
    PROVE  DecidedInv'
<1> DEFINE trendless == Trendless(candidate.chart, candidate.score)
           exposed == IF trendless > 0 /\ currencyRisk THEN trendless - 50 ELSE trendless
           score == IF exposed > 0 THEN Clamped(-1000, exposed + SessionPoints(s), 1000) ELSE exposed
<1>1. phase = "scored" /\ (Rejected \/ MovesOn("adjusted", [candidate EXCEPT !.score = score]))
  BY DEF Adjusts
<1>2. CASE Rejected
  BY <1>1, <1>2 DEF DecidedInv, Rejected
<1>3. CASE MovesOn("adjusted", [candidate EXCEPT !.score = score])
  <2>1. /\ candidate \in DecidedRow /\ candidate.score \in Int /\ candidate.combined = candidate.score
        /\ candidate.combined # 0
    BY <1>1 DEF DecidedInv, DecidedRow, Carried
  <2>2. trendless \in Int
    BY <2>1, TrendlessIs, SignIs
  <2>3. SessionPoints(s) \in -80..80
    BY SessionPointsAre
  <2> DEFINE x == candidate.score
             points == SessionPoints(s)
  <2>4. x \in Int /\ x # 0 /\ trendless \in {x, x - 50 * Sign(x)} /\ points \in -80..80
    BY <2>1, <2>3, TrendlessIs
  <2> HIDE DEF x, points
  <2> HIDE DEF trendless
  <2>5. exposed \in Int /\ (exposed = trendless \/ (trendless > 0 /\ exposed = trendless - 50))
    BY <2>2
  <2> HIDE DEF exposed
  <2>6. score = Corrected(exposed, points)
    BY DEF points, Corrected
  <2> HIDE DEF score
  <2>7. score \in Int /\ (x < 0 => score < 130) /\ (x > 0 => score > -80)
    <3>1. /\ Corrected(exposed, points) \in Int
          /\ x < 0 => Corrected(exposed, points) < 130
          /\ x > 0 => Corrected(exposed, points) > -80
      BY <2>2, <2>4, <2>5, CarriesAtMost
    <3> QED BY <2>6, <3>1
  <2> DEFINE row == [candidate EXCEPT !.score = score]
  <2>8. row \in DecidedRow /\ row.score = score /\ row.combined = candidate.combined
    BY <2>1, <2>7 DEF DecidedRow
  <2>9. candidate' = row /\ phase' = "adjusted" /\ profile' = profile /\ rejections' = rejections
    BY <1>3 DEF MovesOn
  <2> HIDE DEF row
  <2>10. Carried(row)
    BY <2>1, <2>7, <2>8 DEF Carried, x
  <2> QED BY <1>1, <2>8, <2>9, <2>10 DEF DecidedInv
<1> QED BY <1>1, <1>2, <1>3

LEMMA ClassifiesStep ==
    ASSUME DecidedInv, Classifies
    PROVE  DecidedInv'
<1> DEFINE row == [candidate EXCEPT !.type = TypeOf(profile, candidate.score)]
<1>1. candidate \in DecidedRow /\ phase = "adjusted" /\ Carried(candidate)
  BY DEF Classifies, DecidedInv
<1>2. row \in DecidedRow /\ row.score = candidate.score /\ row.combined = candidate.combined
  BY <1>1, TypeOfIs DEF DecidedRow
<1>3. candidate' = row /\ phase' = "classified" /\ profile' = profile /\ rejections' = rejections
  BY DEF Classifies, MovesOn
<1> HIDE DEF row
<1>4. Carried(row)
  BY <1>1, <1>2 DEF Carried
<1> QED BY <1>1, <1>2, <1>3, <1>4 DEF DecidedInv

LEMMA RiskStep ==
    ASSUME DecidedInv, PassesRisk \/ RefusesBuy \/ LacksData
    PROVE  DecidedInv'
<1>1. CASE RefusesBuy \/ LacksData
  <2>1. phase \in {"new", "classified"} /\ Rejected
    BY <1>1 DEF RefusesBuy, LacksData
  <2> QED BY <2>1 DEF Rejected, DecidedInv
<1>2. CASE PassesRisk
  <2> DEFINE row == [candidate EXCEPT !.acts = MayActOn(profile, candidate.type, candidate.score)]
  <2>1. candidate \in DecidedRow /\ phase = "classified" /\ Carried(candidate)
    BY <1>2 DEF PassesRisk, DecidedInv
  <2>2. row \in DecidedRow /\ row.score = candidate.score /\ row.combined = candidate.combined
    BY <2>1, ActsIsBoolean DEF DecidedRow
  <2>3. candidate' = row /\ phase' = "sized" /\ profile' = profile /\ rejections' = rejections
    BY <1>2 DEF PassesRisk, MovesOn
  <2> HIDE DEF row
  <2>4. Carried(row)
    BY <2>1, <2>2 DEF Carried
  <2> QED BY <2>1, <2>2, <2>3, <2>4 DEF DecidedInv
<1> QED BY <1>1, <1>2

\* A type to act on is the one that the score gave, and the higher timeframe agrees.
LEMMA FinalTypeIs ==
    ASSUME NEW c \in DecidedRow, NEW framed \in BOOLEAN, NEW bias \in Biases, NEW score
    PROVE  /\ FinalType(c, framed, bias) \in Types
           /\ MayActOn(profile, FinalType(c, framed, bias), score) /\ framed
                => Confluent(FinalType(c, framed, bias), bias)
<1>1. FinalType(c, framed, bias) \in {c.type, "RADAR", "HOLD"}
  BY DEF FinalType
<1>2. c.type \in Types /\ "RADAR" \in Types /\ "HOLD" \in Types
  BY DEF DecidedRow, Types
<1>3. FinalType(c, framed, bias) \in {"RADAR", "HOLD"}
        \/ (FinalType(c, framed, bias) = c.type /\ (framed => Confluent(c.type, bias)))
  BY DEF FinalType
<1>4. ASSUME NEW type \in {"RADAR", "HOLD"}
      PROVE  ~MayActOn(profile, type, score)
  BY DEF MayActOn, BuyTypes, SellTypes
<1> QED BY <1>1, <1>2, <1>3, <1>4

LEMMA TypesStep ==
    ASSUME DecidedInv, NEW framed \in BOOLEAN, NEW bias \in Biases, DecidesType(framed, bias)
    PROVE  DecidedInv'
<1> DEFINE type == FinalType(candidate, framed, bias)
           acts == MayActOn(profile, type, candidate.score)
           one == [candidate EXCEPT !.type = type]
           two == [one EXCEPT !.framed = framed]
           three == [two EXCEPT !.bias = bias]
           four == [three EXCEPT !.acts = acts]
<1>1. candidate \in DecidedRow /\ phase = "sized" /\ Carried(candidate)
  BY DEF DecidesType, DecidedInv
<1>2. Rejected \/ (/\ candidate' = four /\ phase' = "signal"
                   /\ profile' = profile /\ rejections' = rejections)
  BY DEF DecidesType, MovesOn
<1>3. acts \in BOOLEAN /\ type \in Types /\ (acts /\ framed => Confluent(type, bias))
  BY <1>1, ActsIsBoolean, FinalTypeIs
<1>4. acts <=> MayActOn(profile, type, candidate.score)
  OBVIOUS
<1> HIDE DEF acts, type
<1>5. one \in DecidedRow /\ one.type = type /\ one.score = candidate.score /\ one.combined = candidate.combined
  BY <1>1, <1>3 DEF DecidedRow
<1> HIDE DEF one
<1>6. /\ two \in DecidedRow /\ two.type = type /\ two.score = candidate.score
      /\ two.combined = candidate.combined /\ two.framed = framed
  BY <1>5 DEF DecidedRow
<1> HIDE DEF two
<1>7. /\ three \in DecidedRow /\ three.type = type /\ three.score = candidate.score
      /\ three.combined = candidate.combined /\ three.framed = framed /\ three.bias = bias
  BY <1>6 DEF DecidedRow
<1> HIDE DEF three
<1>8. /\ four \in DecidedRow /\ four.type = type /\ four.score = candidate.score
      /\ four.combined = candidate.combined /\ four.framed = framed /\ four.bias = bias
      /\ four.acts = acts
  BY <1>3, <1>7 DEF DecidedRow
<1> HIDE DEF four
<1>9. CASE Rejected
  BY <1>1, <1>9 DEF DecidedInv, Rejected
<1>10. CASE candidate' = four /\ phase' = "signal" /\ profile' = profile /\ rejections' = rejections
  <2>1. Carried(four)
    BY <1>1, <1>8 DEF Carried
  <2>2. Backed(four)
    <3>1. four.acts <=> acts
      BY <1>8
    <3>2. four.framed <=> framed
      BY <1>8
    <3>3. four.acts => MayActOn(profile, four.type, four.score)
      BY <1>4, <1>8, <3>1
    <3>4. four.acts /\ four.framed => Confluent(four.type, four.bias)
      BY <1>3, <1>8, <3>1, <3>2
    <3> QED BY <3>3, <3>4 DEF Backed
  <2>3. Backed(candidate)'
    BY <1>10, <2>2 DEF Backed, MayActOn, Confluent
  <2> QED BY <1>1, <1>8, <1>10, <2>1, <2>3 DEF DecidedInv
<1> QED BY <1>2, <1>9, <1>10

LEMMA GateStep ==
    ASSUME DecidedInv, NEW macro, PassesGate(macro)
    PROVE  DecidedInv'
<1> DEFINE one == [candidate EXCEPT !.type = "RADAR"]
           two == [one EXCEPT !.acts = FALSE]
<1>1. /\ candidate \in DecidedRow /\ phase = "signal" /\ Carried(candidate) /\ Backed(candidate)
  BY DEF PassesGate, DecidedInv
<1>2. /\ candidate' \in {candidate, two} /\ phase' = "published" /\ profile' = profile
      /\ rejections' = rejections
  BY DEF PassesGate, MovesOn
<1>3. "RADAR" \in Types
  BY DEF Types
<1>4. one \in DecidedRow /\ one.score = candidate.score /\ one.combined = candidate.combined
  BY <1>1, <1>3 DEF DecidedRow
<1> HIDE DEF one
<1>5. two \in DecidedRow /\ two.score = candidate.score /\ two.combined = candidate.combined /\ ~two.acts
  BY <1>4 DEF DecidedRow
<1> HIDE DEF two
<1>6. CASE candidate' = two
  <2>1. Carried(two) /\ Backed(two)
    BY <1>1, <1>5 DEF Carried, Backed
  <2>2. Backed(candidate)'
    BY <1>2, <1>6, <2>1 DEF Backed, MayActOn, Confluent
  <2> QED BY <1>1, <1>2, <1>5, <1>6, <2>1, <2>2 DEF DecidedInv
<1>7. CASE candidate' = candidate
  <2>1. Backed(candidate)'
    BY <1>1, <1>2, <1>7 DEF Backed, MayActOn, Confluent
  <2> QED BY <1>1, <1>2, <1>7, <2>1 DEF DecidedInv
<1> QED BY <1>2, <1>6, <1>7

\* Whatever penalties, bonuses and caps make of a score, what analyze lets act is on the side of its
\* components, and every candidate is decided once (analyze, is_trade_actionable).
THEOREM DecisionsHold == DecisionSpec => []DecisionsSound
<1>1. DecisionInit => DecidedInv
  <2>1. NoCandidate \in DecidedRow
    <3>1. (CHOOSE c \in ChartsSeen : TRUE) \in ChartsSeen
      BY DecisionAssumption
    <3>2. "HOLD" \in Types /\ "NEUTRAL" \in Biases
      BY DEF Types, Biases
    <3> QED BY <3>1, <3>2 DEF NoCandidate, DecidedRow
  <2> QED BY <2>1 DEF DecisionInit, DecidedInv
<1>2. DecidedInv /\ [DecisionNext]_decisionVars => DecidedInv'
  <2> SUFFICES ASSUME DecidedInv, [DecisionNext]_decisionVars PROVE DecidedInv'
    OBVIOUS
  <2>1. CASE UNCHANGED decisionVars
    BY <2>1 DEF DecidedInv, decisionVars, Backed, MayActOn, Confluent
  <2>2. CASE DecisionNext
    BY <2>2, ScoresStep, AdjustsStep, ClassifiesStep, RiskStep, TypesStep, GateStep DEF DecisionNext
  <2> QED BY <2>1, <2>2
<1>3. DecidedInv => DecisionsSound
  <2> SUFFICES ASSUME DecidedInv PROVE DecisionsSound
    OBVIOUS
  <2>1. CountedOnce
    BY DEF DecidedInv, CountedOnce
  <2>2. ASSUME phase \in {"signal", "published"}, candidate.acts
        PROVE  LET buys == candidate.type \in BuyTypes
                   side == IF buys THEN 1 ELSE -1
               IN  /\ buys \/ candidate.type \in SellTypes
                   /\ Sign(candidate.combined) = side /\ Sign(candidate.score) = side
                   /\ candidate.framed => candidate.bias = (IF buys THEN "LONG" ELSE "SHORT")
                   /\ buys => candidate.score \in profile.buy..profile.maxActionable
                   /\ ~buys => candidate.score <= profile.sell
                   /\ Category(candidate.type, candidate.score) = (IF buys THEN "AL" ELSE "SAT")
    <3>1. /\ candidate \in DecidedRow /\ Carried(candidate) /\ profile \in Profiles
          /\ MayActOn(profile, candidate.type, candidate.score)
          /\ candidate.framed => Confluent(candidate.type, candidate.bias)
      BY <2>2 DEF DecidedInv, Backed
    <3>2. candidate.combined \in Int /\ candidate.score \in Int /\ candidate.combined # 0
      BY <3>1 DEF DecidedRow, Carried
    <3>3. /\ profile.buy \in Int /\ profile.sell \in Int /\ profile.maxActionable \in Int
          /\ 130 <= profile.buy /\ profile.sell <= -80
          /\ profile.buy <= MaxSignalScore /\ MaxSignalScore \in Int
      BY <3>1, DecisionAssumption
    <3>4. \A t : ~(t \in BuyTypes /\ t \in SellTypes)
      BY DEF BuyTypes, SellTypes
    <3>5. CASE candidate.type \in BuyTypes
      <4>1. candidate.score \in profile.buy..profile.maxActionable /\ candidate.type \notin SellTypes
        BY <3>1, <3>4, <3>5 DEF MayActOn
      <4>2. 130 <= candidate.score /\ profile.buy <= candidate.score
        BY <3>2, <3>3, <4>1
      <4>3. candidate.combined > 0
        BY <3>1, <3>2, <4>2 DEF Carried
      <4>4. Sign(candidate.combined) = 1 /\ Sign(candidate.score) = 1
        BY <3>2, <4>2, <4>3 DEF Sign
      <4>5. candidate.framed => candidate.bias = "LONG"
        BY <3>1, <3>5 DEF Confluent
      <4>6. Category(candidate.type, candidate.score) = "AL"
        <5> DEFINE effective == IF candidate.score > MaxSignalScore THEN MaxSignalScore ELSE candidate.score
        <5>1. effective >= profile.buy
          BY <3>2, <3>3, <4>2
        <5>2. effective \in Int
          BY <3>2, <3>3
        <5>3. candidate.type # "RADAR"
          BY <3>5 DEF BuyTypes
        <5> QED BY <3>3, <3>5, <4>1, <5>1, <5>2, <5>3 DEF Category
      <4> QED BY <3>5, <4>1, <4>4, <4>5, <4>6
    <3>6. CASE candidate.type \notin BuyTypes
      <4>1. candidate.type \in SellTypes /\ candidate.score <= profile.sell
        BY <3>1, <3>6 DEF MayActOn
      <4>2. candidate.score <= -80
        BY <3>2, <3>3, <4>1
      <4>3. candidate.combined < 0
        BY <3>1, <3>2, <4>2 DEF Carried
      <4>4. Sign(candidate.combined) = -1 /\ Sign(candidate.score) = -1
        BY <3>2, <4>2, <4>3 DEF Sign
      <4>5. candidate.framed => candidate.bias = "SHORT"
        BY <3>1, <4>1 DEF Confluent
      <4>6. Category(candidate.type, candidate.score) = "SAT"
        <5>1. candidate.type # "RADAR"
          BY <4>1 DEF SellTypes
        <5> QED BY <3>6, <4>1, <5>1 DEF Category
      <4> QED BY <3>6, <4>1, <4>4, <4>5, <4>6
    <3> QED BY <3>5, <3>6
  <2>3. ActsOnItsSide
    BY <2>2 DEF ActsOnItsSide
  <2> QED BY <2>1, <2>3 DEF DecisionsSound
<1> QED BY <1>1, <1>2, <1>3, PTL DEF DecisionSpec

----
(* The diagnosis of a window: with the rule against chasing a positive score *)
(* goes through the same corrections from a lower start, and each of them     *)
(* keeps the order of what is not negative.                                  *)
ProfileRow ==
    [buy : Int, sell : Int, maxActionable : Int, sidewaysPct : Int, momentumPct : Int,
     counterTrendPct : Int, extra : Int, normalized : BOOLEAN, confirmOversold : BOOLEAN,
     unconfirmedPct : Int, confirmVolume : BOOLEAN, volumeGate : BOOLEAN, volumeCap : Int,
     chase : BOOLEAN, chaseCap : Int, rideCap : Int, agreement : BOOLEAN, agreementCap : Int]

SameScores(p, q) ==
    /\ q.buy = p.buy /\ q.sidewaysPct = p.sidewaysPct /\ q.momentumPct = p.momentumPct
    /\ q.counterTrendPct = p.counterTrendPct /\ q.normalized = p.normalized
    /\ q.confirmOversold = p.confirmOversold /\ q.unconfirmedPct = p.unconfirmedPct
    /\ q.volumeCap = p.volumeCap /\ q.chaseCap = p.chaseCap /\ q.rideCap = p.rideCap
    /\ q.agreement = p.agreement /\ q.agreementCap = p.agreementCap

LEMMA RulesOnly ==
    ASSUME NEW p \in Profiles
    PROVE  /\ SameScores(p, Unruled(p)) /\ ~Unruled(p).chase /\ ~Unruled(p).volumeGate
           /\ SameScores(p, Ruled(p)) /\ Ruled(p).chase /\ Ruled(p).volumeGate = p.volumeGate
<1>1. p \in ProfileRow
  BY DecisionAssumption DEF ProfileRow
<1>2. SameScores(p, Ruled(p)) /\ Ruled(p).chase /\ Ruled(p).volumeGate = p.volumeGate
  BY <1>1 DEF Ruled, ProfileRow, SameScores
<1> DEFINE quiet == [p EXCEPT !.volumeGate = FALSE]
           calm == [quiet EXCEPT !.chase = FALSE]
<1>3. quiet \in ProfileRow /\ ~quiet.volumeGate /\ SameScores(p, quiet)
  BY <1>1 DEF ProfileRow, SameScores
<1>4. Unruled(p) = calm
  BY DEF Unruled
<1> HIDE DEF quiet
<1>5. ~calm.volumeGate /\ ~calm.chase /\ SameScores(quiet, calm)
  BY <1>3 DEF ProfileRow, SameScores
<1> QED BY <1>2, <1>3, <1>4, <1>5 DEF SameScores

\* The stages of a score.
Damped(p, c, x) == IF c.regime = "SIDEWAYS" THEN Share(x, p.sidewaysPct) ELSE x
Starting(p, c) == Combined(p, Suppressed(p, Components(p, c)))
Agreed(p, c, chased, x) == AgreementCapped(p, Suppressed(p, Components(p, c)), chased, x)

LEMMA ScoringStages ==
    ASSUME NEW p \in Profiles, NEW q, SameScores(p, q), NEW c \in ChartsSeen
    PROVE  LET chased == ChaseCapped(q, c, Components(p, c), Starting(p, c))
           IN  Scoring(q, c).score = Clamped(-1000, Agreed(p, c, chased,
                                          VolumeCapped(q, c, Damped(p, c, chased))), 1000)
<1>1. Components(q, c) = Components(p, c)
  BY DEF SameScores, Components, MomentumScore, StructureScore, Oversold
<1>2. \A s : Combined(q, s) = Combined(p, s)
  BY DEF SameScores, Combined
<1>3. \A s : Suppressed(q, s) = Suppressed(p, s)
  BY <1>2 DEF SameScores, Suppressed
<1>4. \A s, chased, x : AgreementCapped(q, s, chased, x) = AgreementCapped(p, s, chased, x)
  BY DEF SameScores, AgreementCapped
<1>5. q.sidewaysPct = p.sidewaysPct
  BY DEF SameScores
<1> DEFINE before == Components(q, c)
           s == Suppressed(q, before)
           chased == ChaseCapped(q, c, before, Combined(q, s))
           damped == IF c.regime = "SIDEWAYS" THEN Share(chased, q.sidewaysPct) ELSE chased
           capped == AgreementCapped(q, s, chased, VolumeCapped(q, c, damped))
<1>6. Scoring(q, c).score = Clamped(-1000, capped, 1000)
  BY DEF Scoring
<1>7. before = Components(p, c) /\ s = Suppressed(p, Components(p, c))
  BY <1>1, <1>3
<1> HIDE DEF before, s
<1>8. chased = ChaseCapped(q, c, Components(p, c), Starting(p, c))
  BY <1>2, <1>7 DEF Starting
<1> HIDE DEF chased
<1>9. damped = Damped(p, c, chased)
  BY <1>5 DEF Damped
<1> HIDE DEF damped
<1>10. capped = Agreed(p, c, chased, VolumeCapped(q, c, Damped(p, c, chased)))
  BY <1>4, <1>7, <1>9 DEF Agreed
<1> HIDE DEF capped
<1> QED BY <1>6, <1>8, <1>10

LEMMA HundredthsGrow ==
    ASSUME NEW x \in Nat, NEW y \in Nat, x <= y
    PROVE  x \div 100 \in Nat /\ x \div 100 <= y \div 100
OBVIOUS

LEMMA ShareGrows ==
    ASSUME NEW x \in Nat, NEW y \in Nat, x <= y, NEW pct \in 0..100
    PROVE  Share(x, pct) \in Nat /\ Share(x, pct) <= Share(y, pct) /\ Share(x, pct) <= x
<1>1. \A z \in Nat : z * pct \in Nat /\ z * pct <= z * 100
  <2> SUFFICES ASSUME NEW z \in Nat PROVE z * pct \in Nat /\ z * pct <= z * 100
    OBVIOUS
  <2>1. PICK r \in Nat : r = 100 - pct
    OBVIOUS
  <2>2. z * r \in Nat /\ z * pct \in Nat
    OBVIOUS
  <2>3. z * 100 = z * pct + z * r
    BY <2>1
  <2> QED BY <2>2, <2>3
<1>2. x * pct <= y * pct
  <2>1. (y - x) * pct >= 0
    OBVIOUS
  <2> QED BY <2>1
<1>3. \A z \in Nat : Share(z, pct) = (z * pct) \div 100
  <2> SUFFICES ASSUME NEW z \in Nat PROVE Share(z, pct) = (z * pct) \div 100
    OBVIOUS
  <2>1. CASE z = 0
    BY <2>1 DEF Share, Sign
  <2>2. CASE z > 0
    <3>1. Sign(z) = 1
      BY <2>2 DEF Sign
    <3>2. Sign(z) * z * pct = z * pct
      BY <3>1, <1>1
    <3>3. PICK w \in Int : w = (z * pct) \div 100
      BY <1>1
    <3> QED BY <3>1, <3>2, <3>3 DEF Share
  <2> QED BY <2>1, <2>2
<1>4. (x * pct) \div 100 \in Nat /\ (x * pct) \div 100 <= (y * pct) \div 100
  BY <1>1, <1>2, HundredthsGrow
<1>5. (x * pct) \div 100 <= (x * 100) \div 100
  BY <1>1, HundredthsGrow
<1> QED BY <1>3, <1>4, <1>5

LEMMA ClampedGrows ==
    ASSUME NEW x \in Nat, NEW y \in Nat, x <= y, NEW cap \in Nat
    PROVE  /\ Clamped(-cap, x, cap) \in Nat /\ Clamped(-cap, x, cap) <= x /\ Clamped(-cap, x, cap) <= cap
           /\ Clamped(-cap, x, cap) <= Clamped(-cap, y, cap)
           /\ x > 0 /\ cap > 0 => Clamped(-cap, x, cap) > 0
BY DEF Clamped

LEMMA ProfileCaps ==
    ASSUME NEW p \in Profiles
    PROVE  /\ p.chaseCap \in Nat /\ p.rideCap \in Nat /\ p.volumeCap \in Nat /\ p.agreementCap \in Nat
           /\ p.sidewaysPct \in 0..100 /\ p.buy \in Int /\ p.buy > 0 /\ p.agreement \in BOOLEAN
           /\ p.volumeGate \in BOOLEAN
BY DecisionAssumption

LEMMA DampedGrows ==
    ASSUME NEW p \in Profiles, NEW c, NEW x \in Nat, NEW y \in Nat, x <= y
    PROVE  Damped(p, c, x) \in Nat /\ Damped(p, c, x) <= Damped(p, c, y) /\ Damped(p, c, x) <= x
<1>1. p.sidewaysPct \in 0..100
  BY ProfileCaps
<1>2. Share(x, p.sidewaysPct) \in Nat /\ Share(x, p.sidewaysPct) <= Share(y, p.sidewaysPct) /\ Share(x, p.sidewaysPct) <= x
  BY <1>1, ShareGrows
<1> QED BY <1>2 DEF Damped

\* A lower start ends lower, whatever the volume does to it.
LEMMA AgreedGrows ==
    ASSUME NEW p \in Profiles, NEW c \in ChartsSeen, NEW x \in Nat, NEW y \in Nat, x <= y,
           NEW a \in Nat, NEW b \in Nat, a > 0, b > 0
    PROVE  /\ Agreed(p, c, a, x) \in Nat /\ Agreed(p, c, a, x) <= x
           /\ Agreed(p, c, a, x) <= Agreed(p, c, b, y)
<1> DEFINE s == Suppressed(p, Components(p, c))
           few(z) == Cardinality({i \in 1..4 : z # 0 /\ Sign(s[i]) = Sign(z)}) < 2
<1>1. Sign(a) = 1 /\ Sign(b) = 1
  BY DEF Sign
<1>2. {i \in 1..4 : a # 0 /\ Sign(s[i]) = Sign(a)} = {i \in 1..4 : b # 0 /\ Sign(s[i]) = Sign(b)}
  BY <1>1
<1>3. few(a) = few(b)
  BY <1>2
<1>4. \A z, w : Agreed(p, c, z, w) =
        IF p.agreement /\ few(z) THEN Clamped(-p.agreementCap, w, p.agreementCap) ELSE w
  BY DEF Agreed, AgreementCapped
<1> HIDE DEF few
<1>5. p.agreementCap \in Nat
  BY ProfileCaps
<1>6. LET low == Clamped(-p.agreementCap, x, p.agreementCap)
      IN  low \in Nat /\ low <= x /\ low <= Clamped(-p.agreementCap, y, p.agreementCap)
  BY <1>5, ClampedGrows
<1> QED BY <1>3, <1>4, <1>6

LEMMA AgreedNotPositive ==
    ASSUME NEW p \in Profiles, NEW c, NEW a, NEW x \in Int, x <= 0
    PROVE  Agreed(p, c, a, x) \in Int /\ Agreed(p, c, a, x) <= 0
<1>1. p.agreementCap \in Nat
  BY ProfileCaps
<1>2. Clamped(-p.agreementCap, x, p.agreementCap) \in Int /\ Clamped(-p.agreementCap, x, p.agreementCap) <= 0
  BY <1>1 DEF Clamped
<1> QED BY <1>2 DEF Agreed, AgreementCapped

LEMMA StartingIs ==
    ASSUME NEW p \in Profiles, NEW c \in ChartsSeen
    PROVE  Starting(p, c) \in Int
<1>1. Components(p, c) \in FourScores
  BY ComponentsAre
<1>2. Suppressed(p, Components(p, c)) \in FourScores
  BY <1>1, SuppressedIs
<1> QED BY <1>2, CombinedIs DEF Starting

LEMMA UnruledScore ==
    ASSUME NEW p \in Profiles, NEW c \in ChartsSeen
    PROVE  Scoring(Unruled(p), c).score =
               Clamped(-1000, Agreed(p, c, Starting(p, c), Damped(p, c, Starting(p, c))), 1000)
<1>1. \A s, x : ChaseCapped(Unruled(p), c, s, x) = x /\ VolumeCapped(Unruled(p), c, x) = x
  BY RulesOnly DEF ChaseCapped, VolumeCapped
<1> QED BY <1>1, RulesOnly, ScoringStages

\* What the rule makes of a high candidate is no more, and no more than its cap.
LEMMA CappedIsLower ==
    ASSUME NEW p \in Profiles, NEW c \in ChartsSeen, NEW atLimit \in BOOLEAN, Chases(c, atLimit),
           Scoring(Unruled(p), c).score > p.buy
    PROVE  /\ CappedScore(p, c) \in Int /\ CappedScore(p, c) <= Scoring(Unruled(p), c).score
           /\ (p.chaseCap < p.buy /\ p.rideCap < p.buy) => CappedScore(p, c) < p.buy
<1> DEFINE start == Starting(p, c)
           raw == Scoring(Unruled(p), c).score
           chased == ChaseCapped(Ruled(p), c, Components(p, c), start)
           held == VolumeCapped(Ruled(p), c, Damped(p, c, chased))
           final == Agreed(p, c, chased, held)
           free == Agreed(p, c, start, Damped(p, c, start))
<1>1. /\ p.chaseCap \in Nat /\ p.rideCap \in Nat /\ p.volumeCap \in Nat /\ p.buy \in Int /\ p.buy > 0
  BY ProfileCaps
<1>2. start \in Int
  BY StartingIs
<1>3. raw = Clamped(-1000, free, 1000)
  BY UnruledScore
<1>4. Scoring(Ruled(p), c).score = Clamped(-1000, final, 1000)
  BY RulesOnly, ScoringStages
<1>5. start > 0
  <2> SUFFICES ASSUME start <= 0 PROVE FALSE
    BY <1>2
  <2> HIDE DEF start
  <2>1. Damped(p, c, start) \in Int /\ Damped(p, c, start) <= 0
    <3>1. p.sidewaysPct \in 0..100
      BY ProfileCaps
    <3>2. Share(start, p.sidewaysPct) \in Int /\ Share(start, p.sidewaysPct) <= 0
      <4>1. CASE start = 0
        <5>1. Sign(start) = 0 /\ Sign(start) * start * p.sidewaysPct = 0
          BY <3>1, <4>1 DEF Sign
        <5>2. PICK z \in Int : z = 0 \div 100
          OBVIOUS
        <5>3. Share(start, p.sidewaysPct) = 0 * z
          BY <5>1, <5>2 DEF Share
        <5> QED BY <5>3
      <4>2. CASE start < 0
        <5>1. Sign(start) = -1
          BY <1>2, <4>2 DEF Sign
        <5>2. PICK n \in Nat : n = -start
          BY <1>2, <4>2
        <5>3. PICK m \in Nat : m = n * p.sidewaysPct
          BY <3>1
        <5>4. Sign(start) * start * p.sidewaysPct = m
          BY <1>2, <3>1, <5>1, <5>2, <5>3
        <5>5. m \div 100 \in Nat
          OBVIOUS
        <5>6. Share(start, p.sidewaysPct) = -1 * (m \div 100)
          BY <5>1, <5>4 DEF Share
        <5> QED BY <5>5, <5>6
      <4> QED BY <1>2, <4>1, <4>2
    <3> QED BY <1>2, <3>2 DEF Damped
  <2>2. free \in Int /\ free <= 0
    BY <2>1, AgreedNotPositive
  <2> HIDE DEF free
  <2>3. Clamped(-1000, free, 1000) \in Int /\ Clamped(-1000, free, 1000) <= 0
    BY <2>2 DEF Clamped
  <2> QED BY <1>1, <1>3, <2>3
<1>6. start \in Nat
  BY <1>2, <1>5
<1>7. \E cap \in {p.chaseCap, p.rideCap} : chased = Clamped(-cap, start, cap)
  BY <1>5, RulesOnly DEF Chases, ChaseCapped, SameScores
<1>8. PICK cap \in Nat : /\ chased = Clamped(-cap, start, cap)
                         /\ (p.chaseCap < p.buy /\ p.rideCap < p.buy) => cap < p.buy
  BY <1>1, <1>7
<1> HIDE DEF start, chased
<1>9. chased \in Nat /\ chased <= start /\ chased <= cap
  BY <1>6, <1>8, ClampedGrows
<1>10. Damped(p, c, chased) \in Nat /\ Damped(p, c, chased) <= Damped(p, c, start) /\ Damped(p, c, chased) <= chased
       /\ Damped(p, c, start) \in Nat
  BY <1>6, <1>9, DampedGrows
<1>11. held \in Nat /\ held <= Damped(p, c, chased)
  <2>1. Ruled(p).volumeCap = p.volumeCap
    BY RulesOnly DEF SameScores
  <2>2. LET low == Clamped(-p.volumeCap, Damped(p, c, chased), p.volumeCap)
        IN  low \in Nat /\ low <= Damped(p, c, chased)
    BY <1>1, <1>10, ClampedGrows
  <2> QED BY <1>10, <2>1, <2>2 DEF VolumeCapped
<1> HIDE DEF held
<1>12. final \in Int /\ free \in Int /\ final <= held /\ (chased > 0 => final <= free)
  <2>1. held <= Damped(p, c, start)
    BY <1>10, <1>11
  <2>2. free \in Int
    BY <1>5, <1>6, <1>10, AgreedGrows
  <2>3. CASE chased > 0
    BY <1>5, <1>6, <1>9, <1>10, <1>11, <2>1, <2>2, <2>3, AgreedGrows
  <2>4. CASE chased = 0
    <3>1. held = 0
      BY <1>10, <1>11, <2>4
    <3> QED BY <2>2, <2>4, <3>1, AgreedNotPositive
  <2> QED BY <1>9, <2>3, <2>4
<1> HIDE DEF final, free
<1>13. Clamped(-1000, final, 1000) \in Int /\ raw \in Int /\ raw > 0
  <2>1. Clamped(-1000, final, 1000) \in Int /\ Clamped(-1000, free, 1000) \in Int
    BY <1>12 DEF Clamped
  <2> QED BY <1>1, <1>3, <2>1
<1>14. Clamped(-1000, final, 1000) <= raw
  <2>1. CASE chased > 0
    BY <1>3, <1>12, <2>1 DEF Clamped
  <2>2. CASE chased = 0
    <3>1. final <= 0
      BY <1>10, <1>11, <1>12, <2>2
    <3>2. Clamped(-1000, final, 1000) <= 0
      BY <1>12, <3>1 DEF Clamped
    <3> QED BY <1>13, <3>2
  <2> QED BY <1>9, <2>1, <2>2
<1>15. ASSUME p.chaseCap < p.buy, p.rideCap < p.buy PROVE Clamped(-1000, final, 1000) < p.buy
  <2>1. final < p.buy
    BY <1>1, <1>8, <1>9, <1>10, <1>11, <1>12, <1>15
  <2> QED BY <1>1, <1>12, <2>1 DEF Clamped
<1>16. CappedScore(p, c) \in {0, Clamped(-1000, final, 1000)}
  BY <1>4 DEF CappedScore
<1> HIDE DEF raw
<1> QED BY <1>1, <1>13, <1>14, <1>15, <1>16 DEF raw

TallyRow == [rows : Nat, candidates : Nat, high : Nat, capped : Nat, long : Nat, short : Nat,
             crossed : Nat, neutral : Nat]

DiagnosedInv ==
    /\ profile \in Profiles /\ blocks \in BOOLEAN /\ tally \in TallyRow
    /\ logged \in Seq([raw : Int, held : Int]) /\ DiagnosisTells

LEMMA DiagnosesKeeps ==
    ASSUME DiagnosedInv, NEW c \in ChartsSeen, NEW atLimit \in BOOLEAN, NEW crossing \in BOOLEAN,
           NEW enough \in BOOLEAN, DiagnosesRow(c, atLimit, crossing, enough)
    PROVE  DiagnosedInv'
<1> DEFINE raw == Scoring(Unruled(profile), c)
           scored == enough /\ ~raw.rejected
           chase == scored /\ Chases(c, atLimit)
           high == chase /\ raw.score > profile.buy
           held == IF high THEN CappedScore(profile, c) ELSE raw.score
           tells(side) == c.obv = side \/ c.priceVolume = side
           one(holds) == IF holds THEN 1 ELSE 0
           row == [raw |-> raw.score, held |-> held]
<1>1. profile \in Profiles /\ profile.buy \in Int /\ profile.buy > 0
  BY ProfileCaps DEF DiagnosedInv
<1>2. raw.score \in Int
  <2>1. Starting(profile, c) \in Int
    BY <1>1, StartingIs
  <2> DEFINE damped == Damped(profile, c, Starting(profile, c))
             agreed == Agreed(profile, c, Starting(profile, c), damped)
  <2>2. damped \in Int
    <3>1. profile.sidewaysPct \in Int
      BY <1>1, ProfileCaps
    <3> QED BY <2>1, <3>1, ShareIs DEF Damped
  <2> HIDE DEF damped
  <2>3. agreed \in Int
    BY <1>1, <2>2, AgreementCappedIs DEF Agreed
  <2>4. raw.score = Clamped(-1000, agreed, 1000)
    BY <1>1, UnruledScore DEF damped
  <2> HIDE DEF agreed, raw
  <2> QED BY <2>3, <2>4 DEF Clamped
<1>3. /\ held \in Int /\ held <= raw.score
      /\ (high /\ profile.chaseCap < profile.buy /\ profile.rideCap < profile.buy) => held < profile.buy
  <2>1. CASE high
    BY <1>1, <2>1, CappedIsLower
  <2>2. CASE ~high
    BY <1>2, <2>2
  <2> QED BY <2>1, <2>2
<1>4. /\ blocks' = blocks /\ profile' = profile
      /\ logged' = IF chase THEN Append(logged, row) ELSE logged
      /\ tally' = [rows |-> tally.rows + 1,
                   crossed |-> tally.crossed + one(enough /\ crossing),
                   neutral |-> tally.neutral + one(enough /\ crossing /\ blocks),
                   long |-> tally.long + one(scored /\ tells(-1) /\ raw.score > 0),
                   short |-> tally.short + one(scored /\ tells(1) /\ raw.score < 0),
                   candidates |-> tally.candidates + one(chase),
                   high |-> tally.high + one(high),
                   capped |-> tally.capped + one(high /\ held < profile.buy)]
  BY DEF DiagnosesRow, DiagnosedRow
<1>5. chase \in BOOLEAN /\ high \in BOOLEAN /\ (high => chase)
  BY SMTT(30)
<1>6. PICK a \in 0..1, b \in 0..1, d \in 0..1, e \in 0..1, f \in 0..1, g \in 0..1, h \in 0..1 :
        /\ a = one(enough /\ crossing) /\ b = one(enough /\ crossing /\ blocks)
        /\ d = one(scored /\ tells(-1) /\ raw.score > 0) /\ e = one(scored /\ tells(1) /\ raw.score < 0)
        /\ f = one(chase) /\ g = one(high) /\ h = one(high /\ held < profile.buy)
  OBVIOUS
<1>15. /\ a \in Nat /\ b \in Nat /\ d \in Nat /\ e \in Nat /\ f \in Nat /\ g \in Nat /\ h \in Nat
       /\ a <= 1 /\ f <= 1
  OBVIOUS
<1>7. /\ b = (IF blocks THEN a ELSE 0) /\ d + e <= 1 /\ g <= f /\ h <= g
      /\ f = (IF chase THEN 1 ELSE 0)
      /\ (profile.chaseCap < profile.buy /\ profile.rideCap < profile.buy) => h = g
  BY <1>2, <1>3, <1>5, <1>6
<1>8. /\ tally'.rows = tally.rows + 1 /\ tally'.crossed = tally.crossed + a /\ tally'.neutral = tally.neutral + b
      /\ tally'.long = tally.long + d /\ tally'.short = tally.short + e
      /\ tally'.candidates = tally.candidates + f /\ tally'.high = tally.high + g
      /\ tally'.capped = tally.capped + h
  BY <1>4, <1>6
<1>14. tally' = [rows |-> tally.rows + 1, crossed |-> tally.crossed + a, neutral |-> tally.neutral + b,
                 long |-> tally.long + d, short |-> tally.short + e, candidates |-> tally.candidates + f,
                 high |-> tally.high + g, capped |-> tally.capped + h]
  BY <1>4, <1>6
<1>9. row \in [raw : Int, held : Int] /\ row.held <= row.raw
  BY <1>2, <1>3
<1> HIDE DEF raw, scored, chase, high, held, tells, one, row
<1>10. /\ tally.rows \in Nat /\ tally.candidates \in Nat /\ tally.high \in Nat /\ tally.capped \in Nat
       /\ tally.long \in Nat /\ tally.short \in Nat /\ tally.crossed \in Nat /\ tally.neutral \in Nat
  BY DEF DiagnosedInv, TallyRow
<1>16. logged \in Seq([raw : Int, held : Int])
  BY DEF DiagnosedInv
<1>11. tally' \in TallyRow
  <2>1. /\ tally.rows + 1 \in Nat /\ tally.candidates + f \in Nat /\ tally.high + g \in Nat
        /\ tally.capped + h \in Nat /\ tally.long + d \in Nat /\ tally.short + e \in Nat
        /\ tally.crossed + a \in Nat /\ tally.neutral + b \in Nat
    BY <1>10, <1>15
  <2> QED BY <1>14, <2>1 DEF TallyRow
<1>12. /\ logged' \in Seq([raw : Int, held : Int]) /\ Len(logged') = tally.candidates + f
       /\ \A i \in 1..Len(logged') : logged'[i].held <= logged'[i].raw
  <2>1. Len(logged) = tally.candidates /\ \A i \in 1..Len(logged) : logged[i].held <= logged[i].raw
    BY DEF DiagnosedInv, DiagnosisTells
  <2>2. CASE chase
    <3>1. f = 1
      BY <1>7, <2>2
    <3>2. logged' = Append(logged, row)
      BY <1>4, <2>2
    <3>3. logged' \in Seq([raw : Int, held : Int]) /\ Len(logged') = Len(logged) + 1
      BY <1>9, <1>16, <3>2
    <3>4. ASSUME NEW i \in 1..Len(logged') PROVE logged'[i].held <= logged'[i].raw
      <4>1. CASE i = Len(logged) + 1
        <5>1. logged'[i] = row
          BY <1>16, <3>2, <4>1
        <5> QED BY <1>9, <5>1
      <4>2. CASE i # Len(logged) + 1
        <5>1. i \in 1..Len(logged)
          BY <1>16, <3>3, <4>2
        <5>2. logged'[i] = logged[i]
          BY <1>16, <3>2, <5>1
        <5> QED BY <2>1, <5>1, <5>2
      <4> QED BY <4>1, <4>2
    <3> QED BY <2>1, <3>1, <3>3, <3>4
  <2>3. CASE ~chase
    <3>1. f = 0 /\ logged' = logged
      BY <1>4, <1>7, <2>3
    <3> QED BY <1>10, <1>16, <2>1, <3>1
  <2> QED BY <2>2, <2>3
<1>13. DiagnosisTells'
  <2>1. /\ tally.capped <= tally.high /\ tally.high <= tally.candidates /\ tally.candidates <= tally.rows
        /\ tally.neutral = (IF blocks THEN tally.crossed ELSE 0) /\ tally.crossed <= tally.rows
        /\ tally.long + tally.short <= tally.rows
        /\ (profile.chaseCap < profile.buy /\ profile.rideCap < profile.buy) => tally.capped = tally.high
    BY DEF DiagnosedInv, DiagnosisTells
  <2>2. /\ tally'.capped <= tally'.high /\ tally'.high <= tally'.candidates /\ tally'.candidates <= tally'.rows
        /\ tally'.crossed <= tally'.rows /\ tally'.long + tally'.short <= tally'.rows
    BY <1>7, <1>8, <1>10, <1>15, <2>1
  <2>3. tally'.neutral = (IF blocks THEN tally'.crossed ELSE 0)
    BY <1>7, <1>8, <1>10, <2>1
  <2>4. (profile.chaseCap < profile.buy /\ profile.rideCap < profile.buy) => tally'.capped = tally'.high
    <3> SUFFICES ASSUME profile.chaseCap < profile.buy, profile.rideCap < profile.buy
                 PROVE  tally'.capped = tally'.high
      OBVIOUS
    <3>1. h = g /\ tally.capped = tally.high
      BY <1>7, <2>1
    <3> QED BY <1>8, <3>1
  <2> QED BY <1>4, <1>8, <1>12, <2>2, <2>3, <2>4 DEF DiagnosisTells
<1> QED BY <1>1, <1>4, <1>11, <1>12, <1>13 DEF DiagnosedInv

\* Whatever the charts of a window say, and with every profile: the diagnosis counts as it says, the rule
\* never lifts a score, and below the threshold its cap stops every high candidate
\* (diagnose_chase_for_window).
THEOREM DiagnosisHolds == DiagnosisSpec => []DiagnosisTells
<1>1. DiagnosisInit => DiagnosedInv
  BY DEF DiagnosisInit, DiagnosedInv, NoTally, TallyRow, DiagnosisTells
<1>2. DiagnosedInv /\ [DiagnosisNext]_diagnosisVars => DiagnosedInv'
  <2> SUFFICES ASSUME DiagnosedInv, [DiagnosisNext]_diagnosisVars PROVE DiagnosedInv'
    OBVIOUS
  <2>1. CASE DiagnosisNext
    BY <2>1, DiagnosesKeeps DEF DiagnosisNext
  <2>2. CASE UNCHANGED diagnosisVars
    BY <2>2 DEF diagnosisVars, DiagnosedInv, DiagnosisTells
  <2> QED BY <2>1, <2>2
<1>3. DiagnosedInv => DiagnosisTells
  BY DEF DiagnosedInv
<1> QED BY <1>1, <1>2, <1>3, PTL DEF DiagnosisSpec

\* The three together: on every market and with every profile whose thresholds are beyond what
\* penalties and the session can carry over (regime.py, StrategyEngine.analyze).
THEOREM StrategyHolds == (RegimeSpec /\ DecisionSpec /\ DiagnosisSpec) => []StrategySound
<1>1. RegimesAgree /\ DecisionsSound /\ DiagnosisTells => StrategySound
  BY DEF StrategySound
<1> QED
  BY <1>1, RegimesHold, DecisionsHold, DiagnosisHolds, PTL
=============================================================================
