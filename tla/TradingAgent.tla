---------------------------- MODULE TradingAgent ----------------------------
(***************************************************************************)
(* bist_bot.agent: the TradingAgent with its scan cycle, position monitor, *)
(* auto-resume timers and chat commands, the ExitService it sells through, *)
(* and the OrderTracker that copies the broker's order states into the     *)
(* orders table.  Every thread reads and writes the position ledger without *)
(* holding the agent's lock, which protects its operational state only.    *)
(*                                                                         *)
(* What execute_signal does to enter a position is the subject of          *)
(* AlgoLabBroker; here an entry is ready or not.                           *)
(***************************************************************************)
EXTENDS Naturals, FiniteSets

CONSTANTS
    Tickers,
    Scan,            \* the scheduler's thread, which calls on_scan_completed
    Chat,            \* the thread running CommandHandler.handle
    Monitors,        \* threads running _monitor_loop
    Timers,          \* threads running _auto_resume
    None,
    MaxOpen,         \* MAX_OPEN_POSITIONS
    MaxDaily,        \* MAX_DAILY_TRADES
    MonitorEnabled,  \* POSITION_MONITOR_ENABLED
    EmergencyClose,  \* EMERGENCY_CLOSE_ON_HALT
    ReadFaults,      \* ledger reads may fail, which they report as "nothing there"
    Reconciles,      \* place_order may settle an order through its own
                     \* reconciliation, whose accounting opens the position
    Commands,        \* the chat commands used
    MaxCommands,     \* bound on the commands of a run
    MaxFaults,       \* bound on missing prices, failing calls and failing writes
    MaxPositions,    \* bound on the rows of live_positions
    MaxExits         \* bound on the exit orders that are followed

ASSUME AgentAssumption ==
    /\ Scan # Chat /\ {Scan, Chat} \cap (Monitors \cup Timers) = {}
    /\ Monitors \cap Timers = {}
    /\ None \notin Tickers \cup Monitors \cup Nat
    /\ {MaxOpen, MaxDaily} \subseteq Nat
    /\ {MonitorEnabled, EmergencyClose, ReadFaults, Reconciles} \subseteq BOOLEAN
    /\ Commands \subseteq {"stop", "pause", "resume", "close"}
    /\ {MaxCommands, MaxFaults, MaxPositions, MaxExits} \subseteq Nat

VARIABLES
    agent,       \* _state
    generation,  \* _resume_generation
    running,     \* _monitor_running
    latest,      \* _monitor_thread
    positions,   \* live_positions: the ticker and the state of each row
    today,       \* the rows whose entry_time is on the current day
    due,         \* the rows whose stop, target or holding limit is reached
    exits,       \* exit orders: the position sold, the state of the order's row
                 \* and of the order at the broker
    th,          \* what each thread is doing
    commands,    \* commands so far
    faults       \* faults so far

ledger == <<positions, today, due, exits>>
control == <<agent, generation, running, latest>>
vars == <<control, ledger, th, commands, faults>>

Ids == 1..MaxPositions
Threads == {Scan, Chat} \cup Monitors \cup Timers

States == {"IDLE", "MONITORING", "HALTED", "PAUSED"}
OrderStates == {"CREATED", "SENT", "FILLED", "CANCELLED"}
PCs == {"idle", "set", "exits", "exit", "close", "gate", "count", "filter", "enter",
        "open", "final", "loop", "pending", "poll", "sleep", "arm", "ensure", "spawn",
        "stop", "pause", "resume", "manual"}

\* todo: positions to exit, or exit orders to poll; signals: tickers to enter;
\* cur: the position or the ticker being worked on; gen: a timer's generation.
ThreadState ==
    [pc : PCs, todo : SUBSET (Ids \cup 1..MaxExits), signals : SUBSET Tickers,
     slots : 0..MaxOpen, cur : Ids \cup Tickers \cup {None},
     gen : 0..2 * MaxCommands]

Idle == [pc |-> "idle", todo |-> {}, signals |-> {}, slots |-> 0, cur |-> None, gen |-> 0]

TypeOK ==
    /\ agent \in States
    /\ generation \in 0..2 * MaxCommands
    /\ running \in BOOLEAN
    /\ latest \in Monitors \cup {None}
    /\ positions \in [Ids -> [ticker : Tickers \cup {None}, state : {"none", "open", "closed"}]]
    /\ today \subseteq Ids /\ due \subseteq Ids
    /\ exits \in [1..MaxExits -> [pos : Ids \cup {None}, row : OrderStates \cup {None},
                                  broker : OrderStates \cup {None}]]
    /\ th \in [Threads -> ThreadState]
    /\ commands \in 0..MaxCommands /\ faults \in 0..MaxFaults

Init ==
    /\ agent = "IDLE" /\ generation = 0 /\ running = FALSE /\ latest = None
    /\ positions = [p \in Ids |-> [ticker |-> None, state |-> "none"]]
    /\ today = {} /\ due = {}
    /\ exits = [e \in 1..MaxExits |-> [pos |-> None, row |-> None, broker |-> None]]
    /\ th = [t \in Threads |-> Idle]
    /\ commands = 0 /\ faults = 0

At(t, pc) == th[t].pc = pc
Goto(t, pc) == th' = [th EXCEPT ![t].pc = pc]
Stop(t) == th' = [th EXCEPT ![t] = Idle]
Fault == faults < MaxFaults /\ faults' = faults + 1

OpenIds == {p \in Ids : positions[p].state = "open"}
FreeIds == {p \in Ids : positions[p].state = "none"}
Lowest(S) == CHOOSE x \in S : \A y \in S : x <= y
Highest(S) == CHOOSE x \in S : \A y \in S : x >= y

\* get_open_positions, get_position and get_daily_trade_count report a failing
\* read as an empty result.
Reads(S) == IF ReadFaults THEN {S, {}} ELSE {S}
Spend(ok) == IF ok THEN UNCHANGED faults ELSE Fault

-----------------------------------------------------------------------------
(* The market, the clock and the broker.                                   *)

\* The price crosses a level, or the holding limit passes, and stays there.
BecomesDue(p) ==
    /\ p \in OpenIds \ due
    /\ due' = due \cup {p}
    /\ UNCHANGED <<control, positions, today, exits, th, commands, faults>>

NewDay ==
    /\ today # {} /\ today' = {}
    /\ UNCHANGED <<control, positions, due, exits, th, commands, faults>>

\* An accepted exit order is filled at once (PaperBroker), or later, or not.
BrokerDecides(e) ==
    /\ exits[e].broker = "SENT"
    /\ \E s \in {"FILLED", "CANCELLED"} : exits' = [exits EXCEPT ![e].broker = s]
    /\ UNCHANGED <<control, positions, today, due, th, commands, faults>>

\* OrderTracker.poll_once, for the orders whose broker id is known.
TrackerPolls(e) ==
    /\ exits[e].row = "SENT" /\ exits[e].broker # "SENT"
    /\ exits' = [exits EXCEPT ![e].row = exits[e].broker]
    /\ UNCHANGED <<control, positions, today, due, th, commands, faults>>

-----------------------------------------------------------------------------
(* _check_exits, in the scan cycle and in the monitor; the same loop sells *)
(* every position in an emergency stop.                                    *)

AfterExits(t) == IF t = Scan THEN "gate" ELSE IF t \in Monitors THEN "pending" ELSE "idle"

\* A position whose price is missing is left out.
ListExits(t) ==
    /\ At(t, "exits")
    /\ \E open \in Reads(OpenIds), missing \in SUBSET OpenIds :
         LET wanted == IF t = Chat THEN open ELSE open \cap due
         IN  /\ missing \subseteq wanted
             /\ th' = [th EXCEPT ![t].pc = "exit", ![t].todo = wanted \ missing]
             /\ Spend(open = OpenIds /\ missing = {})
    /\ UNCHANGED <<control, ledger, commands>>

\* ExitService.exit_position: the order's row, the order, and the row again.  An
\* order whose row cannot be written, or whose id cannot be stored, is sold all
\* the same but never polled.  Exit orders beyond the bound are not followed.
Sells(p) ==
    LET free == {e \in 1..MaxExits : exits[e].pos = None}
    IN  IF free = {} THEN UNCHANGED <<exits, faults>>
        ELSE \E b \in {"SENT", "FILLED"}, r \in {"SENT", "CREATED"} :
               /\ exits' = [exits EXCEPT ![Lowest(free)] =
                              [pos |-> p, row |-> r, broker |-> b]]
               /\ IF r = "SENT" THEN UNCHANGED faults ELSE Fault

\* Mutant of PlaceExit: the outcome of exit_position is not looked at.
PlaceExitAnyOutcome(t) ==
    /\ At(t, "exit")
    /\ IF th[t].todo = {}
       THEN Goto(t, AfterExits(t)) /\ UNCHANGED <<exits, faults>>
       ELSE LET p == Highest(th[t].todo)
            IN  /\ th' = [th EXCEPT ![t].pc = "close", ![t].cur = p, ![t].todo = @ \ {p}]
                /\ Sells(p) \/ (Fault /\ UNCHANGED exits)
    /\ UNCHANGED <<control, positions, today, due, commands>>

\* The newest position first.  Authentication or the order is refused: on to the
\* next one.  place_order raises: the rest of the list is given up.
PlaceExit(t) ==
    /\ At(t, "exit")
    /\ IF th[t].todo = {}
       THEN Goto(t, AfterExits(t)) /\ UNCHANGED <<exits, faults>>
       ELSE LET p == Highest(th[t].todo)
            IN  \/ /\ th' = [th EXCEPT ![t].pc = "close", ![t].cur = p, ![t].todo = @ \ {p}]
                   /\ Sells(p)
                \/ /\ Fault /\ UNCHANGED exits
                   /\ \/ th' = [th EXCEPT ![t].todo = @ \ {p}]
                      \/ th' = [th EXCEPT ![t].pc = AfterExits(t), ![t].todo = {}]
    /\ UNCHANGED <<control, positions, today, due, commands>>

\* close_position updates the row by its id whatever its state, and swallows its
\* own failure.
CloseExited(t) ==
    /\ At(t, "close")
    /\ \/ positions' = [positions EXCEPT ![th[t].cur].state = "closed"] /\ UNCHANGED faults
       \/ Fault /\ UNCHANGED positions
    /\ th' = [th EXCEPT ![t].pc = "exit", ![t].cur = None]
    /\ UNCHANGED <<control, today, due, exits, commands>>

-----------------------------------------------------------------------------
(* on_scan_completed.                                                      *)

\* The scan delivers the tickers with an admissible buy signal.  The halt is
\* looked at before the lock is taken.
ScanCompleted ==
    /\ At(Scan, "idle") /\ agent # "HALTED"
    /\ \E S \in SUBSET Tickers :
         th' = [th EXCEPT ![Scan] = [Idle EXCEPT !.pc = "set", !.signals = S]]
    /\ UNCHANGED <<control, ledger, commands, faults>>

\* Mutant of SetState: no exits while paused.
SetStatePausedSkips ==
    /\ At(Scan, "set")
    /\ agent' = IF agent = "PAUSED" THEN "PAUSED" ELSE "MONITORING"
    /\ Goto(Scan, IF agent = "PAUSED" THEN "final" ELSE "exits")
    /\ UNCHANGED <<generation, running, latest, ledger, commands, faults>>

SetState ==
    /\ At(Scan, "set")
    /\ agent' = IF agent = "PAUSED" THEN "PAUSED" ELSE "MONITORING"
    /\ Goto(Scan, "exits")
    /\ UNCHANGED <<generation, running, latest, ledger, commands, faults>>

\* can_trade: the operational state, then the circuit breaker, which may block.
CanTrade ==
    /\ At(Scan, "gate")
    /\ \/ agent \notin {"HALTED", "PAUSED"} /\ Goto(Scan, "count")
       \/ Goto(Scan, "final")
    /\ UNCHANGED <<control, ledger, commands, faults>>

LeastOf(a, b) == IF a <= b THEN a ELSE b

\* Mutant of CountSlots: the daily limit is only looked at when it is reached.
CountSlotsOpenOnly ==
    /\ At(Scan, "count")
    /\ \E open \in Reads(OpenIds), day \in Reads(today) :
         /\ Spend(open = OpenIds /\ day = today)
         /\ IF Cardinality(day) >= MaxDaily \/ Cardinality(open) >= MaxOpen
            THEN Goto(Scan, "final")
            ELSE th' = [th EXCEPT ![Scan].pc = "filter",
                                  ![Scan].slots = MaxOpen - Cardinality(open)]
    /\ UNCHANGED <<control, ledger, commands>>

CountSlots ==
    /\ At(Scan, "count")
    /\ \E open \in Reads(OpenIds), day \in Reads(today) :
         /\ Spend(open = OpenIds /\ day = today)
         /\ IF Cardinality(day) >= MaxDaily \/ Cardinality(open) >= MaxOpen
            THEN Goto(Scan, "final")
            ELSE th' = [th EXCEPT ![Scan].pc = "filter",
                                  ![Scan].slots = LeastOf(MaxDaily - Cardinality(day),
                                                          MaxOpen - Cardinality(open))]
    /\ UNCHANGED <<control, ledger, commands>>

\* Mutant of FilterSignals: tickers already held are kept.
FilterNothing ==
    /\ At(Scan, "filter")
    /\ Goto(Scan, "enter")
    /\ UNCHANGED <<control, ledger, commands, faults>>

FilterSignals ==
    /\ At(Scan, "filter")
    /\ \E held \in Reads({positions[p].ticker : p \in OpenIds}) :
         /\ th' = [th EXCEPT ![Scan].pc = "enter", ![Scan].signals = @ \ held]
         /\ Spend(held = {positions[p].ticker : p \in OpenIds})
    /\ UNCHANGED <<control, ledger, commands>>

OpensRow(ticker) ==
    LET p == Lowest(FreeIds)
    IN  /\ FreeIds # {}
        /\ positions' = [positions EXCEPT ![p] = [ticker |-> ticker, state |-> "open"]]
        /\ today' = today \cup {p}

\* One pass of the entry loop up to the answer of execute_signal: the entry is
\* ready, or not; inserting its order row may raise, which ends the scan cycle.
EnterNext ==
    /\ At(Scan, "enter")
    /\ \/ /\ th[Scan].slots = 0 \/ th[Scan].signals = {}
          /\ Goto(Scan, "final") /\ UNCHANGED <<positions, today, faults>>
       \/ /\ th[Scan].slots > 0
          /\ \E s \in th[Scan].signals, ready \in BOOLEAN :
               /\ th' = [th EXCEPT ![Scan].pc = IF ready THEN "open" ELSE "enter",
                                   ![Scan].cur = IF ready THEN s ELSE None,
                                   ![Scan].signals = @ \ {s}]
               /\ UNCHANGED faults
               /\ (Reconciles /\ OpensRow(s)) \/ UNCHANGED <<positions, today>>
       \/ /\ th[Scan].slots > 0 /\ th[Scan].signals # {}
          /\ Fault /\ Stop(Scan) /\ UNCHANGED <<positions, today>>
    /\ UNCHANGED <<control, due, exits, commands>>

\* The slot is used up even when no row is written: the signal has no stop or
\* target, the insert fails (or the bound on rows is reached).
OpenEntered ==
    /\ At(Scan, "open")
    /\ OpensRow(th[Scan].cur) \/ UNCHANGED <<positions, today>>
    /\ th' = [th EXCEPT ![Scan].pc = "enter", ![Scan].cur = None, ![Scan].slots = @ - 1]
    /\ UNCHANGED <<control, due, exits, commands, faults>>

FinishScan ==
    /\ At(Scan, "final")
    /\ \E open \in Reads(OpenIds) :
         /\ agent' = IF agent = "MONITORING" /\ open = {} THEN "IDLE" ELSE agent
         /\ Spend(open = OpenIds)
    /\ Stop(Scan)
    /\ UNCHANGED <<generation, running, latest, ledger, commands>>

-----------------------------------------------------------------------------
(* The position monitor.                                                   *)

MonitorLoop(t) ==
    /\ t \in Monitors /\ At(t, "loop")
    /\ IF ~running THEN Stop(t)
       ELSE agent # "HALTED" /\ Goto(t, "exits")
    /\ UNCHANGED <<control, ledger, commands, faults>>

\* process_pending_exits reads the rows first.  A row left CREATED has no broker
\* id; it is polled under the id "None", which fails.
ListPending(t) ==
    /\ At(t, "pending")
    /\ th' = [th EXCEPT ![t].pc = "poll",
                        ![t].todo = {e \in 1..MaxExits : exits[e].row = "SENT"}]
    /\ UNCHANGED <<control, ledger, commands, faults>>

PollPending(t) ==
    /\ At(t, "poll")
    /\ IF th[t].todo = {}
       THEN Goto(t, "loop") /\ UNCHANGED <<positions, exits, faults>>
       ELSE \E e \in th[t].todo :
              LET s == exits[e].broker
              IN  /\ th' = [th EXCEPT ![t].todo = @ \ {e}]
                  /\ \/ /\ exits' = [exits EXCEPT ![e].row = s]
                        /\ positions' = IF s = "FILLED"
                             THEN [positions EXCEPT ![exits[e].pos].state = "closed"]
                             ELSE positions
                        /\ UNCHANGED faults
                     \/ Fault /\ UNCHANGED <<positions, exits>>
    /\ UNCHANGED <<control, today, due, commands>>

\* _ensure_monitor_running looks for a living thread, then starts one; nothing
\* excludes a second caller in between.
EnsureMonitor(t) ==
    /\ At(t, "ensure")
    /\ IF ~MonitorEnabled \/ (latest # None /\ ~At(latest, "idle"))
       THEN Stop(t) ELSE Goto(t, "spawn")
    /\ UNCHANGED <<control, ledger, commands, faults>>

SpawnMonitor(t) ==
    /\ At(t, "spawn")
    /\ \E m \in Monitors :
         /\ At(m, "idle")
         /\ running' = TRUE /\ latest' = m
         /\ th' = [th EXCEPT ![t] = Idle, ![m].pc = "loop"]
    /\ UNCHANGED <<agent, generation, ledger, commands, faults>>

-----------------------------------------------------------------------------
(* Chat commands and auto-resume.                                          *)

Command(cmd) ==
    /\ At(Chat, "idle") /\ commands < MaxCommands
    /\ commands' = commands + 1
    /\ IF cmd = "close"
       THEN \E p \in OpenIds : th' = [th EXCEPT ![Chat].pc = "manual", ![Chat].cur = p]
       ELSE Goto(Chat, cmd)
    /\ UNCHANGED <<control, ledger, faults>>

\* /close calls exit_position and nothing else: the position's row stays open.
ManualClose ==
    /\ At(Chat, "manual")
    /\ Sells(th[Chat].cur) \/ (Fault /\ UNCHANGED exits)
    /\ Stop(Chat)
    /\ UNCHANGED <<control, positions, today, due, commands>>

EmergencyStop ==
    /\ At(Chat, "stop")
    /\ agent' = "HALTED" /\ running' = FALSE /\ generation' = generation + 1
    /\ Goto(Chat, IF EmergencyClose THEN "exits" ELSE "idle")
    /\ UNCHANGED <<latest, ledger, commands, faults>>

Pause ==
    /\ At(Chat, "pause")
    /\ agent' = "PAUSED" /\ generation' = generation + 1
    /\ th' = [th EXCEPT ![Chat].pc = "arm", ![Chat].gen = generation + 1]
    /\ UNCHANGED <<running, latest, ledger, commands, faults>>

\* A pause without a duration has no timer.
ArmTimer ==
    /\ At(Chat, "arm")
    /\ \/ Stop(Chat)
       \/ \E t \in Timers :
            /\ At(t, "idle")
            /\ th' = [th EXCEPT ![Chat] = Idle,
                                ![t] = [Idle EXCEPT !.pc = "sleep", !.gen = th[Chat].gen]]
    /\ UNCHANGED <<control, ledger, commands, faults>>

\* The timer's check holds the lock; resume() takes it again afterwards.
TimerFires(t) ==
    /\ At(t, "sleep")
    /\ IF th[t].gen = generation /\ agent = "PAUSED" THEN Goto(t, "resume") ELSE Stop(t)
    /\ UNCHANGED <<control, ledger, commands, faults>>

Resume(t) ==
    /\ At(t, "resume")
    /\ agent' = "IDLE" /\ generation' = generation + 1
    /\ Goto(t, "ensure")
    /\ UNCHANGED <<running, latest, ledger, commands, faults>>

-----------------------------------------------------------------------------
ScanStep ==
    \/ ScanCompleted \/ SetState \/ ListExits(Scan) \/ PlaceExit(Scan) \/ CloseExited(Scan)
    \/ CanTrade \/ CountSlots \/ FilterSignals \/ EnterNext \/ OpenEntered \/ FinishScan

MonitorStep(t) ==
    \/ MonitorLoop(t) \/ ListExits(t) \/ PlaceExit(t) \/ CloseExited(t)
    \/ ListPending(t) \/ PollPending(t)

ChatStep ==
    \/ \E cmd \in Commands : Command(cmd)
    \/ EmergencyStop \/ Pause \/ ArmTimer \/ ManualClose
    \/ ListExits(Chat) \/ PlaceExit(Chat) \/ CloseExited(Chat)

ResumeStep(t) == Resume(t) \/ EnsureMonitor(t) \/ SpawnMonitor(t)

Environment ==
    \/ NewDay
    \/ \E p \in Ids : BecomesDue(p)
    \/ \E e \in 1..MaxExits : BrokerDecides(e) \/ TrackerPolls(e)

Next ==
    \/ ScanStep \/ ChatStep \/ Environment
    \/ \E t \in Monitors : MonitorStep(t)
    \/ \E t \in Timers : TimerFires(t)
    \/ \E t \in Timers \cup {Chat} : ResumeStep(t)

\* The scheduler's loop keeps scanning; nothing else is sure to happen.
Spec == Init /\ [][Next]_vars /\ WF_vars(ScanStep)

-----------------------------------------------------------------------------
(* Properties.                                                             *)

\* The limits on open positions and on the entries of a day hold although they
\* are counted once, before the entry loop, while other threads close positions
\* and the day may change (_check_entries).  It needs readable ledgers, and orders
\* that are answered directly: ReadFaults and Reconciles are FALSE.
WithinLimits == Cardinality(OpenIds) <= MaxOpen /\ Cardinality(today) <= MaxDaily

\* No ticker has two open positions, although the tickers held are read before
\* the first entry is placed (_check_entries).  Under Reconciles the agent opens a
\* position that the accounting has opened already.
OneOpenPerTicker ==
    \A p, q \in OpenIds : p # q => positions[p].ticker # positions[q].ticker

\* No position is recorded as closed unless the broker accepted an order to sell
\* it (_check_exits, emergency_stop, process_pending_exits).
ClosedWasSold ==
    \A p \in Ids : positions[p].state = "closed"
                   => (\E e \in 1..MaxExits : exits[e].pos = p)
                      \/ (\A e \in 1..MaxExits : exits[e].pos # None)

\* A position that has to be exited is exited, also while new entries are paused
\* (pause: "Exits still monitored") and without a living monitor, unless the
\* agent is halted.
DueIsExited ==
    \A p \in Ids : p \in OpenIds /\ p \in due ~> p \notin OpenIds \/ agent = "HALTED"

\* An emergency stop lasts until a command ends it.
HaltLastsUntilCommand ==
    [][agent = "HALTED" /\ agent' # "HALTED"
       => th[Chat].pc \in {"resume", "pause"} /\ th'[Chat] # th[Chat]]_vars
=============================================================================
