------------------------------- MODULE Outbox -------------------------------
(***************************************************************************)
(* Messages to Telegram: the sliding window all threads of the process       *)
(* share, which no lock guards, send_telegram_with_retry, and the alarm of    *)
(* the freshness gate, which rests for a while after it was given.           *)
(***************************************************************************)
EXTENDS Integers, Sequences, FiniteSets

CONSTANTS
    Senders,          \* threads that send: scans, the agent, the scheduler
    Budget,           \* TELEGRAM_RATE_LIMIT_PER_MINUTE
    Window,           \* the length of the window
    MaxTries,         \* NOTIFICATION_MAX_RETRIES
    RetryDelay, MaxBackoff, RetryAfters,   \* pauses between the tries
    AlarmCooldown,    \* STALE_HALT_ALERT_COOLDOWN_MINUTES
    NMessages,        \* bound on the messages; one alarm more may be given
    LastSecond        \* bound on time

ASSUME OutboxAssumption ==
    /\ {Budget, Window, MaxTries, RetryDelay, MaxBackoff, AlarmCooldown, NMessages, LastSecond} \subseteq Nat
    /\ IsFiniteSet(Senders) /\ Senders # {}
    /\ RetryAfters \subseteq 0..MaxBackoff
    /\ 0 < Budget /\ 0 < MaxTries /\ 0 < AlarmCooldown

VARIABLES
    second,
    slots,      \* _timestamps of the limiter
    sender,     \* the thread's place in the code; "seen" is how many alarms had been given when it looked
    message,    \* what became of each message: the copies that arrived, the answers lost, the outcome
    lastAlarm,  \* _last_stale_halt_alert_at, or -1
    taken,      \* history: the times of all slots
    wronged,    \* history: which of them were dropped by a thread whose clock did not find them expired
    alarms      \* history: the alarms, each with how many its scan had seen given

outboxVars == <<second, slots, sender, message, lastAlarm, taken, wronged, alarms>>

Unused == [pc |-> "rest", at |-> 0, until |-> 0, tries |-> 0, transient |-> 0, limited |-> FALSE, m |-> 0,
           seen |-> 0]
NewMessage == [arrived |-> 0, lost |-> 0, outcome |-> "pending"]
Waits == {"sleep", "pause"}

OutboxTypeOK ==
    /\ second \in 0..LastSecond
    /\ \A i \in 1..Len(slots) : slots[i] \in 0..LastSecond
    /\ \A t \in Senders :
          /\ sender[t].pc \in {"rest", "alarm", "look", "head", "age", "pop", "room", "full", "take", "post"} \cup Waits
          /\ sender[t].tries \in 0..MaxTries /\ sender[t].m \in 0..NMessages
    /\ \A i \in 1..Len(message) : message[i].outcome \in {"pending", "sent", "dead", "failed", "broken"}
    /\ lastAlarm \in -1..LastSecond

OutboxInit ==
    /\ second = 0 /\ slots = <<>> /\ message = <<>>
    /\ sender = [t \in Senders |-> Unused]
    /\ lastAlarm = -1 /\ taken = <<>> /\ wronged = {} /\ alarms = <<>>

Busy(t) == sender[t].pc # "rest"
Becomes(t, row) == sender' = [sender EXCEPT ![t] = row]
BeginsMessage(t) ==
    /\ Len(message) < NMessages
    /\ message' = Append(message, NewMessage)
    /\ Becomes(t, [Unused EXCEPT !.pc = "look", !.m = Len(message) + 1])

\* _send hands a message on.
Sends(t) ==
    /\ ~Busy(t) /\ BeginsMessage(t)
    /\ UNCHANGED <<second, slots, lastAlarm, taken, wronged, alarms>>

-----------------------------------------------------------------------------
(* The alarm of a scan that finds too many tickers stale. *)

\* A form with a plausible bug: the alarm rests only while the last one was of this second.
AlarmRestsThisSecond == lastAlarm = second

AlarmRests == lastAlarm # -1 /\ second - lastAlarm < AlarmCooldown

FindsStale(t) ==
    /\ ~Busy(t) /\ ~AlarmRests /\ Len(alarms) <= NMessages
    /\ Becomes(t, [Unused EXCEPT !.pc = "alarm", !.at = second, !.seen = Len(alarms)])
    /\ UNCHANGED <<second, slots, message, lastAlarm, taken, wronged, alarms>>

\* The alarm counts as given before it is sent, and whether it can be sent or not.
GivesAlarm(t) ==
    /\ sender[t].pc = "alarm"
    /\ lastAlarm' = sender[t].at
    /\ alarms' = Append(alarms, [at |-> sender[t].at, seen |-> sender[t].seen])
    /\ IF Len(message) < NMessages THEN BeginsMessage(t) ELSE Becomes(t, Unused) /\ UNCHANGED message
    /\ UNCHANGED <<second, slots, taken, wronged>>

-----------------------------------------------------------------------------
(* acquire *)

\* Somebody else has emptied the window meanwhile: the IndexError is no RequestException and
\* leaves the sender, whose message is lost.
LosesMessage(t) ==
    /\ Becomes(t, Unused)
    /\ message' = [message EXCEPT ![sender[t].m] = [@ EXCEPT !.outcome = "broken"]]

GoesTo(t, pc) == Becomes(t, [sender[t] EXCEPT !.pc = pc]) /\ UNCHANGED message

\* The clock is read once for all that follows.
ReadsClock(t) ==
    /\ sender[t].pc = "look"
    /\ Becomes(t, [sender[t] EXCEPT !.pc = "head", !.at = second])
    /\ UNCHANGED <<second, slots, message, lastAlarm, taken, wronged, alarms>>

\* _drop_expired: is there a slot at all,
LooksForSlot(t) ==
    /\ sender[t].pc = "head"
    /\ GoesTo(t, IF slots = <<>> THEN "room" ELSE "age")
    /\ UNCHANGED <<second, slots, lastAlarm, taken, wronged, alarms>>

\* is the oldest expired,
TestsOldest(t) ==
    /\ sender[t].pc = "age"
    /\ IF slots = <<>> THEN LosesMessage(t)
       ELSE GoesTo(t, IF sender[t].at - slots[1] >= Window THEN "pop" ELSE "room")
    /\ UNCHANGED <<second, slots, lastAlarm, taken, wronged, alarms>>

\* then drop the oldest there is by now, which need not be the one that was tested.
DropsOldest(t) ==
    /\ sender[t].pc = "pop"
    /\ IF slots = <<>> THEN LosesMessage(t) /\ UNCHANGED <<slots, wronged>>
       ELSE /\ GoesTo(t, "head")
            /\ slots' = Tail(slots)
            /\ wronged' = IF sender[t].at - slots[1] < Window
                          THEN wronged \cup {Len(taken) - Len(slots) + 1} ELSE wronged
    /\ UNCHANGED <<second, lastAlarm, taken, alarms>>

\* Either there is room, and the thread goes on to take a slot, or there is none, and it goes
\* on to look at the oldest.
LooksForRoom(t) ==
    /\ sender[t].pc = "room"
    /\ GoesTo(t, IF Len(slots) < Budget THEN "take" ELSE "full")
    /\ UNCHANGED <<second, slots, lastAlarm, taken, wronged, alarms>>

TakesSlot(t) ==
    /\ sender[t].pc = "take"
    /\ slots' = Append(slots, sender[t].at) /\ taken' = Append(taken, sender[t].at)
    /\ Becomes(t, [sender[t] EXCEPT !.pc = "post", !.at = 0, !.tries = @ + 1])
    /\ UNCHANGED <<second, message, lastAlarm, wronged, alarms>>

WaitsForSlot(t) ==
    LET s == sender[t] IN
    /\ s.pc = "full"
    /\ IF slots = <<>> THEN LosesMessage(t)
       ELSE /\ Becomes(t, [s EXCEPT !.pc = "sleep", !.at = 0,
                             !.until = second + (IF s.at - slots[1] > Window THEN 0
                                                 ELSE Window - (s.at - slots[1]))])
            /\ UNCHANGED message
    /\ UNCHANGED <<second, slots, lastAlarm, taken, wronged, alarms>>

\* time.sleep is over, in acquire or after a failed try.
Wakes(t) ==
    /\ sender[t].pc \in Waits /\ sender[t].until <= second
    /\ Becomes(t, [sender[t] EXCEPT !.pc = "look", !.until = 0])
    /\ UNCHANGED <<second, slots, message, lastAlarm, taken, wronged, alarms>>

-----------------------------------------------------------------------------
(* The tries. *)

Backoff(n) ==
    LET delay == RetryDelay * 2 ^ (IF n < 0 THEN 0 ELSE n)
    IN  IF delay < MaxBackoff THEN delay ELSE MaxBackoff

TriesLeft(s) == s.tries < MaxTries

\* The thread pauses before its next try, or its message ends so.
TriesAgain(t, s, delay, end) ==
    IF TriesLeft(s)
    THEN /\ Becomes(t, [s EXCEPT !.pc = "pause", !.until = second + delay])
         /\ message' = [message EXCEPT ![s.m] = end]
    ELSE /\ Becomes(t, Unused)
         /\ message' = [message EXCEPT ![s.m] =
                           [end EXCEPT !.outcome = IF s.limited THEN "dead" ELSE "failed"]]

\* A form with a plausible bug: an answer that says the message was sent is followed by a
\* further try.
DeliversAndGoesOn(t) ==
    LET s == sender[t] m == message[s.m] IN TriesAgain(t, s, 0, [m EXCEPT !.arrived = @ + 1])

Delivers(t) ==
    LET s == sender[t] m == message[s.m]
    IN  /\ Becomes(t, Unused)
        /\ message' = [message EXCEPT ![s.m] = [m EXCEPT !.arrived = @ + 1, !.outcome = "sent"]]

\* 429, with a Retry-After or without one.
Limits(t) ==
    LET s == [sender[t] EXCEPT !.limited = TRUE] m == message[s.m]
    IN  \/ \E after \in RetryAfters : TriesAgain(t, s, after, m)
        \/ TriesAgain(t, [s EXCEPT !.transient = @ + 1], Backoff(s.transient), m)

\* Any other status is raised and caught below; 403 and 404 too, which are not counted.
Refuses(t) ==
    LET s == sender[t] m == message[s.m]
    IN  \/ TriesAgain(t, s, Backoff(s.transient - 1), m)
        \/ TriesAgain(t, [s EXCEPT !.transient = @ + 1], Backoff(s.transient), m)

\* No answer: the message may have arrived.  On the last try the exception leaves the loop,
\* whatever was answered before.
NoAnswer(t) ==
    LET s == [sender[t] EXCEPT !.transient = @ + 1, !.limited = @ /\ TriesLeft(sender[t])]
        m == message[s.m]
    IN  \/ TriesAgain(t, s, Backoff(sender[t].transient), m)
        \/ TriesAgain(t, s, Backoff(sender[t].transient), [m EXCEPT !.arrived = @ + 1, !.lost = @ + 1])

Posts(t) ==
    /\ sender[t].pc = "post"
    /\ Delivers(t) \/ Limits(t) \/ Refuses(t) \/ NoAnswer(t)
    /\ UNCHANGED <<second, slots, lastAlarm, taken, wronged, alarms>>

SecondPasses ==
    /\ second < LastSecond /\ second' = second + 1
    /\ UNCHANGED <<slots, sender, message, lastAlarm, taken, wronged, alarms>>

OutboxNext ==
    \/ SecondPasses
    \/ \E t \in Senders : \/ Sends(t) \/ FindsStale(t) \/ GivesAlarm(t) \/ ReadsClock(t) \/ LooksForSlot(t)
                          \/ TestsOldest(t) \/ DropsOldest(t) \/ LooksForRoom(t) \/ TakesSlot(t) \/ WaitsForSlot(t) \/ Wakes(t) \/ Posts(t)

OutboxSpec == OutboxInit /\ [][OutboxNext]_outboxVars

-----------------------------------------------------------------------------
\* "Sliding-window limiter bounding outbound Telegram messages per minute": nothing is locked, so
\* that every other thread may put two slots more into a window, one when all see the last room and
\* one by a clock it read before the window was over, but none puts three, whatever the pauses and
\* the order of the steps.  A slot that a thread dropped in place of the expired one it had tested is
\* not counted: for each of these one more message goes out (SlidingWindowRateLimiter).
WithinRate ==
    \A from \in 0..second :
        Cardinality({i \in (1..Len(taken)) \ wronged : taken[i] \in from..(from + Window - 1)})
            <= Budget + 2 * (Cardinality(Senders) - 1)

\* A message reported as sent has arrived, one reported as failed has arrived only if the
\* answer was lost, and only lost answers make copies (send_telegram_with_retry).
ReportsHonestly ==
    \A i \in 1..Len(message) :
        LET m == message[i] IN
        /\ m.outcome = "sent" => m.arrived = m.lost + 1
        /\ m.outcome # "sent" => m.arrived = m.lost

\* Two alarms lie at least the cooldown apart, unless the second, or one between them, is of a scan
\* that had looked before the first was given: an alarm given late sets lastAlarm back
\* (_apply_freshness_gate).
AlarmsCoolDown ==
    \A i, j \in 1..Len(alarms) :
        i < j => \/ alarms[j].at - alarms[i].at >= AlarmCooldown
                 \/ \E k \in (i + 1)..j : alarms[k].seen < i

\* The three together.
SendsSparingly == WithinRate /\ ReportsHonestly /\ AlarmsCoolDown
=============================================================================
