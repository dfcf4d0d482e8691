---------------------------- MODULE Announcements ----------------------------
(***************************************************************************)
(* What becomes of the signal a scan makes for one ticker: the message that *)
(* it has changed, the two filters that keep it out of the database, and    *)
(* save_signals.  The scans of the scheduler and of the dashboard have      *)
(* services of their own over one database.  What is told goes to Outbox.    *)
(***************************************************************************)
EXTENDS Integers, Sequences, FiniteSets, Outbox

CONSTANTS
    Announcers,      \* the scan services
    NAnnounced,      \* bound on the scans
    Readings,        \* what the engine may say of the ticker: its type and score
    BuyAt, SellAt, MaxActionable,   \* thresholds of the profile
    ScoreDelta,      \* SIGNAL_CHANGE_MIN_SCORE_DELTA
    BuyCooldown,     \* AL_SIGNAL_COOLDOWN_MINUTES
    MinutesPerDay,   \* the length of a day
    LastMinute,      \* bound on time
    LookupFaults     \* bound on the lookups that fail

ASSUME AnnouncementsAssumption ==
    /\ {NAnnounced, BuyCooldown, MinutesPerDay, LastMinute, LookupFaults} \subseteq Nat
    /\ 0 < MinutesPerDay /\ 0 < BuyCooldown

VARIABLES
    minute,
    stored,       \* the signals table, in the order of the ids
    announcer,   \* what each service is doing with the signal of its scan
    changes,     \* history: the change messages, each with the row it compared with
    fate,        \* history: what became of the signal of each scan
    failedLookups

announceVars == <<minute, stored, announcer, changes, fate, failedLookups>>

Unengaged == [pc |-> "idle", n |-> 0, type |-> "HOLD", score |-> 0, at |-> 0, keep |-> TRUE, blind |-> FALSE, seen |-> 0]
DayOf(m) == m \div MinutesPerDay
IsBuy(type) == type \in {"STRONG_BUY", "BUY", "WEAK_BUY"}
IsSell(type) == type \in {"STRONG_SELL", "SELL", "WEAK_SELL"}

\* is_trade_actionable.
ActsOn(s) == \/ IsBuy(s.type) /\ BuyAt <= s.score /\ s.score <= MaxActionable
             \/ IsSell(s.type) /\ s.score <= SellAt

\* categorize, where the cap on the score is not below the threshold.
CategoryOf(s) ==
    IF IsSell(s.type) THEN "SAT"
    ELSE IF IsBuy(s.type) /\ s.score >= BuyAt THEN "AL"
    ELSE IF IsBuy(s.type) /\ s.score > 0 THEN "RADAR"
    ELSE "HOLD"

StoredRow(n, s, at, blind) == [n |-> n, type |-> s.type, score |-> s.score, at |-> at, blind |-> blind, now |-> minute]

AnnouncementsTypeOK ==
    /\ minute \in 0..LastMinute
    /\ \A i \in 1..Len(stored) : stored[i].n \in 0..NAnnounced /\ stored[i].at \in 0..LastMinute
    /\ \A a \in Announcers : announcer[a].pc \in {"idle", "compare", "filter", "save"}
    /\ fate \in Seq({"pending", "stored", "dropped"}) /\ Len(fate) <= NAnnounced
    /\ failedLookups \in 0..LookupFaults

\* The table may hold a signal of an earlier scan.
AnnouncementsInit ==
    /\ minute = 0
    /\ stored \in {<<>>} \cup {<<StoredRow(0, r, 0, FALSE)>> : r \in Readings}
    /\ announcer = [a \in Announcers |-> Unengaged]
    /\ changes = <<>> /\ fate = <<>> /\ failedLookups = 0

-----------------------------------------------------------------------------
(* A scan and its signal. *)

\* The engine makes a signal of the ticker.  A scan that is stopped, finds the ticker stale or
\* is refused a signal leaves nothing.
MakesSignal(a) ==
    /\ announcer[a].pc = "idle" /\ Len(fate) < NAnnounced
    /\ \E r \in Readings :
          announcer' = [announcer EXCEPT ![a] =
              [Unengaged EXCEPT !.pc = "compare", !.n = Len(fate) + 1, !.type = r.type, !.score = r.score,
                           !.at = minute]]
    /\ fate' = Append(fate, "pending")
    /\ UNCHANGED <<minute, stored, changes, failedLookups>>

-----------------------------------------------------------------------------
(* Changes, filters and the database. *)

\* get_latest_signals: the row with the newest timestamp, of equal ones the last.
LatestRow ==
    CHOOSE i \in 1..Len(stored) :
        \A j \in 1..Len(stored) : stored[j].at < stored[i].at \/ (stored[j].at = stored[i].at /\ j <= i)

\* check_signal_changes compares with the last signal that was stored, and tells a change of
\* the type if either side can be acted on or the score has moved far enough.
TellsChange(a) ==
    LET s == announcer[a]
        old == stored[LatestRow]
        moved == IF s.score > old.score THEN s.score - old.score ELSE old.score - s.score
    IN  /\ s.pc = "compare"
        /\ announcer' = [announcer EXCEPT ![a] = [s EXCEPT !.pc = "filter"]]
        /\ changes' = IF stored # <<>> /\ old.type # s.type
                         /\ (ActsOn(old) \/ ActsOn(s) \/ moved >= ScoreDelta)
                      THEN Append(changes, [n |-> s.n, at |-> s.at, row |-> LatestRow,
                                            known |-> {k \in 1..Len(fate) : fate[k] = "stored"}])
                      ELSE changes
        /\ UNCHANGED <<minute, stored, fate, failedLookups>>

\* A form with a plausible bug: only a sell of the same type counts.
SoldTodayAlike(s) == \E i \in 1..Len(stored) : stored[i].type = s.type /\ DayOf(stored[i].at) = DayOf(minute)

\* get_signal_tickers_for_day for the sell family and the current day.
SoldToday(s) == \E i \in 1..Len(stored) : IsSell(stored[i].type) /\ DayOf(stored[i].at) = DayOf(minute)

\* get_last_signal_times: a buy at or above the threshold within the cooldown.
BoughtLately(s) ==
    \E i \in 1..Len(stored) :
        /\ IsBuy(stored[i].type) /\ stored[i].score >= BuyAt
        /\ stored[i].at >= minute - BuyCooldown

\* Each filter concerns its own kind of signal, so of the two at most one looks at the database.
Concerned(s) == IsSell(s.type) \/ CategoryOf(s) = "AL"
Repeats(s) == IF IsSell(s.type) THEN SoldToday(s) ELSE BoughtLately(s)

\* _filter_duplicate_sats, then _filter_duplicate_als.  A lookup that fails lets the signal
\* pass.  Whoever passes remembers how many rows there were.
Filters(a) ==
    LET s == announcer[a] IN
    /\ s.pc = "filter"
    /\ \/ /\ announcer' = [announcer EXCEPT ![a] =
                [s EXCEPT !.pc = "save", !.keep = ~(Concerned(s) /\ Repeats(s)), !.seen = Len(stored)]]
          /\ UNCHANGED failedLookups
       \/ /\ Concerned(s) /\ failedLookups < LookupFaults
          /\ announcer' = [announcer EXCEPT ![a] = [s EXCEPT !.pc = "save", !.blind = TRUE]]
          /\ failedLookups' = failedLookups + 1
    /\ UNCHANGED <<minute, stored, changes, fate>>

\* save_signals: a row with the same type and timestamp is the same signal.  What the scan does
\* after that does not depend on whether its signal was dropped.
WritesSignal(a) ==
    LET s == announcer[a]
        known == \E i \in 1..Len(stored) : stored[i].type = s.type /\ stored[i].at = s.at
        overtaken == s.seen < Len(stored)
    IN  /\ s.pc = "save"
        /\ announcer' = [announcer EXCEPT ![a] = Unengaged]
        /\ stored' = IF s.keep /\ ~known
                    THEN Append(stored, StoredRow(s.n, s, s.at, s.blind \/ overtaken))
                    ELSE stored
        /\ fate' = [fate EXCEPT ![s.n] = IF s.keep THEN "stored" ELSE "dropped"]
        /\ UNCHANGED <<minute, changes, failedLookups>>

MinutePasses ==
    /\ minute < LastMinute /\ minute' = minute + 1
    /\ UNCHANGED <<stored, announcer, changes, fate, failedLookups>>

AnnouncementsNext ==
    \/ MinutePasses
    \/ \E a \in Announcers : \/ MakesSignal(a) \/ TellsChange(a) \/ Filters(a) \/ WritesSignal(a)

AnnouncementsSpec == AnnouncementsInit /\ [][AnnouncementsNext]_announceVars

-----------------------------------------------------------------------------
\* "At most one SAT per ticker per day", for rows that were stored on the day of their signal,
\* by a scan that could read the database and was not overtaken by another between its look
\* and its write (_filter_duplicate_sats).
SellsOncePerDay ==
    \A i, j \in 1..Len(stored) :
        (i < j /\ IsSell(stored[i].type) /\ IsSell(stored[j].type) /\ DayOf(stored[i].at) = DayOf(stored[j].at))
            => stored[j].blind \/ DayOf(stored[j].now) # DayOf(stored[j].at)

\* Two stored AL signals lie further apart than the cooldown, but for the time a scan takes
\* from its signal to its write (_filter_duplicate_als).
BuysCoolDown ==
    \A i, j \in 1..Len(stored) :
        (i < j /\ CategoryOf(stored[i]) = "AL" /\ CategoryOf(stored[j]) = "AL" /\ ~stored[j].blind)
            => stored[j].at - stored[i].at > BuyCooldown - (stored[j].now - stored[j].at)

\* A change from one stored signal is told again only while what it was told of has not been
\* stored, or was stored with an older timestamp: a filter dropped it, or its scan is not yet
\* done (check_signal_changes before save_signals).
ToldAgainOnlyIfUnstored ==
    \A i, j \in 1..Len(changes) :
        (i < j /\ changes[i].row = changes[j].row)
            => \/ changes[i].n \notin changes[j].known
               \/ changes[i].at <= stored[changes[i].row].at

\* The three together.
StoredSparingly == SellsOncePerDay /\ BuysCoolDown /\ ToldAgainOnlyIfUnstored

\* Signals are told and stored, and messages sent, as sparingly as the rules of the day, the
\* cooldowns and the rate limit say (SignalChangeService, TelegramNotifier).
TellsSparingly == StoredSparingly /\ SendsSparingly
=============================================================================
