-------------------------- MODULE MC_AlgoLabBroker --------------------------
(* Instances of AlgoLabBroker for TLC: every order is for one ticker.      *)
EXTENDS AlgoLabBroker, TLC
CONSTANT OnlyTicker
OneTicker == [c \in Cids |-> OnlyTicker]
Alike == Permutations(Buys) \cup Permutations(Submitters)
\* Of an order row no step and no property reads more than whether it is there, but
\* for the row of an exit: states that differ in the state of another row only have
\* the same futures.
RowAsRead(c) == IF IsExit(c) \/ rows[c] = "none" THEN rows[c] ELSE "there"
RowsAsRead == <<intents, [c \in Cids |-> RowAsRead(c)], exits, positions, venue, th,
                replay, restarts, resolutions, unnamed>>
=============================================================================
