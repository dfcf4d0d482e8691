----------------------------- MODULE OrderGate -----------------------------
(***************************************************************************)
(* What the broker wrapper promises about order submission, without        *)
(* threads, tables or reconciliation: an order is requested at most once,  *)
(* only by the order that holds its ticker's gate; the gate opens for the  *)
(* next order only when the request is no longer on its way; and what has  *)
(* been concluded about an order is never reopened.  An answer that names  *)
(* no order blurs its kind, the ticker and the side: an order of that kind *)
(* may then be concluded upon while its request is still on its way.       *)
(***************************************************************************)
CONSTANTS Cids, TickerOf, KindOf

VARIABLES fate, request, blurred

gateVars == <<fate, request, blurred>>

GateTypeOK ==
    /\ fate \in [Cids -> {"new", "ambiguous", "known"}]
    /\ request \in [Cids -> {"unsent", "inFlight", "over"}]
    /\ blurred \subseteq {KindOf[c] : c \in Cids}

GateInit ==
    /\ fate = [c \in Cids |-> "new"]
    /\ request = [c \in Cids |-> "unsent"]
    /\ blurred = {}

Begin(c) ==
    /\ fate[c] = "new"
    /\ \A d \in Cids : TickerOf[d] = TickerOf[c] => fate[d] # "ambiguous"
    /\ fate' = [fate EXCEPT ![c] = "ambiguous"]
    /\ UNCHANGED <<request, blurred>>

Send(c) ==
    /\ fate[c] = "ambiguous" /\ request[c] = "unsent"
    /\ request' = [request EXCEPT ![c] = "inFlight"]
    /\ UNCHANGED <<fate, blurred>>

Arrive(c) ==
    /\ request[c] = "inFlight"
    /\ request' = [request EXCEPT ![c] = "over"]
    /\ UNCHANGED <<fate, blurred>>

Conclude(c) ==
    /\ fate[c] = "ambiguous"
    /\ request[c] = "inFlight" => KindOf[c] \in blurred
    /\ fate' = [fate EXCEPT ![c] = "known"]
    /\ UNCHANGED <<request, blurred>>

\* An order is concluded upon by an answer that does not name it.
Blur(c) ==
    /\ fate[c] = "ambiguous" /\ request[c] = "over"
    /\ fate' = [fate EXCEPT ![c] = "known"]
    /\ blurred' = blurred \cup {KindOf[c]}
    /\ UNCHANGED request

GateNext == \E c \in Cids : Begin(c) \/ Send(c) \/ Arrive(c) \/ Conclude(c) \/ Blur(c)

GateSpec == GateInit /\ [][GateNext]_gateVars
=============================================================================
