-------------------------- MODULE MC_TradingAgent --------------------------
(* Symmetry for the model checking of TradingAgent. *)
EXTENDS TradingAgent, TLC

TickerSymmetry == Permutations(Tickers)
=============================================================================
