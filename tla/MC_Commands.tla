----------------------------- MODULE MC_Commands -----------------------------
(***************************************************************************)
(* What is asked of the bot from outside: commands over the chat, served by *)
(* the trading agent, and scans over HTTP.  The two share no state in this  *)
(* model; a behaviour serves one of them and the other rests.               *)
(***************************************************************************)
EXTENDS TradingAgent, ScanRequests

VARIABLE served   \* where the requests come from

commandsVars == <<served, vars, scanVars>>

CommandsInit == served \in {"chat", "http"} /\ Init /\ ScanInit

CommandsNext ==
    /\ UNCHANGED served
    /\ \/ served = "chat" /\ Next /\ UNCHANGED scanVars
       \/ served = "http" /\ ScanNext /\ UNCHANGED vars

\* The fairness of the agent, and ScanFairness.
CommandsFairness ==
    /\ WF_vars(served = "chat" /\ ScanStep)
    /\ WF_scanVars(served = "http" /\ ScanClockTicks)
    /\ \A r \in Requests : /\ WF_scanVars(served = "http" /\ AnswersScan(r))
                           /\ WF_scanVars(served = "http" /\ TimesOut(r))

CommandsSpec == CommandsInit /\ [][CommandsNext]_commandsVars /\ CommandsFairness
=============================================================================
