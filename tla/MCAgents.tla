------------------------------ MODULE MCAgents ------------------------------
(***************************************************************************)
(* The two agents' models that the host edits too: breakpoints in two      *)
(* sources at two places, on a node, on a listener and on a timer that has *)
(* two names; and a console of a few rows.  The agents share no state: a   *)
(* behaviour is about one of them.                                         *)
(***************************************************************************)
EXTENDS Breakpoints, Console, TLC

CONSTANTS listener, interval, timer

VARIABLE agent

\* The protocol knows a timer as an interval.
MCMeant == (listener :> listener) @@ (interval :> interval) @@ (timer :> interval)

AgentsInit == agent \in {"debug", "console"} /\ Init /\ ConsoleInit

AgentsNext ==
    \/ agent = "debug" /\ Next /\ UNCHANGED <<agent, consoleVars>>
    \/ agent = "console" /\ ConsoleNext /\ UNCHANGED <<agent, vars>>

AgentsSpec == AgentsInit /\ [][AgentsNext]_<<agent, vars, consoleVars>>

Symmetry == Permutations(Sources) \cup Permutations(Places)
=============================================================================
