------------------------------- MODULE MCRun --------------------------------
(***************************************************************************)
(* The TLC instance of the two modules about one `costroid run`:           *)
(* AgentProcess, the agent's processes, and GatewayKey, the run's key on a *)
(* gateway. They share no state, so a behaviour is about one of them, its  *)
(* subject, and the other stays as it began.                               *)
(***************************************************************************)
EXTENDS AgentProcess, GatewayKey

CONSTANTS c1, c2

VARIABLE subject

-----------------------------------------------------------------------------
(* GatewayKey: the recipe with a ledger on a gateway as observed and on    *)
(* one that counts later, the recipe without a ledger and with a budget    *)
(* above the run's, and a close beside mint that waits for it, with none.  *)

Recipe(late) == [beside |-> FALSE, patient |-> FALSE, ledger |-> TRUE, budget |-> RunBudget, late |-> late]
Workflows ==
  {Recipe(1), Recipe(2),
   [Recipe(1) EXCEPT !.ledger = FALSE, !.budget = RunBudget + 1],
   [Recipe(1) EXCEPT !.beside = TRUE, !.patient = TRUE, !.ledger = FALSE]}

-----------------------------------------------------------------------------
RunInit ==
  /\ subject \in {"process", "key"}
  /\ ProcessInit /\ Init
  /\ subject = "key" => cgroup /\ tail = "ended"
  /\ subject = "process" => setup = Recipe(1)

RunNext ==
  \/ subject = "process" /\ ProcessNext /\ UNCHANGED <<subject, vars>>
  \/ subject = "key" /\ Next /\ UNCHANGED <<subject, processVars>>

RunSpec == RunInit /\ [][RunNext]_<<subject, processVars, vars>> /\ Fairness
=============================================================================
