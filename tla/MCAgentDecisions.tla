-------------------------- MODULE MCAgentDecisions --------------------------
(***************************************************************************)
(* Instances of AgentDecisions for TLC: MCAgentDecisions.cfg interleaves   *)
(* two tasks, MCAgentDecisionsSerial.cfg runs every task and every list    *)
(* handler one after the other, MCAgentDecisionsTwice.cfg approves twice.  *)
(***************************************************************************)
EXTENDS AgentDecisions, TLC

MCDecisions == {1, 2}
MCOwners    == {Human} \cup MCDecisions

\* Workers run the same code and are told apart by nothing else.
Symmetry == Permutations(Workers)
=============================================================================
