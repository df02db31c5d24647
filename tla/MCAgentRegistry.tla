--------------------------- MODULE MCAgentRegistry ---------------------------
(* TLC instances of AgentRegistry: agents and files are interchangeable. *)
EXTENDS AgentRegistry, TLC

Symmetry == Permutations(Agents) \cup Permutations(Files)
=============================================================================
