------------------------------ MODULE MCSecMsg ------------------------------
(* Model-checking instances of SecMsg.                                     *)
EXTENDS SecMsg, TLC

AgentSymmetry == Permutations(Agents)
=============================================================================
