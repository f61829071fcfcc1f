--------------------------- MODULE MCSharedConfig ---------------------------
(* Model-checking instances of SharedConfig.                               *)
EXTENDS SharedConfig, TLC

CONSTANTS a1, a2

TwoKeys == <<a1, a2>>
=============================================================================
