------------------------------- MODULE MCExecd -------------------------------
(* Model-checking instance of Execd.                                       *)
EXTENDS Execd, TLC
=============================================================================
