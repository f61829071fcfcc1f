------------------------------- MODULE MCMaild -------------------------------
(* Model-checking instance of Maild.                                       *)
EXTENDS Maild, TLC

CONSTANTS m1, m2, m3

(* m1 and m2 have recipients of their own; m3 is not grouped with others.  *)
ToTwo == [m \in Mails |-> IF m = m2 THEN "y" ELSE "x"]
Priorities == [m \in Mails |-> IF m = m1 THEN 0 ELSE IF m = m2 THEN 1 ELSE 2]
=============================================================================
