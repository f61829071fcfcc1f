----------------------------- MODULE MCOsQueue -----------------------------
(* Model-checking instance of OsQueue.  The run checks liveness too, so    *)
(* that the interchangeable threads and items are not reduced by symmetry. *)
EXTENDS OsQueue, TLC
=============================================================================
