--------------------------- MODULE MCThreadPool ---------------------------
(* Model-checking instances of ThreadPool.  The passing run checks         *)
(* liveness too: no symmetry.                                              *)
EXTENDS ThreadPool, TLC
=============================================================================
