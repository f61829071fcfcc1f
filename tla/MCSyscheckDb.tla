---------------------------- MODULE MCSyscheckDb ----------------------------
(* Model-checking instance of SyscheckDb: two files, one of which has      *)
(* changed twice already and is then reported without a hash and without   *)
(* attributes, and changed twice; the other one is new and is deleted.     *)
(* The database is complete only after the scan that -M end asks for.      *)
EXTENDS SyscheckDb

CONSTANTS f1, f2, h1, h2, t1, t2, a1

S(m, h) == [meta |-> m, attrs |-> a1, hash |-> h]
Plain(m, h) == [meta |-> m, attrs |-> NoAttrs, hash |-> h]
R(f, s) == [file |-> f, sum |-> s]
ReportsOf == <<R(f1, Plain(1, Xxx)), R(f2, S(1, h1)), R(f1, S(1, h2)),
               R(f2, Deleted), R(f1, S(2, h1))>>
Symmetric == Permutations(Threads)

RowsOf == <<[file |-> f1, sum |-> S(1, h1), mark |-> 2, live |-> TRUE]>>
=============================================================================
