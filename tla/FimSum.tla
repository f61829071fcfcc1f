------------------------------- MODULE FimSum -------------------------------
(***************************************************************************)
(* The sum syscheckd reports for a file: what the inode says (size,        *)
(* permissions, owner and group), the attributes and the ACL, which are    *)
(* reported only where the agent is told to check them, and the hash,      *)
(* which is "xxx" where the agent has none.  Deleted is the sum "-1" of a  *)
(* file that has gone.                                                     *)
(***************************************************************************)
EXTENDS Integers

CONSTANTS Metas, Attrs, NoAttrs, Hashes, Xxx, Deleted

Present == [meta : Metas, attrs : Attrs \cup {NoAttrs}, hash : Hashes \cup {Xxx}]
Sums == Present \cup {Deleted}

ASSUME FimSumAssumption == Xxx \notin Hashes /\ Deleted \notin Present

(* Mutant: the sum is stored as it was reported.                           *)
KeepAsReported(old, new) == IF old = Deleted THEN new ELSE new

(* Where the agent has no hash, the last known one.                        *)
fim_sum_keep_hashes(old, new) ==
    IF old # Deleted /\ new # Deleted /\ new.hash = Xxx THEN [new EXCEPT !.hash = old.hash] ELSE new

(* A hash that appears or disappears is no change of the file, nor are     *)
(* attributes that begin or cease to be reported.                          *)
fim_sum_has_real_change(old, new) ==
    /\ old # new
    /\ \/ Deleted \in {old, new}
       \/ old.meta # new.meta
       \/ old.attrs # new.attrs /\ NoAttrs \notin {old.attrs, new.attrs}
       \/ old.hash # new.hash /\ Xxx \notin {old.hash, new.hash}

(* The mark in front of a row.  0 to 4 are "+++", "!++", "!!+", "!!!",     *)
(* "!!?"; New is "!+++", a file that was new and is reported as changed.   *)
New == -1
Marks == New .. 4
Changes(n) == IF n = New THEN 0 ELSE n
NextMark(n) == IF Changes(n) < 3 THEN Changes(n) + 1 ELSE 4

(* The event that a change is reported as.                                 *)
Reported(old, new, n, auto) ==
    CASE new = Deleted -> "del"
      [] old = Deleted -> "new"
      [] auto /\ Changes(n) = 1 -> "mod2"
      [] auto /\ Changes(n) = 2 -> "mod3"
      [] OTHER -> "mod"
=============================================================================
