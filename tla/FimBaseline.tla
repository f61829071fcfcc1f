----------------------------- MODULE FimBaseline -----------------------------
(***************************************************************************)
(* What the integrity database of an agent promises: one sum for every     *)
(* file, with the number of changes seen.  Reports are dealt with one at a *)
(* time.  A real change is accepted with an alert or, in maintenance mode, *)
(* without one.  A restart forgets at most the files whose last sum could  *)
(* not be saved, and a file may come to be one of them only while a report *)
(* of that file is dealt with.                                             *)
(***************************************************************************)
EXTENDS FimSum

CONSTANTS Files, None

VARIABLES base,     \* base[f]: [sum, mark], or None
          saved,    \* the files that a restart does not forget
          busy,     \* the report being dealt with: [file, maint], or None
          alert,    \* the last alert: [file, kind, flip]
          auto      \* auto_ignore: a file that keeps changing is no longer reported

vars == <<base, saved, busy, alert, auto>>

Init ==
    /\ base \in [Files -> [sum : Sums, mark : Marks] \cup {None}]
    /\ saved = Files /\ busy = None /\ alert = [file |-> None, kind |-> None, flip |-> FALSE] /\ auto \in BOOLEAN

Begin(f, m) ==
    /\ busy = None
    /\ busy' = [file |-> f, maint |-> m]
    /\ UNCHANGED <<base, saved, alert, auto>>

(* The report changes nothing, or what it changed could not be saved.      *)
End ==
    /\ busy # None
    /\ busy' = None
    /\ UNCHANGED <<base, saved, alert, auto>>

Unsave ==
    /\ busy # None
    /\ saved' = saved \ {busy.file}
    /\ UNCHANGED <<base, busy, alert, auto>>

Alert(f, k) == alert' = [file |-> f, kind |-> k, flip |-> ~alert.flip]

(* The report is accepted; it may then be that the update is still to be   *)
(* counted, before the next report is dealt with.                          *)
Accept(s) ==
    /\ busy # None /\ base[busy.file] # None
    /\ LET f == busy.file
           old == base[f]
           new == fim_sum_keep_hashes(old.sum, s)
           real == fim_sum_has_real_change(old.sum, new)
       IN /\ new # old.sum
          /\ saved' = saved \cup {f}
          /\ IF real /\ ~busy.maint
             THEN /\ base' = [base EXCEPT ![f] = [sum |-> new, mark |-> NextMark(old.mark)]]
                  /\ auto => Changes(old.mark) < 3
                  /\ Alert(f, Reported(old.sum, new, old.mark, auto))
             ELSE /\ base' = [base EXCEPT ![f] = [sum |-> new, mark |-> 0]]
                  /\ UNCHANGED alert
    /\ busy' \in {busy, None} /\ UNCHANGED auto

Add(s) ==
    /\ busy # None /\ base[busy.file] = None
    /\ \E m \in {0, New} : base' = [base EXCEPT ![busy.file] = [sum |-> s, mark |-> m]]
    /\ saved' \in {saved \cup {busy.file}, saved \ {busy.file}}
    /\ Alert(busy.file, "new") \/ UNCHANGED alert
    /\ busy' \in {busy, None} /\ UNCHANGED auto

Restart ==
    /\ base' = [f \in Files |-> IF f \in saved THEN base[f] ELSE None]
    /\ saved' = Files /\ busy' = None
    /\ UNCHANGED <<alert, auto>>

Next == \/ \E f \in Files, m \in BOOLEAN : Begin(f, m)
        \/ \E s \in Sums : Accept(s) \/ Add(s)
        \/ End \/ Unsave \/ Restart

Spec == Init /\ [][Next]_vars
=============================================================================
