----------------------------- MODULE ExecdProofs -----------------------------
(***************************************************************************)
(* Proofs about execd's list of pending undos (Execd), for every set of    *)
(* responses, every number of children, requests and failing forks, and a  *)
(* signal at any point.                                                    *)
(***************************************************************************)
EXTENDS Execd, SequenceTheorems, TLAPS

-----------------------------------------------------------------------------
(* Operators of the list.                                                  *)

LEMMA RemoveAtProperties ==
  ASSUME NEW S, NEW s \in Seq(S), NEW n \in 1 .. Len(s)
  PROVE  /\ RemoveAt(s, n) \in Seq(S)
         /\ Len(RemoveAt(s, n)) = Len(s) - 1
         /\ \A m \in 1 .. Len(s) - 1 : RemoveAt(s, n)[m] = IF m < n THEN s[m] ELSE s[m + 1]
<1> DEFINE a == SubSeq(s, 1, n - 1)
           b == SubSeq(s, n + 1, Len(s))
<1>1. Len(s) \in Nat
  OBVIOUS
<1>2. a \in Seq(S) /\ Len(a) = n - 1 /\ \A m \in 1 .. n - 1 : a[m] = s[m]
  <2>1. \A m \in 1 .. n - 1 : s[m] \in S
    BY <1>1
  <2> QED
    BY <1>1, <2>1, SubSeqProperties
<1>3. b \in Seq(S) /\ Len(b) = Len(s) - n /\ \A m \in 1 .. Len(s) - n : b[m] = s[m + n]
  <2>1. \A m \in n + 1 .. Len(s) : s[m] \in S
    BY <1>1
  <2> QED
    BY <1>1, <2>1, SubSeqProperties
<1>4. RemoveAt(s, n) = a \o b
  BY DEF RemoveAt
<1> HIDE DEF a, b
<1>5. /\ a \o b \in Seq(S) /\ Len(a \o b) = Len(s) - 1
      /\ \A m \in 1 .. Len(s) - 1 : (a \o b)[m] = IF m <= n - 1 THEN a[m] ELSE b[m - (n - 1)]
  <2>1. /\ a \o b \in Seq(S) /\ Len(a \o b) = Len(a) + Len(b)
        /\ \A m \in 1 .. Len(a) + Len(b) :
             (a \o b)[m] = IF m <= Len(a) THEN a[m] ELSE b[m - Len(a)]
    BY <1>2, <1>3, ConcatProperties
  <2>2. Len(a) + Len(b) = Len(s) - 1
    BY <1>1, <1>2, <1>3
  <2> QED
    BY <1>2, <2>1, <2>2
<1> QED
  BY <1>1, <1>2, <1>3, <1>4, <1>5

(* What is left after a removal is what was not removed.                   *)
LEMMA RemoveAtKeeps ==
  ASSUME NEW S, NEW s \in Seq(S), NEW n \in 1 .. Len(s)
  PROVE  /\ \A m \in 1 .. Len(RemoveAt(s, n)) : \E x \in 1 .. Len(s) :
               x # n /\ x = (IF m < n THEN m ELSE m + 1) /\ RemoveAt(s, n)[m] = s[x]
         /\ \A x \in 1 .. Len(s) : x # n =>
               \E m \in 1 .. Len(RemoveAt(s, n)) : RemoveAt(s, n)[m] = s[x]
<1>1. /\ Len(s) \in Nat /\ Len(RemoveAt(s, n)) = Len(s) - 1
      /\ \A m \in 1 .. Len(s) - 1 : RemoveAt(s, n)[m] = IF m < n THEN s[m] ELSE s[m + 1]
  BY RemoveAtProperties
<1>2. ASSUME NEW x \in 1 .. Len(s), x # n
      PROVE  \E m \in 1 .. Len(RemoveAt(s, n)) : RemoveAt(s, n)[m] = s[x]
  <2> DEFINE m == IF x < n THEN x ELSE x - 1
  <2>1. m \in 1 .. Len(s) - 1 /\ (IF m < n THEN s[m] ELSE s[m + 1]) = s[x]
    BY <1>1, <1>2
  <2> QED
    BY <1>1, <2>1
<1> QED
  BY <1>1, <1>2

(* ExecdTimeoutReapDelete: at most one entry waits for the child.          *)
LEMMA ReapRemoves ==
  ASSUME NEW p, NEW n \in 1 .. Len(timeout_list), timeout_list[n].delete_pid = p,
         \A m \in 1 .. Len(timeout_list) : timeout_list[m].delete_pid = p => m = n,
         ExecdTimeoutReapDelete(p)
  PROVE  timeout_list' = RemoveAt(timeout_list, n)
<1>1. {m \in 1 .. Len(timeout_list) : timeout_list[m].delete_pid = p} = {n}
  OBVIOUS
<1>2. Min({n}) = n
  BY DEF Min
<1> QED
  BY <1>1, <1>2 DEF ExecdTimeoutReapDelete, RemoveFirstMatch, SelectInSeq

LEMMA ReapKeeps ==
  ASSUME NEW p, \A m \in 1 .. Len(timeout_list) : timeout_list[m].delete_pid # p,
         ExecdTimeoutReapDelete(p)
  PROVE  timeout_list' = timeout_list
  BY DEF ExecdTimeoutReapDelete, RemoveFirstMatch

-----------------------------------------------------------------------------
(* The inductive invariant, in parts.                                      *)

Positions == 1 .. Len(timeout_list)

UniqueKeys == \A m, n \in Positions : timeout_list[m].key = timeout_list[n].key => m = n

(* Where the main loop is and what that says of the list.                  *)
LoopInv ==
    /\ pc \in {"add", "added"} => \A n \in Positions : timeout_list[n].key # req
    /\ pc = "launch" => i >= 1
    /\ pc = "launched" => /\ i \in Positions /\ timeout_list[i].delete_pid <= 0
                          /\ got > 0 => timeout_list[i].key \notin owed
    /\ pc \in {"h_forked", "h_wait"} => timeout_list # <<>>

(* A response in force has an entry whose "delete" was not started.        *)
OwedInv ==
    /\ owed \cap Plain = {}
    /\ ~Stopping => \A k \in owed :
         \/ pc = "added" /\ k = req
         \/ \E n \in Positions : timeout_list[n].key = k /\ timeout_list[n].delete_pid <= 0

(* The running "delete"s are those the list has the pids of, and the one   *)
(* whose pid is about to be stored.                                        *)
DeleteInv == ~Stopping =>
    /\ \A n \in Positions : timeout_list[n].delete_pid > 0 =>
         proc[timeout_list[n].delete_pid] = Child("delete", timeout_list[n].key)
    /\ pc = "launched" /\ got > 0 => proc[got] = Child("delete", timeout_list[i].key)
    /\ \A q \in Pids, k \in Keys : proc[q] = Child("delete", k) =>
         \/ \E n \in Positions : timeout_list[n].key = k /\ timeout_list[n].delete_pid = q
         \/ pc = "launched" /\ got = q /\ timeout_list[i].key = k

IndInv == StateOK /\ UniqueKeys /\ LoopInv /\ OwedInv /\ OffenderTime /\ DeleteInv

-----------------------------------------------------------------------------
(* What the parts of a step do.                                            *)

LEMMA PidsPositive ==
  /\ MaxPid \in Nat /\ Offenders \in Nat /\ MaxFailures \in Nat
  /\ \A p \in Pids : p \in Nat /\ p > 0
  BY ExecdAssumption DEF Pids

LEMMA EntryTypes ==
  ASSUME StateOK, NEW n \in Positions
  PROVE  /\ timeout_list[n] \in Entries /\ timeout_list[n].key \in Keys
         /\ timeout_list[n].delete_pid \in Pids \cup {-1, 0}
         /\ timeout_list[n].delete_pid \in Int
         /\ timeout_list[n].delete_pid > 0 => timeout_list[n].delete_pid \in Pids
<1>1. timeout_list[n] \in Entries
  BY ElementOfSeq DEF StateOK, Positions
<1> QED
  BY <1>1, PidsPositive DEF Entries

LEMMA Domain ==
  ASSUME StateOK
  PROVE  DOMAIN timeout_list = Positions /\ Len(timeout_list) \in Nat
  BY LenProperties DEF StateOK, Positions

LEMMA NodeIs ==
  ASSUME StateOK, NEW k, Listed(k)
  PROVE  Node(k) \in Positions /\ timeout_list[Node(k)].key = k
  BY Domain DEF Listed, Node

LEMMA ChildrenAre ==
  ASSUME NEW k
  PROVE  /\ Child("delete", k) # Free /\ Child("add", k) # Free
         /\ \A x : Child("delete", k) = Child("delete", x) <=> k = x
         /\ \A x : Child("delete", k) # Child("add", x)
  BY DEF Child, Free

(* fork gives a pid that no child has, or fails and changes nothing.       *)
LEMMA ForkFacts ==
  ASSUME StateOK, owed \cap Plain = {}, NEW kind \in {"add", "delete"}, NEW k \in Keys,
         ExecCmd(kind, k)
  PROVE  /\ got' \in Pids \cup {-1} /\ failed' \in Nat
         /\ proc' \in [Pids -> {Free} \cup ({"add", "delete"} \X Keys)]
         /\ owed' \subseteq Keys /\ owed' \cap Plain = {}
         /\ kind = "delete" => owed' \subseteq owed /\ (got' > 0 => k \notin owed')
         /\ kind = "add" => owed' \subseteq owed \cup {k}
         /\ \/ got' = -1 /\ proc' = proc
            \/ /\ got' \in Pids /\ proc[got'] = Free
               /\ proc' = [proc EXCEPT ![got'] = Child(kind, k)]
<1>1. CASE \E p \in Pids \ Children :
             /\ got' = p /\ proc' = [proc EXCEPT ![p] = Child(kind, k)]
             /\ owed' = IF kind = "delete" THEN owed \ {k}
                        ELSE IF k \in Plain THEN owed ELSE owed \cup {k}
             /\ UNCHANGED failed
  <2>1. PICK p \in Pids \ Children :
             /\ got' = p /\ proc' = [proc EXCEPT ![p] = Child(kind, k)]
             /\ owed' = IF kind = "delete" THEN owed \ {k}
                        ELSE IF k \in Plain THEN owed ELSE owed \cup {k}
             /\ UNCHANGED failed
    BY <1>1
  <2>2. p \in Pids /\ proc[p] = Free /\ Child(kind, k) \in {"add", "delete"} \X Keys
    BY <2>1 DEF Children, Child
  <2>3. proc' \in [Pids -> {Free} \cup ({"add", "delete"} \X Keys)]
    BY <2>1, <2>2 DEF StateOK
  <2>4. owed' \subseteq Keys /\ owed' \cap Plain = {}
    BY <2>1 DEF StateOK
  <2> QED
    BY <2>1, <2>2, <2>3, <2>4 DEF StateOK
<1>2. CASE /\ failed' = IF Children = Pids THEN failed ELSE failed + 1
           /\ got' = -1 /\ UNCHANGED <<proc, owed>>
  BY <1>2 DEF StateOK
<1> QED
  BY <1>1, <1>2 DEF ExecCmd

(* The list keeps its nodes: keys and pids stay where they are.            *)
SameNodes == /\ timeout_list' \in Seq(Entries) /\ Len(timeout_list') = Len(timeout_list)
             /\ \A n \in Positions : /\ timeout_list'[n].key = timeout_list[n].key
                                     /\ timeout_list'[n].delete_pid = timeout_list[n].delete_pid

LEMMA ExpireFacts ==
  ASSUME StateOK, NEW k, TimesOut(k)
  PROVE  SameNodes /\ \A n \in Positions : timeout_list'[n].block = timeout_list[n].block
<1> DEFINE e == [timeout_list[Node(k)] EXCEPT !.expired = TRUE]
<1>1. Node(k) \in Positions /\ timeout_list[Node(k)] \in Entries
  BY NodeIs, EntryTypes DEF TimesOut
<1>2. /\ e \in Entries /\ e.key = timeout_list[Node(k)].key
      /\ e.block = timeout_list[Node(k)].block
      /\ e.delete_pid = timeout_list[Node(k)].delete_pid
  BY <1>1 DEF Entries
<1>3. timeout_list' = [timeout_list EXCEPT ![Node(k)] = e]
  BY DEF TimesOut
<1> HIDE DEF e
<1>4. /\ timeout_list' \in Seq(Entries) /\ Len(timeout_list') = Len(timeout_list)
      /\ \A n \in Positions : timeout_list'[n] = IF n = Node(k) THEN e ELSE timeout_list[n]
  BY <1>1, <1>2, <1>3, ExceptSeq DEF StateOK, Positions
<1> QED
  BY <1>2, <1>4 DEF SameNodes

LEMMA SeenType ==
  ASSUME StateOK, NEW k \in Keys, Offenders > 0
  PROVE  Seen(k) \in 0 .. Offenders
  BY PidsPositive DEF Seen, StateOK

(* A request for what is in force changes times only, those of one entry.  *)
LEMMA ProlongFacts ==
  ASSUME StateOK, UniqueKeys, OffenderTime, Prolong
  PROVE  SameNodes /\ OffenderTime' /\ repeated_hash' \in [Keys -> -1 .. Offenders]
<1> DEFINE raise == Offenders > 0 /\ req \notin NoAddress /\ repeated_hash[req] # -1
           N == Node(req)
           b == IF raise THEN Seen(req) ELSE timeout_list[N].block
           e == [timeout_list[N] EXCEPT !.expired = FALSE, !.block = b]
<1>1. N \in Positions /\ timeout_list[N] \in Entries /\ timeout_list[N].key = req /\ req \in Keys
  BY NodeIs, EntryTypes DEF Prolong, StateOK
<1>2. b \in 0 .. Offenders
  BY <1>1, SeenType DEF Entries
<1>3. /\ e \in Entries /\ e.key = req /\ e.block = b
      /\ e.delete_pid = timeout_list[N].delete_pid
  <2> HIDE DEF b, N
  <2> QED
    BY <1>1, <1>2 DEF Entries
<1>4. timeout_list' = [timeout_list EXCEPT ![N] = e]
  <2>1. timeout_list' = [timeout_list EXCEPT ![N].expired = FALSE,
                                             ![N].block = IF raise THEN Seen(req) ELSE @]
    BY DEF Prolong
  <2> HIDE DEF N, raise
  <2> QED
    BY <1>1, <2>1, Domain DEF StateOK, Entries
<1>5. repeated_hash' = IF raise THEN [repeated_hash EXCEPT ![req] = Seen(req)]
                       ELSE repeated_hash
  BY DEF Prolong
<1> HIDE DEF e, N
<1>6. /\ timeout_list' \in Seq(Entries) /\ Len(timeout_list') = Len(timeout_list)
      /\ \A n \in Positions : timeout_list'[n] = IF n = N THEN e ELSE timeout_list[n]
  BY <1>1, <1>3, <1>4, ExceptSeq DEF StateOK, Positions
<1>7. SameNodes
  BY <1>1, <1>3, <1>6 DEF SameNodes
<1>8. repeated_hash' \in [Keys -> -1 .. Offenders]
  <2>1. raise => Seen(req) \in -1 .. Offenders
    BY <1>1, SeenType
  <2> HIDE DEF raise
  <2> QED
    BY <1>1, <1>5, <2>1 DEF StateOK
<1>9. OffenderTime'
  <2> SUFFICES ASSUME Offenders > 0, NEW n \in 1 .. Len(timeout_list')
               PROVE  timeout_list'[n].block = repeated_hash'[timeout_list'[n].key]
    BY <1>6, LenProperties DEF OffenderTime
  <2>1. n \in Positions
    BY <1>6 DEF Positions
  <2>2. timeout_list[n].block = repeated_hash[timeout_list[n].key] /\ timeout_list[n].key \in Keys
    BY <2>1, Domain, EntryTypes DEF OffenderTime
  <2>3. CASE n = N
    <3>1. timeout_list'[n].block = b /\ timeout_list'[n].key = req
      BY <1>3, <1>6, <2>1, <2>3
    <3>2. repeated_hash'[req] = IF raise THEN Seen(req) ELSE repeated_hash[req]
      BY <1>1, <1>5 DEF StateOK
    <3> QED
      BY <1>1, <2>2, <2>3, <3>1, <3>2
  <2>4. CASE n # N
    <3>1. timeout_list'[n] = timeout_list[n] /\ timeout_list[n].key # req
      BY <1>1, <1>6, <2>1, <2>4 DEF UniqueKeys
    <3>2. repeated_hash'[timeout_list[n].key] = repeated_hash[timeout_list[n].key]
      BY <1>5, <2>2, <3>1 DEF StateOK
    <3> QED
      BY <2>2, <3>1, <3>2
  <2> QED
    BY <2>3, <2>4
<1> QED
  BY <1>7, <1>8, <1>9

-----------------------------------------------------------------------------
(* A step preserves the invariant: one lemma for each kind of step.        *)

(* The loop moves on; the list, the children and the history stay.         *)
LEMMA MoveOn ==
  ASSUME IndInv, StateOK', UNCHANGED <<timeout_list, repeated_hash, proc, owed>>,
         pc' \in {"add", "added"} => \A n \in Positions : timeout_list[n].key # req',
         pc' = "launch" => i' >= 1,
         pc' \notin {"launched", "h_forked", "h_wait"},
         ~Stopping' => ~Stopping /\ pc \notin {"added", "launched"}
  PROVE  IndInv'
<1>1. Positions' = Positions
  BY DEF Positions
<1>2. UniqueKeys' /\ OffenderTime'
  BY <1>1 DEF IndInv, UniqueKeys, OffenderTime
<1>3. LoopInv'
  BY <1>1 DEF LoopInv
<1>4. OwedInv'
  BY <1>1 DEF IndInv, OwedInv
<1>5. DeleteInv'
  BY <1>1 DEF IndInv, DeleteInv
<1> QED
  BY <1>2, <1>3, <1>4, <1>5 DEF IndInv

(* An entry's times change: TimesOut and Prolong.                          *)
LEMMA TimesChange ==
  ASSUME IndInv, StateOK', SameNodes, OffenderTime', UNCHANGED <<proc, owed>>,
         pc \in {"reap", "dup"}, pc' = "reap"
  PROVE  IndInv'
<1>1. /\ Positions' = Positions
      /\ \A n \in Positions : /\ timeout_list'[n].key = timeout_list[n].key
                              /\ timeout_list'[n].delete_pid = timeout_list[n].delete_pid
  BY DEF Positions, SameNodes
<1>2. UniqueKeys'
  BY <1>1 DEF IndInv, UniqueKeys
<1>3. LoopInv'
  BY DEF LoopInv
<1>4. ~Stopping /\ ~Stopping'
  BY DEF Stopping, Handler
<1>5. OwedInv'
  BY <1>1, <1>4 DEF IndInv, OwedInv
<1>6. DeleteInv'
  BY <1>1, <1>4 DEF IndInv, DeleteInv
<1> QED
  BY <1>2, <1>3, <1>5, <1>6 DEF IndInv

(* No two entries wait for the same child.                                 *)
LEMMA UniquePids ==
  ASSUME IndInv, ~Stopping, NEW m \in Positions, NEW n \in Positions,
         timeout_list[m].delete_pid = timeout_list[n].delete_pid,
         timeout_list[m].delete_pid > 0
  PROVE  m = n
<1>1. Child("delete", timeout_list[m].key) = Child("delete", timeout_list[n].key)
  BY DEF IndInv, DeleteInv
<1> QED
  BY <1>1, ChildrenAre DEF IndInv, UniqueKeys

(* The "delete" of an entry is collected and the entry goes: Reap and      *)
(* WaitDelete.                                                             *)
LEMMA EntryDone ==
  ASSUME IndInv, StateOK', NEW N \in Positions, timeout_list[N].delete_pid > 0,
         timeout_list' = RemoveAt(timeout_list, N),
         proc' = [proc EXCEPT ![timeout_list[N].delete_pid] = Free],
         UNCHANGED <<owed, req, repeated_hash>>,
         \/ pc = "reap" /\ pc' = "reap"
         \/ pc = "dup" /\ pc' = "add" /\ timeout_list[N].key = req
  PROVE  IndInv'
<1> DEFINE p == timeout_list[N].delete_pid
<1>0. StateOK /\ p \in Pids
  BY EntryTypes DEF IndInv
<1>a. timeout_list \in Seq(Entries) /\ N \in 1 .. Len(timeout_list)
  BY <1>0 DEF StateOK, Positions
<1>b. /\ \A m \in 1 .. Len(RemoveAt(timeout_list, N)) : \E x \in 1 .. Len(timeout_list) :
            /\ x # N /\ x = (IF m < N THEN m ELSE m + 1)
            /\ RemoveAt(timeout_list, N)[m] = timeout_list[x]
      /\ \A x \in 1 .. Len(timeout_list) : x # N =>
            \E m \in 1 .. Len(RemoveAt(timeout_list, N)) :
               RemoveAt(timeout_list, N)[m] = timeout_list[x]
  <2> HIDE DEF p
  <2> QED
    BY <1>a, RemoveAtKeeps, Zenon
<1>1. \A m \in Positions' :
        \E x \in Positions : /\ x # N /\ x = (IF m < N THEN m ELSE m + 1)
                             /\ timeout_list'[m] = timeout_list[x]
  BY <1>b DEF Positions
<1>2. \A x \in Positions : x # N =>
        \E m \in Positions' : timeout_list'[m] = timeout_list[x]
  BY <1>b DEF Positions
<1>3. ~Stopping /\ ~Stopping'
  BY DEF Stopping, Handler
<1>4. UniqueKeys'
  <2> SUFFICES ASSUME NEW m \in Positions', NEW n \in Positions',
                      timeout_list'[m].key = timeout_list'[n].key
               PROVE  m = n
    BY DEF UniqueKeys
  <2>1. PICK x \in Positions : x = (IF m < N THEN m ELSE m + 1) /\ timeout_list'[m] = timeout_list[x]
    BY <1>1
  <2>2. PICK y \in Positions : y = (IF n < N THEN n ELSE n + 1) /\ timeout_list'[n] = timeout_list[y]
    BY <1>1
  <2>3. x = y
    BY <2>1, <2>2 DEF IndInv, UniqueKeys
  <2>4. m \in Nat /\ n \in Nat /\ N \in Nat
    BY DEF Positions
  <2> QED
    BY <2>1, <2>2, <2>3, <2>4
<1>5. LoopInv'
  <2>1. timeout_list[N].key = req => \A m \in Positions' : timeout_list'[m].key # req
    BY <1>1 DEF IndInv, UniqueKeys
  <2> QED
    BY <2>1 DEF LoopInv
<1>6. OwedInv'
  <2> SUFFICES ASSUME NEW k \in owed
               PROVE  \E m \in Positions' : /\ timeout_list'[m].key = k
                                            /\ timeout_list'[m].delete_pid <= 0
    BY DEF OwedInv, IndInv
  <2>1. PICK x \in Positions : timeout_list[x].key = k /\ timeout_list[x].delete_pid <= 0
    BY <1>3 DEF IndInv, OwedInv
  <2>2. x # N
    BY <1>0, <2>1, PidsPositive
  <2> QED
    BY <1>2, <2>1, <2>2
<1>7. OffenderTime'
  <2>1. DOMAIN timeout_list' = Positions' /\ DOMAIN timeout_list = Positions
    BY <1>0, LenProperties DEF StateOK, Positions
  <2> QED
    BY <1>1, <2>1 DEF IndInv, OffenderTime
<1>8. DeleteInv'
  <2>1. ASSUME NEW m \in Positions', timeout_list'[m].delete_pid > 0
        PROVE  proc'[timeout_list'[m].delete_pid] = Child("delete", timeout_list'[m].key)
    <3>1. PICK x \in Positions : x # N /\ timeout_list'[m] = timeout_list[x]
      BY <1>1
    <3>2. timeout_list[x].delete_pid # p
      BY <1>3, <2>1, <3>1, UniquePids
    <3>3. proc[timeout_list[x].delete_pid] = Child("delete", timeout_list[x].key)
      BY <1>3, <2>1, <3>1 DEF IndInv, DeleteInv
    <3>4. timeout_list[x].delete_pid \in Pids
      BY <1>0, <2>1, <3>1, EntryTypes
    <3> QED
      BY <1>0, <3>1, <3>2, <3>3, <3>4 DEF StateOK
  <2>2. ASSUME NEW q \in Pids, NEW k \in Keys, proc'[q] = Child("delete", k)
        PROVE  \E m \in Positions' : /\ timeout_list'[m].key = k
                                     /\ timeout_list'[m].delete_pid = q
    <3>1. q # p /\ proc[q] = Child("delete", k)
      BY <1>0, <2>2, ChildrenAre DEF StateOK
    <3>2. PICK x \in Positions : timeout_list[x].key = k /\ timeout_list[x].delete_pid = q
      BY <1>3, <3>1 DEF IndInv, DeleteInv
    <3> QED
      BY <1>2, <3>1, <3>2
  <2> QED
    BY <2>1, <2>2 DEF DeleteInv
<1> QED
  BY <1>4, <1>5, <1>6, <1>7, <1>8 DEF IndInv

(* Another child is collected: Reap of one that was started with "add".    *)
LEMMA AddCollected ==
  ASSUME IndInv, StateOK', NEW p \in Pids, pc = "reap", pc' = "reap",
         \A n \in Positions : timeout_list[n].delete_pid # p,
         proc' = [proc EXCEPT ![p] = Free],
         UNCHANGED <<timeout_list, owed, repeated_hash>>
  PROVE  IndInv'
<1>1. Positions' = Positions /\ ~Stopping /\ ~Stopping'
  BY DEF Positions, Stopping, Handler
<1>2. UniqueKeys' /\ OffenderTime' /\ LoopInv' /\ OwedInv'
  BY <1>1 DEF IndInv, UniqueKeys, OffenderTime, LoopInv, OwedInv
<1>3. DeleteInv'
  <2>1. ASSUME NEW n \in Positions, timeout_list[n].delete_pid > 0
        PROVE  proc'[timeout_list[n].delete_pid] = Child("delete", timeout_list[n].key)
    <3>1. timeout_list[n].delete_pid \in Pids
      BY <2>1, EntryTypes DEF IndInv
    <3>2. proc[timeout_list[n].delete_pid] = Child("delete", timeout_list[n].key)
      BY <1>1, <2>1 DEF IndInv, DeleteInv
    <3> QED
      BY <3>1, <3>2 DEF IndInv, StateOK
  <2>2. ASSUME NEW q \in Pids, NEW k \in Keys, proc'[q] = Child("delete", k)
        PROVE  \E n \in Positions : timeout_list[n].key = k /\ timeout_list[n].delete_pid = q
    <3>1. proc[q] = Child("delete", k)
      BY <2>2, ChildrenAre DEF IndInv, StateOK
    <3> QED
      BY <1>1, <3>1 DEF IndInv, DeleteInv
  <2> QED
    BY <1>1, <2>1, <2>2 DEF DeleteInv
<1> QED
  BY <1>2, <1>3 DEF IndInv

(* A "delete" is started for the entry at hand: its pid is not stored yet. *)
LEMMA DeleteStarted ==
  ASSUME IndInv, StateOK', pc = "launch", pc' = "launched", i \in Positions, i' = i,
         timeout_list[i].delete_pid <= 0, ExecCmd("delete", timeout_list[i].key),
         UNCHANGED <<timeout_list, repeated_hash, req>>
  PROVE  IndInv'
<1> DEFINE k == timeout_list[i].key
<1>0. StateOK /\ owed \cap Plain = {} /\ k \in Keys
  BY EntryTypes DEF IndInv, OwedInv
<1>1. Positions' = Positions /\ ~Stopping /\ ~Stopping'
  BY DEF Positions, Stopping, Handler
<1>2. /\ owed' \cap Plain = {} /\ owed' \subseteq owed /\ (got' > 0 => k \notin owed')
      /\ \/ got' = -1 /\ proc' = proc
         \/ /\ got' \in Pids /\ proc[got'] = Free
            /\ proc' = [proc EXCEPT ![got'] = Child("delete", k)]
  BY <1>0, ForkFacts
<1> HIDE DEF k
<1>3. UniqueKeys' /\ OffenderTime'
  BY <1>1 DEF IndInv, UniqueKeys, OffenderTime
<1>4. LoopInv'
  BY <1>1, <1>2 DEF LoopInv, k
<1>5. OwedInv'
  BY <1>1, <1>2 DEF IndInv, OwedInv
<1>6. DeleteInv'
  <2>1. \A n \in Positions : timeout_list[n].delete_pid > 0 =>
          /\ timeout_list[n].delete_pid \in Pids
          /\ proc[timeout_list[n].delete_pid] = Child("delete", timeout_list[n].key)
    BY <1>0, <1>1, EntryTypes DEF IndInv, DeleteInv
  <2>2. \A q \in Pids, x \in Keys : proc[q] = Child("delete", x) =>
          \E n \in Positions : timeout_list[n].key = x /\ timeout_list[n].delete_pid = q
    BY <1>1 DEF IndInv, DeleteInv
  <2>3. CASE got' = -1 /\ proc' = proc
    BY <1>1, <2>1, <2>2, <2>3 DEF DeleteInv
  <2>4. CASE /\ got' \in Pids /\ proc[got'] = Free
             /\ proc' = [proc EXCEPT ![got'] = Child("delete", k)]
    <3>1. proc'[got'] = Child("delete", k) /\ \A q \in Pids : q # got' => proc'[q] = proc[q]
      BY <1>0, <2>4 DEF StateOK
    <3>2. \A n \in Positions : timeout_list[n].delete_pid > 0 =>
            timeout_list[n].delete_pid # got'
      BY <2>1, <2>4, ChildrenAre
    <3>3. \A n \in Positions : timeout_list[n].delete_pid > 0 =>
            proc'[timeout_list[n].delete_pid] = Child("delete", timeout_list[n].key)
      BY <2>1, <3>1, <3>2
    <3>4. ASSUME NEW q \in Pids, NEW x \in Keys, proc'[q] = Child("delete", x)
          PROVE  \/ \E n \in Positions : timeout_list[n].key = x /\ timeout_list[n].delete_pid = q
                 \/ got' = q /\ k = x
      BY <2>2, <3>1, <3>4, ChildrenAre
    <3> QED
      BY <1>1, <3>1, <3>3, <3>4 DEF DeleteInv, k
  <2> QED
    BY <1>2, <2>3, <2>4
<1> QED
  BY <1>3, <1>4, <1>5, <1>6 DEF IndInv

(* Its pid, or -1, is stored in the entry.                                 *)
LEMMA PidStored ==
  ASSUME StateOK, i \in Positions, Launched
  PROVE  /\ timeout_list' \in Seq(Entries) /\ Len(timeout_list') = Len(timeout_list)
         /\ \A n \in Positions : /\ timeout_list'[n].key = timeout_list[n].key
                                 /\ timeout_list'[n].block = timeout_list[n].block
                                 /\ timeout_list'[n].delete_pid =
                                      IF n = i THEN got ELSE timeout_list[n].delete_pid
<1> DEFINE e == [timeout_list[i] EXCEPT !.delete_pid = got]
<1>1. /\ e \in Entries /\ e.key = timeout_list[i].key /\ e.block = timeout_list[i].block
      /\ e.delete_pid = got
  BY EntryTypes DEF Entries, StateOK
<1>2. timeout_list' = [timeout_list EXCEPT ![i] = e]
  BY DEF Launched
<1> HIDE DEF e
<1>3. /\ timeout_list' \in Seq(Entries) /\ Len(timeout_list') = Len(timeout_list)
      /\ \A n \in Positions : timeout_list'[n] = IF n = i THEN e ELSE timeout_list[n]
  BY <1>1, <1>2, ExceptSeq DEF StateOK, Positions
<1> QED
  BY <1>1, <1>3

LEMMA LaunchedKeeps ==
  ASSUME IndInv, StateOK', Launched
  PROVE  IndInv'
<1>0. StateOK /\ pc = "launched" /\ pc' = "launch" /\ i' = i + 1 /\ UNCHANGED <<repeated_hash, proc, owed>>
  BY DEF IndInv, Launched
<1>1. i \in Positions /\ timeout_list[i].delete_pid <= 0 /\ (got > 0 => timeout_list[i].key \notin owed)
  BY <1>0 DEF IndInv, LoopInv
<1>2. /\ Len(timeout_list') = Len(timeout_list)
      /\ \A n \in Positions : /\ timeout_list'[n].key = timeout_list[n].key
                              /\ timeout_list'[n].block = timeout_list[n].block
                              /\ timeout_list'[n].delete_pid =
                                   IF n = i THEN got ELSE timeout_list[n].delete_pid
  BY <1>0, <1>1, PidStored
<1>3. Positions' = Positions /\ ~Stopping /\ ~Stopping'
  BY <1>0, <1>2 DEF Positions, Stopping, Handler
<1>4. UniqueKeys'
  BY <1>2, <1>3 DEF IndInv, UniqueKeys
<1>5. OffenderTime'
  <2>1. DOMAIN timeout_list' = Positions' /\ DOMAIN timeout_list = Positions
    BY <1>0, LenProperties DEF StateOK, Positions
  <2> QED
    BY <1>0, <1>2, <1>3, <2>1 DEF IndInv, OffenderTime
<1>6. LoopInv'
  BY <1>0, <1>1 DEF LoopInv, Positions
<1>7. OwedInv'
  <2>1. ASSUME NEW k \in owed
        PROVE  \E n \in Positions : timeout_list'[n].key = k /\ timeout_list'[n].delete_pid <= 0
    <3>1. PICK n \in Positions : timeout_list[n].key = k /\ timeout_list[n].delete_pid <= 0
      BY <1>0, <1>3 DEF IndInv, OwedInv
    <3>2. n = i => got <= 0
      BY <1>0, <1>1, <2>1, <3>1, PidsPositive DEF StateOK
    <3> QED
      BY <1>2, <3>1, <3>2
  <2> QED
    BY <1>0, <1>3, <2>1 DEF IndInv, OwedInv
<1>8. DeleteInv'
  <2>1. \A n \in Positions : timeout_list'[n].delete_pid > 0 =>
          proc[timeout_list'[n].delete_pid] = Child("delete", timeout_list'[n].key)
    BY <1>0, <1>2, <1>3 DEF IndInv, DeleteInv
  <2>2. ASSUME NEW q \in Pids, NEW k \in Keys, proc[q] = Child("delete", k)
        PROVE  \E n \in Positions : timeout_list'[n].key = k /\ timeout_list'[n].delete_pid = q
    <3>1. CASE \E n \in Positions : timeout_list[n].key = k /\ timeout_list[n].delete_pid = q
      BY <1>1, <1>2, <3>1, PidsPositive
    <3>2. CASE got = q /\ timeout_list[i].key = k
      BY <1>1, <1>2, <3>2
    <3> QED
      BY <1>3, <2>2, <3>1, <3>2 DEF IndInv, DeleteInv
  <2> QED
    BY <1>0, <1>3, <2>1, <2>2 DEF DeleteInv
<1> QED
  BY <1>4, <1>5, <1>6, <1>7, <1>8 DEF IndInv

(* The script is started with "add".                                       *)
LEMMA AddKeeps ==
  ASSUME IndInv, StateOK', Add
  PROVE  IndInv'
<1>0. /\ StateOK /\ owed \cap Plain = {} /\ req \in Keys
      /\ pc = "add" /\ pc' = "added" /\ UNCHANGED <<req, timeout_list, repeated_hash>>
  BY DEF IndInv, OwedInv, StateOK, Add, data
<1>1. Positions' = Positions /\ ~Stopping /\ ~Stopping'
  BY <1>0 DEF Positions, Stopping, Handler
<1>2. /\ owed' \cap Plain = {} /\ owed' \subseteq owed \cup {req}
      /\ \/ proc' = proc
         \/ /\ got' \in Pids /\ proc[got'] = Free
            /\ proc' = [proc EXCEPT ![got'] = Child("add", req)]
  <2>1. ExecCmd("add", req)
    BY DEF Add
  <2> QED
    BY <1>0, <2>1, ForkFacts
<1>3. UniqueKeys' /\ OffenderTime' /\ LoopInv'
  BY <1>0, <1>1 DEF IndInv, UniqueKeys, OffenderTime, LoopInv
<1>4. OwedInv'
  BY <1>0, <1>1, <1>2 DEF IndInv, OwedInv
<1>5. \A q \in Pids, k \in Keys : proc'[q] = Child("delete", k) <=> proc[q] = Child("delete", k)
  BY <1>0, <1>2, ChildrenAre DEF StateOK
<1>6. DeleteInv'
  <2>1. \A n \in Positions : timeout_list[n].delete_pid > 0 =>
          /\ timeout_list[n].delete_pid \in Pids /\ timeout_list[n].key \in Keys
          /\ proc[timeout_list[n].delete_pid] = Child("delete", timeout_list[n].key)
    BY <1>0, <1>1, EntryTypes DEF IndInv, DeleteInv
  <2>2. \A q \in Pids, k \in Keys : proc[q] = Child("delete", k) =>
          \E n \in Positions : timeout_list[n].key = k /\ timeout_list[n].delete_pid = q
    BY <1>0, <1>1 DEF IndInv, DeleteInv
  <2> QED
    BY <1>0, <1>1, <1>5, <2>1, <2>2 DEF DeleteInv
<1> QED
  BY <1>3, <1>4, <1>6 DEF IndInv

(* The entry of a response with a timeout is listed at the end.            *)
LEMMA AddedList ==
  ASSUME IndInv, Added
  PROVE  /\ repeated_hash' \in [Keys -> -1 .. Offenders]
         /\ timeout_list' \in Seq(Entries)
         /\ req \in Plain => UNCHANGED <<timeout_list, repeated_hash>>
         /\ req \notin Plain =>
              /\ Len(timeout_list') = Len(timeout_list) + 1
              /\ \A n \in Positions : timeout_list'[n] = timeout_list[n]
              /\ timeout_list'[Len(timeout_list) + 1].key = req
              /\ timeout_list'[Len(timeout_list) + 1].delete_pid = 0
              /\ Offenders > 0 =>
                   /\ timeout_list'[Len(timeout_list) + 1].block = repeated_hash'[req]
                   /\ \A k \in Keys \ {req} : repeated_hash'[k] = repeated_hash[k]
<1>0. StateOK /\ req \in Keys
  BY DEF IndInv, StateOK
<1>1. CASE req \in Plain
  BY <1>0, <1>1 DEF Added, StateOK
<1>2. CASE req \notin Plain
  <2> DEFINE b == IF Offenders = 0 THEN 0 ELSE Seen(req)
             e == [key |-> req, block |-> b, expired |-> FALSE, delete_pid |-> 0]
  <2>1. b \in 0 .. Offenders
    BY <1>0, SeenType, PidsPositive
  <2>2. e \in Entries /\ e.key = req /\ e.delete_pid = 0 /\ e.block = b
    <3> HIDE DEF b
    <3> QED
      BY <1>0, <2>1 DEF Entries
  <2>3. /\ timeout_list' = Append(timeout_list, e)
        /\ repeated_hash' = IF Offenders = 0 THEN repeated_hash
                            ELSE [repeated_hash EXCEPT ![req] = Seen(req)]
    BY <1>2 DEF Added
  <2> HIDE DEF e
  <2>4. /\ timeout_list' \in Seq(Entries)
        /\ Len(timeout_list') = Len(timeout_list) + 1
        /\ \A n \in Positions : timeout_list'[n] = timeout_list[n]
        /\ timeout_list'[Len(timeout_list) + 1] = e
    BY <1>0, <2>2, <2>3, AppendProperties DEF StateOK, Positions
  <2>5. repeated_hash' \in [Keys -> -1 .. Offenders]
    BY <1>0, <2>3, SeenType, PidsPositive DEF StateOK
  <2>6. Offenders > 0 => /\ b = repeated_hash'[req]
                         /\ \A k \in Keys \ {req} : repeated_hash'[k] = repeated_hash[k]
    BY <1>0, <2>3 DEF StateOK
  <2> QED
    BY <1>2, <2>2, <2>4, <2>5, <2>6
<1> QED
  BY <1>1, <1>2

LEMMA AddedKeeps ==
  ASSUME IndInv, StateOK', Added
  PROVE  IndInv'
<1> DEFINE L == Len(timeout_list)
<1>0. /\ StateOK /\ req \in Keys /\ L \in Nat
      /\ pc = "added" /\ pc' = "reap" /\ UNCHANGED <<req, proc, owed>>
  BY Domain DEF IndInv, StateOK, Added
<1>1. ~Stopping /\ ~Stopping'
  BY <1>0 DEF Stopping, Handler
<1>2. \A n \in Positions : timeout_list[n].key # req
  BY <1>0 DEF IndInv, LoopInv
<1>3. LoopInv'
  BY <1>0 DEF LoopInv
<1>4. CASE req \in Plain
  <2>1. UNCHANGED <<timeout_list, repeated_hash>> /\ req \notin owed /\ Positions' = Positions
    BY <1>4, AddedList DEF IndInv, OwedInv, Positions
  <2>2. UniqueKeys' /\ OffenderTime' /\ OwedInv'
    BY <1>0, <1>1, <2>1 DEF IndInv, UniqueKeys, OffenderTime, OwedInv
  <2>3. DeleteInv'
    BY <1>0, <1>1, <2>1 DEF IndInv, DeleteInv
  <2> QED
    BY <1>3, <2>2, <2>3 DEF IndInv
<1>5. CASE req \notin Plain
  <2>1. /\ Len(timeout_list') = L + 1
        /\ \A n \in Positions : timeout_list'[n] = timeout_list[n]
        /\ timeout_list'[L + 1].key = req /\ timeout_list'[L + 1].delete_pid = 0
        /\ Offenders > 0 =>
             /\ timeout_list'[L + 1].block = repeated_hash'[req]
             /\ \A k \in Keys \ {req} : repeated_hash'[k] = repeated_hash[k]
    BY <1>5, AddedList
  <2>2. /\ \A n \in Positions' : n \in Positions \/ n = L + 1
        /\ L + 1 \in Positions' /\ \A n \in Positions : n \in Positions'
    BY <1>0, <2>1 DEF Positions
  <2> HIDE DEF L
  <2>3. UniqueKeys'
    BY <1>2, <2>1, <2>2 DEF IndInv, UniqueKeys
  <2>4. OffenderTime'
    <3>1. DOMAIN timeout_list' = Positions' /\ DOMAIN timeout_list = Positions
      BY <1>0, LenProperties DEF StateOK, Positions
    <3>2. ASSUME Offenders > 0, NEW n \in Positions'
          PROVE  timeout_list'[n].block = repeated_hash'[timeout_list'[n].key]
      <4>1. CASE n \in Positions
        <5>1. /\ timeout_list[n].block = repeated_hash[timeout_list[n].key]
              /\ timeout_list[n].key \in Keys \ {req}
          BY <1>0, <1>2, <3>1, <3>2, <4>1, EntryTypes DEF IndInv, OffenderTime
        <5> QED
          BY <2>1, <3>2, <4>1, <5>1
      <4>2. CASE n = L + 1
        BY <2>1, <3>2, <4>2
      <4> QED
        BY <2>2, <4>1, <4>2
    <3> QED
      BY <3>1, <3>2 DEF OffenderTime
  <2>5. OwedInv'
    <3>1. ASSUME NEW k \in owed
          PROVE  \E n \in Positions' : timeout_list'[n].key = k /\ timeout_list'[n].delete_pid <= 0
      <4>1. CASE k = req
        BY <2>1, <2>2, <4>1
      <4>2. CASE k # req
        <5>1. PICK n \in Positions : timeout_list[n].key = k /\ timeout_list[n].delete_pid <= 0
          BY <1>1, <4>2 DEF IndInv, OwedInv
        <5> QED
          BY <2>1, <2>2, <5>1
      <4> QED
        BY <4>1, <4>2
    <3> QED
      BY <1>0, <3>1 DEF IndInv, OwedInv
  <2>6. DeleteInv'
    <3>1. \A n \in Positions' : timeout_list'[n].delete_pid > 0 =>
            proc[timeout_list'[n].delete_pid] = Child("delete", timeout_list'[n].key)
      BY <1>1, <2>1, <2>2 DEF IndInv, DeleteInv
    <3>2. \A q \in Pids, k \in Keys : proc[q] = Child("delete", k) =>
            \E n \in Positions' : timeout_list'[n].key = k /\ timeout_list'[n].delete_pid = q
      BY <1>0, <1>1, <2>1, <2>2 DEF IndInv, DeleteInv
    <3> QED
      BY <1>0, <3>1, <3>2 DEF DeleteInv
  <2> QED
    BY <1>3, <2>3, <2>4, <2>5, <2>6 DEF IndInv
<1> QED
  BY <1>4, <1>5

(* The handler: it stays in its own steps, and takes nodes from the front. *)
LEMMA HandlerKeeps ==
  ASSUME IndInv, StateOK', Stopping, Stopping', owed' \cap Plain = {},
         repeated_hash' = repeated_hash,
         pc' \in {"h_forked", "h_wait"} => timeout_list' # <<>>,
         timeout_list' = timeout_list \/
           (timeout_list # <<>> /\ timeout_list' = Tail(timeout_list))
  PROVE  IndInv'
<1>0. StateOK /\ Len(timeout_list) \in Nat
  BY Domain DEF IndInv
<1>1. \/ timeout_list' = timeout_list
      \/ /\ Len(timeout_list') = Len(timeout_list) - 1
         /\ \A n \in 1 .. Len(timeout_list') : timeout_list'[n] = timeout_list[n + 1]
  BY <1>0, HeadTailProperties DEF StateOK
<1>2. PICK d \in {0, 1} : \A n \in Positions' :
        n + d \in Positions /\ timeout_list'[n] = timeout_list[n + d] /\ n \in Nat
  <2>1. CASE timeout_list' = timeout_list
    <3>1. \A n \in Positions' :
            n + 0 \in Positions /\ timeout_list'[n] = timeout_list[n + 0] /\ n \in Nat
      BY <2>1 DEF Positions
    <3> QED
      BY <3>1
  <2>2. CASE /\ Len(timeout_list') = Len(timeout_list) - 1
             /\ \A n \in 1 .. Len(timeout_list') : timeout_list'[n] = timeout_list[n + 1]
    <3>1. \A n \in Positions' :
            n + 1 \in Positions /\ timeout_list'[n] = timeout_list[n + 1] /\ n \in Nat
      BY <1>0, <2>2 DEF Positions
    <3> QED
      BY <3>1
  <2> QED
    BY <1>1, <2>1, <2>2
<1>3. UniqueKeys'
  BY <1>2 DEF IndInv, UniqueKeys
<1>4. OffenderTime'
  <2>1. DOMAIN timeout_list' = Positions' /\ DOMAIN timeout_list = Positions
    BY <1>0, LenProperties DEF StateOK, Positions
  <2> QED
    BY <1>2, <2>1 DEF IndInv, OffenderTime
<1>5. LoopInv' /\ OwedInv' /\ DeleteInv'
  BY DEF LoopInv, OwedInv, DeleteInv, Stopping, Handler
<1> QED
  BY <1>3, <1>4, <1>5 DEF IndInv

-----------------------------------------------------------------------------
LEMMA InitIndInv == Init => IndInv
<1> SUFFICES ASSUME Init PROVE IndInv
  OBVIOUS
<1>1. (CHOOSE k \in Keys : TRUE) \in Keys
  BY ExecdAssumption
<1>2. timeout_list \in Seq(Entries) /\ Len(timeout_list) = 0 /\ DOMAIN timeout_list = {}
  BY EmptySeq DEF Init
<1>3. StateOK
  BY <1>1, <1>2, PidsPositive DEF Init, StateOK
<1>4. UniqueKeys /\ LoopInv /\ OwedInv /\ OffenderTime
  BY <1>2 DEF Init, UniqueKeys, LoopInv, OwedInv, OffenderTime, Positions
<1>5. DeleteInv
  BY <1>2, ChildrenAre DEF Init, DeleteInv, Positions
<1> QED
  BY <1>3, <1>4, <1>5 DEF IndInv

LEMMA CollectType ==
  ASSUME StateOK, NEW p, Collect(p)
  PROVE  /\ p \in Pids /\ proc' = [proc EXCEPT ![p] = Free]
         /\ proc' \in [Pids -> {Free} \cup ({"add", "delete"} \X Keys)]
  BY DEF Collect, Children, StateOK

(* A step of the main loop, of the clock or of a child's end.              *)
LEMMA StepIndInv ==
  ASSUME IndInv, [Next]_vars
  PROVE  IndInv'
<1> USE DEF data
<1>0. StateOK /\ Len(timeout_list) \in Nat /\ owed \cap Plain = {}
  BY Domain DEF IndInv, OwedInv
<1>2. ASSUME NEW p \in Pids, Reap(p)
      PROVE  IndInv'
  <2>1. proc' = [proc EXCEPT ![p] = Free] /\ pc = "reap" /\ pc' = "reap"
        /\ proc' \in [Pids -> {Free} \cup ({"add", "delete"} \X Keys)]
        /\ UNCHANGED <<i, req, got, repeated_hash, owed, asked, failed>>
        /\ childcount' \in Nat
    BY <1>0, <1>2, CollectType DEF Reap, StateOK
  <2>2. ExecdTimeoutReapDelete(p)
    BY <1>2 DEF Reap
  <2>3. CASE \E N \in Positions : timeout_list[N].delete_pid = p
    <3>1. PICK N \in Positions : timeout_list[N].delete_pid = p
      BY <2>3
    <3>2. ~Stopping /\ p > 0
      BY <2>1, PidsPositive DEF Stopping, Handler
    <3>3. \A m \in 1 .. Len(timeout_list) : timeout_list[m].delete_pid = p => m = N
      BY <3>1, <3>2, UniquePids DEF Positions
    <3>4. N \in 1 .. Len(timeout_list) /\ timeout_list \in Seq(Entries)
      BY <1>0 DEF Positions, StateOK
    <3>5. timeout_list' = RemoveAt(timeout_list, N)
      BY <2>2, <3>1, <3>3, <3>4, ReapRemoves
    <3>6. timeout_list' \in Seq(Entries)
      BY <3>4, <3>5, RemoveAtProperties
    <3>7. StateOK'
      BY <1>0, <2>1, <3>6 DEF StateOK
    <3> QED
      BY <2>1, <3>1, <3>2, <3>5, <3>7, EntryDone
  <2>4. CASE \A n \in Positions : timeout_list[n].delete_pid # p
    <3>1. timeout_list' = timeout_list
      BY <2>2, <2>4, ReapKeeps DEF Positions
    <3>2. StateOK'
      BY <1>0, <2>1, <3>1 DEF StateOK
    <3> QED
      BY <2>1, <2>4, <3>1, <3>2, AddCollected
  <2> QED
    BY <2>3, <2>4
<1>3. ASSUME NEW k \in Keys, TimesOut(k)
      PROVE  IndInv'
  <2>1. /\ SameNodes /\ \A n \in Positions : timeout_list'[n].block = timeout_list[n].block
        /\ pc = "reap" /\ UNCHANGED <<pc, i, req, got, repeated_hash, childcount, proc, owed, asked, failed>>
    BY <1>0, <1>3, ExpireFacts DEF TimesOut
  <2>2. StateOK'
    BY <1>0, <2>1 DEF StateOK, SameNodes
  <2>3. OffenderTime'
    <3>1. DOMAIN timeout_list' = Positions /\ DOMAIN timeout_list = Positions
      BY <1>0, <2>1, LenProperties DEF StateOK, SameNodes, Positions
    <3> QED
      BY <2>1, <3>1 DEF IndInv, OffenderTime, SameNodes
  <2> QED
    BY <2>1, <2>2, <2>3, TimesChange
<1>4. CASE Prolong
  <2>1. /\ SameNodes /\ OffenderTime' /\ repeated_hash' \in [Keys -> -1 .. Offenders]
        /\ pc = "dup" /\ pc' = "reap"
        /\ UNCHANGED <<i, req, got, childcount, proc, owed, asked, failed>>
    BY <1>4, ProlongFacts DEF IndInv, Prolong
  <2>2. StateOK'
    BY <1>0, <2>1 DEF StateOK, SameNodes
  <2> QED
    BY <2>1, <2>2, TimesChange
<1>5. CASE WaitDelete
  <2>1. /\ pc = "dup" /\ pc' = "add"
        /\ Node(req) \in Positions /\ timeout_list[Node(req)].key = req
        /\ timeout_list[Node(req)].delete_pid > 0
        /\ timeout_list' = RemoveAt(timeout_list, Node(req))
        /\ UNCHANGED <<i, req, got, repeated_hash, owed, asked, failed>>
    BY <1>0, <1>5, NodeIs DEF WaitDelete
  <2>2. /\ proc' = [proc EXCEPT ![timeout_list[Node(req)].delete_pid] = Free]
        /\ proc' \in [Pids -> {Free} \cup ({"add", "delete"} \X Keys)]
    BY <1>0, <1>5, CollectType DEF WaitDelete
  <2>3. childcount' \in Nat
    BY <1>0, <1>5 DEF WaitDelete, StateOK
  <2>4. timeout_list' \in Seq(Entries)
    BY <1>0, <2>1, RemoveAtProperties DEF StateOK, Positions
  <2>5. StateOK'
    BY <1>0, <2>1, <2>2, <2>3, <2>4 DEF StateOK
  <2> QED
    BY <2>1, <2>2, <2>5, EntryDone
<1>6. CASE Launch
  <2>1. pc = "launch" /\ i \in Positions /\ UNCHANGED <<req, timeout_list, repeated_hash, childcount, asked>>
    BY <1>0, <1>6 DEF Launch, IndInv, LoopInv, StateOK, Positions
  <2>2. CASE Due(timeout_list[i])
    <3>1. /\ timeout_list[i].delete_pid <= 0 /\ ExecCmd("delete", timeout_list[i].key)
          /\ pc' = "launched" /\ i' = i
      BY <1>6, <2>2 DEF Launch, Due
    <3>2. timeout_list[i].key \in Keys
      BY <1>0, <2>1, EntryTypes
    <3>3. /\ got' \in Pids \cup {-1} /\ failed' \in Nat /\ owed' \subseteq Keys
          /\ proc' \in [Pids -> {Free} \cup ({"add", "delete"} \X Keys)]
      BY <1>0, <3>1, <3>2, ForkFacts
    <3>4. StateOK'
      BY <1>0, <2>1, <3>1, <3>3 DEF StateOK
    <3> QED
      BY <2>1, <3>1, <3>4, DeleteStarted
  <2>3. CASE ~Due(timeout_list[i])
    <3>1. i' = i + 1 /\ UNCHANGED <<pc, got, proc, owed, failed>>
      BY <1>6, <2>3 DEF Launch
    <3>2. StateOK'
      BY <1>0, <2>1, <3>1 DEF StateOK
    <3>3. i' >= 1 /\ ~Stopping
      BY <2>1, <3>1 DEF Positions, Stopping, Handler
    <3> QED
      BY <2>1, <3>1, <3>2, <3>3, MoveOn
  <2> QED
    BY <2>2, <2>3
<1>7. CASE Launched
  <2>1. i \in Positions
    BY <1>7 DEF IndInv, LoopInv, Launched
  <2>2. StateOK'
    BY <1>0, <1>7, <2>1, PidStored, SMTT(30) DEF StateOK, Launched
  <2> QED
    BY <1>7, <2>2, LaunchedKeeps
<1>8. CASE Add
  <2>1. ExecCmd("add", req) /\ req \in Keys /\ pc' = "added" /\ UNCHANGED <<i, req, data, asked>>
    BY <1>0, <1>8 DEF Add, StateOK
  <2>2. /\ got' \in Pids \cup {-1} /\ failed' \in Nat /\ owed' \subseteq Keys
        /\ proc' \in [Pids -> {Free} \cup ({"add", "delete"} \X Keys)]
    BY <1>0, <2>1, ForkFacts
  <2>3. StateOK'
    BY <1>0, <2>1, <2>2 DEF StateOK
  <2> QED
    BY <1>8, <2>3, AddKeeps
<1>9. CASE Added
  <2>1. StateOK'
    BY <1>0, <1>9, AddedList DEF StateOK, Added
  <2> QED
    BY <1>9, <2>1, AddedKeeps
<1>10. CASE \/ ReapEnds \/ LaunchEnds \/ SelectTimeout \/ DupCheckEnds \/ Signal
            \/ \E k \in Keys : Receive(k)
  <2>1. /\ UNCHANGED <<timeout_list, repeated_hash, proc, owed, failed, got, childcount>>
        /\ pc' \in {"reap", "launch", "select", "dup", "add", "h_next"}
        /\ ~Stopping' => pc \in {"reap", "launch", "select", "dup"}
    BY <1>10 DEF ReapEnds, LaunchEnds, SelectTimeout, DupCheckEnds, Signal, Receive,
       Stopping, Handler
  <2>2. i' \in Nat /\ req' \in Keys /\ asked' \in Nat /\ (pc' = "launch" => i' = 1)
    BY <1>0, <1>10 DEF ReapEnds, LaunchEnds, SelectTimeout, DupCheckEnds, Signal, Receive,
       StateOK, Handler
  <2>3. pc' \in {"add", "added"} => \A n \in Positions : timeout_list[n].key # req'
    <3>1. pc' \in {"add", "added"} => DupCheckEnds
      BY <1>10 DEF ReapEnds, LaunchEnds, SelectTimeout, Signal, Receive
    <3>2. DupCheckEnds => req' = req /\ \A n \in Positions : timeout_list[n].key # req
      BY <1>0, Domain DEF DupCheckEnds, Listed
    <3> QED
      BY <3>1, <3>2
  <2>4. StateOK'
    BY <1>0, <2>1, <2>2 DEF StateOK, Handler
  <2>5. ~Stopping' => ~Stopping /\ pc \notin {"added", "launched"}
    BY <2>1 DEF Stopping, Handler
  <2>6. pc' \notin {"launched", "h_forked", "h_wait"} /\ (pc' = "launch" => i' >= 1)
    BY <2>1, <2>2
  <2> QED
    BY <2>1, <2>3, <2>4, <2>5, <2>6, MoveOn
<1>11. CASE ShutdownNext
  <2>1. /\ pc = "h_next" /\ timeout_list # <<>>
        /\ UNCHANGED <<i, req, timeout_list, repeated_hash, childcount, asked>>
        /\ pc' \in Handler
    BY <1>11 DEF ShutdownNext, Handler
  <2>2. Head(timeout_list).key \in Keys
    <3>1. Head(timeout_list) \in Entries
      BY <1>0, <2>1, HeadTailProperties DEF StateOK
    <3> QED
      BY <3>1 DEF Entries
  <2>3. /\ got' \in Pids \cup {-1, 0} /\ failed' \in Nat /\ owed' \subseteq Keys
        /\ owed' \cap Plain = {}
        /\ proc' \in [Pids -> {Free} \cup ({"add", "delete"} \X Keys)]
    <3>1. CASE ExecCmd("delete", Head(timeout_list).key)
      BY <1>0, <2>2, <3>1, ForkFacts
    <3>2. CASE UNCHANGED <<got, proc, owed, failed>>
      BY <1>0, <3>2 DEF StateOK
    <3> QED
      BY <1>11, <3>1, <3>2 DEF ShutdownNext
  <2>4. StateOK'
    BY <1>0, <2>1, <2>3 DEF StateOK
  <2> QED
    BY <2>1, <2>3, <2>4, HandlerKeeps DEF Stopping, Handler
<1>12. CASE ShutdownWaitsAny \/ ShutdownWaitsDelete
  <2>1. NodeDone /\ pc \in Handler
    BY <1>12 DEF ShutdownWaitsAny, ShutdownWaitsDelete, Handler
  <2>2. proc' \in [Pids -> {Free} \cup ({"add", "delete"} \X Keys)]
    BY <1>0, <1>12, CollectType DEF ShutdownWaitsAny, ShutdownWaitsDelete, StateOK
  <2>3. CASE timeout_list # <<>>
    <3>1. timeout_list' \in Seq(Entries)
      BY <1>0, <2>1, <2>3, HeadTailProperties DEF StateOK, NodeDone
    <3>2. StateOK'
      BY <1>0, <2>1, <2>2, <3>1 DEF StateOK, NodeDone, Handler
    <3> QED
      BY <1>0, <2>1, <2>3, <3>2, HandlerKeeps DEF NodeDone, Stopping, Handler
  <2>4. timeout_list # <<>>
    BY <1>12 DEF IndInv, LoopInv, ShutdownWaitsAny, ShutdownWaitsDelete
  <2> QED
    BY <2>3, <2>4
<1>13. CASE HandleSIG
  <2>1. StateOK'
    BY <1>0, <1>13 DEF HandleSIG, StateOK
  <2> QED
    BY <1>0, <1>13, <2>1, HandlerKeeps DEF HandleSIG, Stopping, Handler
<1>14. CASE UNCHANGED vars
  <2>1. StateOK' /\ Positions' = Positions /\ Stopping' = Stopping
    BY <1>0, <1>14 DEF vars, StateOK, Positions, Stopping
  <2>2. UniqueKeys' /\ LoopInv' /\ OwedInv' /\ OffenderTime'
    BY <1>14, <2>1 DEF vars, IndInv, UniqueKeys, LoopInv, OwedInv, OffenderTime
  <2>3. DeleteInv'
    BY <1>14, <2>1 DEF vars, IndInv, DeleteInv
  <2> QED
    BY <2>1, <2>2, <2>3 DEF IndInv
<1> QED
  BY <1>2, <1>3, <1>4, <1>5, <1>6, <1>7, <1>8, <1>9, <1>10, <1>11, <1>12, <1>13, <1>14
     DEF Next, MainLoop, Shutdown

LEMMA Invariance == Spec => []IndInv
  BY InitIndInv, StepIndInv, PTL DEF Spec

-----------------------------------------------------------------------------
(* The theorems.                                                           *)

(* Every variable keeps its type, whatever forks fail and wherever a       *)
(* signal interrupts the loop (ExecdStart, execd_shutdown).                *)
THEOREM ExecdTypeCorrect == Spec => []TypeOK
<1>1. Init => TypeOK
  BY InitIndInv DEF IndInv, TypeOK, Init
<1>2. ASSUME IndInv, IndInv', TypeOK, [Next]_vars
      PROVE  TypeOK'
  <2>1. left' \subseteq Keys
    <3>1. CASE left' = left
      BY <1>2, <3>1 DEF TypeOK
    <3>2. CASE Signal
      BY <1>2, <3>2 DEF Signal, TypeOK, StateOK
    <3>3. CASE ShutdownNext
      <4>1. Head(timeout_list) \in Entries
        BY <1>2, <3>3, HeadTailProperties DEF ShutdownNext, TypeOK, StateOK
      <4>2. Head(timeout_list).key \in Keys
        BY <4>1 DEF Entries
      <4> QED
        BY <1>2, <3>3, <4>2 DEF ShutdownNext, TypeOK
    <3> QED
      BY <1>2, <3>1, <3>2, <3>3
         DEF Next, MainLoop, Shutdown, ReapEnds, Launch, Launched, LaunchEnds, SelectTimeout,
             Prolong, WaitDelete, DupCheckEnds, Add, Added, ShutdownWaitsAny,
             ShutdownWaitsDelete, NodeDone, HandleSIG, Receive, TimesOut, Reap, vars
  <2> QED
    BY <1>2, <2>1 DEF IndInv, TypeOK
<1> QED
  BY <1>1, <1>2, Invariance, PTL DEF Spec

(* A response that was started and not undone is on the list, once, and    *)
(* its "delete" is still to come: no failing fork, repeated request or     *)
(* collected child makes ExecdStart forget it.                             *)
THEOREM NothingForgotten == Spec => []OwedListed
<1>1. IndInv => OwedListed
  <2> SUFFICES ASSUME IndInv PROVE OwedListed
    OBVIOUS
  <2>1. DOMAIN timeout_list = Positions
    BY Domain DEF IndInv
  <2> QED
    BY <2>1 DEF IndInv, UniqueKeys, OwedInv, OwedListed
<1> QED
  BY <1>1, Invariance, PTL

(* The time of an entry goes with how often its offender was seen, on both *)
(* paths that count it (ExecdTimeoutDupCheck and ExecdStart).              *)
THEOREM TimesAgree == Spec => []OffenderTime
<1>1. IndInv => OffenderTime
  BY DEF IndInv
<1> QED
  BY <1>1, Invariance, PTL

(* While a "delete" runs ExecdStart starts nothing, neither an "add" nor   *)
(* another "delete", for the same response.                                *)
THEOREM NothingBesideAnUndo == Spec => UndoAlone
<1> DEFINE Alone == \A p \in Pids :
      proc[p] = Free /\ proc'[p] # Free /\ ~Stopping =>
        ~ \E q \in Pids : proc[q] = Child("delete", proc'[p][2])
<1>1. ASSUME IndInv, [Next]_vars
      PROVE  Alone
  <2> SUFFICES ASSUME NEW p \in Pids, proc[p] = Free, proc'[p] # Free, ~Stopping,
                      NEW q \in Pids, proc[q] = Child("delete", proc'[p][2])
               PROVE  FALSE
    OBVIOUS
  <2>0. StateOK /\ owed \cap Plain = {}
    BY <1>1 DEF IndInv, OwedInv
  <2>1. ASSUME NEW kind \in {"add", "delete"}, NEW k \in Keys, ExecCmd(kind, k)
        PROVE  proc'[p][2] = k
    <3>1. \/ proc' = proc
          \/ got' \in Pids /\ proc' = [proc EXCEPT ![got'] = Child(kind, k)]
      BY <2>0, <2>1, ForkFacts
    <3>2. proc'[p] = Child(kind, k)
      BY <2>0, <3>1 DEF StateOK
    <3> QED
      BY <3>2 DEF Child
  <2>2. ASSUME NEW r, Collect(r)
        PROVE  FALSE
    <3>1. r \in Pids /\ proc' = [proc EXCEPT ![r] = Free]
      BY <2>0, <2>2, CollectType
    <3> QED
      BY <2>0, <3>1 DEF StateOK
  <2>3. (pc = "launch" /\ Launch /\ Due(timeout_list[i])) \/ (pc = "add" /\ Add)
    <3>1. proc' # proc
      OBVIOUS
    <3>2. ~Shutdown
      BY DEF Shutdown, ShutdownNext, ShutdownWaitsAny, ShutdownWaitsDelete, HandleSIG,
         Stopping, Handler
    <3>3. ~WaitDelete /\ \A r \in Pids : ~Reap(r)
      BY <2>2 DEF WaitDelete, Reap
    <3>4. ~UNCHANGED vars /\ ~Signal /\ \A k \in Keys : ~Receive(k) /\ ~TimesOut(k)
      BY <3>1 DEF vars, Signal, Receive, TimesOut
    <3>5. Launch \/ Add
      BY <1>1, <3>1, <3>2, <3>3, <3>4 DEF Next, MainLoop, ReapEnds, Launched, LaunchEnds,
         SelectTimeout, Prolong, DupCheckEnds, Added
    <3> QED
      BY <3>1, <3>5 DEF Launch, Add
  <2>4. CASE pc = "launch" /\ Launch /\ Due(timeout_list[i])
    <3>1. i \in Positions
      BY <1>1, <2>0, <2>4, Domain DEF Launch, IndInv, LoopInv, StateOK, Positions
    <3>2. timeout_list[i].key \in Keys /\ timeout_list[i].delete_pid <= 0
      BY <2>0, <2>4, <3>1, EntryTypes DEF Due
    <3>3. proc'[p][2] = timeout_list[i].key
      BY <2>1, <2>4, <3>2 DEF Launch
    <3>4. PICK n \in Positions : /\ timeout_list[n].key = timeout_list[i].key
                                 /\ timeout_list[n].delete_pid = q
      BY <1>1, <2>4, <3>2, <3>3 DEF IndInv, DeleteInv
    <3>5. n = i
      BY <1>1, <3>1, <3>4 DEF IndInv, UniqueKeys
    <3> QED
      BY <3>2, <3>4, <3>5, PidsPositive
  <2>5. CASE pc = "add" /\ Add
    <3>1. proc'[p][2] = req /\ req \in Keys
      BY <2>0, <2>1, <2>5 DEF Add, StateOK
    <3>2. \E n \in Positions : timeout_list[n].key = req
      BY <1>1, <2>5, <3>1 DEF IndInv, DeleteInv
    <3> QED
      BY <1>1, <2>5, <3>2 DEF IndInv, LoopInv
  <2> QED
    BY <2>3, <2>4, <2>5
<1>2. IndInv /\ [Next]_vars => [Alone]_vars
  BY <1>1
<1> QED
  BY <1>2, Invariance, PTL DEF Spec, UndoAlone
=============================================================================
