-------------------------- MODULE SyscheckDbProofs --------------------------
(***************************************************************************)
(* Proofs about the integrity database (SyscheckDb), for every set of      *)
(* files, threads and reports, and any number of crashes, failed writes    *)
(* and commands.                                                           *)
(***************************************************************************)
EXTENDS SyscheckDb, SequenceTheorems, FiniteSetTheorems, TLAPS

-----------------------------------------------------------------------------
(* The inductive invariant, in parts.                                      *)

(* One thread at a time is between the lookup and the end of an update,    *)
(* with the database open.                                                 *)
LockInv == \A t \in Threads : Holding(t) => built /\ \A u \in Threads : Holding(u) => t = u

(* What a thread has decided for a file that has the entry old, and of     *)
(* which the agent reported s.                                             *)
Settled(j, old, s) ==
    /\ old # None /\ j.kind # "new"
    /\ j.sum = fim_sum_keep_hashes(old.sum, s) /\ j.sum # old.sum
    /\ IF fim_sum_has_real_change(old.sum, j.sum) /\ ~j.maint
       THEN /\ j.kind = "alert" /\ j.mark = NextMark(old.mark)
            /\ auto => Changes(old.mark) < 3
            /\ j.event = Reported(old.sum, j.sum, old.mark, auto)
       ELSE /\ j.mark = 0
            /\ j.kind = IF fim_sum_has_real_change(old.sum, j.sum) THEN "accept" ELSE "quiet"

(* It fits the index until the thread is done.                             *)
JobOf(t) ==
    /\ th[t].pc = "search" => th[t].msg \in FileReports
    /\ Holding(t) => /\ th[t].msg \in FileReports /\ th[t].job \in Jobs
                     /\ th[t].job.file = th[t].msg.file
    /\ th[t].pc = "new" => /\ index[th[t].job.file] = None
                           /\ th[t].job.sum = th[t].msg.sum /\ th[t].job.event = "new"
    /\ th[t].pc \in {"comment", "append"} =>
         Settled(th[t].job, index[th[t].job.file], th[t].msg.sum)
JobInv == \A t \in Threads : JobOf(t)

(* A row that is not commented out is the one the index has; it is         *)
(* commented out before the new one is written.                            *)
RowsInv ==
    /\ OneLiveRow
    /\ built => \A i \in DOMAIN rows : rows[i].live =>
         index[rows[i].file] = [pos |-> i, sum |-> rows[i].sum, mark |-> rows[i].mark]
    /\ \A t \in Threads : th[t].pc = "append" =>
         \A i \in DOMAIN rows : rows[i].live => rows[i].file # th[t].job.file

(* The last real hash of a file is in the database.                        *)
KnownInv == \A f \in Files : known[f] # None =>
    View[f] # None /\ View[f].sum # Deleted /\ View[f].sum.hash = known[f]

(* Where the row of a new file can always be written, the index never      *)
(* points beyond the file, nor at the row of another file.                 *)
PlaceInv == "new" \notin Fails =>
    /\ ~stub
    /\ built => \A f \in Files : index[f] # None =>
         index[f].pos \in DOMAIN rows /\ rows[index[f].pos].file = f

IndInv == TypeOK /\ LockInv /\ JobInv /\ RowsInv /\ KnownInv /\ PlaceInv

-----------------------------------------------------------------------------
(* Sums and marks.                                                         *)

LEMMA SumsType ==
  ASSUME NEW old \in Sums, NEW new \in Sums
  PROVE  /\ fim_sum_keep_hashes(old, new) \in Sums
         /\ fim_sum_keep_hashes(old, new) = Deleted <=> new = Deleted
         /\ new # Deleted =>
              fim_sum_keep_hashes(old, new).hash =
                IF new.hash = Xxx /\ old # Deleted THEN old.hash ELSE new.hash
<1>1. CASE old # Deleted /\ new # Deleted /\ new.hash = Xxx
  <2>1. old \in Present /\ new \in Present /\ Deleted \notin Present
    BY <1>1, FimSumAssumption DEF Sums, FimSumAssumption
  <2>2. [new EXCEPT !.hash = old.hash] \in Present /\ [new EXCEPT !.hash = old.hash].hash = old.hash
    BY <2>1 DEF Present
  <2> QED
    BY <1>1, <2>1, <2>2 DEF fim_sum_keep_hashes, Sums
<1>2. CASE ~(old # Deleted /\ new # Deleted /\ new.hash = Xxx)
  BY <1>2 DEF fim_sum_keep_hashes
<1> QED
  BY <1>1, <1>2

LEMMA MarksType ==
  ASSUME NEW n \in Marks
  PROVE  NextMark(n) \in Marks /\ 0 \in Marks /\ New \in Marks
BY DEF Marks, NextMark, Changes, New

LEMMA ReportedType ==
  ASSUME NEW old, NEW new, NEW n, NEW a
  PROVE  Reported(old, new, n, a) \in Kinds
BY DEF Reported, Kinds

-----------------------------------------------------------------------------
(* The index.                                                              *)

OneLive(r) == \A i, j \in DOMAIN r : r[i].live /\ r[j].live /\ r[i].file = r[j].file => i = j

(* An index has the rows of the file that are not commented out.           *)
Fits(idx, r) == \A i \in DOMAIN r : r[i].live =>
    idx[r[i].file] = [pos |-> i, sum |-> r[i].sum, mark |-> r[i].mark]

LEMMA BuildIndex ==
  ASSUME NEW r \in Seq(Rows), OneLive(r)
  PROVE  /\ DB_BuildIndex(r) \in [Files -> Entries \cup {None}]
         /\ Fits(DB_BuildIndex(r), r)
         /\ \A f \in Files : DB_BuildIndex(r)[f] # None =>
              \E i \in DOMAIN r : r[i].live /\ r[i].file = f /\ DB_BuildIndex(r)[f].pos = i
<1> DEFINE at(f) == {i \in DOMAIN r : r[i].file = f /\ r[i].live}
           e(i) == [pos |-> i, sum |-> r[i].sum, mark |-> r[i].mark]
<1>1. /\ DOMAIN r = 1 .. Len(r) /\ Len(r) \in Nat
      /\ \A i \in DOMAIN r : r[i] \in Rows /\ r[i].file \in Files /\ e(i) \in Entries
  <2>1. /\ DOMAIN r = 1 .. Len(r) /\ Len(r) \in Nat
        /\ \A i \in DOMAIN r : r[i] \in Rows
    BY LenProperties, ElementOfSeq
  <2>2. \A x \in Rows : x.file \in Files /\ x.sum \in Sums /\ x.mark \in Marks
    BY DEF Rows
  <2>3. \A i \in DOMAIN r : i \in Nat \ {0}
    BY <2>1
  <2>4. \A i \in DOMAIN r : e(i) \in Entries
    BY <2>1, <2>2, <2>3 DEF Entries
  <2> QED
    BY <2>1, <2>2, <2>4
<1>2. DB_BuildIndex(r) = [f \in Files |-> IF at(f) = {} THEN None ELSE e(Max(at(f)))]
  BY DEF DB_BuildIndex
<1>3. ASSUME NEW f \in Files, NEW i \in DOMAIN r, r[i].file = f, r[i].live
      PROVE  DB_BuildIndex(r)[f] = e(i)
  <2>1. at(f) = {i}
    BY <1>3 DEF OneLive
  <2>2. Max({i}) = i
    BY <1>1 DEF Max
  <2> HIDE DEF at
  <2> QED
    BY <1>2, <2>1, <2>2
<1>4. ASSUME NEW f \in Files
      PROVE  \/ DB_BuildIndex(r)[f] = None
             \/ \E i \in DOMAIN r : r[i].live /\ r[i].file = f /\ DB_BuildIndex(r)[f] = e(i)
  <2>1. CASE at(f) = {}
    <3> HIDE DEF at, e
    <3> QED
      BY <1>2, <2>1
  <2>2. CASE at(f) # {}
    BY <1>3, <2>2
  <2> QED
    BY <2>1, <2>2
<1>5. DB_BuildIndex(r) \in [Files -> Entries \cup {None}]
  <2>1. \A f \in Files : DB_BuildIndex(r)[f] \in Entries \cup {None}
    BY <1>1, <1>4
  <2>2. DB_BuildIndex(r) = [f \in Files |-> DB_BuildIndex(r)[f]]
    BY DEF DB_BuildIndex
  <2> QED
    BY <2>1, <2>2
<1> QED
  BY <1>1, <1>3, <1>4, <1>5 DEF Fits

(* So has what the thread that looks a file up finds.                      *)
LEMMA ViewFits ==
  ASSUME TypeOK, RowsInv, PlaceInv
  PROVE  /\ View \in [Files -> Entries \cup {None}] /\ Fits(View, rows)
         /\ built => View = index
         /\ "new" \notin Fails => \A f \in Files : View[f] # None =>
              View[f].pos \in DOMAIN rows /\ rows[View[f].pos].file = f
<1>1. CASE built
  BY <1>1 DEF TypeOK, RowsInv, PlaceInv, View, Fits
<1>2. CASE ~built
  <2>1. rows \in Seq(Rows) /\ OneLive(rows) /\ View = DB_BuildIndex(rows)
    BY <1>2 DEF TypeOK, RowsInv, OneLiveRow, OneLive, View
  <2> QED
    BY <1>2, <2>1, BuildIndex
<1> QED
  BY <1>1, <1>2

(* One row at most fits a file.                                            *)
LEMMA FitsOneLive ==
  ASSUME NEW idx, NEW r, Fits(idx, r)
  PROVE  OneLive(r)
<1> SUFFICES ASSUME NEW i \in DOMAIN r, NEW j \in DOMAIN r,
                    r[i].live, r[j].live, r[i].file = r[j].file
             PROVE  i = j
  BY DEF OneLive
<1>1. [pos |-> i, sum |-> r[i].sum, mark |-> r[i].mark] =
      [pos |-> j, sum |-> r[j].sum, mark |-> r[j].mark]
  BY DEF Fits
<1> QED
  BY <1>1

-----------------------------------------------------------------------------
(* The threads.                                                            *)

ThreadStates == [pc : Places, msg : Messages \cup {None}, job : Jobs \cup {None}]

LEMMA Moves ==
  ASSUME TypeOK, NEW t \in Threads, NEW l \in Places, Goto(t, l)
  PROVE  /\ th' \in [Threads -> ThreadStates]
         /\ th'[t].pc = l
         /\ l # "idle" => th'[t].msg = th[t].msg /\ th'[t].job = th[t].job
         /\ \A u \in Threads \ {t} : th'[u] = th[u]
<1>1. th \in [Threads -> ThreadStates] /\ th[t] \in ThreadStates
  BY DEF TypeOK, ThreadStates
<1>2. th' = [th EXCEPT ![t] = IF l = "idle" THEN Idle ELSE [th[t] EXCEPT !.pc = l]]
  BY DEF Goto
<1>3. Idle \in ThreadStates /\ Idle.pc = "idle"
  BY DEF Idle, ThreadStates, Places
<1>4. /\ [th[t] EXCEPT !.pc = l] \in ThreadStates
      /\ [th[t] EXCEPT !.pc = l].pc = l
      /\ [th[t] EXCEPT !.pc = l].msg = th[t].msg
      /\ [th[t] EXCEPT !.pc = l].job = th[t].job
  BY <1>1 DEF ThreadStates
<1> QED
  BY <1>1, <1>2, <1>3, <1>4

-----------------------------------------------------------------------------
(* What the steps do to the database and to the threads.                   *)

data == <<rows, stub, built, index, known, auto, alert>>

(* The thread keeps nothing that it has decided but not yet done.          *)
Aside(t) ==
    /\ UNCHANGED data
    /\ th' \in [Threads -> ThreadStates] /\ \A u \in Threads \ {t} : th'[u] = th[u]
    /\ th'[t].pc \notin {"new", "comment", "append"}
    /\ th'[t].pc = "search" => th'[t].msg \in FileReports
    /\ Holding(t)' => /\ Holding(t) /\ th'[t].msg = th[t].msg /\ th'[t].job \in Jobs
                      /\ th'[t].job.file = th[t].job.file /\ th'[t].job.maint = th[t].job.maint

LEMMA Asides ==
  ASSUME IndInv, NEW t \in Threads,
         \/ Take(t) \/ AppendFails(t) \/ BumpRead(t) \/ BumpWrite(t)
         \/ DB_SetCompleted(t) \/ ReadPending(t) \/ ClearMarker(t)
  PROVE  Aside(t)
<1>1. /\ TypeOK /\ JobOf(t) /\ th \in [Threads -> ThreadStates] /\ th[t] \in ThreadStates
      /\ marker \in {"off", "on", "pending"} /\ queue \in Seq(Messages)
  BY DEF IndInv, TypeOK, ThreadStates, JobInv
<1>2. UNCHANGED data
  BY DEF Take, AppendFails, BumpRead, BumpWrite, DB_SetCompleted, ReadPending, ClearMarker,
         data, disk, memory
<1>3. ASSUME NEW l \in {"idle", "pending", "clear"}, Goto(t, l)
      PROVE  Aside(t)
  BY <1>1, <1>2, <1>3, Moves DEF Aside, Holding, Places
<1>4. CASE Take(t)
  <2> DEFINE m == Head(queue)
             x == [pc |-> IF m \in {Completed, Rescanned} THEN "completed" ELSE "search",
                   msg |-> m, job |-> None]
  <2>1. m \in Messages /\ th' = [th EXCEPT ![t] = x]
    BY <1>1, <1>4, HeadTailProperties DEF Take
  <2> HIDE DEF m
  <2>2. /\ x \in ThreadStates /\ x.pc \in {"completed", "search"} /\ x.msg = m
        /\ x.pc = "search" => m \in FileReports
    BY <2>1 DEF ThreadStates, Places, Messages
  <2> HIDE DEF x
  <2> QED
    BY <1>1, <1>2, <2>1, <2>2 DEF Aside, Holding
<1>5. CASE BumpRead(t)
  <2>1. CASE marker = "off"
    BY <1>3, <1>5, <2>1 DEF BumpRead
  <2>2. CASE marker # "off"
    <3> DEFINE j == [th[t].job EXCEPT !.copy = marker]
               x == [th[t] EXCEPT !.pc = "write", !.job = j]
    <3>1. th' = [th EXCEPT ![t].pc = "write", ![t].job.copy = marker] /\ th[t].pc = "bump"
      BY <1>5, <2>2 DEF BumpRead
    <3>2. th[t].job \in Jobs
      BY <1>1, <3>1 DEF JobOf, Holding
    <3>3. j \in Jobs /\ j.file = th[t].job.file /\ j.maint = th[t].job.maint
      BY <1>1, <3>2 DEF Jobs
    <3>4. th' = [th EXCEPT ![t] = x]
      BY <1>1, <3>1
    <3> HIDE DEF j
    <3>5. x \in ThreadStates /\ x.pc = "write" /\ x.msg = th[t].msg /\ x.job = j
      BY <1>1, <3>3 DEF ThreadStates, Places
    <3> HIDE DEF x
    <3>6. th' \in [Threads -> ThreadStates] /\ th'[t] = x /\ \A u \in Threads \ {t} : th'[u] = th[u]
      BY <1>1, <3>4, <3>5
    <3> QED
      BY <1>2, <3>1, <3>3, <3>5, <3>6 DEF Aside, Holding
  <2> QED
    BY <2>1, <2>2
<1>6. CASE AppendFails(t) \/ BumpWrite(t) \/ DB_SetCompleted(t) \/ ReadPending(t) \/ ClearMarker(t)
  <2>1. \E l \in {"idle", "pending", "clear"} : Goto(t, l)
    BY <1>6 DEF AppendFails, BumpWrite, DB_SetCompleted, ReadPending, ClearMarker
  <2> QED
    BY <1>3, <2>1
<1> QED
  BY <1>4, <1>5, <1>6

(* The lookup: what a thread finds it will do, and what it will do it to.  *)
Looked(t) ==
    LET f == th[t].msg.file
        s == th[t].msg.sum
    IN /\ th[t].pc = "search" /\ Free /\ th[t].msg \in FileReports
       /\ built' = TRUE /\ index' = View /\ UNCHANGED <<rows, stub, auto, alert>>
       /\ th' \in [Threads -> ThreadStates] /\ \A u \in Threads \ {t} : th'[u] = th[u]
       /\ th'[t].pc \in {"new", "comment"} =>
            /\ UNCHANGED known /\ th'[t].msg = th[t].msg
            /\ th'[t].job \in Jobs /\ th'[t].job.file = f
       /\ \/ /\ th'[t].pc = "new" /\ View[f] = None
             /\ th'[t].job.sum = s /\ th'[t].job.event = "new"
          \/ th'[t].pc = "comment" /\ Settled(th'[t].job, View[f], s)
          \/ /\ th'[t].pc = "idle" /\ View[f] # None
             /\ \/ UNCHANGED known
                \/ fim_sum_keep_hashes(View[f].sum, s) = View[f].sum /\ Know(f, s)

LEMMA Lookup ==
  ASSUME IndInv, NEW t \in Threads, DB_Search(t)
  PROVE  Looked(t)
<1> DEFINE f == th[t].msg.file
           s == th[t].msg.sum
           old == View[f]
           new == fim_sum_keep_hashes(old.sum, s)
           maint == DB_IsMaintenance
           real == fim_sum_has_real_change(old.sum, new)
           quiet == maint \/ ~real
           job(k, z, m, e) == [file |-> f, kind |-> k, sum |-> z, mark |-> m, maint |-> maint,
                               event |-> e, copy |-> "off"]
           Decide(l, k, z, m, e) == th' = [th EXCEPT ![t].pc = l, ![t].job = job(k, z, m, e)]
<1>1. /\ TypeOK /\ RowsInv /\ PlaceInv /\ th[t].pc = "search" /\ Free
      /\ th[t].msg \in FileReports /\ f \in Files /\ s \in Sums
      /\ th \in [Threads -> ThreadStates] /\ th[t] \in ThreadStates
  BY DEF IndInv, DB_Search, JobInv, JobOf, FileReports, TypeOK, ThreadStates
<1>2. built' = TRUE /\ index' = View /\ UNCHANGED <<rows, stub, auto, alert>>
  BY DEF DB_Search, View, disk
<1>3. old \in Entries \cup {None}
  BY <1>1, ViewFits
<1>4. \/ old = None /\ Decide("new", "new", s, 0, "new") /\ UNCHANGED known
      \/ /\ old # None /\ new # old.sum /\ quiet /\ UNCHANGED known
         /\ Decide("comment", IF real THEN "accept" ELSE "quiet", new, 0, None)
      \/ /\ old # None /\ ~quiet /\ (auto => Changes(old.mark) < 3) /\ UNCHANGED known
         /\ Decide("comment", "alert", new, NextMark(old.mark), Reported(old.sum, new, old.mark, auto))
      \/ /\ old # None /\ Goto(t, "idle")
         /\ (new = old.sum /\ Know(f, s)) \/ UNCHANGED known
  <2> USE DEF View, DB_Search
  <2>1. CASE old = None
    BY <2>1
  <2>2. CASE old # None /\ new # old.sum /\ quiet
    BY <2>2
  <2>3. CASE old # None /\ ~quiet /\ (auto => Changes(old.mark) < 3)
    BY <2>3
  <2>4. CASE /\ old # None /\ ~(new # old.sum /\ quiet)
             /\ ~(~quiet /\ (auto => Changes(old.mark) < 3))
    BY <2>4
  <2> QED
    BY <2>1, <2>2, <2>3, <2>4
<1>5. maint \in BOOLEAN /\ (old # None => new \in Sums /\ old.sum \in Sums /\ old.mark \in Marks)
  <2>1. maint \in BOOLEAN
    BY DEF DB_IsMaintenance
  <2>2. old # None => old.sum \in Sums /\ old.mark \in Marks
    BY <1>3 DEF Entries
  <2> QED
    BY <1>1, <2>1, <2>2, SumsType
<1> HIDE DEF f, s, old, new, maint, real
<1>6. ASSUME NEW l \in {"new", "comment"}, NEW k \in {"new", "accept", "quiet", "alert"},
             NEW z \in Sums, NEW m \in Marks, NEW e \in Kinds, Decide(l, k, z, m, e)
      PROVE  /\ th' \in [Threads -> ThreadStates] /\ \A u \in Threads \ {t} : th'[u] = th[u]
             /\ th'[t].pc = l /\ th'[t].msg = th[t].msg /\ th'[t].job = job(k, z, m, e)
             /\ job(k, z, m, e) \in Jobs
  <2> DEFINE x == [th[t] EXCEPT !.pc = l, !.job = job(k, z, m, e)]
  <2>1. job(k, z, m, e) \in Jobs
    BY <1>1, <1>5 DEF Jobs
  <2>2. th' = [th EXCEPT ![t] = x]
    BY <1>1, <1>6
  <2> HIDE DEF job
  <2>3. x \in ThreadStates /\ x.pc = l /\ x.msg = th[t].msg /\ x.job = job(k, z, m, e)
    BY <1>1, <2>1 DEF ThreadStates, Places
  <2> HIDE DEF x
  <2> QED
    BY <1>1, <2>1, <2>2, <2>3
<1>7. /\ 0 \in Marks /\ {"new", None} \subseteq Kinds
      /\ old # None => NextMark(old.mark) \in Marks /\ Reported(old.sum, new, old.mark, auto) \in Kinds
  BY <1>5, MarksType, ReportedType DEF Kinds, Marks, New
<1>8. CASE old = None /\ Decide("new", "new", s, 0, "new") /\ UNCHANGED known
  <2>1. /\ th' \in [Threads -> ThreadStates] /\ \A u \in Threads \ {t} : th'[u] = th[u]
        /\ th'[t].pc = "new" /\ th'[t].msg = th[t].msg /\ th'[t].job = job("new", s, 0, "new")
        /\ job("new", s, 0, "new") \in Jobs
    BY <1>1, <1>6, <1>7, <1>8
  <2> QED
    BY <1>1, <1>2, <1>8, <2>1 DEF Looked, f, s, old
<1>9. CASE /\ old # None /\ new # old.sum /\ quiet /\ UNCHANGED known
           /\ Decide("comment", IF real THEN "accept" ELSE "quiet", new, 0, None)
  <2> DEFINE k == IF real THEN "accept" ELSE "quiet"
  <2>1. k \in {"new", "accept", "quiet", "alert"} /\ new \in Sums
    BY <1>5, <1>9
  <2>2. /\ th' \in [Threads -> ThreadStates] /\ \A u \in Threads \ {t} : th'[u] = th[u]
        /\ th'[t].pc = "comment" /\ th'[t].msg = th[t].msg /\ th'[t].job = job(k, new, 0, None)
        /\ job(k, new, 0, None) \in Jobs
    <3> HIDE DEF k, job
    <3> QED
      BY <1>6, <1>7, <1>9, <2>1 DEF k
  <2>3. Settled(job(k, new, 0, None), old, s)
    BY <1>9 DEF Settled, new, real
  <2> QED
    BY <1>1, <1>2, <1>9, <2>2, <2>3 DEF Looked, f, s, old
<1>10. CASE /\ old # None /\ ~quiet /\ (auto => Changes(old.mark) < 3) /\ UNCHANGED known
            /\ Decide("comment", "alert", new, NextMark(old.mark), Reported(old.sum, new, old.mark, auto))
  <2> DEFINE m == NextMark(old.mark)
             e == Reported(old.sum, new, old.mark, auto)
  <2>1. m \in Marks /\ e \in Kinds /\ new \in Sums
    BY <1>5, <1>7, <1>10
  <2>2. /\ th' \in [Threads -> ThreadStates] /\ \A u \in Threads \ {t} : th'[u] = th[u]
        /\ th'[t].pc = "comment" /\ th'[t].msg = th[t].msg /\ th'[t].job = job("alert", new, m, e)
        /\ job("alert", new, m, e) \in Jobs
    <3> HIDE DEF m, e, job
    <3> QED
      BY <1>6, <1>10, <2>1 DEF m, e
  <2>3. Settled(job("alert", new, m, e), old, s)
    <3>1. real /\ ~maint /\ new # old.sum
      BY <1>10 DEF real, fim_sum_has_real_change
    <3> QED
      BY <1>10, <3>1 DEF Settled, new, real
  <2> QED
    <3>1. UNCHANGED known
      BY <1>10
    <3>2. /\ th'[t].job = job("alert", new, m, e)
          /\ th'[t].job.file = f
      BY <2>2
    <3> HIDE DEF job, m, e
    <3>3. Settled(th'[t].job, View[f], s)
      BY <2>3, <3>2 DEF old
    <3>4. th'[t].job \in Jobs
      BY <2>2, <3>2
    <3> QED
      BY <1>1, <1>2, <2>2, <3>1, <3>2, <3>3, <3>4 DEF Looked, f, s
<1>11. CASE /\ old # None /\ Goto(t, "idle")
            /\ (new = old.sum /\ Know(f, s)) \/ UNCHANGED known
  <2>1. /\ th' \in [Threads -> ThreadStates] /\ th'[t].pc = "idle"
        /\ \A u \in Threads \ {t} : th'[u] = th[u]
    BY <1>1, <1>11, Moves DEF Places
  <2> QED
    BY <1>1, <1>2, <1>11, <2>1 DEF Looked, f, s, old, new
<1> QED
  BY <1>4, <1>8, <1>9, <1>10, <1>11

(* The old row is commented out.                                           *)
Commented(t) ==
    LET p == index[th[t].job.file].pos
    IN /\ th[t].pc = "comment" /\ UNCHANGED <<built, index, known, auto, alert>>
       /\ th' \in [Threads -> ThreadStates] /\ \A u \in Threads \ {t} : th'[u] = th[u]
       /\ th'[t].pc = "append" /\ th'[t].msg = th[t].msg /\ th'[t].job = th[t].job
       /\ rows' \in Seq(Rows) /\ DOMAIN rows' = DOMAIN rows /\ stub' \in BOOLEAN
       /\ \A i \in DOMAIN rows : IF i = p THEN ~rows'[i].live /\ rows'[i].file = rows[i].file
                                 ELSE rows'[i] = rows[i]
       /\ p \in DOMAIN rows => stub' = stub

LEMMA Commenting ==
  ASSUME IndInv, NEW t \in Threads, Comment(t)
  PROVE  Commented(t)
<1> DEFINE p == index[th[t].job.file].pos
<1>1. /\ TypeOK /\ JobOf(t) /\ th[t].pc = "comment" /\ Goto(t, "append") /\ rows \in Seq(Rows)
      /\ UNCHANGED <<built, index, known, auto, alert>> /\ stub \in BOOLEAN
  BY DEF IndInv, JobInv, Comment, memory, TypeOK
<1>2. IF p <= Len(rows) THEN rows' = [rows EXCEPT ![p].live = FALSE] /\ UNCHANGED stub
                        ELSE stub' = TRUE /\ UNCHANGED rows
  BY DEF Comment
<1>3. p \in Nat \ {0}
  <2>1. th[t].job \in Jobs /\ index[th[t].job.file] # None
    BY <1>1 DEF JobOf, Holding, Settled
  <2>2. th[t].job.file \in Files /\ index \in [Files -> Entries \cup {None}]
    BY <1>1, <2>1 DEF Jobs, TypeOK
  <2> QED
    BY <2>1, <2>2 DEF Entries
<1>4. /\ th' \in [Threads -> ThreadStates] /\ \A u \in Threads \ {t} : th'[u] = th[u]
      /\ th'[t].pc = "append" /\ th'[t].msg = th[t].msg /\ th'[t].job = th[t].job
  BY <1>1, Moves DEF Places
<1>5. Len(rows) \in Nat /\ DOMAIN rows = 1 .. Len(rows) /\ \A i \in DOMAIN rows : rows[i] \in Rows
  BY <1>1, LenProperties, ElementOfSeq
<1> HIDE DEF p
<1>6. CASE p <= Len(rows)
  <2>1. p \in DOMAIN rows /\ rows' = [rows EXCEPT ![p].live = FALSE] /\ UNCHANGED stub
    BY <1>2, <1>3, <1>5, <1>6
  <2> DEFINE x == [rows[p] EXCEPT !.live = FALSE]
  <2>2. x \in Rows /\ ~x.live /\ x.file = rows[p].file
    BY <1>5, <2>1 DEF Rows
  <2>3. rows' = [rows EXCEPT ![p] = x]
    BY <2>1
  <2> HIDE DEF x
  <2>4. rows' \in Seq(Rows) /\ Len(rows') = Len(rows)
    <3>1. rows \in Seq(Rows) /\ p \in 1 .. Len(rows) /\ x \in Rows
      BY <1>1, <1>5, <2>1, <2>2
    <3>2. rows \in [1 .. Len(rows) -> Rows] /\ Len(rows) \in Nat
      BY <3>1, LenProperties
    <3>3. rows' \in [1 .. Len(rows) -> Rows]
      BY <2>3, <3>1, <3>2
    <3> QED
      BY <3>2, <3>3, LenProperties
  <2>5. /\ DOMAIN rows' = DOMAIN rows
        /\ \A i \in DOMAIN rows : IF i = p THEN ~rows'[i].live /\ rows'[i].file = rows[i].file
                                  ELSE rows'[i] = rows[i]
    BY <2>1, <2>2, <2>3
  <2> QED
    BY <1>1, <1>4, <2>1, <2>4, <2>5 DEF Commented, p
<1>7. CASE ~(p <= Len(rows))
  <2>1. p \notin DOMAIN rows /\ stub' = TRUE /\ rows' = rows
    BY <1>2, <1>3, <1>5, <1>7
  <2> QED
    BY <1>1, <1>4, <2>1 DEF Commented, p
<1> QED
  BY <1>6, <1>7

(* A row is written at the end, or cannot be, and the index has it.        *)
Stores(t, m, ok) ==
    LET j == th[t].job
    IN /\ th[t].pc \in {"append", "new"} /\ m \in Marks
       /\ IF ok THEN Write(j, m) ELSE UNCHANGED <<rows, stub>>
       /\ Index(j, m) /\ Know(j.file, th[t].msg.sum)
       /\ UNCHANGED <<built, auto>>
       /\ Goto(t, "idle") \/ Goto(t, "bump")

LEMMA Storing ==
  ASSUME IndInv, NEW t \in Threads
  PROVE  /\ AppendRow(t) => Stores(t, th[t].job.mark, TRUE)
         /\ NewRow(t) => \E m \in {0, New}, ok \in BOOLEAN :
                           Stores(t, m, ok) /\ (~ok => "new" \in Fails)
<1>1. ASSUME AppendRow(t)
      PROVE  Stores(t, th[t].job.mark, TRUE)
  <2>1. th[t].job.mark \in Marks
    BY <1>1 DEF IndInv, JobInv, JobOf, Holding, AppendRow, Jobs
  <2>2. Goto(t, "idle") \/ Goto(t, "bump")
    BY <1>1 DEF AppendRow
  <2> QED
    BY <1>1, <2>1, <2>2 DEF AppendRow, Stores
<1>2. ASSUME NewRow(t)
      PROVE  \E m \in {0, New}, ok \in BOOLEAN : Stores(t, m, ok) /\ (~ok => "new" \in Fails)
  <2> DEFINE j == th[t].job
             m == IF ~j.maint /\ ReportNew /\ cp THEN New ELSE 0
  <2>1. m \in {0, New} /\ m \in Marks
    BY MarksType DEF Marks, New
  <2>2. /\ th[t].pc = "new" /\ Index(j, m) /\ Know(j.file, th[t].msg.sum)
        /\ UNCHANGED <<built, auto>>
    BY <1>2 DEF NewRow
  <2>3. Goto(t, "idle") \/ Goto(t, "bump")
    BY <1>2 DEF NewRow
  <2>4. PICK ok \in {TRUE} \cup {~("new" \in Fails /\ fails < MaxFails)} :
          IF ok THEN Write(j, m) /\ UNCHANGED fails
          ELSE fails' = fails + 1 /\ UNCHANGED <<rows, stub>>
    BY <1>2 DEF NewRow
  <2> HIDE DEF m
  <2>5. ok \in BOOLEAN /\ (~ok => "new" \in Fails)
    OBVIOUS
  <2>6. Stores(t, m, ok)
    BY <2>1, <2>2, <2>3, <2>4 DEF Stores
  <2> QED
    BY <2>1, <2>5, <2>6
<1> QED
  BY <1>1, <1>2

LEMMA Storer ==
  ASSUME IndInv, NEW t \in Threads, NEW m, NEW ok \in BOOLEAN, Stores(t, m, ok)
  PROVE  /\ th[t].msg \in FileReports /\ th[t].job \in Jobs /\ th[t].job.file \in Files
         /\ th[t].job.file = th[t].msg.file
         /\ th' \in [Threads -> ThreadStates] /\ \A u \in Threads \ {t} : th'[u] = th[u]
         /\ th'[t].pc \in {"idle", "bump"}
         /\ th'[t].pc = "bump" => th'[t].msg = th[t].msg /\ th'[t].job = th[t].job
<1>1. /\ TypeOK /\ th[t].msg \in FileReports /\ th[t].job \in Jobs
      /\ th[t].job.file = th[t].msg.file
  BY DEF IndInv, JobInv, JobOf, Holding, Stores
<1>2. CASE Goto(t, "idle")
  BY <1>1, <1>2, Moves DEF Places, Jobs
<1>3. CASE Goto(t, "bump")
  BY <1>1, <1>3, Moves DEF Places, Jobs
<1> QED
  BY <1>2, <1>3 DEF Stores

LEMMA Stored ==
  ASSUME IndInv, NEW t \in Threads, NEW m, NEW ok \in BOOLEAN, Stores(t, m, ok)
  PROVE  LET f == th[t].job.file
             n == Len(rows) + 1
             e == [pos |-> n, sum |-> th[t].job.sum, mark |-> m]
         IN /\ e \in Entries /\ n \in Nat \ {0} /\ n \notin DOMAIN rows
            /\ index' \in [Files -> Entries \cup {None}]
            /\ index'[f] = e /\ \A g \in Files \ {f} : index'[g] = index[g]
            /\ rows' \in Seq(Rows) /\ stub' \in BOOLEAN
            /\ \A i \in DOMAIN rows : i \in DOMAIN rows' /\ rows'[i] = rows[i]
            /\ \A i \in DOMAIN rows' : i \in DOMAIN rows \/ i = n
            /\ ok => /\ ~stub' /\ n \in DOMAIN rows'
                     /\ rows'[n] = [file |-> f, sum |-> e.sum, mark |-> m, live |-> ~stub]
            /\ ~ok => rows' = rows /\ stub' = stub
<1> DEFINE j == th[t].job
           f == j.file
           n == Len(rows) + 1
           e == [pos |-> n, sum |-> j.sum, mark |-> m]
           x == [file |-> f, sum |-> j.sum, mark |-> m, live |-> ~stub]
<1>1. /\ TypeOK /\ th[t].msg \in FileReports /\ j \in Jobs /\ f = th[t].msg.file
      /\ rows \in Seq(Rows) /\ index \in [Files -> Entries \cup {None}] /\ stub \in BOOLEAN
      /\ m \in Marks
  BY DEF IndInv, JobInv, JobOf, Holding, Stores, TypeOK
<1>2. /\ Len(rows) \in Nat /\ DOMAIN rows = 1 .. Len(rows) /\ n \in Nat \ {0}
      /\ n \notin DOMAIN rows
  BY <1>1, LenProperties
<1>3. f \in Files /\ j.sum \in Sums
  BY <1>1 DEF Jobs
<1>4. e \in Entries
  BY <1>1, <1>2, <1>3 DEF Entries
<1>5. index' = [index EXCEPT ![f] = e]
  BY DEF Stores, Index
<1>7. /\ index' \in [Files -> Entries \cup {None}]
      /\ index'[f] = e /\ \A g \in Files \ {f} : index'[g] = index[g]
  <2> HIDE DEF e, f
  <2> QED
    BY <1>1, <1>3, <1>4, <1>5
<1>8. CASE ok
  <2>1. rows' = Append(rows, x) /\ stub' = FALSE
    BY <1>8 DEF Stores, Write
  <2>2. x \in Rows
    BY <1>1, <1>3 DEF Rows
  <2> HIDE DEF x
  <2>3. /\ rows' \in Seq(Rows) /\ Len(rows') = Len(rows) + 1
        /\ \A i \in 1 .. Len(rows) : rows'[i] = rows[i]
        /\ rows'[Len(rows) + 1] = x
    BY <1>1, <2>1, <2>2, AppendProperties
  <2>4. DOMAIN rows' = 1 .. Len(rows')
    BY <2>3, LenProperties
  <2>5. /\ \A i \in DOMAIN rows : i \in DOMAIN rows' /\ rows'[i] = rows[i]
        /\ \A i \in DOMAIN rows' : i \in DOMAIN rows \/ i = n
        /\ n \in DOMAIN rows' /\ rows'[n] = x
    BY <1>2, <2>3, <2>4
  <2>6. ~stub' /\ stub' \in BOOLEAN
    BY <2>1
  <2> QED
    BY <1>2, <1>4, <1>7, <1>8, <2>3, <2>5, <2>6 DEF x
<1>9. CASE ~ok
  <2>1. rows' = rows /\ stub' = stub
    BY <1>9 DEF Stores
  <2> QED
    BY <1>1, <1>2, <1>4, <1>7, <1>9, <2>1
<1> QED
  BY <1>8, <1>9

(* The steps of Next.                                                      *)
LEMMA Effects ==
  ASSUME IndInv, [Next]_vars
  PROVE  \/ UNCHANGED <<th, data>>
         \/ Crash
         \/ \E t \in Threads : \/ Aside(t) \/ Looked(t) \/ Commented(t)
                               \/ AppendRow(t) \/ NewRow(t)
<1>1. CASE \/ MaintEnable \/ MaintDisable \/ MaintEnd \/ Rescan \/ CacheExpires
           \/ UNCHANGED vars
  BY <1>1 DEF MaintEnable, MaintDisable, MaintEnd, Command, Rescan, CacheExpires,
              data, vars, disk, memory
<1>2. ASSUME NEW t \in Threads, Step(t)
      PROVE  Aside(t) \/ Looked(t) \/ Commented(t) \/ AppendRow(t) \/ NewRow(t)
  BY <1>2, Asides, Lookup, Commenting DEF Step
<1> QED
  BY <1>1, <1>2 DEF Next

-----------------------------------------------------------------------------
(* Each part of the invariant is preserved.                                *)

LEMMA TypeStep ==
  ASSUME IndInv, [Next]_vars
  PROVE  TypeOK'
<1> DEFINE Db == /\ th \in [Threads -> ThreadStates]
                 /\ rows \in Seq(Rows) /\ index \in [Files -> Entries \cup {None}]
                 /\ stub \in BOOLEAN /\ built \in BOOLEAN /\ known \in [Files -> Hashes \cup {None}]
                 /\ auto \in BOOLEAN
<1>1. TypeOK /\ RowsInv /\ JobInv
  BY DEF IndInv
<1>2. Db /\ alert \in [file : Files \cup {None}, kind : Kinds, flip : BOOLEAN]
  BY <1>1 DEF TypeOK, ThreadStates
<1>3. ASSUME NEW f \in Files, NEW s \in Sums, Know(f, s)
      PROVE  known' \in [Files -> Hashes \cup {None}]
  <2>1. Hash(f, s) \in Hashes \cup {None}
    BY <1>2, <1>3 DEF Hash, Sums, Present
  <2> QED
    BY <1>2, <1>3, <2>1 DEF Know
<1>4. ASSUME NEW idx \in [Files -> Entries \cup {None}]
      PROVE  Known(idx) \in [Files -> Hashes \cup {None}]
  <2>1. \A f \in Files : idx[f] = None \/ idx[f].sum \in Present \cup {Deleted}
    BY <1>4 DEF Entries, Sums
  <2> QED
    BY <2>1 DEF Known, Present
<1>5. Db'
  <2>1. CASE UNCHANGED <<th, data>>
    BY <1>2, <2>1 DEF data
  <2>2. ASSUME NEW t \in Threads, Aside(t)
        PROVE  Db'
    BY <1>2, <2>2 DEF Aside, data
  <2>3. ASSUME NEW t \in Threads, Looked(t)
        PROVE  Db'
    <3>1. index' \in [Files -> Entries \cup {None}]
      BY <1>1, <2>3, ViewFits DEF Looked, IndInv
    <3>2. known' \in [Files -> Hashes \cup {None}]
      <4>1. th[t].msg.file \in Files /\ th[t].msg.sum \in Sums
        BY <2>3 DEF Looked, FileReports
      <4>2. UNCHANGED known \/ Know(th[t].msg.file, th[t].msg.sum)
        BY <2>3 DEF Looked
      <4> QED
        BY <1>2, <1>3, <4>1, <4>2
    <3>3. built' \in BOOLEAN /\ UNCHANGED <<rows, stub, auto>> /\ th' \in [Threads -> ThreadStates]
      BY <2>3 DEF Looked
    <3> QED
      BY <1>2, <3>1, <3>2, <3>3
  <2>4. ASSUME NEW t \in Threads, Commented(t)
        PROVE  Db'
    BY <1>2, <2>4 DEF Commented
  <2>5. ASSUME NEW t \in Threads, NEW m, NEW ok \in BOOLEAN, Stores(t, m, ok)
        PROVE  Db'
    <3>1. th[t].msg \in FileReports /\ th[t].job.file = th[t].msg.file
      BY <2>5, Storer
    <3>2. known' \in [Files -> Hashes \cup {None}]
      BY <1>3, <2>5, <3>1 DEF Stores, FileReports
    <3>3. /\ th' \in [Threads -> ThreadStates] /\ rows' \in Seq(Rows) /\ stub' \in BOOLEAN
          /\ index' \in [Files -> Entries \cup {None}]
      <4>1. th' \in [Threads -> ThreadStates]
        BY <2>5, Storer
      <4>2. /\ rows' \in Seq(Rows) /\ stub' \in BOOLEAN
            /\ index' \in [Files -> Entries \cup {None}]
        BY <2>5, Stored, Zenon
      <4> QED
        BY <4>1, <4>2
    <3>4. built' = built /\ auto' = auto
      BY <2>5 DEF Stores
    <3> QED
      BY <1>2, <3>2, <3>3, <3>4
  <2>6. ASSUME NEW t \in Threads, AppendRow(t) \/ NewRow(t)
        PROVE  Db'
    BY <2>5, <2>6, Storing
  <2>7. CASE Crash
    <3>1. known' \in [Files -> Hashes \cup {None}]
      <4>1. rows \in Seq(Rows) /\ OneLive(rows)
        BY <1>1, <1>2 DEF RowsInv, OneLiveRow, OneLive
      <4>2. DB_BuildIndex(rows) \in [Files -> Entries \cup {None}]
        BY <4>1, BuildIndex
      <4> QED
        BY <1>4, <2>7, <4>2 DEF Crash
    <3>2. th' \in [Threads -> ThreadStates] /\ index' \in [Files -> Entries \cup {None}]
      BY <2>7 DEF Crash, Idle, ThreadStates, Places, Unbuilt
    <3>3. built' = FALSE /\ UNCHANGED <<rows, stub, auto>>
      BY <2>7 DEF Crash, disk
    <3> QED
      BY <1>2, <3>1, <3>2, <3>3
  <2> QED
    BY <2>1, <2>2, <2>3, <2>4, <2>6, <2>7, Effects
<1>6. alert' \in [file : Files \cup {None}, kind : Kinds, flip : BOOLEAN]
  <2>1. ASSUME NEW t \in Threads, AppendRow(t) \/ NewRow(t)
        PROVE  alert' \in [file : Files \cup {None}, kind : Kinds, flip : BOOLEAN]
    <3>1. th[t].job \in Jobs
      BY <1>1, <2>1 DEF AppendRow, NewRow, JobInv, JobOf, Holding
    <3>2. Raise(th[t].job) \/ UNCHANGED alert
      BY <2>1 DEF AppendRow, NewRow
    <3>3. /\ th[t].job.file \in Files /\ th[t].job.event \in Kinds /\ (~alert.flip) \in BOOLEAN
          /\ th[t].job.file \in Files \cup {None}
      BY <3>1 DEF Jobs
    <3>4. CASE Raise(th[t].job)
      BY <3>3, <3>4 DEF Raise
    <3> QED
      BY <1>2, <3>2, <3>4
  <2>2. ASSUME NEW t \in Threads, Aside(t) \/ Looked(t) \/ Commented(t)
        PROVE  UNCHANGED alert
    BY <2>2 DEF Aside, Looked, Commented, data
  <2>3. CASE UNCHANGED <<th, data>> \/ Crash
    BY <1>2, <2>3 DEF data, Crash
  <2> QED
    BY <1>2, <2>1, <2>2, <2>3, Effects
<1>7. queue' \in Seq(Messages)
  <2>1. queue \in Seq(Messages)
    BY <1>1 DEF TypeOK
  <2>2. ASSUME NEW t \in Threads, Take(t)
        PROVE  queue' \in Seq(Messages)
    BY <2>1, <2>2, HeadTailProperties DEF Take
  <2>3. CASE Rescan
    BY <2>1, <2>3, AppendProperties DEF Rescan, Messages
  <2>4. CASE Crash
    <3>1. PICK k \in 0 .. Len(queue) : queue' = SubSeq(queue, k + 1, Len(queue))
      BY <2>4 DEF Crash
    <3>2. Len(queue) \in Nat /\ \A i \in 1 .. Len(queue) : queue[i] \in Messages
      BY <2>1, LenProperties, ElementOfSeq
    <3> QED
      BY <2>1, <3>1, <3>2, SubSeqProperties
  <2>5. CASE MaintEnable \/ MaintDisable \/ MaintEnd \/ CacheExpires \/ UNCHANGED vars
    BY <2>1, <2>5 DEF MaintEnable, MaintDisable, MaintEnd, Command, CacheExpires, vars
  <2>6. ASSUME NEW t \in Threads, Step(t), ~Take(t)
        PROVE  queue' = queue
    BY <2>6 DEF Step, DB_Search, Comment, AppendRow, AppendFails, NewRow, BumpRead, BumpWrite,
                DB_SetCompleted, ReadPending, ClearMarker
  <2> QED
    BY <2>1, <2>2, <2>3, <2>4, <2>5, <2>6 DEF Next
<1>8. /\ cp' \in BOOLEAN /\ cpt' \in BOOLEAN /\ cached' \in BOOLEAN
      /\ marker' \in {"off", "on", "pending"} /\ scan' \in {"no", "asked", "sent", "done"}
  <2>1. /\ cp \in BOOLEAN /\ cpt \in BOOLEAN /\ cached \in BOOLEAN
        /\ marker \in {"off", "on", "pending"} /\ scan \in {"no", "asked", "sent", "done"}
    BY <1>1 DEF TypeOK
  <2>2. CASE \/ MaintEnable \/ MaintDisable \/ MaintEnd \/ Rescan \/ CacheExpires \/ Crash
             \/ UNCHANGED vars
    BY <2>1, <2>2 DEF MaintEnable, MaintDisable, MaintEnd, Command, Rescan, CacheExpires, Crash,
                      vars, disk, memory
  <2>3. ASSUME NEW t \in Threads, DB_Search(t)
        PROVE  /\ cp' \in BOOLEAN /\ cpt' \in BOOLEAN /\ cached' \in BOOLEAN
               /\ UNCHANGED <<marker, scan>>
    <3>1. cached' = DB_IsMaintenance /\ cp' \in {cp, cpt} /\ UNCHANGED <<cpt, marker, scan>>
      BY <2>3 DEF DB_Search, disk
    <3>2. DB_IsMaintenance \in BOOLEAN
      BY DEF DB_IsMaintenance
    <3> QED
      BY <2>1, <3>1, <3>2, Zenon
  <2>4. ASSUME NEW t \in Threads, BumpWrite(t)
        PROVE  marker' \in {"off", "on", "pending"} /\ UNCHANGED <<cp, cpt, cached, scan>>
    <3>1. th[t].job \in Jobs
      BY <1>1, <2>4 DEF BumpWrite, JobInv, JobOf, Holding
    <3> QED
      BY <2>4, <3>1 DEF BumpWrite, Jobs, disk, memory
  <2>5. ASSUME NEW t \in Threads, DB_SetCompleted(t)
        PROVE  cp' \in BOOLEAN /\ cpt' \in BOOLEAN /\ UNCHANGED <<cached, marker, scan>>
    <3>1. (cp' = TRUE /\ cpt' = TRUE) \/ (cp' = cp /\ cpt' = cpt)
      BY <2>5, Zenon DEF DB_SetCompleted
    <3>2. UNCHANGED <<cached, marker, scan>>
      BY <2>5 DEF DB_SetCompleted
    <3> QED
      BY <2>1, <3>1, <3>2, Zenon
  <2>6. ASSUME NEW t \in Threads, ReadPending(t) \/ ClearMarker(t)
        PROVE  /\ marker' \in {"off", "on", "pending"} /\ scan' \in {"no", "asked", "sent", "done"}
               /\ UNCHANGED <<cp, cpt, cached>>
    BY <2>1, <2>6 DEF ReadPending, ClearMarker, disk, memory
  <2>7. ASSUME NEW t \in Threads,
               \/ Take(t) \/ Comment(t) \/ AppendRow(t) \/ AppendFails(t) \/ NewRow(t) \/ BumpRead(t)
        PROVE  UNCHANGED <<cp, cpt, cached, marker, scan>>
    BY <2>7 DEF Take, Comment, AppendRow, AppendFails, NewRow, BumpRead, disk, memory
  <2> QED
    BY <2>1, <2>2, <2>3, <2>4, <2>5, <2>6, <2>7 DEF Next, Step
<1> QED
  BY <1>5, <1>6, <1>7, <1>8 DEF TypeOK, ThreadStates

(* The lock.                                                               *)
LEMMA LockStep ==
  ASSUME IndInv, [Next]_vars
  PROVE  LockInv'
<1>1. LockInv
  BY DEF IndInv
<1>2. ASSUME NEW t \in Threads, \A u \in Threads \ {t} : th'[u] = th[u], built' = built,
             Holding(t)' => Holding(t)
      PROVE  LockInv'
  BY <1>1, <1>2 DEF LockInv, Holding
<1>3. CASE UNCHANGED <<th, data>>
  BY <1>1, <1>3 DEF LockInv, Holding, data
<1>4. ASSUME NEW t \in Threads, Aside(t)
      PROVE  LockInv'
  BY <1>2, <1>4 DEF Aside, data
<1>5. ASSUME NEW t \in Threads, Looked(t)
      PROVE  LockInv'
  BY <1>5 DEF Looked, Free, LockInv, Holding
<1>6. ASSUME NEW t \in Threads, Commented(t)
      PROVE  LockInv'
  BY <1>2, <1>6 DEF Commented, Holding
<1>7. ASSUME NEW t \in Threads, NEW m, NEW ok \in BOOLEAN, Stores(t, m, ok)
      PROVE  LockInv'
  <2>1. \A u \in Threads \ {t} : th'[u] = th[u]
    BY <1>7, Storer
  <2> QED
    BY <1>2, <1>7, <2>1 DEF Stores, Holding
<1>8. ASSUME NEW t \in Threads, AppendRow(t) \/ NewRow(t)
      PROVE  LockInv'
  BY <1>7, <1>8, Storing
<1>9. CASE Crash
  BY <1>9 DEF Crash, LockInv, Holding, Idle
<1> QED
  BY <1>3, <1>4, <1>5, <1>6, <1>8, <1>9, Effects

LEMMA JobStep ==
  ASSUME IndInv, [Next]_vars
  PROVE  JobInv'
<1>1. LockInv /\ JobInv
  BY DEF IndInv
<1>2. ASSUME NEW u \in Threads, th'[u] = th[u], ~Holding(u)
      PROVE  JobOf(u)'
  BY <1>1, <1>2 DEF JobInv, JobOf, Holding
<1>3. ASSUME NEW u \in Threads, th'[u] = th[u], index' = index, auto' = auto
      PROVE  JobOf(u)'
  BY <1>1, <1>3 DEF JobInv, JobOf, Holding, Settled
<1>4. CASE UNCHANGED <<th, data>>
  BY <1>3, <1>4 DEF JobInv, data
<1>5. ASSUME NEW t \in Threads, Aside(t)
      PROVE  JobInv'
  <2>1. JobOf(t)'
    BY <1>1, <1>5 DEF Aside, JobInv, JobOf
  <2>2. \A u \in Threads \ {t} : JobOf(u)'
    BY <1>3, <1>5 DEF Aside, data
  <2> QED
    BY <2>1, <2>2 DEF JobInv
<1>6. ASSUME NEW t \in Threads, Looked(t)
      PROVE  JobInv'
  <2>1. JobOf(t)'
    BY <1>6 DEF Looked, JobOf, Holding, Settled
  <2>2. \A u \in Threads \ {t} : JobOf(u)'
    BY <1>2, <1>6 DEF Looked, Free
  <2> QED
    BY <2>1, <2>2 DEF JobInv
<1>7. ASSUME NEW t \in Threads, Commented(t)
      PROVE  JobInv'
  <2>1. JobOf(t)'
    BY <1>1, <1>7 DEF Commented, JobInv, JobOf, Holding, Settled
  <2>2. \A u \in Threads \ {t} : JobOf(u)'
    BY <1>3, <1>7 DEF Commented
  <2> QED
    BY <2>1, <2>2 DEF JobInv
<1>8. ASSUME NEW t \in Threads, NEW m, NEW ok \in BOOLEAN, Stores(t, m, ok)
      PROVE  JobInv'
  <2>1. /\ th[t].msg \in FileReports /\ th[t].job \in Jobs /\ th[t].job.file = th[t].msg.file
        /\ \A u \in Threads \ {t} : th'[u] = th[u]
        /\ th'[t].pc \in {"idle", "bump"}
        /\ th'[t].pc = "bump" => th'[t].msg = th[t].msg /\ th'[t].job = th[t].job
    BY <1>8, Storer
  <2>2. JobOf(t)'
    BY <2>1 DEF JobOf, Holding
  <2>3. \A u \in Threads \ {t} : ~Holding(u)
    BY <1>1, <1>8 DEF Stores, LockInv, Holding
  <2>4. \A u \in Threads \ {t} : JobOf(u)'
    BY <1>2, <2>1, <2>3
  <2> QED
    BY <2>2, <2>4 DEF JobInv
<1>9. ASSUME NEW t \in Threads, AppendRow(t) \/ NewRow(t)
      PROVE  JobInv'
  BY <1>8, <1>9, Storing
<1>10. CASE Crash
  BY <1>10 DEF Crash, JobInv, JobOf, Holding, Idle
<1> QED
  BY <1>4, <1>5, <1>6, <1>7, <1>9, <1>10, Effects

LEMMA RowsStep ==
  ASSUME IndInv, [Next]_vars
  PROVE  RowsInv'
<1>1. /\ TypeOK /\ LockInv /\ JobInv /\ RowsInv /\ PlaceInv
      /\ Fits(View, rows) /\ (built => View = index)
  BY ViewFits DEF IndInv
<1> DEFINE Gone(t) == \A i \in DOMAIN rows : rows[i].live => rows[i].file # th[t].job.file
<1>2. ASSUME built' => Fits(index', rows'), ~built' => OneLive(rows'),
             \A t \in Threads : th'[t].pc = "append" => Gone(t)'
      PROVE  RowsInv'
  <2>1. CASE built'
    <3>1. OneLive(rows')
      BY <1>2, <2>1, FitsOneLive
    <3> QED
      BY <1>2, <2>1, <3>1 DEF RowsInv, Fits, OneLive, OneLiveRow
  <2>2. CASE ~built'
    BY <1>2, <2>2 DEF RowsInv, OneLive, OneLiveRow
  <2> QED
    BY <2>1, <2>2
<1>3. /\ built => Fits(index, rows)
      /\ OneLive(rows)
      /\ \A t \in Threads : th[t].pc = "append" => Gone(t)
  BY <1>1 DEF RowsInv, Fits, OneLive, OneLiveRow
<1>4. CASE UNCHANGED <<th, data>>
  BY <1>2, <1>3, <1>4 DEF data
<1>5. ASSUME NEW t \in Threads, Aside(t)
      PROVE  RowsInv'
  <2>1. \A u \in Threads : th'[u].pc = "append" => th'[u] = th[u]
    BY <1>5 DEF Aside
  <2>2. UNCHANGED <<rows, index, built>>
    BY <1>5 DEF Aside, data
  <2> QED
    BY <1>2, <1>3, <2>1, <2>2
<1>6. ASSUME NEW t \in Threads, Looked(t)
      PROVE  RowsInv'
  <2>1. \A u \in Threads : th'[u].pc # "append"
    BY <1>6 DEF Looked, Free, Holding
  <2>2. index' = View /\ rows' = rows /\ built'
    BY <1>6 DEF Looked
  <2> QED
    BY <1>1, <1>2, <2>1, <2>2
<1>7. ASSUME NEW t \in Threads, Commented(t)
      PROVE  RowsInv'
  <2> DEFINE f == th[t].job.file
             p == index[f].pos
  <2>1. /\ built /\ built' /\ index' = index /\ DOMAIN rows' = DOMAIN rows
        /\ \A u \in Threads \ {t} : ~Holding(u)
    BY <1>1, <1>7 DEF Commented, LockInv, Holding
  <2>2. \A i \in DOMAIN rows : rows'[i].live => i # p /\ rows'[i] = rows[i]
    BY <1>7 DEF Commented
  <2>3. Fits(index', rows')
    BY <1>3, <2>1, <2>2 DEF Fits
  <2>4. \A i \in DOMAIN rows' : rows'[i].live => rows'[i].file # f
    <3> SUFFICES ASSUME NEW i \in DOMAIN rows, rows'[i].live, rows[i].file = f
                 PROVE  FALSE
      BY <2>1, <2>2
    <3>1. i # p /\ rows[i].live
      BY <2>2
    <3>2. index[f] = [pos |-> i, sum |-> rows[i].sum, mark |-> rows[i].mark]
      BY <1>3, <2>1, <3>1 DEF Fits
    <3> QED
      BY <3>1, <3>2
  <2>5. \A u \in Threads : th'[u].pc = "append" => u = t /\ th'[u].job = th[t].job
    BY <1>7, <2>1 DEF Commented, Holding
  <2> QED
    BY <1>2, <2>1, <2>3, <2>4, <2>5
<1>8. ASSUME NEW t \in Threads, NEW m, NEW ok \in BOOLEAN, Stores(t, m, ok)
      PROVE  RowsInv'
  <2> DEFINE f == th[t].job.file
             n == Len(rows) + 1
             e == [pos |-> n, sum |-> th[t].job.sum, mark |-> m]
  <2>1. /\ f \in Files /\ \A u \in Threads \ {t} : th'[u] = th[u]
        /\ th'[t].pc \in {"idle", "bump"}
        /\ index'[f] = e /\ \A g \in Files \ {f} : index'[g] = index[g]
        /\ \A i \in DOMAIN rows : i \in DOMAIN rows' /\ rows'[i] = rows[i]
        /\ \A i \in DOMAIN rows' : i \in DOMAIN rows \/ i = n
        /\ ok => rows'[n] = [file |-> f, sum |-> e.sum, mark |-> m, live |-> ~stub]
        /\ ~ok => rows' = rows
        /\ n \notin DOMAIN rows
    BY <1>8, Stored, Storer
  <2>2. built /\ built' = built /\ \A u \in Threads \ {t} : ~Holding(u)
    BY <1>1, <1>8 DEF Stores, LockInv, Holding
  <2>3. \A i \in DOMAIN rows : rows[i].live => rows[i].file # f
    <3>1. CASE th[t].pc = "append"
      BY <1>3, <3>1
    <3>2. CASE th[t].pc = "new"
      <4>1. index[f] = None
        BY <1>1, <3>2 DEF JobInv, JobOf
      <4>2. \A i \in DOMAIN rows : [pos |-> i, sum |-> rows[i].sum, mark |-> rows[i].mark] # None
        <5>1. \A i \in DOMAIN rows : rows[i] \in Rows /\ i \in Nat \ {0}
          BY <1>1, LenProperties, ElementOfSeq DEF TypeOK
        <5>2. None \notin Entries
          BY SyscheckDbAssumption DEF SyscheckDbAssumption
        <5> QED
          BY <5>1, <5>2 DEF Entries, Rows
      <4> QED
        BY <1>3, <2>2, <4>1, <4>2 DEF Fits
    <3> QED
      BY <1>8, <3>1, <3>2 DEF Stores
  <2>4. \A i \in DOMAIN rows : rows[i].file \in Files
    <3>1. \A i \in DOMAIN rows : rows[i] \in Rows
      BY <1>1, LenProperties, ElementOfSeq DEF TypeOK
    <3> QED
      BY <3>1 DEF Rows
  <2>5. Fits(index', rows')
    <3> SUFFICES ASSUME NEW i \in DOMAIN rows', rows'[i].live
                 PROVE  index'[rows'[i].file] =
                          [pos |-> i, sum |-> rows'[i].sum, mark |-> rows'[i].mark]
      BY DEF Fits
    <3>1. CASE i \in DOMAIN rows
      <4>1. rows'[i] = rows[i] /\ rows[i].file # f /\ rows[i].file \in Files
        BY <2>1, <2>3, <2>4, <3>1
      <4> QED
        BY <1>3, <2>1, <2>2, <3>1, <4>1 DEF Fits
    <3>2. CASE i \notin DOMAIN rows
      <4>1. i = n /\ ok
        BY <2>1, <3>2
      <4>2. rows'[i] = [file |-> f, sum |-> e.sum, mark |-> m, live |-> ~stub]
        BY <2>1, <4>1
      <4> QED
        BY <2>1, <4>1, <4>2
    <3> QED
      BY <3>1, <3>2
  <2>6. \A u \in Threads : th'[u].pc # "append"
    BY <2>1, <2>2 DEF Holding
  <2> QED
    BY <1>2, <2>2, <2>5, <2>6
<1>9. ASSUME NEW t \in Threads, AppendRow(t) \/ NewRow(t)
      PROVE  RowsInv'
  BY <1>8, <1>9, Storing
<1>10. CASE Crash
  <2>1. rows' = rows /\ ~built' /\ \A t \in Threads : th'[t].pc = "idle"
    BY <1>10 DEF Crash, disk, Idle
  <2> QED
    BY <1>2, <1>3, <2>1
<1> QED
  BY <1>4, <1>5, <1>6, <1>7, <1>9, <1>10, Effects

(* The history follows the database.                                       *)
Holds(e, h) == h # None => e # None /\ e.sum # Deleted /\ e.sum.hash = h

LEMMA HashKept ==
  ASSUME NEW f \in Files, NEW s \in Sums, NEW old \in Entries, Holds(old, known[f]),
         NEW e, e # None, e.sum = fim_sum_keep_hashes(old.sum, s)
  PROVE  Holds(e, Hash(f, s))
<1>1. old.sum \in Sums
  BY DEF Entries
<1>2. /\ e.sum = Deleted <=> s = Deleted
      /\ s # Deleted => e.sum.hash = IF s.hash = Xxx /\ old.sum # Deleted THEN old.sum.hash ELSE s.hash
  BY <1>1, SumsType
<1> QED
  BY <1>2 DEF Hash, Holds

LEMMA KnownStep ==
  ASSUME IndInv, [Next]_vars
  PROVE  KnownInv'
<1>1. /\ TypeOK /\ LockInv /\ JobInv /\ RowsInv /\ KnownInv
      /\ \A f \in Files : Holds(View[f], known[f])
      /\ View \in [Files -> Entries \cup {None}] /\ known \in [Files -> Hashes \cup {None}]
      /\ None \notin Entries
  BY ViewFits, SyscheckDbAssumption DEF IndInv, KnownInv, Holds, TypeOK, SyscheckDbAssumption
<1>2. ASSUME View' = View, UNCHANGED known
      PROVE  KnownInv'
  <2>1. \A f \in Files : Holds(View'[f], known'[f])
    BY <1>1, <1>2
  <2> QED
    BY <2>1 DEF KnownInv, Holds
<1>3. ASSUME NEW f \in Files, NEW s \in Sums, Know(f, s), Holds(View'[f], Hash(f, s)),
             \A g \in Files \ {f} : View'[g] = View[g]
      PROVE  KnownInv'
  <2>1. \A g \in Files : Holds(View'[g], known'[g])
    BY <1>1, <1>3 DEF Know
  <2> QED
    BY <2>1 DEF KnownInv, Holds
<1>4. CASE UNCHANGED <<th, data>>
  BY <1>2, <1>4 DEF data, View
<1>5. ASSUME NEW t \in Threads, Aside(t)
      PROVE  KnownInv'
  BY <1>2, <1>5 DEF Aside, data, View
<1>6. ASSUME NEW t \in Threads, Looked(t)
      PROVE  KnownInv'
  <2> DEFINE f == th[t].msg.file
             s == th[t].msg.sum
  <2>1. View' = View /\ f \in Files /\ s \in Sums
    BY <1>6 DEF Looked, View, FileReports
  <2>2. CASE UNCHANGED known
    BY <1>2, <2>1, <2>2
  <2>3. CASE View[f] # None /\ fim_sum_keep_hashes(View[f].sum, s) = View[f].sum /\ Know(f, s)
    <3>1. Holds(View[f], Hash(f, s))
      BY <1>1, <2>1, <2>3, HashKept
    <3> QED
      BY <1>3, <2>1, <2>3, <3>1
  <2> QED
    BY <1>6, <2>2, <2>3 DEF Looked
<1>7. ASSUME NEW t \in Threads, Commented(t)
      PROVE  KnownInv'
  <2>1. built
    BY <1>1, <1>7 DEF Commented, LockInv, Holding
  <2> QED
    BY <1>2, <1>7, <2>1 DEF Commented, View
<1>8. ASSUME NEW t \in Threads, NEW m, NEW ok \in BOOLEAN, Stores(t, m, ok)
      PROVE  KnownInv'
  <2> DEFINE f == th[t].job.file
             s == th[t].msg.sum
             e == [pos |-> Len(rows) + 1, sum |-> th[t].job.sum, mark |-> m]
  <2>1. /\ f \in Files /\ s \in Sums /\ e \in Entries
        /\ index'[f] = e /\ \A g \in Files \ {f} : index'[g] = index[g]
    <3>1. f \in Files /\ s \in Sums
      BY <1>8, Storer DEF FileReports
    <3>2. e \in Entries /\ index'[f] = e /\ \A g \in Files \ {f} : index'[g] = index[g]
      BY <1>8, Stored, ZenonT(60)
    <3> QED
      BY <3>1, <3>2
  <2>2. /\ View = index /\ View' = index' /\ Know(f, s)
        /\ th[t].pc = "append" => Settled(th[t].job, index[f], s)
        /\ th[t].pc = "new" => index[f] = None /\ e.sum = s
    BY <1>1, <1>8 DEF Stores, LockInv, Holding, View, JobInv, JobOf
  <2>3. Holds(e, Hash(f, s))
    <3>1. CASE th[t].pc = "append"
      <4>1. index[f] \in Entries /\ Holds(index[f], known[f])
        BY <1>1, <2>1, <2>2, <3>1 DEF Settled
      <4>2. e # None /\ e.sum = fim_sum_keep_hashes(index[f].sum, s)
        BY <1>1, <2>1, <2>2, <3>1 DEF Settled
      <4> HIDE DEF e
      <4> QED
        BY <2>1, <4>1, <4>2, HashKept
    <3>2. CASE th[t].pc = "new"
      <4>1. known[f] = None /\ e # None /\ e.sum = s
        BY <1>1, <2>1, <2>2, <3>2 DEF Holds
      <4> QED
        BY <4>1 DEF Holds, Hash
    <3> QED
      BY <1>8, <3>1, <3>2 DEF Stores
  <2> QED
    BY <1>3, <2>1, <2>2, <2>3
<1>9. ASSUME NEW t \in Threads, AppendRow(t) \/ NewRow(t)
      PROVE  KnownInv'
  BY <1>8, <1>9, Storing
<1>10. CASE Crash
  <2>1. known' = Known(DB_BuildIndex(rows)) /\ View' = DB_BuildIndex(rows)
    BY <1>10 DEF Crash, View, disk
  <2>2. \A f \in Files : Holds(View'[f], known'[f])
    BY <2>1 DEF Known, Holds
  <2> QED
    BY <2>2 DEF KnownInv, Holds
<1> QED
  BY <1>4, <1>5, <1>6, <1>7, <1>9, <1>10, Effects

(* Where a row of a new file is always written, an entry always has one.   *)
LEMMA PlaceStep ==
  ASSUME IndInv, [Next]_vars, "new" \notin Fails
  PROVE  PlaceInv'
<1> DEFINE Placed(idx, r) == \A f \in Files : idx[f] # None => idx[f].pos \in DOMAIN r /\ r[idx[f].pos].file = f
<1>1. /\ TypeOK /\ LockInv /\ JobInv
      /\ ~stub /\ Placed(View, rows) /\ (built => View = index)
  BY ViewFits DEF IndInv, PlaceInv
<1>2. ASSUME ~stub', built' => Placed(index', rows')
      PROVE  PlaceInv'
  BY <1>2 DEF PlaceInv
<1> HIDE DEF Placed
<1>3. CASE UNCHANGED <<th, data>>
  BY <1>1, <1>2, <1>3 DEF data
<1>4. ASSUME NEW t \in Threads, Aside(t)
      PROVE  PlaceInv'
  BY <1>1, <1>2, <1>4 DEF Aside, data
<1>5. ASSUME NEW t \in Threads, Looked(t)
      PROVE  PlaceInv'
  BY <1>1, <1>2, <1>5 DEF Looked
<1>6. ASSUME NEW t \in Threads, Commented(t)
      PROVE  PlaceInv'
  <2> DEFINE f == th[t].job.file
             p == index[f].pos
  <2>1. built /\ View = index /\ f \in Files /\ index[f] # None
    BY <1>1, <1>6 DEF Commented, LockInv, Holding, JobInv, JobOf, Settled, Jobs
  <2>2. p \in DOMAIN rows
    BY <1>1, <2>1 DEF Placed
  <2>3. /\ ~stub' /\ index' = index /\ DOMAIN rows' = DOMAIN rows
        /\ \A i \in DOMAIN rows : rows'[i].file = rows[i].file
    BY <1>1, <1>6, <2>2 DEF Commented
  <2>4. Placed(index', rows')
    BY <1>1, <2>1, <2>3 DEF Placed
  <2> QED
    BY <1>2, <2>3, <2>4
<1>7. ASSUME NEW t \in Threads, NEW m, Stores(t, m, TRUE)
      PROVE  PlaceInv'
  <2> DEFINE f == th[t].job.file
             n == Len(rows) + 1
             e == [pos |-> n, sum |-> th[t].job.sum, mark |-> m]
  <2>1. /\ index'[f] = e /\ \A g \in Files \ {f} : index'[g] = index[g]
        /\ \A i \in DOMAIN rows : i \in DOMAIN rows' /\ rows'[i] = rows[i]
        /\ ~stub' /\ n \in DOMAIN rows'
        /\ rows'[n] = [file |-> f, sum |-> e.sum, mark |-> m, live |-> ~stub]
    BY <1>7, Stored
  <2>2. built /\ View = index
    BY <1>1, <1>7 DEF Stores, LockInv, Holding
  <2>3. Placed(index', rows')
    <3> SUFFICES ASSUME NEW g \in Files, index'[g] # None
                 PROVE  index'[g].pos \in DOMAIN rows' /\ rows'[index'[g].pos].file = g
      BY DEF Placed
    <3>1. CASE g = f
      BY <2>1, <3>1
    <3>2. CASE g # f
      <4>1. index'[g] = index[g]
        BY <2>1, <3>2
      <4>2. index[g].pos \in DOMAIN rows /\ rows[index[g].pos].file = g
        BY <1>1, <2>2, <4>1 DEF Placed
      <4> QED
        BY <2>1, <4>1, <4>2
    <3> QED
      BY <3>1, <3>2
  <2> QED
    BY <1>2, <2>1, <2>3
<1>8. ASSUME NEW t \in Threads, AppendRow(t) \/ NewRow(t)
      PROVE  PlaceInv'
  BY <1>7, <1>8, Storing
<1>9. CASE Crash
  BY <1>1, <1>2, <1>9 DEF Crash, disk
<1> QED
  BY <1>3, <1>4, <1>5, <1>6, <1>8, <1>9, Effects

LEMMA Initially ==
  ASSUME Init
  PROVE  IndInv
<1> DEFINE idx == DB_BuildIndex(OldRows)
<1>1. OldRows \in Seq(Rows) /\ OneLive(OldRows) /\ Reports \in Seq(Messages)
  BY SyscheckDbAssumption DEF SyscheckDbAssumption, OneLive
<1>2. idx \in [Files -> Entries \cup {None}]
  BY <1>1, BuildIndex
<1>3. /\ rows = OldRows /\ View = idx /\ ~built /\ ~stub /\ known = Known(idx)
      /\ th = [t \in Threads |-> Idle]
  BY DEF Init, View
<1> HIDE DEF idx
<1>4. known \in [Files -> Hashes \cup {None}] /\ KnownInv
  <2>1. \A f \in Files : idx[f] = None \/ idx[f].sum \in Present \cup {Deleted}
    BY <1>2 DEF Entries, Sums
  <2>2. known \in [Files -> Hashes \cup {None}]
    BY <1>3, <2>1 DEF Known, Present
  <2>3. KnownInv
    BY <1>3, <2>1 DEF KnownInv, Known
  <2> QED
    BY <2>2, <2>3
<1>5. th \in [Threads -> ThreadStates] /\ \A t \in Threads : th[t].pc = "idle"
  BY <1>3 DEF Idle, ThreadStates, Places
<1>6. TypeOK
  <2>1. index \in [Files -> Entries \cup {None}]
    BY DEF Init, Unbuilt
  <2>2. alert \in [file : Files \cup {None}, kind : Kinds, flip : BOOLEAN]
    BY DEF Init, Kinds
  <2> QED
    BY <1>1, <1>3, <1>4, <1>5, <2>1, <2>2 DEF Init, TypeOK, ThreadStates
<1>7. LockInv /\ JobInv
  BY <1>5 DEF LockInv, JobInv, JobOf, Holding
<1>8. RowsInv /\ PlaceInv
  BY <1>1, <1>3, <1>5 DEF RowsInv, PlaceInv, OneLiveRow, OneLive
<1> QED
  BY <1>4, <1>6, <1>7, <1>8 DEF IndInv

(* The invariant holds in every state: through every interleaving of the   *)
(* threads, failed writes, restarts and commands.                          *)
THEOREM Invariance == Spec => []IndInv
<1>1. Init => IndInv
  BY Initially
<1>2. IndInv /\ [Next]_vars => IndInv'
  <2> SUFFICES ASSUME IndInv, [Next]_vars
               PROVE  IndInv'
    OBVIOUS
  <2>1. PlaceInv'
    <3>1. CASE "new" \in Fails
      BY <3>1 DEF PlaceInv
    <3> QED
      BY <3>1, PlaceStep
  <2> QED
    BY <2>1, TypeStep, LockStep, JobStep, RowsStep, KnownStep DEF IndInv
<1> QED
  BY <1>1, <1>2, PTL DEF Spec

-----------------------------------------------------------------------------
(* The theorems.                                                           *)

(* Every variable keeps its type: the index and the rows hold sums that    *)
(* the code can have made of the reports and of the rows it started from.  *)
THEOREM SyscheckDbTypeCorrect == Spec => []TypeOK
<1>1. IndInv => TypeOK
  BY DEF IndInv
<1> QED
  BY <1>1, Invariance, PTL

(* Whatever fails, is cut short or overlaps, a file never has two rows     *)
(* that are not commented out: DB_ProcessFoundEntry writes the '#' before  *)
(* it appends.                                                             *)
THEOREM OneRowForAFile == Spec => []OneLiveRow
<1>1. IndInv => OneLiveRow
  BY DEF IndInv, RowsInv
<1> QED
  BY <1>1, Invariance, PTL

(* The file, where it has a row, agrees with the index.                    *)
LEMMA DiskAgrees ==
  ASSUME TypeOK, RowsInv, PlaceInv
  PROVE  \A f \in Files :
           /\ DB_BuildIndex(rows)[f] # None => DB_BuildIndex(rows)[f] = View[f]
           /\ (\E i \in DOMAIN rows : rows[i].live /\ rows[i].file = f) =>
                DB_BuildIndex(rows)[f] = View[f]
<1>1. rows \in Seq(Rows) /\ OneLive(rows)
  BY DEF TypeOK, RowsInv, OneLiveRow, OneLive
<1>2. Fits(View, rows)
  BY ViewFits
<1>3. /\ Fits(DB_BuildIndex(rows), rows)
      /\ \A f \in Files : DB_BuildIndex(rows)[f] # None =>
           \E i \in DOMAIN rows : rows[i].live /\ rows[i].file = f
  BY <1>1, BuildIndex
<1>4. \A i \in DOMAIN rows : rows[i].live => DB_BuildIndex(rows)[rows[i].file] = View[rows[i].file]
  <2> DEFINE e(i) == [pos |-> i, sum |-> rows[i].sum, mark |-> rows[i].mark]
  <2>1. \A i \in DOMAIN rows : rows[i].live => View[rows[i].file] = e(i)
    BY <1>2 DEF Fits
  <2>2. \A i \in DOMAIN rows : rows[i].live => DB_BuildIndex(rows)[rows[i].file] = e(i)
    BY <1>3 DEF Fits
  <2> HIDE DEF e
  <2> QED
    BY <2>1, <2>2
<1> QED
  BY <1>3, <1>4

LEMMA HashStep ==
  ASSUME IndInv, [Next]_vars, NEW f \in Files,
         known[f] # None, known'[f] \notin {None, known[f]}
  PROVE  alert' # alert \/ \E t \in Threads : th[t].pc = "append" /\ th[t].job.kind = "accept"
<1>1. /\ TypeOK /\ JobInv /\ LockInv /\ View[f] # None /\ View[f].sum # Deleted
      /\ View[f].sum.hash = known[f]
      /\ known[f] \in Hashes /\ known \in [Files -> Hashes \cup {None}]
      /\ View \in [Files -> Entries \cup {None}] /\ (built => View = index)
      /\ alert \in [file : Files \cup {None}, kind : Kinds, flip : BOOLEAN]
  BY ViewFits DEF IndInv, KnownInv, TypeOK
<1>2. View[f].sum \in Sums
  BY <1>1 DEF Entries
<1>3. ~UNCHANGED known
  OBVIOUS
<1>4. CASE UNCHANGED <<th, data>>
  BY <1>3, <1>4 DEF data
<1>5. ASSUME NEW t \in Threads, Aside(t) \/ Commented(t)
      PROVE  FALSE
  BY <1>3, <1>5 DEF Aside, Commented, data
<1>6. ASSUME NEW g \in Files, NEW s \in Sums, Know(g, s)
      PROVE  g = f /\ s # Deleted /\ s.hash # Xxx /\ s.hash # known[f] /\ known'[f] = s.hash
  BY <1>1, <1>6 DEF Know, Hash
<1>7. ASSUME NEW t \in Threads, Looked(t)
      PROVE  FALSE
  <2> DEFINE g == th[t].msg.file
             s == th[t].msg.sum
  <2>1. g \in Files /\ s \in Sums
    BY <1>7 DEF Looked, FileReports
  <2>2. Know(g, s) /\ fim_sum_keep_hashes(View[g].sum, s) = View[g].sum
    BY <1>3, <1>7 DEF Looked
  <2>3. g = f /\ s # Deleted /\ s.hash # Xxx /\ s.hash # known[f]
    BY <1>6, <2>1, <2>2
  <2>4. fim_sum_keep_hashes(View[f].sum, s).hash = s.hash
    BY <1>2, <2>1, <2>3, SumsType
  <2> QED
    BY <1>1, <2>2, <2>3, <2>4
<1>8. ASSUME NEW t \in Threads, NEW m, NEW ok \in BOOLEAN, Stores(t, m, ok)
      PROVE  /\ th[t].job.file = f /\ th[t].pc = "append"
             /\ fim_sum_has_real_change(index[f].sum, th[t].job.sum)
  <2> DEFINE s == th[t].msg.sum
  <2>1. /\ th[t].job.file \in Files /\ s \in Sums /\ Know(th[t].job.file, s)
        /\ th[t].pc \in {"append", "new"}
    BY <1>8, Storer DEF Stores, FileReports
  <2>2. th[t].job.file = f /\ s # Deleted /\ s.hash # Xxx /\ s.hash # known[f]
    BY <1>6, <2>1
  <2>3. built /\ View = index
    BY <1>1, <2>1 DEF LockInv, Holding
  <2>4. th[t].pc = "append"
    BY <1>1, <2>1, <2>2, <2>3 DEF JobInv, JobOf
  <2>5. th[t].job.sum = fim_sum_keep_hashes(index[f].sum, s) /\ th[t].job.sum # index[f].sum
    BY <1>1, <2>2, <2>4 DEF JobInv, JobOf, Settled
  <2>6. th[t].job.sum.hash = s.hash
    BY <1>2, <2>1, <2>2, <2>3, <2>5, SumsType
  <2>7. index[f].sum.hash # Xxx
    BY <1>1, <2>3, FimSumAssumption DEF FimSumAssumption
  <2> QED
    BY <1>1, <2>2, <2>3, <2>4, <2>5, <2>6, <2>7 DEF fim_sum_has_real_change
<1>9. ASSUME NEW t \in Threads, AppendRow(t)
      PROVE  alert' # alert \/ (th[t].pc = "append" /\ th[t].job.kind = "accept")
  <2>1. /\ th[t].job.file = f /\ th[t].pc = "append"
        /\ fim_sum_has_real_change(index[f].sum, th[t].job.sum)
    BY <1>8, <1>9, Storing
  <2>2. th[t].job.kind \in {"alert", "accept"}
    BY <1>1, <2>1 DEF JobInv, JobOf, Settled
  <2>3. CASE th[t].job.kind = "alert"
    <3>1. alert'.flip = ~alert.flip
      BY <1>9, <2>3 DEF AppendRow, Raise
    <3>2. alert.flip \in BOOLEAN
      BY <1>1
    <3> QED
      BY <3>1, <3>2
  <2> QED
    BY <2>1, <2>2, <2>3
<1>10. ASSUME NEW t \in Threads, NewRow(t)
       PROVE  FALSE
  <2>1. th[t].pc = "new"
    BY <1>10 DEF NewRow
  <2> QED
    BY <1>8, <1>10, <2>1, Storing
<1>11. CASE Crash
  <2>1. known' = Known(DB_BuildIndex(rows))
    BY <1>11 DEF Crash
  <2>2. DB_BuildIndex(rows)[f] # None /\ known'[f] = DB_BuildIndex(rows)[f].sum.hash
    BY <2>1 DEF Known
  <2>3. DB_BuildIndex(rows)[f] = View[f]
    BY <2>2, DiskAgrees DEF IndInv
  <2> QED
    BY <1>1, <2>2, <2>3
<1> QED
  BY <1>4, <1>5, <1>7, <1>9, <1>10, <1>11, Effects

(* A change of a file's last real hash is stored with an alert, or in      *)
(* maintenance mode, whatever reports without a hash, failed writes and    *)
(* restarts come in between (fim_sum_keep_hashes, fim_sum_has_real_change).*)
THEOREM HashChangesAreSeen == Spec => HashChangeSeen
<1> DEFINE Seen == \A f \in Files :
             known[f] # None /\ known'[f] \notin {None, known[f]} =>
               alert' # alert \/ \E t \in Threads : th[t].pc = "append" /\ th[t].job.kind = "accept"
<1>1. IndInv /\ [Next]_vars => [Seen]_vars
  BY HashStep
<1> QED
  BY <1>1, Invariance, PTL DEF Spec, HashChangeSeen

-----------------------------------------------------------------------------
(* The refinement of FimBaseline.                                          *)

(* The variables of FimBaseline, as the refinement mapping has them.       *)
base == [f \in Files |-> Entry(View[f])]
saved == {f \in Files : Entry(View[f]) = Entry(DB_BuildIndex(rows)[f])}
busy == IF Free THEN None
        ELSE LET j == th[CHOOSE t \in Threads : Holding(t)].job
             IN [file |-> j.file, maint |-> j.maint]

InFile(f) == \E i \in DOMAIN rows : rows[i].live /\ rows[i].file = f

(* What a restart forgets is what has no row in the file, and what is      *)
(* being dealt with is what the thread that has the lock deals with.       *)
Mapped ==
    /\ View \in [Files -> Entries \cup {None}]
    /\ built => View = index
    /\ saved = {f \in Files : View[f] = None \/ InFile(f)}
    /\ \A f \in Files : Entry(DB_BuildIndex(rows)[f]) = IF f \in saved THEN base[f] ELSE None
    /\ Free => busy = None
    /\ \A t \in Threads : Holding(t) => busy = [file |-> th[t].job.file, maint |-> th[t].job.maint]

LEMMA Nones ==
  /\ None \notin Entries /\ None \notin [sum : Sums, mark : Marks]
  /\ None \notin [file : Files, maint : BOOLEAN]
  /\ \A e \in Entries : Entry(e) = [sum |-> e.sum, mark |-> e.mark] /\ Entry(e) # None
                        /\ Entry(e) \in [sum : Sums, mark : Marks]
  /\ Entry(None) = None
<1>1. /\ None \notin Entries /\ None \notin [sum : Sums, mark : Marks]
      /\ None \notin [file : Files, maint : BOOLEAN]
  BY SyscheckDbAssumption DEF SyscheckDbAssumption
<1>2. ASSUME NEW e \in Entries
      PROVE  /\ Entry(e) = [sum |-> e.sum, mark |-> e.mark]
             /\ [sum |-> e.sum, mark |-> e.mark] \in [sum : Sums, mark : Marks]
  <2>1. e # None
    BY <1>1
  <2> QED
    BY <2>1 DEF Entries, Entry
<1>3. Entry(None) = None
  BY DEF Entry
<1> QED
  BY <1>1, <1>2, <1>3

LEMMA Maps ==
  ASSUME IndInv
  PROVE  Mapped
<1> DEFINE d == DB_BuildIndex(rows)
<1>1. /\ TypeOK /\ RowsInv /\ PlaceInv /\ LockInv
      /\ View \in [Files -> Entries \cup {None}] /\ (built => View = index)
      /\ rows \in Seq(Rows) /\ OneLive(rows)
  BY ViewFits DEF IndInv, TypeOK, RowsInv, OneLiveRow, OneLive
<1>2. /\ \A f \in Files : (d[f] # None \/ InFile(f)) => d[f] = View[f]
      /\ \A f \in Files : d[f] # None => InFile(f)
      /\ \A f \in Files : InFile(f) => d[f] # None
  <2>1. /\ \A f \in Files : d[f] # None => InFile(f)
        /\ Fits(d, rows) /\ d \in [Files -> Entries \cup {None}]
    BY <1>1, BuildIndex DEF InFile
  <2>2. \A f \in Files : (d[f] # None \/ InFile(f)) => d[f] = View[f]
    BY <1>1, DiskAgrees DEF InFile
  <2>3. \A f \in Files : InFile(f) => d[f] # None
    <3> SUFFICES ASSUME NEW i \in DOMAIN rows, rows[i].live
                 PROVE  d[rows[i].file] # None
      BY DEF InFile
    <3>1. rows[i] \in Rows /\ i \in Nat \ {0}
      BY <1>1, LenProperties, ElementOfSeq
    <3>2. [pos |-> i, sum |-> rows[i].sum, mark |-> rows[i].mark] \in Entries
      BY <3>1 DEF Rows, Entries
    <3>3. d[rows[i].file] = [pos |-> i, sum |-> rows[i].sum, mark |-> rows[i].mark]
      BY <2>1 DEF Fits
    <3> QED
      BY <3>2, <3>3, Nones
  <2> QED
    BY <2>1, <2>2, <2>3
<1> HIDE DEF d
<1>3. saved = {f \in Files : View[f] = None \/ InFile(f)}
  <2>1. saved = {f \in Files : Entry(View[f]) = Entry(d[f])}
    BY DEF saved, d
  <2>2. ASSUME NEW f \in Files
        PROVE  Entry(View[f]) = Entry(d[f]) <=> (View[f] = None \/ InFile(f))
    <3>1. View[f] = None \/ View[f] \in Entries
      BY <1>1
    <3> QED
      BY <1>2, <3>1, Nones
  <2> QED
    BY <2>1, <2>2
<1>4. \A f \in Files : Entry(d[f]) = IF f \in saved THEN base[f] ELSE None
  BY <1>2, <1>3, Nones DEF base
<1>5. Free => busy = None
  BY DEF busy
<1>6. ASSUME NEW t \in Threads, Holding(t)
      PROVE  busy = [file |-> th[t].job.file, maint |-> th[t].job.maint]
  <2> DEFINE u == CHOOSE v \in Threads : Holding(v)
  <2>1. u \in Threads /\ Holding(u)
    BY <1>6
  <2> HIDE DEF u
  <2>2. u = t
    BY <1>1, <1>6, <2>1 DEF LockInv
  <2>3. ~Free
    BY <1>6 DEF Free
  <2> QED
    BY <2>2, <2>3 DEF busy, u
<1> QED
  BY <1>1, <1>3, <1>4, <1>5, <1>6 DEF Mapped, d

(* FimBaseline is about the same sums and marks.                           *)
LEMMA SameSums ==
  /\ Baseline!Sums = Sums /\ Baseline!Marks = Marks /\ Baseline!New = New
  /\ \A a, b : /\ Baseline!fim_sum_keep_hashes(a, b) = fim_sum_keep_hashes(a, b)
               /\ Baseline!fim_sum_has_real_change(a, b) = fim_sum_has_real_change(a, b)
  /\ \A n : Baseline!NextMark(n) = NextMark(n) /\ Baseline!Changes(n) = Changes(n)
  /\ \A a, b, n, c : Baseline!Reported(a, b, n, c) = Reported(a, b, n, c)
BY DEF Baseline!Sums, Sums, Baseline!Present, Present, Baseline!Marks, Marks, Baseline!New, New,
       Baseline!fim_sum_keep_hashes, fim_sum_keep_hashes,
       Baseline!fim_sum_has_real_change, fim_sum_has_real_change,
       Baseline!NextMark, NextMark, Baseline!Changes, Changes, Baseline!Reported, Reported

LEMMA RefinesInit == Init => Baseline!Init
<1> SUFFICES ASSUME Init
             PROVE  Baseline!Init
  OBVIOUS
<1>1. Mapped /\ TypeOK
  BY Initially, Maps DEF IndInv
<1>2. base \in [Files -> [sum : Sums, mark : Marks] \cup {None}]
  BY <1>1, Nones DEF Mapped, base
<1>3. saved = Files
  BY DEF saved, View, Init
<1>4. busy = None
  <2>1. Free
    BY DEF Init, Free, Holding, Idle
  <2> QED
    BY <1>1, <2>1 DEF Mapped
<1>5. alert = [file |-> None, kind |-> None, flip |-> FALSE] /\ auto \in BOOLEAN
  BY DEF Init
<1> QED
  BY <1>2, <1>3, <1>4, <1>5, SameSums DEF Baseline!Init, base, saved, busy

(* A step that leaves the database alone changes nothing of FimBaseline,   *)
(* or ends what the thread with the lock was doing.                        *)
LEMMA RefinesAside ==
  ASSUME IndInv, Mapped, IndInv', Mapped',
         UNCHANGED <<th, data>> \/ \E t \in Threads : Aside(t)
  PROVE  Baseline!End \/ UNCHANGED <<base, saved, busy, alert, auto>>
<1>1. UNCHANGED data
  BY DEF Aside
<1>2. UNCHANGED <<base, saved, alert, auto>>
  BY <1>1 DEF data, base, saved, View
<1>3. CASE UNCHANGED th
  BY <1>2, <1>3 DEF busy, Free, Holding
<1>4. ASSUME NEW t \in Threads, Aside(t)
      PROVE  Baseline!End \/ UNCHANGED <<base, saved, busy, alert, auto>>
  <2>1. \A u \in Threads : Holding(u)' => /\ Holding(u)
                                          /\ th'[u].job.file = th[u].job.file
                                          /\ th'[u].job.maint = th[u].job.maint
    BY <1>4 DEF Aside, Holding
  <2>2. CASE ~Free'
    <3>1. PICK u \in Threads : Holding(u)'
      BY <2>2 DEF Free
    <3>2. busy' = [file |-> th'[u].job.file, maint |-> th'[u].job.maint]
      BY <3>1 DEF Mapped
    <3>3. busy = [file |-> th[u].job.file, maint |-> th[u].job.maint]
      BY <2>1, <3>1 DEF Mapped
    <3> QED
      BY <1>2, <2>1, <3>1, <3>2, <3>3
  <2>3. CASE Free'
    <3>1. busy' = None
      BY <2>3 DEF Mapped
    <3>2. CASE busy = None
      BY <1>2, <3>1, <3>2
    <3>3. CASE busy # None
      BY <1>2, <3>1, <3>3 DEF Baseline!End, base, saved, busy
    <3> QED
      BY <3>2, <3>3
  <2> QED
    BY <2>2, <2>3
<1> QED
  BY <1>3, <1>4

(* The lookup begins a report, or finds that there is nothing to do.       *)
LEMMA RefinesLooked ==
  ASSUME IndInv, Mapped, IndInv', Mapped', NEW t \in Threads, Looked(t)
  PROVE  (\E f \in Files, m \in BOOLEAN : Baseline!Begin(f, m)) \/ UNCHANGED <<base, saved, busy, alert, auto>>
<1>1. View' = View /\ UNCHANGED <<rows, alert, auto>>
  BY DEF Looked, View
<1>2. UNCHANGED <<base, saved, alert, auto>>
  BY <1>1 DEF base, saved
<1>3. busy = None /\ \A u \in Threads \ {t} : ~Holding(u)'
  BY DEF Looked, Mapped, Free, Holding
<1>4. CASE th'[t].pc = "idle"
  <2>1. Free'
    BY <1>3, <1>4 DEF Free, Holding
  <2> QED
    BY <1>2, <1>3, <2>1 DEF Mapped
<1>5. CASE th'[t].pc \in {"new", "comment"}
  <2> DEFINE f == th'[t].job.file
             m == th'[t].job.maint
  <2>1. f \in Files /\ m \in BOOLEAN
    BY <1>5 DEF Looked, Jobs
  <2>2. busy' = [file |-> f, maint |-> m]
    BY <1>5 DEF Mapped, Holding
  <2> HIDE DEF f, m
  <2>3. Baseline!Begin(f, m)
    BY <1>2, <1>3, <2>2 DEF Baseline!Begin, base, saved, busy
  <2> QED
    BY <2>1, <2>3
<1> QED
  BY <1>4, <1>5 DEF Looked

(* While the row is commented out, a restart would forget the file.        *)
LEMMA RefinesCommented ==
  ASSUME IndInv, Mapped, IndInv', Mapped', NEW t \in Threads, Commented(t), "new" \notin Fails
  PROVE  Baseline!Unsave
<1> DEFINE f == th[t].job.file
<1>1. /\ built /\ View = index /\ View' = View /\ index[f] # None /\ f \in Files
      /\ UNCHANGED <<alert, auto>>
  BY DEF Commented, IndInv, LockInv, JobInv, JobOf, Settled, Jobs, Holding, View
<1>2. base' = base
  BY <1>1 DEF base
<1>3. busy = [file |-> f, maint |-> th[t].job.maint] /\ busy' = busy
  <2>1. Holding(t) /\ Holding(t)' /\ th'[t].job = th[t].job
    BY DEF Commented, Holding
  <2> QED
    BY <2>1 DEF Mapped
<1>4. busy # None
  <2>1. th[t].job \in Jobs
    BY DEF Commented, IndInv, JobInv, JobOf, Holding
  <2> QED
    BY <1>3, <2>1, Nones DEF Jobs
<1>5. /\ DOMAIN rows' = DOMAIN rows
      /\ \A i \in DOMAIN rows : rows'[i].file = rows[i].file /\ (rows'[i].live => rows[i].live)
      /\ \A i \in DOMAIN rows : rows[i].file # f => rows'[i] = rows[i]
  <2> DEFINE p == index[f].pos
  <2>1. /\ DOMAIN rows' = DOMAIN rows
        /\ \A i \in DOMAIN rows : IF i = p THEN ~rows'[i].live /\ rows'[i].file = rows[i].file
                                  ELSE rows'[i] = rows[i]
    BY DEF Commented
  <2>2. p \in DOMAIN rows /\ rows[p].file = f
    BY <1>1 DEF IndInv, PlaceInv
  <2>3. ~rows'[p].live /\ \A i \in DOMAIN rows \ {p} : rows'[i] = rows[i]
    BY <2>1, <2>2
  <2> HIDE DEF p
  <2> QED
    BY <2>1, <2>2, <2>3
<1>6. \A g \in Files : g = f => ~InFile(g)'
  BY DEF IndInv, RowsInv, Commented, InFile
<1>7. \A g \in Files \ {f} : InFile(g)' <=> InFile(g)
  BY <1>5 DEF InFile
<1>8. saved' = saved \ {f}
  <2>1. /\ saved = {g \in Files : View[g] = None \/ InFile(g)}
        /\ saved' = {g \in Files : View'[g] = None \/ InFile(g)'}
    BY DEF Mapped
  <2>2. ASSUME NEW g \in Files \ {f}
        PROVE  g \in saved' <=> g \in saved
    <3>1. InFile(g)' <=> InFile(g)
      BY <1>7
    <3>2. View'[g] = View[g]
      BY <1>1
    <3> QED
      BY <2>1, <3>1, <3>2
  <2>3. f \notin saved' /\ f \in Files
    BY <1>1, <1>6, <2>1
  <2> HIDE DEF f
  <2> QED
    BY <2>1, <2>2, <2>3
<1> QED
  BY <1>1, <1>2, <1>3, <1>4, <1>8 DEF Baseline!Unsave, base, saved, busy

(* A row written at the end of the file is saved, and is the new entry.    *)
LEMMA RefinesStored ==
  ASSUME IndInv, Mapped, IndInv', Mapped', NEW t \in Threads, NEW m, Stores(t, m, TRUE),
         "new" \notin Fails
  PROVE  LET j == th[t].job
         IN /\ j \in Jobs /\ th[t].msg.sum \in Sums
            /\ View = index /\ base[j.file] = Entry(index[j.file])
            /\ busy = [file |-> j.file, maint |-> j.maint] /\ busy # None
            /\ busy' \in {busy, None} /\ auto' = auto
            /\ base' = [base EXCEPT ![j.file] = [sum |-> j.sum, mark |-> m]]
            /\ saved' = saved \cup {j.file}
<1> DEFINE j == th[t].job
           f == j.file
           n == Len(rows) + 1
           e == [pos |-> n, sum |-> j.sum, mark |-> m]
<1>1. /\ th[t].msg.sum \in Sums /\ j \in Jobs /\ f \in Files
      /\ \A u \in Threads \ {t} : th'[u] = th[u]
      /\ th'[t].pc \in {"idle", "bump"}
      /\ th'[t].pc = "bump" => th'[t].job = j
  BY Storer DEF FileReports
<1>2. /\ e \in Entries
      /\ index' \in [Files -> Entries \cup {None}]
      /\ index'[f] = e /\ \A g \in Files \ {f} : index'[g] = index[g]
      /\ \A i \in DOMAIN rows : i \in DOMAIN rows' /\ rows'[i] = rows[i]
      /\ \A i \in DOMAIN rows' : i \in DOMAIN rows \/ i = n
      /\ n \in DOMAIN rows'
      /\ rows'[n] = [file |-> f, sum |-> e.sum, mark |-> m, live |-> ~stub]
  BY Stored
<1>3. Holding(t) /\ built /\ View = index /\ View' = index' /\ \A u \in Threads \ {t} : ~Holding(u)
  BY DEF Stores, IndInv, LockInv, Holding, View
<1>4. base[f] = Entry(index[f])
  BY <1>1, <1>3 DEF base
<1>5. busy = [file |-> f, maint |-> j.maint] /\ busy # None
  <2>1. busy = [file |-> f, maint |-> j.maint]
    BY <1>3 DEF Mapped
  <2> QED
    BY <1>1, <2>1, Nones DEF Jobs
<1>6. busy' \in {busy, None}
  <2>1. CASE th'[t].pc = "idle"
    <3>1. Free'
      BY <1>1, <1>3, <2>1 DEF Free, Holding
    <3> QED
      BY <3>1 DEF Mapped
  <2>2. CASE th'[t].pc = "bump"
    <3>1. Holding(t)' /\ th'[t].job = j
      BY <1>1, <2>2 DEF Holding
    <3>2. busy' = [file |-> f, maint |-> j.maint]
      BY <3>1 DEF Mapped
    <3> QED
      BY <1>5, <3>2
  <2> QED
    BY <1>1, <2>1, <2>2
<1>7. base' = [base EXCEPT ![f] = [sum |-> j.sum, mark |-> m]]
  <2>1. Entry(e) = [sum |-> j.sum, mark |-> m]
    BY <1>2, Nones
  <2>2. base' = [g \in Files |-> Entry(index'[g])] /\ base = [g \in Files |-> Entry(index[g])]
    BY <1>3 DEF base
  <2> HIDE DEF e, f
  <2> QED
    BY <1>1, <1>2, <2>1, <2>2
<1>8. saved' = saved \cup {f}
  <2>1. /\ saved = {g \in Files : View[g] = None \/ InFile(g)}
        /\ saved' = {g \in Files : View'[g] = None \/ InFile(g)'}
    BY DEF Mapped
  <2>2. \A g \in Files \ {f} : InFile(g)' <=> InFile(g)
    BY <1>2 DEF InFile
  <2>3. \A g \in Files : g = f => InFile(g)'
    <3>1. ~stub
      BY DEF IndInv, PlaceInv
    <3> HIDE DEF n, e, f
    <3>2. rows'[n].live = (~stub) /\ rows'[n].file = f
      BY <1>2
    <3>3. rows'[n].live
      BY <3>1, <3>2, Zenon
    <3> QED
      BY <1>2, <3>2, <3>3 DEF InFile
  <2>4. ASSUME NEW g \in Files \ {f}
        PROVE  g \in saved' <=> g \in saved
    <3>1. InFile(g)' <=> InFile(g)
      BY <2>2
    <3>2. View'[g] = View[g]
      BY <1>2, <1>3
    <3> QED
      BY <2>1, <3>1, <3>2
  <2>5. f \in saved'
    BY <1>1, <2>1, <2>3
  <2> HIDE DEF f
  <2> QED
    BY <1>1, <2>1, <2>4, <2>5
<1>9. auto' = auto
  BY DEF Stores
<1> QED
  BY <1>1, <1>3, <1>4, <1>5, <1>6, <1>7, <1>8, <1>9

LEMMA RefinesAppendRow ==
  ASSUME IndInv, Mapped, IndInv', Mapped', NEW t \in Threads, AppendRow(t), "new" \notin Fails
  PROVE  \E s \in Sums : Baseline!Accept(s)
<1> DEFINE j == th[t].job
           f == j.file
           s == th[t].msg.sum
           old == index[f]
           new == fim_sum_keep_hashes(old.sum, s)
           real == fim_sum_has_real_change(old.sum, new)
<1>1. /\ j \in Jobs /\ s \in Sums
      /\ View = index /\ base[f] = Entry(old)
      /\ busy = [file |-> f, maint |-> j.maint] /\ busy # None
      /\ busy' \in {busy, None} /\ auto' = auto
      /\ base' = [base EXCEPT ![f] = [sum |-> j.sum, mark |-> j.mark]]
      /\ saved' = saved \cup {f}
  BY Storing, RefinesStored
<1>2. Settled(j, old, s) /\ (IF j.kind = "alert" THEN Raise(j) ELSE UNCHANGED alert)
  BY DEF AppendRow, IndInv, JobInv, JobOf
<1>3. old \in Entries
  BY <1>1, <1>2, SMTT(30) DEF Mapped, Settled, Jobs
<1>4. base[f] # None /\ base[f].sum = old.sum /\ base[f].mark = old.mark
  BY <1>1, <1>3, Nones
<1>5. j.sum = new /\ new # old.sum
  BY <1>2 DEF Settled
<1>6. /\ real /\ ~j.maint => /\ j.kind = "alert" /\ j.mark = NextMark(old.mark)
                             /\ auto => Changes(old.mark) < 3
                             /\ j.event = Reported(old.sum, new, old.mark, auto)
      /\ ~(real /\ ~j.maint) => j.mark = 0 /\ j.kind # "alert"
  BY <1>2, <1>5 DEF Settled
<1>7. real /\ ~j.maint => alert' = [file |-> f, kind |-> Reported(old.sum, new, old.mark, auto),
                                    flip |-> ~alert.flip]
  BY <1>2, <1>6 DEF Raise
<1>8. ~(real /\ ~j.maint) => alert' = alert
  BY <1>2, <1>6
<1> HIDE DEF j, f, s, old
<1>9. Baseline!Accept(s)
  <2>1. busy.file = f /\ busy.maint = j.maint
    BY <1>1
  <2>2. /\ base' = [base EXCEPT ![busy.file] =
                      [sum |-> new, mark |-> IF real /\ ~j.maint THEN NextMark(old.mark) ELSE 0]]
        /\ saved' = saved \cup {busy.file}
    BY <1>1, <1>5, <1>6, <2>1
  <2> HIDE DEF new, real
  <2>3. /\ new = Baseline!fim_sum_keep_hashes(base[busy.file].sum, s)
        /\ real = Baseline!fim_sum_has_real_change(base[busy.file].sum, new)
    BY <1>4, <2>1, SameSums DEF new, real
  <2>4. /\ NextMark(old.mark) = Baseline!NextMark(base[busy.file].mark)
        /\ Changes(old.mark) = Baseline!Changes(base[busy.file].mark)
        /\ Reported(old.sum, new, old.mark, auto) =
             Baseline!Reported(base[busy.file].sum, new, base[busy.file].mark, auto)
    BY <1>4, <2>1, SameSums
  <2>5. busy # None /\ base[busy.file] # None /\ new # base[busy.file].sum
    BY <1>1, <1>4, <1>5, <2>1
  <2>6. CASE real /\ ~busy.maint
    <3>1. /\ base' = [base EXCEPT ![busy.file] =
                        [sum |-> new, mark |-> Baseline!NextMark(base[busy.file].mark)]]
          /\ auto => Baseline!Changes(base[busy.file].mark) < 3
          /\ Baseline!Alert(busy.file, Baseline!Reported(base[busy.file].sum, new,
                                                          base[busy.file].mark, auto))
      BY <1>6, <1>7, <2>1, <2>2, <2>4, <2>6 DEF Baseline!Alert
    <3> QED
      BY <1>1, <2>2, <2>3, <2>5, <2>6, <3>1 DEF Baseline!Accept, base, saved, busy
  <2>7. CASE ~(real /\ ~busy.maint)
    <3>1. base' = [base EXCEPT ![busy.file] = [sum |-> new, mark |-> 0]] /\ UNCHANGED alert
      BY <1>8, <2>1, <2>2, <2>7
    <3> QED
      BY <1>1, <2>2, <2>3, <2>5, <2>7, <3>1 DEF Baseline!Accept, base, saved, busy
  <2> QED
    BY <2>6, <2>7
<1> QED
  BY <1>1, <1>9

LEMMA RefinesNewRow ==
  ASSUME IndInv, Mapped, IndInv', Mapped', NEW t \in Threads, NewRow(t), "new" \notin Fails
  PROVE  \E s \in Sums : Baseline!Add(s)
<1> DEFINE j == th[t].job
           s == th[t].msg.sum
<1>1. PICK m \in {0, New} : Stores(t, m, TRUE)
  BY Storing
<1>2. /\ j \in Jobs /\ s \in Sums
      /\ View = index /\ base[j.file] = Entry(index[j.file])
      /\ busy = [file |-> j.file, maint |-> j.maint] /\ busy # None
      /\ busy' \in {busy, None} /\ auto' = auto
      /\ base' = [base EXCEPT ![j.file] = [sum |-> j.sum, mark |-> m]]
      /\ saved' = saved \cup {j.file}
  BY <1>1, RefinesStored
<1>3. index[j.file] = None /\ j.sum = s /\ j.event = "new"
  BY DEF NewRow, IndInv, JobInv, JobOf
<1>4. Raise(j) \/ UNCHANGED alert
  BY DEF NewRow
<1>5. Baseline!Alert(j.file, "new") \/ UNCHANGED alert
  BY <1>3, <1>4 DEF Raise, Baseline!Alert
<1>6. base[j.file] = None
  BY <1>2, <1>3, Nones
<1> HIDE DEF j, s
<1>7. Baseline!Add(s)
  <2>1. busy.file = j.file
    BY <1>2
  <2>2. \E k \in {0, Baseline!New} : base' = [base EXCEPT ![busy.file] = [sum |-> s, mark |-> k]]
    BY <1>2, <1>3, <2>1, SameSums
  <2>3. saved' = saved \cup {busy.file} /\ (Baseline!Alert(busy.file, "new") \/ UNCHANGED alert)
    BY <1>2, <1>5, <2>1
  <2>4. busy # None /\ base[busy.file] = None
    BY <1>2, <1>6, <2>1
  <2> QED
    BY <1>2, <2>2, <2>3, <2>4 DEF Baseline!Add, base, saved, busy
<1> QED
  BY <1>2, <1>7

LEMMA RefinesCrash ==
  ASSUME IndInv, Mapped, IndInv', Mapped', Crash
  PROVE  Baseline!Restart
<1>1. View' = DB_BuildIndex(rows) /\ rows' = rows /\ UNCHANGED <<alert, auto>>
  BY DEF Crash, View, disk
<1>2. base' = [f \in Files |-> IF f \in saved THEN base[f] ELSE None]
  <2>1. base' = [f \in Files |-> Entry(DB_BuildIndex(rows)[f])]
    BY <1>1 DEF base
  <2> QED
    BY <2>1 DEF Mapped
<1>3. saved' = Files
  BY <1>1 DEF saved
<1>4. busy' = None
  BY DEF Crash, Free, Holding, Idle, Mapped
<1> QED
  BY <1>1, <1>2, <1>3, <1>4 DEF Baseline!Restart, base, saved, busy

LEMMA RefinesNext ==
  ASSUME IndInv, Mapped, IndInv', Mapped', [Next]_vars, "new" \notin Fails
  PROVE  [Baseline!Next]_(Baseline!vars)
<1>1. CASE UNCHANGED <<base, saved, busy, alert, auto>>
  BY <1>1 DEF Baseline!vars, base, saved, busy
<1>2. CASE UNCHANGED <<th, data>> \/ \E t \in Threads : Aside(t)
  BY <1>1, <1>2, RefinesAside DEF Baseline!Next
<1>3. ASSUME NEW t \in Threads, Looked(t)
      PROVE  [Baseline!Next]_(Baseline!vars)
  BY <1>1, <1>3, RefinesLooked DEF Baseline!Next
<1>4. ASSUME NEW t \in Threads, Commented(t)
      PROVE  [Baseline!Next]_(Baseline!vars)
  BY <1>4, RefinesCommented DEF Baseline!Next
<1>5. ASSUME NEW t \in Threads, AppendRow(t) \/ NewRow(t)
      PROVE  [Baseline!Next]_(Baseline!vars)
  <2>1. \E s \in Sums : Baseline!Accept(s) \/ Baseline!Add(s)
    BY <1>5, RefinesAppendRow, RefinesNewRow
  <2> QED
    BY <2>1, SameSums DEF Baseline!Next
<1>6. CASE Crash
  BY <1>6, RefinesCrash DEF Baseline!Next
<1> QED
  BY <1>2, <1>3, <1>4, <1>5, <1>6, Effects

(* The text file, its index, its threads and its lock are FimBaseline: no  *)
(* change is accepted silently, none is reported twice, and a restart      *)
(* forgets only a file whose own update was cut short or failed.  It takes *)
(* that the row of a new file can be written, which DB_Search does not     *)
(* look at.                                                                *)
THEOREM DatabaseImplementsBaseline ==
  ASSUME "new" \notin Fails
  PROVE  Spec => ImplementsBaseline
<1>1. Init => Baseline!Init
  BY RefinesInit
<1>2. IndInv => Mapped
  BY Maps
<1>3. IndInv /\ Mapped /\ IndInv' /\ Mapped' /\ [Next]_vars => [Baseline!Next]_(Baseline!vars)
  BY RefinesNext
<1> QED
  BY <1>1, <1>2, <1>3, Invariance, PTL DEF Spec, ImplementsBaseline, Baseline!Spec
=============================================================================
