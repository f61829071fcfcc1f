---------------------- MODULE AnalysisdPipelineProofs ----------------------
(***************************************************************************)
(* Proofs about the event pipeline of analysisd (AnalysisdPipeline), for   *)
(* every number of messages, threads, types and shards, every capacity and *)
(* every configuration.                                                    *)
(***************************************************************************)
EXTENDS AnalysisdPipeline, SequenceTheorems, FiniteSetTheorems, TLAPS

-----------------------------------------------------------------------------
(* The inductive invariant, in parts.                                      *)

Idle == {"pop", "exited"}

(* Where a thread can be, and what it holds there.                         *)
Labels(t) == CASE t \in Decoders -> Idle \cup {"work", "fw", "push"}
               [] t \in Shards -> Idle \cup {"work", "checked", "logged", "kept", "archived"}
               [] OTHER -> Idle \cup {"work"}

(* What a queue carries.                                                   *)
Cargo(x) == CASE x \in Shards -> {Event(m) : m \in {n \in Msgs : ShardOf[n] = x}}
              [] x = "alerts" -> {"alert"} \X Msgs
              [] x = "statistical" -> {"stat"} \X Msgs
              [] x = "archive" -> {"event", "arch"} \X Msgs
              [] x = "firewall" -> {"fw"} \X Msgs
              [] OTHER -> {"text"} \X Msgs

HandOf(t) ==
    /\ pc[t] \in Labels(t)
    /\ pc[t] \in Idle => hand[t] = {} /\ job[t] = NoMsg
    /\ pc[t] \notin Idle => job[t] \in Msgs
    /\ t \notin Shards \cup Writers =>
         /\ pc[t] = "work" => hand[t] = {Text(job[t])}
         /\ pc[t] = "fw" => hand[t] = {Event(job[t]), <<"fw", job[t]>>}
         /\ pc[t] = "push" => hand[t] = {Event(job[t])}
    /\ t \in Shards =>
         /\ pc[t] \in {"work", "checked", "logged"} => hand[t] = {Event(job[t])}
         /\ pc[t] = "kept" => hand[t] = {} /\ Event(job[t]) \in ToSet(list[t])
         /\ pc[t] = "archived" => hand[t] \in {{}, {Event(job[t])}}
         /\ pc[t] \notin Idle => ShardOf[job[t]] = t
    /\ t \in Writers /\ pc[t] = "work" => \E o \in Cargo(t) : hand[t] = {o}

HandInv == \A t \in Threads : HandOf(t)
QueueInv == \A x \in Queues : ToSet(q[x]) \subseteq Cargo(x)

(* The places an object can be in.  What is alive is in one of them, once. *)
Places == ({"queue"} \X Queues) \cup ({"hand"} \X Threads) \cup ({"list"} \X Shards)
At(p) == CASE p[1] = "queue" -> ToSet(q[p[2]])
           [] p[1] = "hand" -> hand[p[2]]
           [] OTHER -> ToSet(list[p[2]])
Live == {o \in born : freed[o] = 0}

OnceInv == /\ \A x \in Queues : IsInjective(q[x])
           /\ \A s \in Shards : IsInjective(list[s])
PlaceInv == /\ \A p \in Places : At(p) \subseteq Live
            /\ \A o \in Live : \E p \in Places : o \in At(p)
            /\ \A p, r \in Places : p # r => At(p) \cap At(r) = {}
            /\ \A o \in Objects : freed[o] # 0 => o \in born
OwnInv == OnceInv /\ PlaceInv

(* The events that no rule has seen: not decoded yet, or on their way to   *)
(* their shard.  No copy of them exists.                                   *)
Upstream == {o \in Objects : \/ \E d \in Decoders : o \in hand[d]
                             \/ \E s \in Shards : o \in ToSet(q[s])}
Awaits(m) == Event(m) \notin born \/ Event(m) \in Upstream
CopyKinds == {"stat", "alert", "arch"}

BornInv ==
    /\ \A o \in born : o[2] \in arrived
    /\ \A t \in Threads : job[t] \in arrived \cup {NoMsg}
    /\ \A m \in Msgs : Event(m) \in born => freed[Text(m)] = 1
    /\ \A m \in Msgs : <<"fw", m>> \in born => Event(m) \in born
CopyOf(s) ==
    /\ pc[s] \notin Idle => ~Awaits(job[s])
    /\ pc[s] = "work" => <<"stat", job[s]>> \notin born
    /\ pc[s] \in {"work", "checked"} => <<"alert", job[s]>> \notin born
    /\ pc[s] \in {"work", "checked", "logged", "kept"} => <<"arch", job[s]>> \notin born
CopyInv ==
    /\ \A m \in Msgs : Awaits(m) => \A k \in CopyKinds : <<k, m>> \notin born
    /\ \A s \in Shards : CopyOf(s)

(* How far the shutdown is.                                                *)
StageInv ==
    /\ main > 0 => shutting_down
    /\ \A x \in down : \E i \in 1 .. 5 : i < main /\ x \in Stages[i].close
    /\ ~join_failed => \A i \in 1 .. 5 : i < main => \A t \in Stages[i].join : pc[t] = "exited"
    /\ main > 4 => \A s \in Shards : pc[s] = "exited"

IndInv == /\ StateOK /\ HandInv /\ QueueInv /\ OwnInv /\ BornInv /\ CopyInv /\ StageInv
-----------------------------------------------------------------------------
(* Queues and lists as sequences.                                          *)

LEMMA SeqFacts ==
  ASSUME NEW S, NEW l \in Seq(S)
  PROVE  /\ Len(l) \in Nat /\ DOMAIN l = 1 .. Len(l) /\ ToSet(l) \subseteq S
         /\ \A z : z \in ToSet(l) <=> \E i \in 1 .. Len(l) : l[i] = z
         /\ IsInjective(l) <=> \A i, j \in 1 .. Len(l) : l[i] = l[j] => i = j
<1>1. Len(l) \in Nat /\ DOMAIN l = 1 .. Len(l) /\ l \in [1 .. Len(l) -> S]
  BY LenProperties
<1>2. \A z : z \in ToSet(l) <=> \E i \in 1 .. Len(l) : l[i] = z
  BY <1>1 DEF ToSet
<1>3. IsInjective(l) <=> \A i, j \in 1 .. Len(l) : l[i] = l[j] => i = j
  BY <1>1 DEF IsInjective
<1>4. ToSet(l) \subseteq S
  BY <1>1, <1>2
<1> QED
  BY <1>1, <1>2, <1>3, <1>4

LEMMA EmptySet ==
  /\ ToSet(<<>>) = {} /\ IsInjective(<<>>) /\ Len(<<>>) = 0
  /\ \A S : <<>> \in Seq(S)
BY DEF ToSet, IsInjective

LEMMA AppendFacts ==
  ASSUME NEW S, NEW l \in Seq(S), NEW e \in S
  PROVE  /\ Append(l, e) \in Seq(S) /\ Len(Append(l, e)) = Len(l) + 1
         /\ ToSet(Append(l, e)) = ToSet(l) \cup {e}
         /\ IsInjective(l) /\ e \notin ToSet(l) => IsInjective(Append(l, e))
<1> DEFINE k == Append(l, e)
<1>1. /\ Len(l) \in Nat /\ k \in Seq(S) /\ Len(k) = Len(l) + 1
      /\ \A i \in 1 .. Len(l) : k[i] = l[i]
      /\ k[Len(l) + 1] = e
  BY SeqFacts, AppendProperties
<1> HIDE DEF k
<1>2. /\ \A z : z \in ToSet(k) <=> \E i \in 1 .. Len(l) + 1 : k[i] = z
      /\ \A z : z \in ToSet(l) <=> \E i \in 1 .. Len(l) : l[i] = z
      /\ IsInjective(l) => \A i, j \in 1 .. Len(l) : l[i] = l[j] => i = j
      /\ (\A i, j \in 1 .. Len(l) + 1 : k[i] = k[j] => i = j) => IsInjective(k)
  BY <1>1, SeqFacts
<1>3. /\ \A i \in 1 .. Len(l) + 1 : i \in 1 .. Len(l) \/ i = Len(l) + 1
      /\ \A i \in 1 .. Len(l) : i \in 1 .. Len(l) + 1
      /\ Len(l) + 1 \in 1 .. Len(l) + 1
  BY <1>1
<1>4. \A z : z \in ToSet(k) <=> z \in ToSet(l) \cup {e}
  BY <1>1, <1>2, <1>3
<1>5. ASSUME IsInjective(l), e \notin ToSet(l)
      PROVE  IsInjective(k)
  <2> SUFFICES ASSUME NEW i \in 1 .. Len(l) + 1, NEW j \in 1 .. Len(l) + 1, k[i] = k[j]
               PROVE  i = j
    BY <1>2
  <2> QED
    BY <1>1, <1>2, <1>3, <1>5
<1> QED
  BY <1>1, <1>4, <1>5 DEF k

(* A sequence without its n first elements, and those.                     *)
LEMMA SplitFacts ==
  ASSUME NEW S, NEW l \in Seq(S), NEW n \in 0 .. Len(l), IsInjective(l)
  PROVE  /\ SubSeq(l, n + 1, Len(l)) \in Seq(S)
         /\ Len(SubSeq(l, n + 1, Len(l))) = Len(l) - n
         /\ IsInjective(SubSeq(l, n + 1, Len(l)))
         /\ ToSet(SubSeq(l, 1, n)) \subseteq ToSet(l)
         /\ ToSet(SubSeq(l, n + 1, Len(l))) = ToSet(l) \ ToSet(SubSeq(l, 1, n))
         /\ \A z : z \in ToSet(SubSeq(l, 1, n)) <=> \E i \in 1 .. n : l[i] = z
<1> DEFINE k == SubSeq(l, n + 1, Len(l))
           u == SubSeq(l, 1, n)
<1>1. Len(l) \in Nat /\ n \in Nat /\ n <= Len(l) /\ \A i \in 1 .. Len(l) : l[i] \in S
  BY SeqFacts, ElementOfSeq
<1>2. k \in Seq(S) /\ Len(k) = Len(l) - n /\ \A i \in 1 .. Len(l) - n : k[i] = l[i + n]
  <2>1. \A i \in n + 1 .. Len(l) : l[i] \in S
    BY <1>1
  <2> QED
    BY <1>1, <2>1, SubSeqProperties
<1>3. u \in Seq(S) /\ Len(u) = n /\ \A i \in 1 .. n : u[i] = l[i]
  <2>1. \A i \in 1 .. n : l[i] \in S
    BY <1>1
  <2> QED
    BY <1>1, <2>1, SubSeqProperties
<1> HIDE DEF k, u
<1>4. /\ \A z : z \in ToSet(l) <=> \E i \in 1 .. Len(l) : l[i] = z
      /\ \A i, j \in 1 .. Len(l) : l[i] = l[j] => i = j
  BY SeqFacts
<1>5. /\ \A z : z \in ToSet(k) <=> \E i \in 1 .. Len(l) - n : k[i] = z
      /\ (\A i, j \in 1 .. Len(l) - n : k[i] = k[j] => i = j) => IsInjective(k)
  BY <1>2, SeqFacts
<1>6. \A z : z \in ToSet(u) <=> \E i \in 1 .. n : u[i] = z
  BY <1>3, SeqFacts
<1>7. /\ \A i \in 1 .. Len(l) - n : i + n \in 1 .. Len(l) /\ i + n \notin 1 .. n /\ i \in Nat
      /\ \A i \in 1 .. n : i \in 1 .. Len(l)
      /\ \A i \in 1 .. Len(l) : i \in 1 .. n \/ (i - n \in 1 .. Len(l) - n /\ (i - n) + n = i)
  BY <1>1
<1>8. \A z : z \in ToSet(u) <=> \E i \in 1 .. n : l[i] = z
  BY <1>3, <1>6
<1>9. \A z : z \in ToSet(k) <=> \E i \in 1 .. Len(l) - n : l[i + n] = z
  BY <1>2, <1>5
<1>10. ASSUME NEW z
       PROVE  z \in ToSet(k) <=> z \in ToSet(l) \ ToSet(u)
  <2>1. ASSUME z \in ToSet(k)
        PROVE  z \in ToSet(l) \ ToSet(u)
    <3>1. PICK i \in 1 .. Len(l) - n : l[i + n] = z
      BY <1>9, <2>1
    <3>2. i + n \in 1 .. Len(l) /\ i + n \notin 1 .. n
      BY <1>7
    <3>3. z \in ToSet(l)
      BY <1>4, <3>1, <3>2
    <3>4. ASSUME NEW j \in 1 .. n, l[j] = z
          PROVE  FALSE
      <4>1. j \in 1 .. Len(l)
        BY <1>7
      <4> QED
        BY <1>4, <3>1, <3>2, <3>4, <4>1
    <3> QED
      BY <1>8, <3>3, <3>4
  <2>2. ASSUME z \in ToSet(l), z \notin ToSet(u)
        PROVE  z \in ToSet(k)
    <3>1. PICK i \in 1 .. Len(l) : l[i] = z
      BY <1>4, <2>2
    <3>2. i - n \in 1 .. Len(l) - n /\ (i - n) + n = i
      BY <1>7, <1>8, <2>2, <3>1
    <3> QED
      BY <1>9, <3>1, <3>2
  <2> QED
    BY <2>1, <2>2
<1>11. IsInjective(k)
  <2> SUFFICES ASSUME NEW i \in 1 .. Len(l) - n, NEW j \in 1 .. Len(l) - n, k[i] = k[j]
               PROVE  i = j
    BY <1>5
  <2>1. i + n \in 1 .. Len(l) /\ j + n \in 1 .. Len(l) /\ l[i + n] = l[j + n]
    BY <1>2, <1>7
  <2>2. i + n = j + n
    BY <1>4, <2>1
  <2> QED
    BY <1>1, <1>7, <2>2
<1>12. ToSet(u) \subseteq ToSet(l)
  BY <1>4, <1>7, <1>8
<1>13. ToSet(k) = ToSet(l) \ ToSet(u)
  BY <1>10
<1> QED
  BY <1>2, <1>8, <1>11, <1>12, <1>13 DEF k, u

LEMMA TailFacts ==
  ASSUME NEW S, NEW l \in Seq(S), l # <<>>, IsInjective(l)
  PROVE  /\ Head(l) \in ToSet(l) /\ Head(l) \in S
         /\ Tail(l) \in Seq(S) /\ Len(Tail(l)) = Len(l) - 1 /\ IsInjective(Tail(l))
         /\ ToSet(Tail(l)) = ToSet(l) \ {Head(l)}
<1> DEFINE k == SubSeq(l, 2, Len(l))
           u == SubSeq(l, 1, 1)
<1>1. Len(l) \in Nat /\ Len(l) # 0 /\ 1 \in 1 .. Len(l) /\ 1 \in 0 .. Len(l) /\ 1 + 1 = 2
  BY SeqFacts, EmptySeq
<1>2. /\ Tail(l) = k /\ Head(l) = l[1] /\ Head(l) \in S
  BY <1>1, TailIsSubSeq, HeadTailProperties
<1>3. /\ k \in Seq(S) /\ Len(k) = Len(l) - 1 /\ IsInjective(k)
      /\ ToSet(k) = ToSet(l) \ ToSet(u)
  <2>1. k \in Seq(S)
    BY <1>1, SplitFacts
  <2>2. Len(k) = Len(l) - 1
    <3> HIDE DEF k
    <3> QED
      BY <1>2, HeadTailProperties
  <2>3. IsInjective(k)
    BY <1>1, SplitFacts
  <2>4. ToSet(k) = ToSet(l) \ ToSet(u)
    BY <1>1, SplitFacts
  <2> QED
    BY <2>1, <2>2, <2>3, <2>4
<1>4. ToSet(u) = {Head(l)}
  <2>1. \A z : z \in ToSet(u) <=> \E i \in 1 .. 1 : l[i] = z
    BY <1>1, SplitFacts
  <2>2. 1 \in 1 .. 1 /\ \A i \in 1 .. 1 : i = 1
    OBVIOUS
  <2> HIDE DEF u
  <2> QED
    BY <1>2, <2>1, <2>2
<1> HIDE DEF k, u
<1>5. Head(l) \in ToSet(l)
  BY <1>1, <1>2, SeqFacts
<1> QED
  BY <1>2, <1>3, <1>4, <1>5
-----------------------------------------------------------------------------
(* Objects move.                                                           *)

LEMMA Objs ==
  /\ \A k \in Kinds, m \in Msgs : <<k, m>> \in Objects /\ <<k, m>>[1] = k /\ <<k, m>>[2] = m
  /\ \A o \in Objects : o[1] \in Kinds /\ o[2] \in Msgs /\ o = <<o[1], o[2]>>
  /\ \A m \in Msgs : Text(m) \in Objects /\ Event(m) \in Objects
  /\ Kinds = {"text", "event", "alert", "stat", "fw", "arch"}
BY DEF Objects, Text, Event, Kinds

LEMMA PlaceFacts ==
  /\ \A x \in Queues : <<"queue", x>> \in Places /\ At(<<"queue", x>>) = ToSet(q[x])
  /\ \A t \in Threads : <<"hand", t>> \in Places /\ At(<<"hand", t>>) = hand[t]
  /\ \A s \in Shards : <<"list", s>> \in Places /\ At(<<"list", s>>) = ToSet(list[s])
  /\ \A p \in Places : \/ \E x \in Queues : p = <<"queue", x>>
                       \/ \E t \in Threads : p = <<"hand", t>>
                       \/ \E s \in Shards : p = <<"list", s>>
  /\ \A x, y : x # y => <<"queue", x>> # <<"queue", y>> /\ <<"hand", x>> # <<"hand", y>>
                        /\ <<"list", x>> # <<"list", y>>
  /\ \A x, y : /\ <<"queue", x>> # <<"hand", y>> /\ <<"queue", x>> # <<"list", y>>
               /\ <<"hand", x>> # <<"list", y>>
<1>1. \A p \in Places : \/ \E x \in Queues : p = <<"queue", x>>
                        \/ \E t \in Threads : p = <<"hand", t>>
                        \/ \E s \in Shards : p = <<"list", s>>
  BY DEF Places
<1>2. /\ \A x \in Queues : <<"queue", x>> \in Places
      /\ \A t \in Threads : <<"hand", t>> \in Places
      /\ \A s \in Shards : <<"list", s>> \in Places
  BY DEF Places
<1>3. /\ \A x \in Queues : At(<<"queue", x>>) = ToSet(q[x])
      /\ \A t \in Threads : At(<<"hand", t>>) = hand[t]
      /\ \A s \in Shards : At(<<"list", s>>) = ToSet(list[s])
  BY DEF At
<1> QED
  BY <1>1, <1>2, <1>3

(* The objects X leave their places and N are new; those in Y go to place  *)
(* b, the others are freed.                                                *)
Flow(X, N, b, Y) ==
    /\ \A p \in Places : At(p)' = (At(p) \ X) \cup (IF p = b THEN Y ELSE {})
    /\ born' = born \cup N
    /\ freed' = [o \in Objects |-> IF o \in (X \cup N) \ Y THEN freed[o] + 1 ELSE freed[o]]

HeapOK == born \subseteq Objects /\ freed \in [Objects -> 0 .. 1]

LEMMA FlowKeeps ==
  ASSUME HeapOK, PlaceInv, NEW X, NEW N, NEW b \in Places, NEW Y, Flow(X, N, b, Y),
         X \subseteq Live, N \subseteq Objects \ born, Y \subseteq X \cup N
  PROVE  HeapOK' /\ PlaceInv'
<1>1. /\ born \subseteq Objects /\ freed \in [Objects -> 0 .. 1] /\ born' = born \cup N
      /\ \A o \in Objects : freed[o] \in {0, 1}
      /\ \A o \in Objects : freed'[o] = IF o \in (X \cup N) \ Y THEN freed[o] + 1 ELSE freed[o]
      /\ DOMAIN freed' = Objects
      /\ freed' = [o \in Objects |-> freed'[o]]
  BY DEF HeapOK, Flow
<1>2. /\ \A p \in Places : At(p) \subseteq Live
      /\ \A o \in Live : \E p \in Places : o \in At(p)
      /\ \A p, r \in Places : p # r => At(p) \cap At(r) = {}
      /\ \A o \in Objects : freed[o] # 0 => o \in born
      /\ \A o : o \in Live <=> o \in born /\ freed[o] = 0
      /\ \A o : o \in Live' <=> o \in born' /\ freed'[o] = 0
  BY DEF PlaceInv, Live
<1>3. \A o \in X \cup N : o \in Objects /\ freed[o] = 0
  BY <1>1, <1>2
<1>4. \A o \in Objects : freed'[o] \in {0, 1}
  BY <1>1, <1>3
<1>5. HeapOK'
  <2>1. born' \subseteq Objects
    BY <1>1
  <2>2. freed' \in [Objects -> 0 .. 1]
    BY <1>1, <1>4
  <2> QED
    BY <2>1, <2>2 DEF HeapOK
<1>6. \A o : o \in Live' <=> (o \in Live \ X) \/ o \in Y
  <2>1. \A o \in X \cup N : freed'[o] = 0 <=> o \in Y
    BY <1>1, <1>3
  <2>2. \A o \in born : o \notin X => o \notin N /\ freed'[o] = freed[o]
    BY <1>1
  <2> QED
    BY <1>1, <1>2, <2>1, <2>2
<1>7. \A p \in Places : At(p)' = (At(p) \ X) \cup (IF p = b THEN Y ELSE {})
  BY DEF Flow
<1>8. \A p \in Places : At(p)' \subseteq Live'
  BY <1>2, <1>6, <1>7
<1>9. ASSUME NEW o \in Live'
      PROVE  \E p \in Places : o \in At(p)'
  <2>1. CASE o \in Y
    BY <1>7, <2>1
  <2>2. CASE o \in Live \ X
    BY <1>2, <1>7, <2>2
  <2> QED
    BY <1>6, <2>1, <2>2
<1>10. ASSUME NEW p \in Places, NEW r \in Places, p # r
       PROVE  At(p)' \cap At(r)' = {}
  <2>1. At(p) \cap At(r) = {} /\ At(p) \cap N = {} /\ At(r) \cap N = {}
    BY <1>2, <1>10
  <2>2. (At(p) \ X) \cap Y = {} /\ (At(r) \ X) \cap Y = {}
    BY <2>1
  <2>3. /\ At(p)' = (At(p) \ X) \cup (IF p = b THEN Y ELSE {})
        /\ At(r)' = (At(r) \ X) \cup (IF r = b THEN Y ELSE {})
    BY <1>7
  <2> QED
    BY <1>10, <2>1, <2>2, <2>3
<1>11. \A o \in Objects : freed'[o] # 0 => o \in born'
  BY <1>1, <1>2
<1>12. PlaceInv'
  <2>1. \A o \in Live' : \E p \in Places : o \in At(p)'
    BY <1>9
  <2>2. \A p, r \in Places : p # r => At(p)' \cap At(r)' = {}
    BY <1>10
  <2> QED
    BY <1>8, <1>11, <2>1, <2>2 DEF PlaceInv
<1> QED
  BY <1>5, <1>12
Stores == /\ q \in [Queues -> Seq(Objects)] /\ hand \in [Threads -> SUBSET Objects]
          /\ list \in [Shards -> Seq(Objects)]

LEMMA Apart ==
  ASSUME PlaceInv
  PROVE  /\ \A x \in Queues : ToSet(q[x]) \subseteq Live
         /\ \A t \in Threads : hand[t] \subseteq Live
         /\ \A s \in Shards : ToSet(list[s]) \subseteq Live
         /\ \A x, y \in Queues : x # y => ToSet(q[x]) \cap ToSet(q[y]) = {}
         /\ \A t, u \in Threads : t # u => hand[t] \cap hand[u] = {}
         /\ \A s, r \in Shards : s # r => ToSet(list[s]) \cap ToSet(list[r]) = {}
         /\ \A x \in Queues, t \in Threads : ToSet(q[x]) \cap hand[t] = {}
         /\ \A x \in Queues, s \in Shards : ToSet(q[x]) \cap ToSet(list[s]) = {}
         /\ \A t \in Threads, s \in Shards : hand[t] \cap ToSet(list[s]) = {}
<1>1. /\ \A p \in Places : At(p) \subseteq Live
      /\ \A p, r \in Places : p # r => At(p) \cap At(r) = {}
  BY DEF PlaceInv
<1>2. /\ \A x \in Queues : ToSet(q[x]) \subseteq Live
      /\ \A t \in Threads : hand[t] \subseteq Live
      /\ \A s \in Shards : ToSet(list[s]) \subseteq Live
  BY <1>1, PlaceFacts
<1>3. \A x, y \in Queues : x # y => ToSet(q[x]) \cap ToSet(q[y]) = {}
  BY <1>1, PlaceFacts
<1>4. \A t, u \in Threads : t # u => hand[t] \cap hand[u] = {}
  BY <1>1, PlaceFacts
<1>5. \A s, r \in Shards : s # r => ToSet(list[s]) \cap ToSet(list[r]) = {}
  BY <1>1, PlaceFacts
<1>6. \A x \in Queues, t \in Threads : ToSet(q[x]) \cap hand[t] = {}
  BY <1>1, PlaceFacts
<1>7. \A x \in Queues, s \in Shards : ToSet(q[x]) \cap ToSet(list[s]) = {}
  BY <1>1, PlaceFacts
<1>8. \A t \in Threads, s \in Shards : hand[t] \cap ToSet(list[s]) = {}
  BY <1>1, PlaceFacts
<1> QED
  BY <1>2, <1>3, <1>4, <1>5, <1>6, <1>7, <1>8

LEMMA FlowByKind ==
  ASSUME NEW X, NEW N, NEW b, NEW Y,
         \A x \in Queues : ToSet(q'[x]) = (ToSet(q[x]) \ X) \cup (IF <<"queue", x>> = b THEN Y ELSE {}),
         \A t \in Threads : hand'[t] = (hand[t] \ X) \cup (IF <<"hand", t>> = b THEN Y ELSE {}),
         \A s \in Shards : ToSet(list'[s]) = (ToSet(list[s]) \ X) \cup (IF <<"list", s>> = b THEN Y ELSE {}),
         born' = born \cup N, Free((X \cup N) \ Y)
  PROVE  Flow(X, N, b, Y)
<1>1. /\ \A x \in Queues : At(<<"queue", x>>)' = ToSet(q'[x])
      /\ \A t \in Threads : At(<<"hand", t>>)' = hand'[t]
      /\ \A s \in Shards : At(<<"list", s>>)' = ToSet(list'[s])
  BY DEF At
<1>2. ASSUME NEW p \in Places
      PROVE  At(p)' = (At(p) \ X) \cup (IF p = b THEN Y ELSE {})
  <2>1. ASSUME NEW x \in Queues, p = <<"queue", x>>
        PROVE  At(p)' = (At(p) \ X) \cup (IF p = b THEN Y ELSE {})
    <3>1. At(p) = ToSet(q[x]) /\ At(p)' = ToSet(q'[x])
      BY <1>1, <2>1, PlaceFacts
    <3> QED
      BY <2>1, <3>1
  <2>2. ASSUME NEW t \in Threads, p = <<"hand", t>>
        PROVE  At(p)' = (At(p) \ X) \cup (IF p = b THEN Y ELSE {})
    <3>1. At(p) = hand[t] /\ At(p)' = hand'[t]
      BY <1>1, <2>2, PlaceFacts
    <3> QED
      BY <2>2, <3>1
  <2>3. ASSUME NEW s \in Shards, p = <<"list", s>>
        PROVE  At(p)' = (At(p) \ X) \cup (IF p = b THEN Y ELSE {})
    <3>1. At(p) = ToSet(list[s]) /\ At(p)' = ToSet(list'[s])
      BY <1>1, <2>3, PlaceFacts
    <3> QED
      BY <2>3, <3>1
  <2> QED
    BY <2>1, <2>2, <2>3, PlaceFacts
<1> QED
  BY <1>2 DEF Flow, Free

(* A thread replaces what it holds: objects of its own, and new ones.      *)
LEMMA FlowHand ==
  ASSUME HeapOK, OwnInv, Stores, NEW t \in Threads, NEW N, NEW H,
         N \subseteq Objects \ born, H \subseteq hand[t] \cup N,
         hand' = [hand EXCEPT ![t] = H], q' = q, list' = list,
         born' = born \cup N, Free((hand[t] \cup N) \ H)
  PROVE  HeapOK' /\ OwnInv' /\ Flow(hand[t], N, <<"hand", t>>, H)
<1> DEFINE X == hand[t]
           b == <<"hand", t>>
<1>1. PlaceInv /\ OnceInv
  BY DEF OwnInv
<1>2. \A u \in Threads : hand'[u] = (hand[u] \ X) \cup (IF <<"hand", u>> = b THEN H ELSE {})
  <2> TAKE u \in Threads
  <2>1. CASE u = t
    BY <2>1 DEF Stores
  <2>2. CASE u # t
    <3>1. hand[u] \cap hand[t] = {} /\ <<"hand", u>> # b
      BY <1>1, <2>2, Apart, PlaceFacts
    <3>2. hand'[u] = hand[u]
      BY <2>2 DEF Stores
    <3> QED
      BY <3>1, <3>2
  <2> QED
    BY <2>1, <2>2
<1>3. \A x \in Queues : ToSet(q'[x]) = (ToSet(q[x]) \ X) \cup (IF <<"queue", x>> = b THEN H ELSE {})
  <2> TAKE x \in Queues
  <2>1. ToSet(q[x]) \cap hand[t] = {} /\ <<"queue", x>> # b
    BY <1>1, Apart, PlaceFacts
  <2> QED
    BY <2>1
<1>4. \A s \in Shards : ToSet(list'[s]) = (ToSet(list[s]) \ X) \cup (IF <<"list", s>> = b THEN H ELSE {})
  <2> TAKE s \in Shards
  <2>1. ToSet(list[s]) \cap hand[t] = {} /\ <<"list", s>> # b
    BY <1>1, Apart, PlaceFacts
  <2> QED
    BY <2>1
<1>5. X \subseteq Live /\ b \in Places
  BY <1>1, Apart, PlaceFacts
<1> HIDE DEF X, b
<1>6. Flow(X, N, b, H)
  BY <1>2, <1>3, <1>4, FlowByKind DEF X
<1>7. HeapOK' /\ PlaceInv'
  BY <1>1, <1>5, <1>6, FlowKeeps DEF X
<1>8. OnceInv'
  BY <1>1 DEF OnceInv
<1> QED
  BY <1>6, <1>7, <1>8 DEF OwnInv, X, b
LEMMA FreeNone ==
  ASSUME HeapOK, freed' = freed, NEW O, O \cap Objects = {}
  PROVE  Free(O)
BY DEF HeapOK, Free

(* A queue gets an object at its end: from a thread, or a new one.         *)
LEMMA QueuePut ==
  ASSUME Stores, OnceInv, NEW x \in Queues, NEW o \in Objects, o \notin ToSet(q[x]), Put(x, o)
  PROVE  /\ q' \in [Queues -> Seq(Objects)]
         /\ \A y \in Queues : IsInjective(q'[y])
         /\ \A y \in Queues : ToSet(q'[y]) = ToSet(q[y]) \cup (IF y = x THEN {o} ELSE {})
         /\ \A y \in Queues : Len(q'[y]) = IF y = x THEN Len(q[y]) + 1 ELSE Len(q[y])
<1>1. /\ q' \in [Queues -> Seq(Objects)] \/ Append(q[x], o) \notin Seq(Objects)
      /\ \A y \in Queues : q'[y] = IF y = x THEN Append(q[x], o) ELSE q[y]
      /\ q[x] \in Seq(Objects)
  BY DEF Stores, Put
<1>2. \A y \in Queues : IsInjective(q[y])
  BY DEF OnceInv
<1>3. /\ Append(q[x], o) \in Seq(Objects) /\ Len(Append(q[x], o)) = Len(q[x]) + 1
      /\ ToSet(Append(q[x], o)) = ToSet(q[x]) \cup {o}
      /\ IsInjective(Append(q[x], o))
  BY <1>1, <1>2, AppendFacts
<1> QED
  BY <1>1, <1>2, <1>3

LEMMA QueueTake ==
  ASSUME Stores, OnceInv, NEW x \in Queues, q[x] # <<>>, q' = [q EXCEPT ![x] = Tail(@)]
  PROVE  /\ q' \in [Queues -> Seq(Objects)]
         /\ \A y \in Queues : IsInjective(q'[y])
         /\ \A y \in Queues : ToSet(q'[y]) = ToSet(q[y]) \ (IF y = x THEN {Head(q[x])} ELSE {})
         /\ \A y \in Queues : Len(q'[y]) = IF y = x THEN Len(q[y]) - 1 ELSE Len(q[y])
         /\ Head(q[x]) \in ToSet(q[x]) /\ Head(q[x]) \in Objects
<1>1. /\ q' \in [Queues -> Seq(Objects)] \/ Tail(q[x]) \notin Seq(Objects)
      /\ \A y \in Queues : q'[y] = IF y = x THEN Tail(q[x]) ELSE q[y]
      /\ q[x] \in Seq(Objects)
  BY DEF Stores
<1>2. \A y \in Queues : IsInjective(q[y])
  BY DEF OnceInv
<1>3. /\ Tail(q[x]) \in Seq(Objects) /\ Len(Tail(q[x])) = Len(q[x]) - 1
      /\ ToSet(Tail(q[x])) = ToSet(q[x]) \ {Head(q[x])}
      /\ IsInjective(Tail(q[x])) /\ Head(q[x]) \in ToSet(q[x]) /\ Head(q[x]) \in Objects
  BY <1>1, <1>2, TailFacts
<1> QED
  BY <1>1, <1>2, <1>3

(* A thread passes an object on.                                           *)
LEMMA FlowSend ==
  ASSUME HeapOK, OwnInv, Stores, NEW t \in Threads, NEW x \in Queues, NEW o \in hand[t],
         hand' = [hand EXCEPT ![t] = hand[t] \ {o}], Put(x, o), list' = list,
         born' = born, freed' = freed
  PROVE  HeapOK' /\ OwnInv' /\ Flow({o}, {}, <<"queue", x>>, {o})
<1> DEFINE b == <<"queue", x>>
<1>1. PlaceInv /\ OnceInv
  BY DEF OwnInv
<1>2. /\ o \in Objects /\ \A y \in Queues : o \notin ToSet(q[y])
      /\ \A u \in Threads : u # t => o \notin hand[u]
      /\ \A s \in Shards : o \notin ToSet(list[s])
      /\ o \in Live
  BY <1>1, Apart DEF Stores
<1>3. /\ \A y \in Queues : IsInjective(q'[y])
      /\ \A y \in Queues : ToSet(q'[y]) = ToSet(q[y]) \cup (IF y = x THEN {o} ELSE {})
  BY <1>1, <1>2, QueuePut
<1>4. \A y \in Queues : ToSet(q'[y]) = (ToSet(q[y]) \ {o}) \cup (IF <<"queue", y>> = b THEN {o} ELSE {})
  <2> TAKE y \in Queues
  <2>1. <<"queue", y>> = b <=> y = x
    BY PlaceFacts
  <2> QED
    BY <1>2, <1>3, <2>1
<1>5. \A u \in Threads : hand'[u] = (hand[u] \ {o}) \cup (IF <<"hand", u>> = b THEN {o} ELSE {})
  <2> TAKE u \in Threads
  <2>1. <<"hand", u>> # b
    BY PlaceFacts
  <2>2. hand'[u] = IF u = t THEN hand[u] \ {o} ELSE hand[u]
    BY DEF Stores
  <2> QED
    BY <1>2, <2>1, <2>2
<1>6. \A s \in Shards : ToSet(list'[s]) = (ToSet(list[s]) \ {o}) \cup (IF <<"list", s>> = b THEN {o} ELSE {})
  <2> TAKE s \in Shards
  <2>1. <<"list", s>> # b
    BY PlaceFacts
  <2> QED
    BY <1>2, <2>1
<1>7. Free(({o} \cup {}) \ {o})
  BY FreeNone
<1>8. b \in Places
  BY PlaceFacts
<1> HIDE DEF b
<1>9. Flow({o}, {}, b, {o})
  BY <1>4, <1>5, <1>6, <1>7, FlowByKind
<1>10. HeapOK' /\ PlaceInv'
  BY <1>1, <1>2, <1>8, <1>9, FlowKeeps
<1>11. OnceInv'
  BY <1>1, <1>3 DEF OnceInv
<1> QED
  BY <1>9, <1>10, <1>11 DEF OwnInv, b

(* A new object goes to a queue.                                           *)
LEMMA FlowNew ==
  ASSUME HeapOK, OwnInv, Stores, NEW x \in Queues, NEW o \in Objects \ born,
         hand' = hand, Put(x, o), list' = list, born' = born \cup {o}, freed' = freed
  PROVE  HeapOK' /\ OwnInv' /\ Flow({}, {o}, <<"queue", x>>, {o})
<1> DEFINE b == <<"queue", x>>
<1>1. PlaceInv /\ OnceInv
  BY DEF OwnInv
<1>2. /\ \A y \in Queues : o \notin ToSet(q[y])
      /\ \A u \in Threads : o \notin hand[u]
      /\ \A s \in Shards : o \notin ToSet(list[s])
  BY <1>1, Apart DEF Live
<1>3. /\ \A y \in Queues : IsInjective(q'[y])
      /\ \A y \in Queues : ToSet(q'[y]) = ToSet(q[y]) \cup (IF y = x THEN {o} ELSE {})
  BY <1>1, <1>2, QueuePut
<1>4. \A y \in Queues : ToSet(q'[y]) = (ToSet(q[y]) \ {}) \cup (IF <<"queue", y>> = b THEN {o} ELSE {})
  <2> TAKE y \in Queues
  <2>1. <<"queue", y>> = b <=> y = x
    BY PlaceFacts
  <2> QED
    BY <1>2, <1>3, <2>1
<1>5. \A u \in Threads : hand'[u] = (hand[u] \ {}) \cup (IF <<"hand", u>> = b THEN {o} ELSE {})
  BY PlaceFacts
<1>6. \A s \in Shards : ToSet(list'[s]) = (ToSet(list[s]) \ {}) \cup (IF <<"list", s>> = b THEN {o} ELSE {})
  BY PlaceFacts
<1>7. Free(({} \cup {o}) \ {o})
  BY FreeNone
<1>8. b \in Places
  BY PlaceFacts
<1> HIDE DEF b
<1>9. Flow({}, {o}, b, {o})
  BY <1>4, <1>5, <1>6, <1>7, FlowByKind
<1>10. HeapOK' /\ PlaceInv'
  BY <1>1, <1>2, <1>8, <1>9, FlowKeeps
<1>11. OnceInv'
  BY <1>1, <1>3 DEF OnceInv
<1> QED
  BY <1>9, <1>10, <1>11 DEF OwnInv, b

(* A new object that no queue takes is freed.                              *)
LEMMA FlowRefused ==
  ASSUME HeapOK, OwnInv, NEW o \in Objects \ born,
         hand' = hand, q' = q, list' = list, born' = born \cup {o}, Free({o})
  PROVE  HeapOK' /\ OwnInv' /\ Flow({}, {o}, <<"queue", "raw">>, {})
<1> DEFINE b == <<"queue", "raw">>
<1>1. PlaceInv /\ OnceInv
  BY DEF OwnInv
<1>2. b \in Places
  BY PlaceFacts DEF Queues
<1>3. Free(({} \cup {o}) \ {})
  BY DEF Free
<1> HIDE DEF b
<1>4. Flow({}, {o}, b, {})
  BY <1>3, FlowByKind
<1>5. HeapOK' /\ PlaceInv'
  BY <1>1, <1>2, <1>4, FlowKeeps
<1>6. OnceInv'
  BY <1>1 DEF OnceInv
<1> QED
  BY <1>4, <1>5, <1>6 DEF OwnInv, b
(* A thread with empty hands takes the oldest object of a queue.           *)
LEMMA FlowPop ==
  ASSUME HeapOK, OwnInv, Stores, NEW t \in Threads, NEW x \in Queues, q[x] # <<>>,
         hand[t] = {}, hand' = [hand EXCEPT ![t] = {Head(q[x])}],
         q' = [q EXCEPT ![x] = Tail(@)], list' = list, born' = born, freed' = freed
  PROVE  HeapOK' /\ OwnInv' /\ Flow({Head(q[x])}, {}, <<"hand", t>>, {Head(q[x])})
<1> DEFINE b == <<"hand", t>>
           o == Head(q[x])
<1>1. PlaceInv /\ OnceInv
  BY DEF OwnInv
<1>2. /\ \A y \in Queues : IsInjective(q'[y])
      /\ \A y \in Queues : ToSet(q'[y]) = ToSet(q[y]) \ (IF y = x THEN {o} ELSE {})
      /\ o \in ToSet(q[x]) /\ o \in Objects
  BY <1>1, QueueTake
<1> HIDE DEF o
<1>3. /\ \A y \in Queues : y # x => o \notin ToSet(q[y])
      /\ \A u \in Threads : o \notin hand[u]
      /\ \A s \in Shards : o \notin ToSet(list[s])
      /\ o \in Live
  BY <1>1, <1>2, Apart
<1>4. \A y \in Queues : ToSet(q'[y]) = (ToSet(q[y]) \ {o}) \cup (IF <<"queue", y>> = b THEN {o} ELSE {})
  <2> TAKE y \in Queues
  <2>1. <<"queue", y>> # b
    BY PlaceFacts
  <2> QED
    BY <1>2, <1>3, <2>1
<1>5. \A u \in Threads : hand'[u] = (hand[u] \ {o}) \cup (IF <<"hand", u>> = b THEN {o} ELSE {})
  <2> TAKE u \in Threads
  <2>1. <<"hand", u>> = b <=> u = t
    BY PlaceFacts
  <2>2. hand'[u] = IF u = t THEN {o} ELSE hand[u]
    BY DEF Stores, o
  <2> QED
    BY <1>3, <2>1, <2>2
<1>6. \A s \in Shards : ToSet(list'[s]) = (ToSet(list[s]) \ {o}) \cup (IF <<"list", s>> = b THEN {o} ELSE {})
  <2> TAKE s \in Shards
  <2>1. <<"list", s>> # b
    BY PlaceFacts
  <2> QED
    BY <1>3, <2>1
<1>7. Free(({o} \cup {}) \ {o})
  BY FreeNone
<1>8. b \in Places /\ born' = born \cup {}
  BY PlaceFacts
<1> HIDE DEF b
<1>9. Flow({o}, {}, b, {o})
  BY <1>4, <1>5, <1>6, <1>7, <1>8, FlowByKind
<1>10. HeapOK' /\ PlaceInv'
  BY <1>1, <1>3, <1>8, <1>9, FlowKeeps
<1>11. OnceInv'
  BY <1>1, <1>2 DEF OnceInv
<1> QED
  BY <1>9, <1>10, <1>11 DEF OwnInv, b, o

(* The event e goes from its thread to the end of a list, from which the   *)
(* events G are evicted and freed.                                         *)
LEMMA FlowList ==
  ASSUME HeapOK, OwnInv, Stores, NEW t \in Shards, NEW e \in hand[t], NEW l, NEW G,
         hand' = [hand EXCEPT ![t] = hand[t] \ {e}],
         list' = [list EXCEPT ![t] = l], IsInjective(l), G \subseteq ToSet(list[t]),
         ToSet(l) = (ToSet(list[t]) \ G) \cup {e},
         q' = q, born' = born, Free(G)
  PROVE  HeapOK' /\ OwnInv' /\ Flow({e} \cup G, {}, <<"list", t>>, {e})
<1> DEFINE b == <<"list", t>>
           X == {e} \cup G
<1>1. PlaceInv /\ OnceInv /\ t \in Threads
  BY DEF OwnInv, Threads
<1>2. /\ \A y \in Queues : e \notin ToSet(q[y])
      /\ \A u \in Threads : u # t => e \notin hand[u]
      /\ \A s \in Shards : e \notin ToSet(list[s])
      /\ e \in Live /\ G \subseteq Live
      /\ \A y \in Queues : ToSet(q[y]) \cap G = {}
      /\ \A u \in Threads : hand[u] \cap G = {}
      /\ \A s \in Shards : s # t => ToSet(list[s]) \cap G = {}
  BY <1>1, Apart
<1>3. \A y \in Queues : ToSet(q'[y]) = (ToSet(q[y]) \ X) \cup (IF <<"queue", y>> = b THEN {e} ELSE {})
  <2> TAKE y \in Queues
  <2>1. <<"queue", y>> # b
    BY PlaceFacts
  <2> QED
    BY <1>2, <2>1
<1>4. \A u \in Threads : hand'[u] = (hand[u] \ X) \cup (IF <<"hand", u>> = b THEN {e} ELSE {})
  <2> TAKE u \in Threads
  <2>1. <<"hand", u>> # b
    BY PlaceFacts
  <2>2. hand'[u] = IF u = t THEN hand[u] \ {e} ELSE hand[u]
    BY <1>1 DEF Stores
  <2> QED
    BY <1>2, <2>1, <2>2
<1>5. \A s \in Shards : ToSet(list'[s]) = (ToSet(list[s]) \ X) \cup (IF <<"list", s>> = b THEN {e} ELSE {})
  <2> TAKE s \in Shards
  <2>1. <<"list", s>> = b <=> s = t
    BY PlaceFacts
  <2>2. list'[s] = IF s = t THEN l ELSE list[s]
    BY DEF Stores
  <2>3. CASE s = t
    <3>1. (ToSet(list[t]) \ G) \cup {e} = (ToSet(list[t]) \ X) \cup {e}
      OBVIOUS
    <3> QED
      BY <2>1, <2>2, <2>3, <3>1
  <2>4. CASE s # t
    BY <1>2, <2>1, <2>2, <2>4
  <2> QED
    BY <2>3, <2>4
<1>6. Free((X \cup {}) \ {e})
  <2>1. (X \cup {}) \ {e} = G
    BY <1>2
  <2> QED
    BY <2>1
<1>7. b \in Places /\ born' = born \cup {} /\ X \subseteq Live /\ {e} \subseteq X \cup {}
  BY <1>2, PlaceFacts
<1> HIDE DEF b, X
<1>8. Flow(X, {}, b, {e})
  BY <1>3, <1>4, <1>5, <1>6, <1>7, FlowByKind
<1>9. HeapOK' /\ PlaceInv'
  BY <1>1, <1>7, <1>8, FlowKeeps
<1>10. OnceInv'
  BY <1>1 DEF OnceInv, Stores
<1> QED
  BY <1>8, <1>9, <1>10 DEF OwnInv, b, X

(* What the queues, or the lists, still hold is freed.                     *)
LEMMA FlowDrain ==
  ASSUME HeapOK, OwnInv, hand' = hand, q' = [x \in Queues |-> <<>>], list' = list,
         born' = born, Free(Queued)
  PROVE  HeapOK' /\ OwnInv' /\ Flow(Queued, {}, <<"queue", "raw">>, {})
<1> DEFINE b == <<"queue", "raw">>
           X == Queued
<1>1. PlaceInv /\ OnceInv
  BY DEF OwnInv
<1>2. \A o : o \in X <=> \E x \in Queues : o \in ToSet(q[x])
  BY DEF Queued
<1> HIDE DEF X
<1>3. /\ X \subseteq Live
      /\ \A t \in Threads : hand[t] \cap X = {}
      /\ \A s \in Shards : ToSet(list[s]) \cap X = {}
  BY <1>1, <1>2, Apart
<1>4. \A x \in Queues : ToSet(q'[x]) = (ToSet(q[x]) \ X) \cup (IF <<"queue", x>> = b THEN {} ELSE {})
  BY <1>2, EmptySet
<1>5. \A t \in Threads : hand'[t] = (hand[t] \ X) \cup (IF <<"hand", t>> = b THEN {} ELSE {})
  BY <1>3
<1>6. \A s \in Shards : ToSet(list'[s]) = (ToSet(list[s]) \ X) \cup (IF <<"list", s>> = b THEN {} ELSE {})
  BY <1>3
<1>7. Free((X \cup {}) \ {}) /\ born' = born \cup {} /\ b \in Places
  BY PlaceFacts DEF X, Queues, Free
<1> HIDE DEF b
<1>8. Flow(X, {}, b, {})
  BY <1>4, <1>5, <1>6, <1>7, FlowByKind
<1>9. HeapOK' /\ PlaceInv'
  BY <1>1, <1>3, <1>7, <1>8, FlowKeeps
<1>10. OnceInv'
  BY <1>1, EmptySet DEF OnceInv
<1> QED
  BY <1>8, <1>9, <1>10 DEF OwnInv, b, X

LEMMA FlowDestroy ==
  ASSUME HeapOK, OwnInv, hand' = hand, q' = q, list' = [s \in Shards |-> <<>>],
         born' = born, Free(Listed)
  PROVE  HeapOK' /\ OwnInv' /\ Flow(Listed, {}, <<"queue", "raw">>, {})
<1> DEFINE b == <<"queue", "raw">>
           X == Listed
<1>1. PlaceInv /\ OnceInv
  BY DEF OwnInv
<1>2. \A o : o \in X <=> \E s \in Shards : o \in ToSet(list[s])
  BY DEF Listed
<1> HIDE DEF X
<1>3. /\ X \subseteq Live
      /\ \A t \in Threads : hand[t] \cap X = {}
      /\ \A x \in Queues : ToSet(q[x]) \cap X = {}
  BY <1>1, <1>2, Apart
<1>4. \A s \in Shards : ToSet(list'[s]) = (ToSet(list[s]) \ X) \cup (IF <<"list", s>> = b THEN {} ELSE {})
  BY <1>2, EmptySet
<1>5. \A t \in Threads : hand'[t] = (hand[t] \ X) \cup (IF <<"hand", t>> = b THEN {} ELSE {})
  BY <1>3
<1>6. \A x \in Queues : ToSet(q'[x]) = (ToSet(q[x]) \ X) \cup (IF <<"queue", x>> = b THEN {} ELSE {})
  BY <1>3
<1>7. Free((X \cup {}) \ {}) /\ born' = born \cup {} /\ b \in Places
  BY PlaceFacts DEF X, Queues, Free
<1> HIDE DEF b
<1>8. Flow(X, {}, b, {})
  BY <1>4, <1>5, <1>6, <1>7, FlowByKind
<1>9. HeapOK' /\ PlaceInv'
  BY <1>1, <1>3, <1>7, <1>8, FlowKeeps
<1>10. OnceInv'
  BY <1>1, EmptySet DEF OnceInv
<1> QED
  BY <1>8, <1>9, <1>10 DEF OwnInv, b, X
-----------------------------------------------------------------------------
(* Names, and what the queues carry.                                       *)

Sources == {Recv} \cup Demuxers       \* they hand texts on

LEMMA Names ==
  /\ Recv \in Threads /\ Demuxers \subseteq Threads /\ Decoders \subseteq Threads
  /\ Shards \subseteq Threads /\ Writers \subseteq Threads
  /\ \A t \in Threads : t \in Sources \/ t \in Decoders \/ t \in Shards \/ t \in Writers
  /\ \A t \in Sources : t \notin Decoders /\ t \notin Shards /\ t \notin Writers /\ t \in Threads
  /\ \A t \in Decoders : t \notin Demuxers /\ t \notin Shards /\ t \notin Writers
  /\ \A t \in Shards : t \notin Demuxers /\ t \notin Decoders /\ t \notin Writers
  /\ \A t \in Writers : t \notin Demuxers /\ t \notin Decoders /\ t \notin Shards
  /\ Recv \notin Demuxers /\ Recv \notin Decoders /\ Recv \notin Shards /\ Recv \notin Writers
  /\ Recv \in Sources /\ Demuxers \subseteq Sources
BY NamesApart DEF Threads, Writers, Recv, Sources

LEMMA QueueNames ==
  /\ "raw" \in Queues /\ Types \subseteq Queues /\ Shards \subseteq Queues /\ Writers \subseteq Queues
  /\ "alerts" \in Writers /\ "statistical" \in Writers /\ "archive" \in Writers /\ "firewall" \in Writers
  /\ "raw" \notin Types /\ "raw" \notin Shards /\ "raw" \notin Writers
  /\ \A x \in Types : x \notin Shards /\ x \notin Writers
  /\ \A x \in Shards : x \notin Types /\ x \notin Writers
  /\ \A x \in Writers : x \notin Types /\ x \notin Shards /\ x # "raw"
BY NamesApart DEF Queues, Writers

LEMMA Inputs ==
  /\ \A t \in Demuxers : Input(t) = "raw"
  /\ \A t \in Decoders : Input(t) \in Types
  /\ \A t \in Shards \cup Writers : Input(t) = t
  /\ \A t \in Threads : t # Recv => Input(t) \in Queues
<1>1. \A t \in Demuxers : Input(t) = "raw"
  BY Names DEF Input
<1>2. \A t \in Decoders : Input(t) \in Types
  BY Names, PipelineAssumption DEF Input
<1>3. \A t \in Shards \cup Writers : Input(t) = t
  BY Names DEF Input
<1> QED
  BY <1>1, <1>2, <1>3, Names, QueueNames DEF Sources

LEMMA Cargoes ==
  /\ \A x \in Types \cup {"raw"} : Cargo(x) = {"text"} \X Msgs
  /\ \A x \in Shards : \A o : o \in Cargo(x) <=> \E m \in Msgs : ShardOf[m] = x /\ o = Event(m)
  /\ Cargo("alerts") = {"alert"} \X Msgs /\ Cargo("statistical") = {"stat"} \X Msgs
  /\ Cargo("archive") = {"event", "arch"} \X Msgs /\ Cargo("firewall") = {"fw"} \X Msgs
<1>1. \A x \in Types \cup {"raw"} : Cargo(x) = {"text"} \X Msgs
  <2> TAKE x \in Types \cup {"raw"}
  <2>1. x \notin Shards /\ x \notin Writers
    BY QueueNames
  <2>2. x # "alerts" /\ x # "statistical" /\ x # "archive" /\ x # "firewall"
    BY <2>1, QueueNames
  <2> QED
    BY <2>1, <2>2 DEF Cargo
<1>2. \A x \in Shards : \A o : o \in Cargo(x) <=> \E m \in Msgs : ShardOf[m] = x /\ o = Event(m)
  <2> TAKE x \in Shards
  <2>1. x # "alerts" /\ x # "statistical" /\ x # "archive" /\ x # "firewall"
    BY QueueNames
  <2>2. Cargo(x) = {Event(m) : m \in {n \in Msgs : ShardOf[n] = x}}
    BY <2>1 DEF Cargo
  <2> QED
    BY <2>2
<1>3. /\ Cargo("alerts") = {"alert"} \X Msgs /\ Cargo("statistical") = {"stat"} \X Msgs
      /\ Cargo("archive") = {"event", "arch"} \X Msgs /\ Cargo("firewall") = {"fw"} \X Msgs
  BY QueueNames DEF Cargo
<1> QED
  BY <1>1, <1>2, <1>3

(* A queue that gets an object of its cargo, or loses its oldest one.      *)
LEMMA CargoPut ==
  ASSUME Stores, OnceInv, QueueInv, NEW x \in Queues, NEW o \in Objects, o \notin ToSet(q[x]),
         o \in Cargo(x), Put(x, o)
  PROVE  QueueInv'
<1>1. \A y \in Queues : ToSet(q'[y]) = ToSet(q[y]) \cup (IF y = x THEN {o} ELSE {})
  BY QueuePut
<1>2. \A y \in Queues : ToSet(q[y]) \subseteq Cargo(y)
  BY DEF QueueInv
<1>3. \A y \in Queues : ToSet(q'[y]) \subseteq Cargo(y)
  BY <1>1, <1>2
<1> QED
  BY <1>3 DEF QueueInv, Cargo, Event

LEMMA CargoTake ==
  ASSUME Stores, OnceInv, QueueInv, NEW x \in Queues, q[x] # <<>>, q' = [q EXCEPT ![x] = Tail(@)]
  PROVE  QueueInv' /\ Head(q[x]) \in Cargo(x)
<1>1. /\ \A y \in Queues : ToSet(q'[y]) = ToSet(q[y]) \ (IF y = x THEN {Head(q[x])} ELSE {})
      /\ Head(q[x]) \in ToSet(q[x])
  BY QueueTake
<1>2. \A y \in Queues : ToSet(q[y]) \subseteq Cargo(y)
  BY DEF QueueInv
<1>3. \A y \in Queues : ToSet(q'[y]) \subseteq Cargo(y)
  BY <1>1, <1>2
<1> QED
  BY <1>1, <1>2, <1>3 DEF QueueInv, Cargo, Event
-----------------------------------------------------------------------------
(* A step of thread t, which goes to p, works on j and holds H after it.   *)

Moves(t, p, j, H) == /\ pc' = [pc EXCEPT ![t] = p] /\ job' = [job EXCEPT ![t] = j]
                     /\ hand' = [hand EXCEPT ![t] = H]
                     /\ UNCHANGED <<control, down>>

(* The sequences keep their limits, and new objects belong to messages     *)
(* that have arrived.                                                      *)
DataOK == /\ Stores /\ HeapOK /\ OwnInv /\ QueueInv
          /\ \A x \in Queues : Len(q[x]) <= Capacity
          /\ \A s \in Shards : Len(list[s]) <= ListMax
          /\ arrived \subseteq Msgs /\ written \subseteq born /\ count \in [Counters -> Nat]

ControlOK == /\ shutting_down \in BOOLEAN /\ main \in 0 .. 8 /\ join_failed \in BOOLEAN
             /\ down \subseteq Queues
             /\ pc \in [Threads -> {"pop", "work", "fw", "push", "checked", "logged",
                                    "kept", "archived", "exited"}]
             /\ job \in [Threads -> Msgs \cup {NoMsg}]

LEMMA TypeParts == StateOK /\ OwnInv /\ QueueInv <=> ControlOK /\ DataOK
BY DEF StateOK, ControlOK, DataOK, Stores, HeapOK

LEMMA LabelsKnown ==
  ASSUME NEW t
  PROVE  Labels(t) \subseteq {"pop", "work", "fw", "push", "checked", "logged",
                              "kept", "archived", "exited"}
<1>1. CASE t \in Decoders /\ t \notin Shards
  BY <1>1 DEF Labels, Idle
<1>2. CASE t \in Shards /\ t \notin Decoders
  BY <1>2 DEF Labels, Idle
<1>3. CASE t \notin Decoders /\ t \notin Shards
  BY <1>3 DEF Labels, Idle
<1> QED
  BY <1>1, <1>2, <1>3, Names

LEMMA LabelFacts ==
  /\ \A t \in Decoders : Labels(t) = {"pop", "exited", "work", "fw", "push"}
  /\ \A t \in Shards : Labels(t) = {"pop", "exited", "work", "checked", "logged", "kept", "archived"}
  /\ \A t \in Sources \cup Writers : Labels(t) = {"pop", "exited", "work"}
BY Names DEF Labels, Idle

LEMMA HandFrame ==
  ASSUME HandInv, Stores, ControlOK, NEW t \in Threads, NEW p, NEW j, NEW H, Moves(t, p, j, H),
         \A s \in Shards : s # t => list'[s] = list[s], HandOf(t)'
  PROVE  HandInv'
<1> SUFFICES ASSUME NEW u \in Threads
             PROVE  HandOf(u)'
  BY DEF HandInv
<1>1. CASE u = t
  BY <1>1
<1>2. CASE u # t
  <2>1. pc'[u] = pc[u] /\ job'[u] = job[u] /\ hand'[u] = hand[u] /\ (u \in Shards => list'[u] = list[u])
    BY <1>2 DEF Moves, Stores, ControlOK
  <2>2. HandOf(u)
    BY DEF HandInv
  <2> QED
    BY <2>1, <2>2 DEF HandOf, Text, Event, Labels, Idle, Cargo
<1> QED
  BY <1>1, <1>2

LEMMA StageFrame ==
  ASSUME StageInv, ControlOK, NEW t \in Threads, NEW p, NEW j, NEW H, Moves(t, p, j, H),
         pc[t] # "exited"
  PROVE  StageInv'
<1>1. UNCHANGED <<shutting_down, main, join_failed, down>>
  BY DEF Moves, control
<1>2. \A u : u \in Threads /\ pc[u] = "exited" => pc'[u] = "exited"
  BY DEF Moves, ControlOK
<1>3. \A i \in 1 .. 5 : Stages[i].join \subseteq Threads
  BY DEF Stages, Threads
<1>4. /\ main > 0 => shutting_down
      /\ \A x \in down : \E i \in 1 .. 5 : i < main /\ x \in Stages[i].close
      /\ ~join_failed => \A i \in 1 .. 5 : i < main => \A u \in Stages[i].join : pc[u] = "exited"
      /\ main > 4 => \A s \in Shards : pc[s] = "exited"
  BY DEF StageInv
<1>5. /\ ~join_failed => \A i \in 1 .. 5 : i < main => \A u \in Stages[i].join : pc'[u] = "exited"
      /\ main > 4 => \A s \in Shards : pc'[s] = "exited"
  BY <1>2, <1>3, <1>4, Names
<1>6. StageInv'
  BY <1>1, <1>4, <1>5 DEF StageInv, Stages, Recv, Writers
<1> QED
  BY <1>6
(* The copies: none of a message that awaits the rules, and the new ones   *)
(* are of the message that the thread works on.                            *)
LEMMA CopyFrame ==
  ASSUME CopyInv, HandInv, Stores, ControlOK, NEW t \in Threads, NEW p, NEW j, NEW H, NEW N,
         Moves(t, p, j, H), born' = born \cup N, N \cap born = {},
         t \in Shards => CopyOf(t)',
         t \in Decoders => \A m \in Msgs : Event(m) \in H => Event(m) \in hand[t] \cup N,
         \A m \in Msgs, s \in Shards : Event(m) \in ToSet(q'[s]) =>
             Event(m) \in ToSet(q[s]) \/ (t \in Decoders /\ Event(m) \in hand[t]),
         \A m \in Msgs, k \in CopyKinds : <<k, m>> \in N =>
             t \in Shards /\ pc[t] \notin Idle /\ m = job[t]
  PROVE  CopyInv'
<1>1. /\ \A o \in Objects : o \in Upstream <=> \/ \E d \in Decoders : o \in hand[d]
                                               \/ \E s \in Shards : o \in ToSet(q[s])
      /\ \A o \in Objects : o \in Upstream' <=> \/ \E d \in Decoders : o \in hand'[d]
                                                \/ \E s \in Shards : o \in ToSet(q'[s])
  BY DEF Upstream
<1>2. \A u \in Threads : u # t => pc'[u] = pc[u] /\ job'[u] = job[u] /\ hand'[u] = hand[u]
  BY DEF Moves, Stores, ControlOK
<1>3. t \in Decoders => hand'[t] = H
  BY DEF Moves, Stores
<1>4. \A m \in Msgs : Event(m) \in Upstream' => Event(m) \in Upstream \cup N
  <2> SUFFICES ASSUME NEW m \in Msgs, Event(m) \in Upstream'
               PROVE  Event(m) \in Upstream \cup N
    OBVIOUS
  <2>1. Event(m) \in Objects
    BY Objs
  <2>2. ASSUME NEW d \in Decoders, Event(m) \in hand'[d]
        PROVE  Event(m) \in Upstream \cup N
    BY <1>1, <1>2, <1>3, <2>1, <2>2, Names
  <2>3. ASSUME NEW s \in Shards, Event(m) \in ToSet(q'[s])
        PROVE  Event(m) \in Upstream \cup N
    BY <1>1, <2>1, <2>3
  <2> QED
    BY <1>1, <2>1, <2>2, <2>3
<1>5. \A m \in Msgs : /\ Awaits(m) <=> Event(m) \notin born \/ Event(m) \in Upstream
                      /\ Awaits(m)' <=> Event(m) \notin born' \/ Event(m) \in Upstream'
  BY DEF Awaits, Event
<1>6. \A m \in Msgs : Awaits(m)' => Awaits(m)
  BY <1>4, <1>5
<1>7. /\ \A m \in Msgs : Awaits(m) => \A k \in CopyKinds : <<k, m>> \notin born
      /\ \A s \in Shards : CopyOf(s)
  BY DEF CopyInv
<1>8. \A s \in Shards : pc[s] \notin Idle => job[s] \in Msgs /\ ShardOf[job[s]] = s /\ ~Awaits(job[s])
  BY <1>7, Names DEF HandInv, HandOf, CopyOf
<1>9. ASSUME NEW m \in Msgs, Awaits(m)', NEW k \in CopyKinds
      PROVE  <<k, m>> \notin born'
  <2>1. Awaits(m) /\ <<k, m>> \notin born
    BY <1>6, <1>7, <1>9
  <2>2. <<k, m>> \notin N
    BY <1>8, <2>1
  <2> QED
    BY <2>1, <2>2
<1>10. ASSUME NEW s \in Shards
       PROVE  CopyOf(s)'
  <2>1. CASE s = t
    BY <2>1
  <2>2. CASE s # t
    <3>1. pc'[s] = pc[s] /\ job'[s] = job[s] /\ CopyOf(s)
      BY <1>2, <1>7, <2>2, Names
    <3>2. CASE pc[s] \in Idle
      BY <3>1, <3>2 DEF CopyOf, Idle
    <3>3. CASE pc[s] \notin Idle
      <4>1. job[s] \in Msgs /\ ShardOf[job[s]] = s /\ ~Awaits(job[s])
        BY <1>8, <3>3
      <4>2. \A k \in CopyKinds : <<k, job[s]>> \notin N
        BY <1>8, <2>2, <4>1
      <4>3. ASSUME NEW m \in Msgs, m = job[s]
            PROVE  CopyOf(s)'
        <5>1. ~Awaits(m)'
          BY <1>6, <4>1, <4>3
        <5>2. job'[s] = m
          BY <3>1, <4>3
        <5>3. ~(Event(job[s]) \notin born \/ Event(job[s]) \in Upstream)'
          BY <1>5, <5>1, <5>2 DEF Event
        <5>4. \A k \in CopyKinds : <<k, m>> \notin born => <<k, m>> \notin born'
          BY <4>2, <4>3
        <5>5. "stat" \in CopyKinds /\ "alert" \in CopyKinds /\ "arch" \in CopyKinds
          BY DEF CopyKinds
        <5> QED
          BY <3>1, <4>3, <5>2, <5>3, <5>4, <5>5 DEF CopyOf, Awaits
      <4> QED
        BY <4>1, <4>3
    <3> QED
      BY <3>2, <3>3
  <2> QED
    BY <2>1, <2>2
<1> QED
  BY <1>9, <1>10 DEF CopyInv

(* The texts are gone when the event exists.                               *)
LEMMA BornFrame ==
  ASSUME BornInv, HeapOK, HeapOK', ControlOK, NEW t \in Threads, NEW p, NEW j, NEW H, NEW N,
         Moves(t, p, j, H), born' = born \cup N, arrived \subseteq arrived',
         j \in arrived' \cup {NoMsg}, \A o \in N : o[2] \in arrived',
         \A o \in Objects : freed'[o] >= freed[o],
         \A m \in Msgs : Event(m) \in N => freed'[Text(m)] = 1,
         \A m \in Msgs : <<"fw", m>> \in N => Event(m) \in N
  PROVE  BornInv'
<1>1. /\ \A o \in born : o[2] \in arrived
      /\ \A u \in Threads : job[u] \in arrived \cup {NoMsg}
      /\ \A m \in Msgs : Event(m) \in born => freed[Text(m)] = 1
      /\ \A m \in Msgs : <<"fw", m>> \in born => Event(m) \in born
  BY DEF BornInv
<1>2. \A o \in born' : o[2] \in arrived'
  BY <1>1
<1>3. \A u \in Threads : job'[u] \in arrived' \cup {NoMsg}
  <2>1. \A u \in Threads : job'[u] = IF u = t THEN j ELSE job[u]
    BY DEF Moves, ControlOK
  <2> QED
    BY <1>1, <2>1
<1>4. \A m \in Msgs : Event(m) \in born' => freed'[Text(m)] = 1
  <2>1. \A m \in Msgs : freed[Text(m)] = 1 => freed'[Text(m)] = 1
    BY Objs DEF HeapOK
  <2> QED
    BY <1>1, <2>1
<1>5. \A m \in Msgs : <<"fw", m>> \in born' => Event(m) \in born'
  BY <1>1
<1> QED
  BY <1>2, <1>3, <1>4, <1>5 DEF BornInv, Event, Text

LEMMA StepKeeps ==
  ASSUME IndInv, NEW t \in Threads, NEW p, NEW j, NEW H, NEW N,
         Moves(t, p, j, H), pc[t] # "exited", p \in Labels(t), j \in arrived' \cup {NoMsg},
         HandOf(t)', t \in Shards => CopyOf(t)', DataOK',
         \A s \in Shards : s # t => list'[s] = list[s],
         born' = born \cup N, N \subseteq Objects \ born,
         arrived \subseteq arrived', \A o \in N : o[2] \in arrived',
         \A o \in Objects : freed'[o] >= freed[o],
         \A m \in Msgs : Event(m) \in N => freed'[Text(m)] = 1,
         \A m \in Msgs : <<"fw", m>> \in N => Event(m) \in N,
         t \in Decoders => \A m \in Msgs : Event(m) \in H => Event(m) \in hand[t] \cup N,
         \A m \in Msgs, s \in Shards : Event(m) \in ToSet(q'[s]) =>
             Event(m) \in ToSet(q[s]) \/ (t \in Decoders /\ Event(m) \in hand[t]),
         \A m \in Msgs, k \in CopyKinds : <<k, m>> \in N =>
             t \in Shards /\ pc[t] \notin Idle /\ m = job[t]
  PROVE  IndInv'
<1>1. ControlOK /\ DataOK /\ HandInv /\ BornInv /\ CopyInv /\ StageInv
  BY TypeParts DEF IndInv
<1>2. Stores /\ HeapOK /\ HeapOK'
  BY <1>1 DEF DataOK
<1>3. ControlOK'
  <2>1. arrived' \subseteq Msgs
    BY DEF DataOK
  <2>2. pc' \in [Threads -> {"pop", "work", "fw", "push", "checked", "logged",
                             "kept", "archived", "exited"}]
    BY <1>1, LabelsKnown DEF ControlOK, Moves
  <2>3. job' \in [Threads -> Msgs \cup {NoMsg}]
    BY <1>1, <2>1 DEF ControlOK, Moves
  <2>4. /\ shutting_down' \in BOOLEAN /\ main' \in 0 .. 8 /\ join_failed' \in BOOLEAN
        /\ down' \subseteq Queues
    BY <1>1 DEF ControlOK, Moves, control
  <2> QED
    BY <2>2, <2>3, <2>4 DEF ControlOK, Threads, Queues, Recv, Writers
<1>4. HandInv'
  BY <1>1, <1>2, HandFrame
<1>5. StageInv'
  BY <1>1, StageFrame
<1>6. N \cap born = {}
  OBVIOUS
<1>7. CopyInv'
  BY <1>1, <1>2, <1>6, CopyFrame
<1>8. BornInv'
  BY <1>1, <1>2, BornFrame
<1>9. (StateOK /\ OwnInv /\ QueueInv)'
  BY <1>3, TypeParts, PTL
<1> QED
  BY <1>4, <1>5, <1>7, <1>8, <1>9 DEF IndInv
(* The same for a step that allocates nothing.                             *)
LEMMA StepKeepsOld ==
  ASSUME IndInv, NEW t \in Threads, NEW p, NEW j, NEW H,
         Moves(t, p, j, H), pc[t] # "exited", p \in Labels(t), j \in arrived \cup {NoMsg},
         HandOf(t)', t \in Shards => CopyOf(t)', DataOK',
         \A s \in Shards : s # t => list'[s] = list[s],
         born' = born, arrived' = arrived, \A o \in Objects : freed'[o] >= freed[o],
         t \in Decoders => \A m \in Msgs : Event(m) \in H => Event(m) \in hand[t],
         \A m \in Msgs, s \in Shards : Event(m) \in ToSet(q'[s]) =>
             Event(m) \in ToSet(q[s]) \/ (t \in Decoders /\ Event(m) \in hand[t])
  PROVE  IndInv'
<1> DEFINE N == {}
<1>1. /\ born' = born \cup N /\ N \subseteq Objects \ born
      /\ arrived \subseteq arrived' /\ j \in arrived' \cup {NoMsg} /\ \A o \in N : o[2] \in arrived'
      /\ \A m \in Msgs : Event(m) \in N => freed'[Text(m)] = 1
      /\ \A m \in Msgs : <<"fw", m>> \in N => Event(m) \in N
      /\ t \in Decoders => \A m \in Msgs : Event(m) \in H => Event(m) \in hand[t] \cup N
      /\ \A m \in Msgs, k \in CopyKinds : <<k, m>> \in N =>
             t \in Shards /\ pc[t] \notin Idle /\ m = job[t]
  OBVIOUS
<1> HIDE DEF N
<1> QED
  BY <1>1, StepKeeps

-----------------------------------------------------------------------------
(* What the kinds of step do to the data.                                  *)

FreedGrows == \A o \in Objects : freed'[o] >= freed[o]

LEMMA FreeGrows ==
  ASSUME HeapOK
  PROVE  /\ \A O : Free(O) => FreedGrows
         /\ freed' = freed => FreedGrows
<1>1. \A o \in Objects : freed[o] \in Nat
  BY DEF HeapOK
<1>2. ASSUME NEW O, Free(O)
      PROVE  FreedGrows
  BY <1>1, <1>2 DEF Free, FreedGrows
<1>3. freed' = freed => FreedGrows
  BY <1>1 DEF FreedGrows
<1> QED
  BY <1>2, <1>3

LEMMA Counted ==
  ASSUME count \in [Counters -> Nat]
  PROVE  /\ \A c \in Counters : Inc(c) => count' \in [Counters -> Nat]
         /\ \A c, d \in Counters : Inc2(c, d) => count' \in [Counters -> Nat]
         /\ count' = count => count' \in [Counters -> Nat]
         /\ \A c : Inc(c) => \A d \in Counters : count'[d] = IF d = c THEN count[d] + 1 ELSE count[d]
BY DEF Inc, Inc2

LEMMA DataHand ==
  ASSUME DataOK, NEW t \in Threads, NEW N, NEW H,
         N \subseteq Objects \ born, H \subseteq hand[t] \cup N,
         hand' = [hand EXCEPT ![t] = H], q' = q, list' = list,
         born' = born \cup N, Free((hand[t] \cup N) \ H),
         arrived' \subseteq Msgs, written' \subseteq born', count' \in [Counters -> Nat]
  PROVE  DataOK' /\ FreedGrows
<1>1. HeapOK /\ OwnInv /\ Stores
  BY DEF DataOK
<1>2. HeapOK' /\ OwnInv'
  BY <1>1, FlowHand
<1>3. FreedGrows
  BY <1>1, FreeGrows
<1>4. Stores'
  <2>1. H \subseteq Objects
    BY <1>1 DEF Stores
  <2>2. hand' \in [Threads -> SUBSET Objects]
    BY <1>1, <2>1 DEF Stores
  <2> QED
    BY <1>1, <2>2 DEF Stores
<1>5. QueueInv'
  BY DEF DataOK, QueueInv
<1> QED
  BY <1>2, <1>3, <1>4, <1>5 DEF DataOK

LEMMA RoomLeft ==
  ASSUME DataOK, NEW x \in Queues, Room(x)
  PROVE  Len(q[x]) \in Nat /\ Len(q[x]) + 1 <= Capacity
<1>1. Len(q[x]) \in Nat
  BY SeqFacts DEF DataOK, Stores
<1> QED
  BY <1>1, PipelineAssumption DEF Room

LEMMA DataSame ==
  ASSUME DataOK, UNCHANGED <<q, hand, list, born, freed, arrived, written>>,
         count' \in [Counters -> Nat]
  PROVE  DataOK'
<1>1. Stores' /\ HeapOK'
  BY DEF DataOK, Stores, HeapOK
<1>2. OwnInv'
  <2>1. OnceInv'
    BY DEF DataOK, OwnInv, OnceInv
  <2>2. PlaceInv'
    <3>1. PlaceInv
      BY DEF DataOK, OwnInv
    <3>2. Live' = Live
      BY DEF Live
    <3>3. \A p : At(p)' = At(p)
      BY DEF At
    <3> QED
      BY <3>1, <3>2, <3>3 DEF PlaceInv
  <2> QED
    BY <2>1, <2>2 DEF OwnInv
<1>3. QueueInv'
  BY DEF DataOK, QueueInv
<1>4. /\ (\A x \in Queues : Len(q'[x]) <= Capacity) /\ (\A s \in Shards : Len(list'[s]) <= ListMax)
      /\ arrived' \subseteq Msgs /\ written' \subseteq born'
  BY DEF DataOK
<1> QED
  BY <1>1, <1>2, <1>3, <1>4 DEF DataOK

(* Thread t puts o, which it holds, into queue x.                          *)
Sends(t, x, o) == /\ Room(x) /\ Put(x, o) /\ o \in Cargo(x)
                  /\ hand' = [hand EXCEPT ![t] = hand[t] \ {o}] /\ list' = list
                  /\ born' = born /\ freed' = freed
                  /\ arrived' \subseteq Msgs /\ written' \subseteq born'
                  /\ count' \in [Counters -> Nat]

LEMMA DataSend ==
  ASSUME DataOK, NEW t \in Threads, NEW x \in Queues, NEW o \in hand[t], Sends(t, x, o)
  PROVE  /\ DataOK' /\ FreedGrows
         /\ \A y \in Queues : ToSet(q'[y]) = ToSet(q[y]) \cup (IF y = x THEN {o} ELSE {})
<1> USE DEF Sends
<1>1. HeapOK /\ OwnInv /\ Stores /\ OnceInv /\ PlaceInv /\ QueueInv
  BY DEF DataOK, OwnInv
<1>2. HeapOK' /\ OwnInv'
  BY <1>1, FlowSend
<1>3. FreedGrows
  BY <1>1, FreeGrows
<1>4. o \in Objects /\ o \notin ToSet(q[x])
  BY <1>1, Apart DEF Stores
<1>5. /\ q' \in [Queues -> Seq(Objects)]
      /\ \A y \in Queues : ToSet(q'[y]) = ToSet(q[y]) \cup (IF y = x THEN {o} ELSE {})
      /\ \A y \in Queues : Len(q'[y]) = IF y = x THEN Len(q[y]) + 1 ELSE Len(q[y])
  BY <1>1, <1>4, QueuePut
<1>6. Stores'
  BY <1>1, <1>5 DEF Stores
<1>7. QueueInv'
  BY <1>1, <1>4, CargoPut
<1>8. \A y \in Queues : Len(q'[y]) <= Capacity
  BY <1>5, RoomLeft DEF DataOK
<1> QED
  BY <1>2, <1>3, <1>5, <1>6, <1>7, <1>8 DEF DataOK

LEMMA DataNew ==
  ASSUME DataOK, NEW x \in Queues, NEW o \in Objects \ born, Room(x), o \in Cargo(x),
         hand' = hand, Put(x, o), list' = list, born' = born \cup {o}, freed' = freed,
         arrived' \subseteq Msgs, written' \subseteq born', count' \in [Counters -> Nat]
  PROVE  /\ DataOK' /\ FreedGrows
         /\ \A y \in Queues : ToSet(q'[y]) = ToSet(q[y]) \cup (IF y = x THEN {o} ELSE {})
<1>1. HeapOK /\ OwnInv /\ Stores /\ OnceInv /\ PlaceInv /\ QueueInv
  BY DEF DataOK, OwnInv
<1>2. HeapOK' /\ OwnInv'
  BY <1>1, FlowNew
<1>3. FreedGrows
  BY <1>1, FreeGrows
<1>4. o \in Objects /\ o \notin ToSet(q[x])
  BY <1>1, Apart DEF Live
<1>5. /\ q' \in [Queues -> Seq(Objects)]
      /\ \A y \in Queues : ToSet(q'[y]) = ToSet(q[y]) \cup (IF y = x THEN {o} ELSE {})
      /\ \A y \in Queues : Len(q'[y]) = IF y = x THEN Len(q[y]) + 1 ELSE Len(q[y])
  BY <1>1, <1>4, QueuePut
<1>6. Stores'
  BY <1>1, <1>5 DEF Stores
<1>7. QueueInv'
  BY <1>1, <1>4, CargoPut
<1>8. \A y \in Queues : Len(q'[y]) <= Capacity
  BY <1>5, RoomLeft DEF DataOK
<1> QED
  BY <1>2, <1>3, <1>5, <1>6, <1>7, <1>8 DEF DataOK

LEMMA DataRefused ==
  ASSUME DataOK, NEW o \in Objects \ born,
         hand' = hand, q' = q, list' = list, born' = born \cup {o}, Free({o}),
         arrived' \subseteq Msgs, written' \subseteq born', count' \in [Counters -> Nat]
  PROVE  DataOK' /\ FreedGrows
<1>1. HeapOK /\ OwnInv /\ Stores
  BY DEF DataOK
<1>2. HeapOK' /\ OwnInv'
  BY <1>1, FlowRefused
<1>3. FreedGrows
  BY <1>1, FreeGrows
<1>4. Stores' /\ QueueInv'
  BY <1>1 DEF Stores, DataOK, QueueInv
<1> QED
  BY <1>2, <1>3, <1>4 DEF DataOK

LEMMA DataPop ==
  ASSUME DataOK, NEW t \in Threads, NEW x \in Queues, q[x] # <<>>,
         hand[t] = {}, hand' = [hand EXCEPT ![t] = {Head(q[x])}],
         q' = [q EXCEPT ![x] = Tail(@)], list' = list, born' = born, freed' = freed,
         arrived' = arrived, written' = written, count' = count
  PROVE  /\ DataOK' /\ FreedGrows
         /\ Head(q[x]) \in ToSet(q[x]) /\ Head(q[x]) \in Cargo(x) /\ Head(q[x]) \in Objects
         /\ \A y \in Queues : ToSet(q'[y]) = ToSet(q[y]) \ (IF y = x THEN {Head(q[x])} ELSE {})
<1>1. HeapOK /\ OwnInv /\ Stores /\ OnceInv /\ QueueInv
  BY DEF DataOK, OwnInv
<1>2. HeapOK' /\ OwnInv'
  BY <1>1, FlowPop
<1>3. FreedGrows
  BY <1>1, FreeGrows
<1>4. /\ q' \in [Queues -> Seq(Objects)]
      /\ \A y \in Queues : ToSet(q'[y]) = ToSet(q[y]) \ (IF y = x THEN {Head(q[x])} ELSE {})
      /\ \A y \in Queues : Len(q'[y]) = IF y = x THEN Len(q[y]) - 1 ELSE Len(q[y])
      /\ Head(q[x]) \in ToSet(q[x]) /\ Head(q[x]) \in Objects
  BY <1>1, QueueTake
<1>5. Stores'
  BY <1>1, <1>4 DEF Stores
<1>6. QueueInv' /\ Head(q[x]) \in Cargo(x)
  BY <1>1, CargoTake
<1>7. \A y \in Queues : Len(q'[y]) <= Capacity
  <2>1. \A y \in Queues : Len(q[y]) \in Nat
    BY <1>1, SeqFacts DEF Stores
  <2> QED
    BY <1>4, <2>1, PipelineAssumption DEF DataOK
<1> QED
  BY <1>2, <1>3, <1>4, <1>5, <1>6, <1>7 DEF DataOK
-----------------------------------------------------------------------------
(* Every action keeps the invariant.                                       *)

LEMMA TopFacts ==
  ASSUME Stores, ControlOK, NEW t \in Threads, Top(t), UNCHANGED <<control, down>>
  PROVE  \E p \in Idle : /\ Moves(t, p, NoMsg, {}) /\ p \in Labels(t)
                         /\ HandOf(t)' /\ CopyOf(t)'
<1> DEFINE p == IF shutting_down THEN "exited" ELSE "pop"
<1>1. Moves(t, p, NoMsg, {})
  BY DEF Top, Goto, Moves
<1>2. p \in Idle
  BY DEF Idle
<1> HIDE DEF p
<1>3. pc'[t] = p /\ job'[t] = NoMsg /\ hand'[t] = {}
  BY <1>1 DEF Moves, Stores, ControlOK
<1>4. p \in Labels(t)
  BY <1>2, Names, LabelFacts DEF Idle
<1>5. HandOf(t)'
  BY <1>2, <1>3, <1>4 DEF HandOf, Idle, Labels
<1>6. CopyOf(t)'
  BY <1>2, <1>3 DEF CopyOf, Idle
<1> QED
  BY <1>1, <1>2, <1>4, <1>5, <1>6

LEMMA TopKeeps ==
  ASSUME IndInv, NEW t \in Threads, NEW N, Top(t), UNCHANGED <<control, down>>, pc[t] # "exited",
         DataOK', FreedGrows, list' = list, arrived' = arrived,
         born' = born \cup N, N \subseteq Objects \ born,
         \A o \in N : o[2] \in arrived /\ o = Event(o[2]) /\ freed'[Text(o[2])] = 1,
         \A m \in Msgs, s \in Shards : Event(m) \in ToSet(q'[s]) =>
             Event(m) \in ToSet(q[s]) \/ (t \in Decoders /\ Event(m) \in hand[t])
  PROVE  IndInv'
<1>1. ControlOK /\ DataOK /\ Stores
  BY TypeParts DEF IndInv, DataOK
<1>2. PICK p \in Idle : Moves(t, p, NoMsg, {}) /\ p \in Labels(t) /\ HandOf(t)' /\ CopyOf(t)'
  BY <1>1, TopFacts
<1>3. /\ \A m \in Msgs : Event(m) \in N => freed'[Text(m)] = 1
      /\ \A m \in Msgs : <<"fw", m>> \notin N
      /\ \A m \in Msgs, k \in CopyKinds : <<k, m>> \notin N
  <2>1. \A o \in N : o[1] = "event"
    BY DEF Event
  <2>2. \A m \in Msgs : Event(m) \in N => freed'[Text(m)] = 1
    <3> TAKE m \in Msgs
    <3>1. Event(m)[2] = m
      BY DEF Event
    <3> QED
      BY <3>1
  <2>3. \A m \in Msgs : <<"fw", m>> \notin N
    <3> TAKE m \in Msgs
    <3>1. <<"fw", m>>[1] = "fw"
      OBVIOUS
    <3> QED
      BY <2>1, <3>1
  <2>4. \A m \in Msgs, k \in CopyKinds : <<k, m>> \notin N
    <3> TAKE m \in Msgs, k \in CopyKinds
    <3>1. <<k, m>>[1] = k /\ k # "event"
      BY DEF CopyKinds
    <3> QED
      BY <2>1, <3>1
  <2> QED
    BY <2>2, <2>3, <2>4
<1>4. \A o \in Objects : freed'[o] >= freed[o]
  BY DEF FreedGrows
<1> QED
  BY <1>2, <1>3, <1>4, StepKeeps

LEMMA PopKeeps ==
  ASSUME IndInv, NEW t \in Threads, Pop(t)
  PROVE  IndInv'
<1> DEFINE x == Input(t)
           o == Head(q[x])
           m == o[2]
<1>1. ControlOK /\ DataOK /\ Stores /\ PlaceInv /\ HandInv /\ BornInv /\ CopyInv /\ HeapOK
  BY TypeParts DEF IndInv, DataOK, OwnInv
<1>2. t # Recv /\ pc[t] = "pop" /\ x \in Queues /\ q[x] # <<>>
  BY Inputs DEF Pop
<1>3. hand[t] = {}
  BY <1>1, <1>2 DEF HandInv, HandOf, Idle
<1>4. Moves(t, "work", m, {o}) /\ q' = [q EXCEPT ![x] = Tail(@)]
  BY DEF Pop, Holds, Goto, Moves
<1>5. UNCHANGED <<list, born, freed, arrived, written, count>>
  BY DEF Pop, heap
<1>6. hand' = [hand EXCEPT ![t] = {o}]
  BY <1>4 DEF Moves
<1> HIDE DEF x
<1>7. /\ DataOK' /\ FreedGrows
      /\ o \in ToSet(q[x]) /\ o \in Cargo(x) /\ o \in Objects
      /\ \A y \in Queues : ToSet(q'[y]) = ToSet(q[y]) \ (IF y = x THEN {o} ELSE {})
  BY <1>1, <1>2, <1>3, <1>4, <1>5, <1>6, DataPop
<1> HIDE DEF o
<1>8. pc'[t] = "work" /\ job'[t] = m /\ hand'[t] = {o}
  BY <1>1, <1>4 DEF Moves, Stores, ControlOK
<1>9. o \in born /\ m \in Msgs /\ m \in arrived
  BY <1>1, <1>2, <1>7, Apart, Objs DEF Live, BornInv
<1>10. "work" \in Labels(t)
  BY Names, LabelFacts
<1>11. t \in Demuxers \cup Decoders => o = Text(m)
  <2>1. t \in Demuxers \cup Decoders => o \in {"text"} \X Msgs
    BY <1>7, Inputs, Cargoes DEF x
  <2> QED
    BY <2>1 DEF Text
<1>12. t \in Shards => o = Event(m) /\ ShardOf[m] = t /\ x = t
  <2> SUFFICES ASSUME t \in Shards
               PROVE  o = Event(m) /\ ShardOf[m] = t /\ x = t
    OBVIOUS
  <2>1. x = t
    BY Inputs DEF x
  <2>2. PICK n \in Msgs : ShardOf[n] = x /\ o = Event(n)
    BY <1>7, <2>1, Cargoes
  <2>3. m = n
    BY <2>2 DEF Event
  <2> QED
    BY <2>1, <2>2, <2>3
<1>13. t \in Writers => o \in Cargo(t)
  BY <1>7, Inputs DEF x
<1> HIDE DEF m
<1>14. HandOf(t)'
  <2>1. t \in Demuxers \/ t \in Decoders \/ t \in Shards \/ t \in Writers
    BY <1>2, Names DEF Sources
  <2>2. CASE t \in Demuxers \cup Decoders
    <3>1. t \notin Shards /\ t \notin Writers
      BY <2>2, Names
    <3> QED
      BY <1>8, <1>9, <1>10, <1>11, <2>2, <3>1 DEF HandOf, Idle, Labels, Text, Event
  <2>3. CASE t \in Shards
    <3>1. t \notin Writers
      BY <2>3, Names
    <3> QED
      BY <1>8, <1>9, <1>10, <1>12, <2>3, <3>1 DEF HandOf, Idle, Labels, Text, Event
  <2>4. CASE t \in Writers
    <3>1. t \notin Shards
      BY <2>4, Names
    <3> QED
      BY <1>8, <1>9, <1>10, <1>13, <2>4, <3>1 DEF HandOf, Idle, Labels, Cargo, Event
  <2> QED
    BY <2>1, <2>2, <2>3, <2>4
<1>15. t \in Shards => CopyOf(t)'
  <2> SUFFICES ASSUME t \in Shards
               PROVE  CopyOf(t)'
    OBVIOUS
  <2>1. /\ \A d \in Decoders : o \notin hand'[d]
        /\ \A s \in Shards : o \notin ToSet(q'[s])
    <3>1. \A d \in Decoders : o \notin hand[d] /\ d # t
      BY <1>1, <1>2, <1>7, Apart, Names
    <3>2. \A d \in Decoders : hand'[d] = hand[d]
      BY <1>1, <3>1, <1>6, Names DEF Stores
    <3>3. \A s \in Shards : s # x => o \notin ToSet(q[s])
      BY <1>1, <1>2, <1>7, Apart, QueueNames
    <3> QED
      BY <1>7, <3>1, <3>2, <3>3, QueueNames
  <2>2. o \notin Upstream'
    BY <2>1 DEF Upstream
  <2>3. o \in Upstream
    BY <1>7, <1>12 DEF Upstream
  <2>4. Awaits(m)
    BY <1>12, <2>3 DEF Awaits
  <2>5. \A k \in CopyKinds : <<k, m>> \notin born
    BY <1>1, <1>9, <2>4 DEF CopyInv
  <2>6. "stat" \in CopyKinds /\ "alert" \in CopyKinds /\ "arch" \in CopyKinds
    BY DEF CopyKinds
  <2>7. (~Awaits(job[t]))'
    BY <1>5, <1>8, <1>9, <1>12, <2>2 DEF Awaits, Event
  <2>8. <<"stat", m>> \notin born' /\ <<"alert", m>> \notin born' /\ <<"arch", m>> \notin born'
    BY <1>5, <2>5, <2>6
  <2> QED
    BY <1>8, <2>7, <2>8 DEF CopyOf
<1>16. t \in Decoders => \A n \in Msgs : Event(n) \in {o} => Event(n) \in hand[t]
  BY <1>11 DEF Text, Event
<1>17. \A n \in Msgs, s \in Shards : Event(n) \in ToSet(q'[s]) => Event(n) \in ToSet(q[s])
  BY <1>7, QueueNames
<1>18. born' = born /\ arrived' = arrived /\ m \in arrived \cup {NoMsg}
  BY <1>5, <1>9
<1>19. \A n \in Objects : freed'[n] >= freed[n]
  BY <1>7 DEF FreedGrows
<1>20. pc[t] # "exited" /\ \A s \in Shards : s # t => list'[s] = list[s]
  BY <1>2, <1>5
<1> QED
  BY <1>4, <1>7, <1>10, <1>14, <1>15, <1>16, <1>17, <1>18, <1>19, <1>20, StepKeepsOld

LEMMA PopNullKeeps ==
  ASSUME IndInv, NEW t \in Threads, PopNull(t)
  PROVE  IndInv'
<1>1. ControlOK /\ DataOK /\ Stores /\ HandInv /\ HeapOK
  BY TypeParts DEF IndInv, DataOK
<1>2. /\ pc[t] = "pop" /\ pc' = [pc EXCEPT ![t] = "exited"]
      /\ UNCHANGED <<q, list, born, freed, arrived, written, count, job, hand, control, down>>
  BY DEF PopNull, Goto, heap, flow
<1>3. hand[t] = {} /\ job[t] = NoMsg
  BY <1>1, <1>2 DEF HandInv, HandOf, Idle
<1>4. Moves(t, "exited", NoMsg, {})
  BY <1>1, <1>2, <1>3 DEF Moves, Stores, ControlOK
<1>5. "exited" \in Labels(t)
  BY Names, LabelFacts
<1>6. pc'[t] = "exited" /\ job'[t] = NoMsg /\ hand'[t] = {}
  BY <1>1, <1>4 DEF Moves, Stores, ControlOK
<1>7. HandOf(t)'
  BY <1>5, <1>6 DEF HandOf, Idle, Labels
<1>8. CopyOf(t)'
  BY <1>6 DEF CopyOf, Idle
<1>9. DataOK'
  <2>1. count' \in [Counters -> Nat]
    BY <1>1, <1>2 DEF DataOK
  <2> QED
    BY <1>1, <1>2, <2>1, DataSame
<1>10. \A o \in Objects : freed'[o] >= freed[o]
  BY <1>1, <1>2 DEF HeapOK
<1>11. /\ pc[t] # "exited" /\ NoMsg \in arrived \cup {NoMsg}
       /\ t \in Shards => CopyOf(t)'
       /\ \A s \in Shards : s # t => list'[s] = list[s]
       /\ born' = born /\ arrived' = arrived
       /\ t \in Decoders => \A m \in Msgs : Event(m) \in {} => Event(m) \in hand[t]
       /\ \A m \in Msgs, s \in Shards : Event(m) \in ToSet(q'[s]) =>
             Event(m) \in ToSet(q[s]) \/ (t \in Decoders /\ Event(m) \in hand[t])
  BY <1>2, <1>8
<1> QED
  BY <1>4, <1>5, <1>7, <1>9, <1>10, <1>11, StepKeepsOld
LEMMA TopKeepsOld ==
  ASSUME IndInv, NEW t \in Threads, Top(t), UNCHANGED <<control, down>>, pc[t] # "exited",
         DataOK', FreedGrows, list' = list, arrived' = arrived, born' = born,
         \A m \in Msgs, s \in Shards : Event(m) \in ToSet(q'[s]) =>
             Event(m) \in ToSet(q[s]) \/ (t \in Decoders /\ Event(m) \in hand[t])
  PROVE  IndInv'
<1> DEFINE N == {}
<1>1. /\ born' = born \cup N /\ N \subseteq Objects \ born
      /\ \A o \in N : o[2] \in arrived /\ o = Event(o[2]) /\ freed'[Text(o[2])] = 1
  OBVIOUS
<1> HIDE DEF N
<1> QED
  BY <1>1, TopKeeps

LEMMA TopHand ==
  ASSUME NEW t, Top(t)
  PROVE  hand' = [hand EXCEPT ![t] = {}]
BY DEF Top

LEMMA ReceiveKeeps ==
  ASSUME IndInv, NEW m \in Msgs, Receive(m)
  PROVE  IndInv'
<1> DEFINE t == Recv
           N == {Text(m)}
<1>1. ControlOK /\ DataOK /\ Stores /\ HandInv /\ BornInv /\ HeapOK
  BY TypeParts DEF IndInv, DataOK
<1>2. /\ pc[t] = "pop" /\ m \notin arrived /\ arrived' = arrived \cup {m} /\ born' = born \cup N
      /\ Inc("received")
      /\ UNCHANGED <<q, list, freed, written>>
  BY DEF Receive, Allocate, flow
<1>3. Moves(t, "work", m, N)
  BY DEF Receive, Moves, Goto, Holds, flow
<1>4. t \in Threads /\ t \in Sources /\ t \notin Shards /\ t \notin Decoders /\ t \notin Writers
  BY Names
<1> HIDE DEF t
<1>5. hand[t] = {}
  BY <1>1, <1>2, <1>4 DEF HandInv, HandOf, Idle
<1>6. Text(m) \in Objects /\ Text(m)[1] = "text" /\ Text(m)[2] = m
  BY Objs DEF Text
<1>7. Text(m) \notin born
  BY <1>1, <1>2, <1>6 DEF BornInv
<1>8. Free((hand[t] \cup N) \ N)
  BY <1>1, <1>2, <1>5, FreeNone
<1>9. arrived' \subseteq Msgs /\ written' \subseteq born' /\ count' \in [Counters -> Nat]
  <2>1. count \in [Counters -> Nat] /\ "received" \in Counters
    BY <1>1 DEF DataOK, Counters
  <2> QED
    BY <1>1, <1>2, <2>1, Counted DEF DataOK
<1>10. N \subseteq Objects \ born /\ N \subseteq hand[t] \cup N
  BY <1>6, <1>7
<1>11. hand' = [hand EXCEPT ![t] = N]
  BY <1>3 DEF Moves
<1>12. \A o \in N : o[2] \in arrived' /\ o[1] = "text"
  BY <1>2, <1>6
<1> HIDE DEF N
<1>13. DataOK' /\ FreedGrows
  BY <1>1, <1>2, <1>4, <1>8, <1>9, <1>10, <1>11, DataHand
<1>14. "work" \in Labels(t)
  BY <1>4, LabelFacts
<1>15. HandOf(t)'
  <2>1. pc'[t] = "work" /\ job'[t] = m /\ hand'[t] = N
    BY <1>1, <1>3, <1>4 DEF Moves, Stores, ControlOK
  <2> QED
    BY <1>4, <1>14, <2>1 DEF HandOf, Idle, N, Text, Labels
<1>16. /\ \A n \in Msgs : Event(n) \notin N /\ <<"fw", n>> \notin N
       /\ \A n \in Msgs, k \in CopyKinds : <<k, n>> \notin N
  BY <1>12 DEF Event, CopyKinds
<1>17. /\ pc[t] # "exited" /\ m \in arrived' \cup {NoMsg} /\ arrived \subseteq arrived'
       /\ \A o \in Objects : freed'[o] >= freed[o]
  BY <1>2, <1>13 DEF FreedGrows
<1> QED
  BY <1>2, <1>3, <1>4, <1>10, <1>12, <1>13, <1>14, <1>15, <1>16, <1>17, StepKeeps

LEMMA ReceiveClosedKeeps ==
  ASSUME IndInv, ReceiveClosed
  PROVE  IndInv'
<1>1. DataOK /\ Stores /\ HandInv /\ HeapOK
  BY TypeParts DEF IndInv, DataOK
<1>2. /\ pc[Recv] = "pop" /\ Top(Recv)
      /\ UNCHANGED <<control, down, q, list, born, freed, arrived, written, count>>
  BY DEF ReceiveClosed, flow, heap
<1>3. Recv \in Threads
  BY Names
<1>4. hand[Recv] = {}
  BY <1>1, <1>2, <1>3 DEF HandInv, HandOf, Idle
<1>5. hand' = hand
  <2>1. hand' = [hand EXCEPT ![Recv] = {}]
    BY <1>2 DEF Top
  <2> QED
    BY <1>1, <1>3, <1>4, <2>1 DEF Stores
<1>6. DataOK'
  <2>1. count' \in [Counters -> Nat]
    BY <1>1, <1>2 DEF DataOK
  <2> QED
    BY <1>1, <1>2, <1>5, <2>1, DataSame
<1>7. FreedGrows
  BY <1>1, <1>2, FreeGrows
<1> QED
  BY <1>2, <1>3, <1>6, <1>7, TopKeepsOld

(* A thread that gives up all it holds.                                    *)
LEMMA DropKeeps ==
  ASSUME IndInv, NEW t \in Threads, pc[t] # "exited", Top(t), Free(hand[t]),
         UNCHANGED <<control, down, q, list, born, arrived>>,
         written' \subseteq born, count' \in [Counters -> Nat]
  PROVE  IndInv'
<1> DEFINE N == {}
           H == {}
<1>1. DataOK
  BY TypeParts DEF IndInv
<1>2. hand' = [hand EXCEPT ![t] = H]
  BY TopHand
<1>3. N \subseteq Objects \ born /\ H \subseteq hand[t] \cup N /\ born' = born \cup N
  OBVIOUS
<1>4. Free((hand[t] \cup N) \ H)
  <2>1. (hand[t] \cup N) \ H = hand[t]
    OBVIOUS
  <2> QED
    BY <2>1
<1>5. arrived' \subseteq Msgs /\ written' \subseteq born'
  BY <1>1 DEF DataOK
<1> HIDE DEF N, H
<1>6. DataOK' /\ FreedGrows
  BY <1>1, <1>2, <1>3, <1>4, <1>5, DataHand
<1> QED
  BY <1>6, TopKeepsOld

(* A thread that passes on all it holds.                                   *)
LEMMA PassKeeps ==
  ASSUME IndInv, NEW t \in Threads, pc[t] # "exited", Top(t), NEW x \in Queues, NEW o,
         hand[t] = {o}, Room(x), Put(x, o), o \in Cargo(x),
         x \in Shards => t \in Decoders,
         UNCHANGED <<control, down, list, born, freed, arrived, written, count>>
  PROVE  IndInv'
<1>1. DataOK
  BY TypeParts DEF IndInv
<1>2. o \in hand[t] /\ hand[t] \ {o} = {}
  OBVIOUS
<1>3. hand' = [hand EXCEPT ![t] = hand[t] \ {o}]
  BY <1>2, TopHand
<1>4. arrived' \subseteq Msgs /\ written' \subseteq born' /\ count' \in [Counters -> Nat]
  BY <1>1 DEF DataOK
<1>5. /\ DataOK' /\ FreedGrows
      /\ \A y \in Queues : ToSet(q'[y]) = ToSet(q[y]) \cup (IF y = x THEN {o} ELSE {})
  BY <1>1, <1>2, <1>3, <1>4, DataSend DEF Sends
<1>6. \A m \in Msgs, s \in Shards : Event(m) \in ToSet(q'[s]) =>
          Event(m) \in ToSet(q[s]) \/ (t \in Decoders /\ Event(m) \in hand[t])
  BY <1>2, <1>5, QueueNames
<1> QED
  BY <1>5, <1>6, TopKeepsOld

LEMMA ForwardKeeps ==
  ASSUME IndInv, NEW t \in Sources, NEW x \in Types \cup {"raw"}, Forward(t, x)
  PROVE  IndInv'
<1>1. DataOK /\ HandInv /\ count \in [Counters -> Nat] /\ written \subseteq born
  BY TypeParts DEF IndInv, DataOK
<1>2. t \in Threads /\ t \notin Shards /\ t \notin Writers /\ x \in Queues /\ x \notin Shards
  BY Names, QueueNames
<1>3. /\ pc[t] = "work" /\ Top(t)
      /\ UNCHANGED <<control, down, list, born, arrived, written>>
  BY DEF Forward
<1>4. hand[t] = {Text(job[t])} /\ job[t] \in Msgs
  BY <1>1, <1>2, <1>3 DEF HandInv, HandOf, Idle
<1>5. CASE /\ Room(x) /\ Put(x, Text(job[t])) /\ UNCHANGED <<freed, count>>
  <2>1. Text(job[t]) \in Cargo(x)
    BY <1>4, Cargoes DEF Text
  <2> QED
    BY <1>2, <1>3, <1>4, <1>5, <2>1, PassKeeps
<1>6. CASE Free({Text(job[t])}) /\ Inc("dropped") /\ UNCHANGED q
  <2>1. count' \in [Counters -> Nat]
    BY <1>1, <1>6, Counted DEF Counters
  <2>2. Free(hand[t])
    BY <1>4, <1>6
  <2> QED
    BY <1>1, <1>2, <1>3, <1>6, <2>1, <2>2, DropKeeps
<1> QED
  BY <1>5, <1>6 DEF Forward
(* A decoder at work: the text is alive, what comes of it does not exist.  *)
LEMMA DecoderFacts ==
  ASSUME IndInv, NEW d \in Decoders, pc[d] = "work"
  PROVE  /\ d \in Threads /\ d \notin Shards /\ d \notin Writers
         /\ job[d] \in Msgs /\ job[d] \in arrived /\ hand[d] = {Text(job[d])}
         /\ freed[Text(job[d])] = 0
         /\ Event(job[d]) \in Objects \ born /\ <<"fw", job[d]>> \in Objects \ born
<1>1. HandInv /\ BornInv /\ PlaceInv
  BY DEF IndInv, OwnInv
<1>2. d \in Threads /\ d \notin Shards /\ d \notin Writers
  BY Names
<1>3. job[d] \in Msgs /\ hand[d] = {Text(job[d])}
  BY <1>1, <1>2 DEF HandInv, HandOf, Idle
<1>4. freed[Text(job[d])] = 0
  BY <1>1, <1>2, <1>3, Apart DEF Live
<1>5. job[d] \in arrived
  BY <1>1, <1>2, <1>3, PipelineAssumption DEF BornInv
<1>6. Event(job[d]) \notin born /\ <<"fw", job[d]>> \notin born
  BY <1>1, <1>3, <1>4 DEF BornInv
<1> QED
  BY <1>2, <1>3, <1>4, <1>5, <1>6, Objs

LEMMA DecodeRejectsKeeps ==
  ASSUME IndInv, NEW d \in Decoders, DecodeRejects(d)
  PROVE  IndInv'
<1> DEFINE m == job[d]
           N == {Event(m)}
           H == {}
<1>1. /\ pc[d] = "work" /\ born' = born \cup N /\ Free({Text(m), Event(m)})
      /\ Top(d)
      /\ UNCHANGED <<control, down, q, list, arrived, written, count>>
  BY DEF DecodeRejects, Allocate, flow
<1>2. /\ d \in Threads /\ m \in Msgs /\ m \in arrived /\ hand[d] = {Text(m)}
      /\ freed[Text(m)] = 0 /\ Event(m) \in Objects \ born
  BY <1>1, DecoderFacts
<1>3. DataOK /\ count \in [Counters -> Nat] /\ written \subseteq born /\ arrived \subseteq Msgs
  BY TypeParts DEF IndInv, DataOK
<1> HIDE DEF m
<1>4. N \subseteq Objects \ born /\ H \subseteq hand[d] \cup N
  BY <1>2
<1>5. Free((hand[d] \cup N) \ H)
  <2>1. (hand[d] \cup N) \ H = {Text(m), Event(m)}
    BY <1>2
  <2> QED
    BY <1>1, <2>1
<1>6. hand' = [hand EXCEPT ![d] = H]
  BY <1>1, TopHand
<1>7. arrived' \subseteq Msgs /\ written' \subseteq born' /\ count' \in [Counters -> Nat]
  BY <1>1, <1>3, Counted DEF Counters
<1>8. \A o \in N : o[2] \in arrived /\ o = Event(o[2]) /\ freed'[Text(o[2])] = 1
  <2>1. freed'[Text(m)] = 1
    BY <1>1, <1>2, Objs DEF Free
  <2>2. Event(m)[2] = m
    BY DEF Event
  <2> QED
    BY <1>2, <2>1, <2>2
<1> HIDE DEF N, H
<1>9. DataOK' /\ FreedGrows
  BY <1>1, <1>2, <1>3, <1>4, <1>5, <1>6, <1>7, DataHand
<1> QED
  BY <1>1, <1>2, <1>4, <1>8, <1>9, TopKeeps

(* The text is replaced by what comes of it.                               *)
LEMMA DecodedKeeps ==
  ASSUME IndInv, NEW d \in Decoders, NEW p \in {"push", "fw"}, NEW N,
         pc[d] = "work", Goto(d, p), Holds(d, N), born' = born \cup N, Free({Text(job[d])}),
         N = IF p = "push" THEN {Event(job[d])} ELSE {Event(job[d]), <<"fw", job[d]>>},
         UNCHANGED <<control, down, q, job, list, arrived, written>>,
         count' \in [Counters -> Nat]
  PROVE  IndInv'
<1> DEFINE m == job[d]
<1>1. /\ d \in Threads /\ d \notin Shards /\ d \notin Writers
      /\ m \in Msgs /\ m \in arrived /\ hand[d] = {Text(m)}
      /\ freed[Text(m)] = 0 /\ Event(m) \in Objects \ born /\ <<"fw", m>> \in Objects \ born
  BY DecoderFacts
<1>2. /\ ControlOK /\ DataOK /\ Stores
      /\ count \in [Counters -> Nat] /\ written \subseteq born /\ arrived \subseteq Msgs
  BY TypeParts DEF IndInv, DataOK
<1>3. Moves(d, p, m, N)
  BY <1>1, <1>2 DEF Moves, Goto, Holds, ControlOK
<1> HIDE DEF m
<1>4. N = {Event(m)} \/ N = {Event(m), <<"fw", m>>}
  BY DEF m
<1>5. N \subseteq Objects \ born /\ N \subseteq hand[d] \cup N
  BY <1>1, <1>4
<1>6. Free((hand[d] \cup N) \ N)
  <2>1. Text(m) \notin N
    BY <1>4 DEF Text, Event
  <2>2. (hand[d] \cup N) \ N = {Text(m)}
    BY <1>1, <2>1
  <2> QED
    BY <2>2 DEF m
<1>7. hand' = [hand EXCEPT ![d] = N]
  BY DEF Holds
<1>8. arrived' \subseteq Msgs /\ written' \subseteq born'
  BY <1>2
<1>9. DataOK' /\ FreedGrows
  BY <1>1, <1>2, <1>5, <1>6, <1>7, <1>8, DataHand
<1>10. p \in Labels(d)
  BY LabelFacts
<1>11. HandOf(d)'
  <2>1. pc'[d] = p /\ job'[d] = m /\ hand'[d] = N
    BY <1>1, <1>2, <1>3 DEF Moves, ControlOK, Stores
  <2>2. p = "push" => N = {Event(m)}
    BY DEF m
  <2>3. p = "fw" => N = {Event(m), <<"fw", m>>}
    BY DEF m
  <2> QED
    BY <1>1, <1>10, <2>1, <2>2, <2>3 DEF HandOf, Idle, Labels, Text, Event
<1>12. freed'[Text(m)] = 1
  BY <1>1, Objs DEF Free, m
<1>13. /\ \A o \in N : o[2] \in arrived'
       /\ \A n \in Msgs : Event(n) \in N => freed'[Text(n)] = 1
       /\ \A n \in Msgs : <<"fw", n>> \in N => Event(n) \in N
       /\ \A n \in Msgs, k \in CopyKinds : <<k, n>> \notin N
  <2>1. \A o \in N : o[2] = m /\ o[1] \in {"event", "fw"}
    BY <1>4 DEF Event
  <2>2. \A o \in N : o[2] \in arrived'
    BY <1>1, <2>1
  <2>3. \A n \in Msgs : Event(n) \in N => n = m
    BY <2>1 DEF Event
  <2>4. \A n \in Msgs : <<"fw", n>> \in N => n = m
    BY <2>1
  <2>5. \A n \in Msgs, k \in CopyKinds : <<k, n>> \notin N
    BY <2>1 DEF CopyKinds
  <2>6. Event(m) \in N
    BY <1>4
  <2> QED
    BY <1>12, <2>2, <2>3, <2>4, <2>5, <2>6
<1>14. \A o \in Objects : freed'[o] >= freed[o]
  BY <1>9 DEF FreedGrows
<1>15. /\ pc[d] # "exited" /\ m \in arrived' \cup {NoMsg} /\ arrived \subseteq arrived'
       /\ d \in Shards => CopyOf(d)'
       /\ \A s \in Shards : s # d => list'[s] = list[s]
       /\ \A n \in Msgs : Event(n) \in N => Event(n) \in hand[d] \cup N
       /\ \A n \in Msgs, s \in Shards : Event(n) \in ToSet(q'[s]) => Event(n) \in ToSet(q[s])
  BY <1>1
<1>16. d \in Threads /\ born' = born \cup N /\ DataOK' /\ IndInv
  BY <1>1, <1>9
<1> QED
  BY ONLY <1>3, <1>5, <1>10, <1>11, <1>13, <1>14, <1>15, <1>16, StepKeeps

LEMMA FirewallPushKeeps ==
  ASSUME IndInv, NEW d \in Decoders, FirewallPush(d)
  PROVE  IndInv'
<1> DEFINE m == job[d]
           o == <<"fw", m>>
           H == {Event(m)}
<1>1. /\ pc[d] = "fw" /\ Holds(d, H) /\ Inc("decoded") /\ Goto(d, "push")
      /\ UNCHANGED <<control, down, job, list, born, arrived>>
  BY DEF FirewallPush
<1>2. d \in Threads /\ d \notin Shards /\ d \notin Writers
  BY Names
<1>3. /\ ControlOK /\ DataOK /\ Stores /\ HandInv /\ BornInv /\ PlaceInv /\ HeapOK
      /\ count \in [Counters -> Nat] /\ written \subseteq born /\ arrived \subseteq Msgs
  BY TypeParts DEF IndInv, DataOK, OwnInv
<1>4. m \in Msgs /\ hand[d] = {Event(m), o}
  BY <1>1, <1>2, <1>3 DEF HandInv, HandOf, Idle
<1>5. Moves(d, "push", m, H)
  BY <1>1, <1>2, <1>3 DEF Moves, Goto, Holds, ControlOK
<1>6. m \in arrived
  BY <1>2, <1>3, <1>4, PipelineAssumption DEF BornInv
<1>7. Event(m) # o /\ o \in {"fw"} \X Msgs
  BY <1>4 DEF Event
<1>8. o \in born
  BY <1>2, <1>3, <1>4, Apart DEF Live
<1>9. hand' = [hand EXCEPT ![d] = H] /\ hand[d] \ {o} = H /\ o \in hand[d]
  BY <1>1, <1>4, <1>7 DEF Holds
<1>10. arrived' \subseteq Msgs /\ count' \in [Counters -> Nat]
  BY <1>1, <1>3, Counted DEF Counters
<1>11. \/ Room("firewall") /\ Put("firewall", o) /\ UNCHANGED <<freed, written>>
       \/ Free({o}) /\ written' = written \cup {o} /\ UNCHANGED q
  BY DEF FirewallPush
<1> HIDE DEF m, o, H
<1>12. /\ DataOK' /\ FreedGrows
       /\ \A s \in Shards : ToSet(q'[s]) = ToSet(q[s])
  <2>1. CASE Room("firewall") /\ Put("firewall", o) /\ UNCHANGED <<freed, written>>
    <3> DEFINE x == "firewall"
    <3>1. x \in Queues /\ o \in Cargo(x) /\ x \notin Shards
      BY <1>7, Cargoes, QueueNames
    <3>2. Room(x) /\ Put(x, o)
      BY <2>1
    <3> HIDE DEF x
    <3>3. /\ hand' = [hand EXCEPT ![d] = hand[d] \ {o}] /\ written' \subseteq born'
          /\ list' = list /\ born' = born /\ freed' = freed /\ DataOK /\ o \in hand[d]
      BY <1>1, <1>3, <1>9, <2>1
    <3>4. /\ DataOK' /\ FreedGrows
          /\ \A y \in Queues : ToSet(q'[y]) = ToSet(q[y]) \cup (IF y = x THEN {o} ELSE {})
      <4>1. Sends(d, x, o) /\ DataOK /\ d \in Threads /\ x \in Queues /\ o \in hand[d]
        BY <1>2, <1>10, <3>1, <3>2, <3>3 DEF Sends
      <4> QED
        BY ONLY <4>1, DataSend
    <3> QED
      BY <3>1, <3>4, QueueNames
  <2>2. CASE Free({o}) /\ written' = written \cup {o} /\ UNCHANGED q
    <3> DEFINE N == {}
    <3>1. N \subseteq Objects \ born /\ H \subseteq hand[d] \cup N /\ born' = born \cup N
      BY <1>1, <1>9
    <3>2. Free((hand[d] \cup N) \ H)
      <4>1. (hand[d] \cup N) \ H = {o}
        BY <1>4, <1>7 DEF H
      <4> QED
        BY <2>2, <4>1
    <3>3. written' \subseteq born'
      BY <1>1, <1>3, <1>8, <2>2
    <3> HIDE DEF N
    <3>4. DataOK' /\ FreedGrows
      BY <1>1, <1>2, <1>3, <1>9, <1>10, <2>2, <3>1, <3>2, <3>3, DataHand
    <3> QED
      BY <2>2, <3>4
  <2> QED
    BY <1>11, <2>1, <2>2
<1>13. "push" \in Labels(d)
  BY LabelFacts
<1>14. HandOf(d)'
  <2>1. pc'[d] = "push" /\ job'[d] = m /\ hand'[d] = H
    BY <1>2, <1>3, <1>5 DEF Moves, ControlOK, Stores
  <2> QED
    BY <1>2, <1>4, <1>13, <2>1 DEF HandOf, Idle, Labels, H, Event
<1>15. /\ pc[d] # "exited" /\ m \in arrived \cup {NoMsg}
       /\ \A n \in Objects : freed'[n] >= freed[n]
       /\ \A n \in Msgs : Event(n) \in H => Event(n) \in hand[d]
  BY <1>1, <1>6, <1>9, <1>12 DEF FreedGrows
<1> QED
  BY <1>1, <1>2, <1>5, <1>12, <1>13, <1>14, <1>15, StepKeepsOld

LEMMA PushDecodedKeeps ==
  ASSUME IndInv, NEW d \in Decoders, analysisd_push_decoded(d)
  PROVE  IndInv'
<1> DEFINE s == ShardOf[job[d]]
           o == Event(job[d])
<1>1. /\ pc[d] = "push" /\ Top(d)
      /\ UNCHANGED <<control, down, list, born, arrived, written>>
      /\ \/ Room(s) /\ Put(s, o) /\ UNCHANGED <<freed, count>>
         \/ /\ Free({o})
            /\ IF shutting_down THEN UNCHANGED count ELSE Inc2("shard_dropped", "dropped")
            /\ UNCHANGED q
  BY DEF analysisd_push_decoded
<1>2. d \in Threads /\ d \notin Shards /\ d \notin Writers
  BY Names
<1>3. HandInv /\ count \in [Counters -> Nat] /\ written \subseteq born
  BY TypeParts DEF IndInv, DataOK
<1>4. job[d] \in Msgs /\ hand[d] = {o}
  BY <1>1, <1>2, <1>3 DEF HandInv, HandOf, Idle
<1>5. s \in Shards /\ s \in Queues /\ o \in Cargo(s)
  BY <1>4, PipelineAssumption, QueueNames, Cargoes
<1> HIDE DEF s, o
<1>6. CASE Room(s) /\ Put(s, o) /\ UNCHANGED <<freed, count>>
  BY <1>1, <1>2, <1>4, <1>5, <1>6, PassKeeps
<1>7. CASE /\ Free({o}) /\ UNCHANGED q
           /\ IF shutting_down THEN UNCHANGED count ELSE Inc2("shard_dropped", "dropped")
  <2>1. count' \in [Counters -> Nat]
    BY <1>3, <1>7, Counted DEF Counters
  <2>2. Free(hand[d])
    BY <1>4, <1>7
  <2> QED
    BY <1>1, <1>2, <1>3, <1>7, <2>1, <2>2, DropKeeps
<1> QED
  BY <1>1, <1>6, <1>7
(* A rule-matching thread at work.                                         *)
LEMMA ShardFacts ==
  ASSUME IndInv, NEW s \in Shards, pc[s] \notin Idle
  PROVE  /\ s \in Threads /\ s \notin Decoders /\ s \notin Writers /\ s \in Queues
         /\ job[s] \in Msgs /\ job[s] \in arrived /\ ShardOf[job[s]] = s
         /\ ~Awaits(job[s]) /\ CopyOf(s) /\ HandOf(s)
         /\ pc[s] \in {"work", "checked", "logged"} => hand[s] = {Event(job[s])}
<1>1. HandInv /\ BornInv /\ CopyInv
  BY DEF IndInv
<1>2. s \in Threads /\ s \notin Decoders /\ s \notin Writers /\ s \in Queues
  BY Names, QueueNames
<1>3. HandOf(s) /\ CopyOf(s)
  BY <1>1, <1>2 DEF HandInv, CopyInv
<1>4. /\ job[s] \in Msgs /\ ShardOf[job[s]] = s
      /\ pc[s] \in {"work", "checked", "logged"} => hand[s] = {Event(job[s])}
  BY <1>3 DEF HandOf
<1>5. job[s] \in arrived
  BY <1>1, <1>2, <1>4, PipelineAssumption DEF BornInv
<1>6. ~Awaits(job[s])
  BY <1>3 DEF CopyOf
<1> QED
  BY <1>2, <1>3, <1>4, <1>5, <1>6

(* Its message has passed the rules' queue for good.                       *)
LEMMA AwaitsOver ==
  ASSUME NEW s \in Shards, NEW m, ~Awaits(m), job'[s] = m, born \subseteq born',
         \A d \in Decoders : hand'[d] = hand[d],
         \A r \in Shards : ToSet(q'[r]) = ToSet(q[r])
  PROVE  (~Awaits(job[s]))'
<1>1. Event(m) \in born /\ Event(m) \notin Upstream
  BY DEF Awaits
<1>2. Event(m) \in born' /\ Event(m) \notin Upstream'
  BY <1>1 DEF Upstream
<1>3. Event(job'[s]) \in born' /\ Event(job'[s]) \notin Upstream'
  BY <1>2
<1> QED
  BY <1>3 DEF Awaits, Event

(* A copy for a writer: queued, or freed at once.                          *)
LEMMA CopyKeeps ==
  ASSUME IndInv, NEW s \in Shards, pc[s] \notin Idle, NEW k \in CopyKinds, NEW w \in Writers,
         NEW p \in {"checked", "logged", "archived"}, NEW o, o = <<k, job[s]>>,
         o \notin born, o \in Cargo(w), Allocate(o),
         \/ Room(w) /\ Put(w, o) /\ UNCHANGED freed
         \/ Free({o}) /\ UNCHANGED q,
         Goto(s, p), UNCHANGED <<control, down, job, hand, list, arrived>>,
         written' \subseteq written \cup {o}, count' \in [Counters -> Nat],
         p \in {"checked", "logged"} => hand[s] = {Event(job[s])} /\ k # "arch" /\ <<"arch", job[s]>> \notin born,
         p = "checked" => k # "alert" /\ <<"alert", job[s]>> \notin born,
         p = "archived" => hand[s] \in {{}, {Event(job[s])}}
  PROVE  IndInv'
<1> DEFINE m == job[s]
           N == {o}
<1>1. /\ s \in Threads /\ s \notin Decoders /\ s \notin Writers /\ w \in Queues /\ w \notin Shards
      /\ m \in Msgs /\ m \in arrived /\ ShardOf[m] = s /\ ~Awaits(m)
  BY ShardFacts, QueueNames
<1>2. /\ ControlOK /\ DataOK /\ Stores
      /\ written \subseteq born /\ arrived \subseteq Msgs
  BY TypeParts DEF IndInv, DataOK
<1>3. Moves(s, p, m, hand[s])
  BY <1>1, <1>2 DEF Moves, Goto, ControlOK, Stores
<1>4. o \in Objects /\ o[1] = k /\ o[2] = m
  <2>1. k \in Kinds
    BY Objs DEF CopyKinds
  <2> QED
    BY <1>1, <2>1, Objs
<1>5. born' = born \cup {o} /\ arrived' \subseteq Msgs /\ written' \subseteq born'
  BY <1>2 DEF Allocate
<1>6. /\ DataOK' /\ FreedGrows
      /\ \A r \in Shards : ToSet(q'[r]) = ToSet(q[r])
  <2>1. CASE Room(w) /\ Put(w, o) /\ UNCHANGED freed
    <3>1. /\ DataOK' /\ FreedGrows
          /\ \A y \in Queues : ToSet(q'[y]) = ToSet(q[y]) \cup (IF y = w THEN {o} ELSE {})
      BY <1>1, <1>2, <1>4, <1>5, <2>1, DataNew
    <3> QED
      BY <1>1, <3>1, QueueNames
  <2>2. CASE Free({o}) /\ UNCHANGED q
    <3>1. DataOK' /\ FreedGrows
      BY <1>2, <1>4, <1>5, <2>2, DataRefused
    <3> QED
      BY <2>2, <3>1
  <2> QED
    BY <2>1, <2>2
<1>7. p \in Labels(s) /\ p \notin Idle
  BY LabelFacts DEF Idle
<1>8. pc'[s] = p /\ job'[s] = m /\ hand'[s] = hand[s]
  BY <1>1, <1>2, <1>3 DEF Moves, ControlOK, Stores
<1> HIDE DEF m
<1>9. HandOf(s)'
  BY <1>1, <1>7, <1>8 DEF HandOf, Labels, Idle, Event, m
<1>10. CopyOf(s)'
  <2>1. (~Awaits(job[s]))'
    BY <1>1, <1>5, <1>6, <1>8, AwaitsOver
  <2>2. p \in {"checked", "logged"} => <<"arch", m>> \notin born'
    BY <1>4, <1>5 DEF m
  <2>3. p = "checked" => <<"alert", m>> \notin born'
    BY <1>4, <1>5 DEF m
  <2> QED
    BY <1>8, <2>1, <2>2, <2>3 DEF CopyOf
<1>11. /\ N \subseteq Objects \ born /\ born' = born \cup N
       /\ \A x \in N : x[2] \in arrived'
       /\ \A n \in Msgs : Event(n) \notin N /\ <<"fw", n>> \notin N
       /\ \A n \in Msgs, i \in CopyKinds : <<i, n>> \in N => n = m
  BY <1>1, <1>4, <1>5 DEF Event, CopyKinds
<1>12. /\ pc[s] # "exited" /\ m \in arrived' \cup {NoMsg} /\ arrived \subseteq arrived'
       /\ \A r \in Shards : r # s => list'[r] = list[r]
       /\ \A x \in Objects : freed'[x] >= freed[x]
  BY <1>1, <1>6 DEF Idle, FreedGrows
<1>13. \A n \in Msgs, i \in CopyKinds : <<i, n>> \in N => s \in Shards /\ pc[s] \notin Idle /\ n = job[s]
  BY <1>11 DEF m
<1>14. IndInv /\ s \in Threads /\ DataOK'
  BY <1>1, <1>6
<1> HIDE DEF N
<1> QED
  BY ONLY <1>1, <1>3, <1>6, <1>7, <1>9, <1>10, <1>11, <1>12, <1>13, <1>14, StepKeeps

LEMMA EnqueueFacts ==
  ASSUME IndInv, NEW s, NEW o, NEW w, Enqueue(s, o, w)
  PROVE  /\ Allocate(o)
         /\ \/ Room(w) /\ Put(w, o) /\ UNCHANGED freed
            \/ Free({o}) /\ UNCHANGED q
         /\ written' \subseteq written \cup {o} /\ count' \in [Counters -> Nat]
<1>1. count \in [Counters -> Nat]
  BY TypeParts DEF IndInv, DataOK
<1>2. "alerts_written" \in Counters /\ "alerts_dropped" \in Counters
  BY DEF Counters
<1> QED
  BY <1>1, <1>2, Counted DEF Enqueue

LEMMA StatAlertKeeps ==
  ASSUME IndInv, NEW s \in Shards, StatAlert(s)
  PROVE  IndInv'
<1> DEFINE o == <<"stat", job[s]>>
           w == "statistical"
           k == "stat"
           p == "checked"
<1>1. /\ pc[s] = "work" /\ Enqueue(s, o, w) /\ Goto(s, p)
      /\ UNCHANGED <<control, down, job, hand, list, arrived>>
  BY DEF StatAlert
<1>2. pc[s] \notin Idle
  BY <1>1 DEF Idle
<1>3. job[s] \in Msgs /\ hand[s] = {Event(job[s])} /\ CopyOf(s)
  BY <1>1, <1>2, ShardFacts
<1>4. o \notin born /\ <<"arch", job[s]>> \notin born /\ <<"alert", job[s]>> \notin born
  BY <1>1, <1>3 DEF CopyOf
<1>5. o \in Cargo(w) /\ w \in Writers /\ k \in CopyKinds
  BY <1>3, Cargoes, QueueNames DEF CopyKinds
<1>6. /\ Allocate(o)
      /\ \/ Room(w) /\ Put(w, o) /\ UNCHANGED freed
         \/ Free({o}) /\ UNCHANGED q
      /\ written' \subseteq written \cup {o} /\ count' \in [Counters -> Nat]
  <2> HIDE DEF o, w
  <2> QED
    BY <1>1, EnqueueFacts
<1>7. o = <<k, job[s]>> /\ k # "arch" /\ k # "alert" /\ p # "archived" /\ p \in {"checked", "logged", "archived"}
  OBVIOUS
<1> HIDE DEF o, w, k, p
<1> QED
  BY <1>1, <1>2, <1>3, <1>4, <1>5, <1>6, <1>7, CopyKeeps

LEMMA RuleAlertKeeps ==
  ASSUME IndInv, NEW s \in Shards, RuleAlert(s)
  PROVE  IndInv'
<1> DEFINE o == <<"alert", job[s]>>
           w == "alerts"
           k == "alert"
           p == "logged"
<1>1. /\ pc[s] \in {"work", "checked"} /\ Enqueue(s, o, w) /\ Goto(s, p)
      /\ UNCHANGED <<control, down, job, hand, list, arrived>>
  BY DEF RuleAlert
<1>2. pc[s] \notin Idle
  BY <1>1 DEF Idle
<1>3. job[s] \in Msgs /\ hand[s] = {Event(job[s])} /\ CopyOf(s)
  BY <1>1, <1>2, ShardFacts
<1>4. o \notin born /\ <<"arch", job[s]>> \notin born
  BY <1>1, <1>3 DEF CopyOf
<1>5. o \in Cargo(w) /\ w \in Writers /\ k \in CopyKinds
  BY <1>3, Cargoes, QueueNames DEF CopyKinds
<1>6. /\ Allocate(o)
      /\ \/ Room(w) /\ Put(w, o) /\ UNCHANGED freed
         \/ Free({o}) /\ UNCHANGED q
      /\ written' \subseteq written \cup {o} /\ count' \in [Counters -> Nat]
  <2> HIDE DEF o, w
  <2> QED
    BY <1>1, EnqueueFacts
<1>7. o = <<k, job[s]>> /\ k # "arch" /\ p # "checked" /\ p # "archived" /\ p \in {"checked", "logged", "archived"}
  OBVIOUS
<1> HIDE DEF o, w, k, p
<1> QED
  BY <1>1, <1>2, <1>3, <1>4, <1>5, <1>6, <1>7, CopyKeeps

LEMMA ArchiveCopyKeeps ==
  ASSUME IndInv, NEW s \in Shards, ArchiveCopy(s)
  PROVE  IndInv'
<1> DEFINE o == <<"arch", job[s]>>
           w == "archive"
           k == "arch"
           p == "archived"
<1>1. /\ pc[s] = "kept" /\ Goto(s, p) /\ Allocate(o)
      /\ \/ Room(w) /\ Put(w, o) /\ UNCHANGED <<freed, count>>
         \/ Free({o}) /\ Inc("archives_dropped") /\ UNCHANGED q
      /\ UNCHANGED <<control, down, job, hand, list, arrived, written>>
  BY DEF ArchiveCopy
<1>2. pc[s] \notin Idle
  BY <1>1 DEF Idle
<1>3. job[s] \in Msgs /\ CopyOf(s) /\ HandOf(s)
  BY <1>1, <1>2, ShardFacts
<1>4. o \notin born /\ hand[s] = {}
  BY <1>1, <1>3 DEF CopyOf, HandOf
<1>5. o \in Cargo(w) /\ w \in Writers /\ k \in CopyKinds
  BY <1>3, Cargoes, QueueNames DEF CopyKinds
<1>6. count' \in [Counters -> Nat]
  <2>1. count \in [Counters -> Nat] /\ "archives_dropped" \in Counters
    BY TypeParts DEF IndInv, DataOK, Counters
  <2> QED
    BY <1>1, <2>1, Counted
<1>7. o = <<k, job[s]>> /\ p = "archived" /\ p # "checked" /\ p # "logged" /\ p \in {"checked", "logged", "archived"}
  OBVIOUS
<1>8. written' \subseteq written \cup {o}
  BY <1>1
<1> HIDE DEF o, w, k, p
<1> QED
  BY <1>1, <1>2, <1>3, <1>4, <1>5, <1>6, <1>7, <1>8, CopyKeeps
(* The list of a shard after OS_AddEvent.                                  *)
LEMMA AddedList ==
  ASSUME DataOK, NEW s \in Shards, NEW e \in Objects, e \notin ToSet(list[s]),
         NEW k \in 0 .. Len(list[s]), (k = 0) <=> Len(list[s]) + 1 <= ListMax
  PROVE  LET l == Append(list[s], e)
             r == SubSeq(l, k + 1, Len(l))
             G == ToSet(SubSeq(l, 1, k))
         IN /\ r \in Seq(Objects) /\ Len(r) <= ListMax /\ IsInjective(r)
            /\ G \subseteq ToSet(list[s]) /\ ToSet(r) = (ToSet(list[s]) \ G) \cup {e}
<1> DEFINE l == Append(list[s], e)
           r == SubSeq(l, k + 1, Len(l))
           G == ToSet(SubSeq(l, 1, k))
<1>1. list[s] \in Seq(Objects) /\ IsInjective(list[s]) /\ Len(list[s]) <= ListMax
  BY DEF DataOK, Stores, OwnInv, OnceInv
<1>2. Len(list[s]) \in Nat /\ k \in Nat /\ k <= Len(list[s])
  BY <1>1, SeqFacts
<1>3. /\ l \in Seq(Objects) /\ Len(l) = Len(list[s]) + 1
      /\ ToSet(l) = ToSet(list[s]) \cup {e} /\ IsInjective(l)
  BY <1>1, AppendFacts
<1>4. \A i \in 1 .. Len(list[s]) : l[i] = list[s][i]
  BY <1>1, AppendProperties
<1> HIDE DEF l
<1>5. k \in 0 .. Len(l)
  BY <1>2, <1>3
<1>6. /\ r \in Seq(Objects) /\ Len(r) = Len(l) - k /\ IsInjective(r)
      /\ ToSet(r) = ToSet(l) \ G
      /\ \A z : z \in G <=> \E i \in 1 .. k : l[i] = z
  <2>1. l \in Seq(Objects) /\ k \in 0 .. Len(l) /\ IsInjective(l)
    BY <1>3, <1>5
  <2>2. r \in Seq(Objects) /\ Len(r) = Len(l) - k /\ IsInjective(r)
    BY ONLY <2>1, SplitFacts
  <2>3. ToSet(r) = ToSet(l) \ G
    BY ONLY <2>1, SplitFacts
  <2>4. \A z : z \in G <=> \E i \in 1 .. k : l[i] = z
    BY ONLY <2>1, SplitFacts
  <2> HIDE DEF r, G
  <2> QED
    BY <2>2, <2>3, <2>4
<1> HIDE DEF r, G
<1>7. Len(r) <= ListMax
  BY <1>1, <1>2, <1>3, <1>6, PipelineAssumption
<1>8. G \subseteq ToSet(list[s])
  <2>1. ASSUME NEW i \in 1 .. k
        PROVE  l[i] \in ToSet(list[s])
    <3>1. i \in 1 .. Len(list[s])
      BY <1>2
    <3>2. l[i] = list[s][i]
      BY <1>4, <3>1
    <3> QED
      BY <1>1, <3>1, <3>2, SeqFacts
  <2> QED
    BY <1>6, <2>1
<1>9. ToSet(r) = (ToSet(list[s]) \ G) \cup {e}
  BY <1>3, <1>6, <1>8
<1> QED
  BY <1>6, <1>7, <1>8, <1>9 DEF r, G, l

LEMMA DataList ==
  ASSUME DataOK, NEW s \in Shards, NEW e \in hand[s], NEW l, NEW G,
         hand' = [hand EXCEPT ![s] = hand[s] \ {e}],
         list' = [list EXCEPT ![s] = l], l \in Seq(Objects), Len(l) <= ListMax, IsInjective(l),
         G \subseteq ToSet(list[s]), ToSet(l) = (ToSet(list[s]) \ G) \cup {e},
         Free(G), UNCHANGED <<q, born, arrived, written, count>>
  PROVE  DataOK' /\ FreedGrows
<1>1. HeapOK /\ OwnInv /\ Stores
  BY DEF DataOK
<1>2. HeapOK' /\ OwnInv'
  BY <1>1, FlowList
<1>3. FreedGrows
  BY <1>1, FreeGrows
<1>4. Stores'
  <2>1. hand' \in [Threads -> SUBSET Objects]
    BY <1>1, Names DEF Stores
  <2>2. list' \in [Shards -> Seq(Objects)]
    BY <1>1 DEF Stores
  <2> QED
    BY <1>1, <2>1, <2>2 DEF Stores
<1>5. \A r \in Shards : Len(list'[r]) <= ListMax
  BY <1>1 DEF DataOK, Stores
<1>6. QueueInv'
  BY DEF DataOK, QueueInv
<1> QED
  BY <1>2, <1>3, <1>4, <1>5, <1>6 DEF DataOK

LEMMA AddEventEffect ==
  ASSUME IndInv, NEW s \in Shards, OS_AddEvent(s)
  PROVE  \E r, G : /\ r \in Seq(Objects) /\ Len(r) <= ListMax /\ IsInjective(r)
                   /\ G \subseteq ToSet(list[s])
                   /\ ToSet(r) = (ToSet(list[s]) \ G) \cup {Event(job[s])}
                   /\ list' = [list EXCEPT ![s] = r] /\ Free(G)
<1> DEFINE m == job[s]
           e == Event(m)
           l == Append(list[s], e)
<1>1. pc[s] \in {"work", "checked", "logged"}
  BY DEF OS_AddEvent
<1>2. s \in Threads /\ m \in Msgs /\ hand[s] = {e}
  BY <1>1, ShardFacts DEF Idle
<1>3. ControlOK /\ DataOK /\ Stores /\ PlaceInv
  BY TypeParts DEF IndInv, DataOK, OwnInv
<1>4. e \in Objects /\ e \notin ToSet(list[s])
  BY <1>2, <1>3, Apart, Objs
<1>5. list[s] \in Seq(Objects) /\ Len(list[s]) \in Nat
  BY <1>3, SeqFacts DEF Stores
<1>6. l \in Seq(Objects) /\ Len(l) = Len(list[s]) + 1
  BY <1>4, <1>5, AppendFacts
<1>7. \E k \in 0 .. Len(list[s]) :
         /\ (k = 0) <=> Len(list[s]) + 1 <= ListMax
         /\ list' = [list EXCEPT ![s] = SubSeq(l, k + 1, Len(l))]
         /\ Free(ToSet(SubSeq(l, 1, k)))
  <2>1. CASE Len(l) <= ListMax
    <3>1. list' = [list EXCEPT ![s] = l] /\ UNCHANGED freed
      BY <2>1 DEF OS_AddEvent
    <3> HIDE DEF l
    <3>2. SubSeq(l, 0 + 1, Len(l)) = l
      BY <1>6, SubSeqFull
    <3>3. SubSeq(l, 1, 0) = <<>>
      BY <1>6, SubSeqEmpty
    <3>4. ToSet(SubSeq(l, 1, 0)) = {}
      BY <3>3, EmptySet
    <3>5. Free(ToSet(SubSeq(l, 1, 0)))
      BY <1>3, <3>1, <3>4, FreeNone DEF DataOK
    <3>6. 0 \in 0 .. Len(list[s]) /\ Len(list[s]) + 1 <= ListMax
      BY <1>5, <1>6, <2>1
    <3> QED
      BY <3>1, <3>2, <3>5, <3>6
  <2>2. CASE ~(Len(l) <= ListMax)
    <3>1. PICK k \in 1 .. (Len(l) - 1) :
             /\ list' = [list EXCEPT ![s] = SubSeq(l, k + 1, Len(l))]
             /\ Free(ToSet(SubSeq(l, 1, k)))
      BY <2>2 DEF OS_AddEvent
    <3>2. k \in 0 .. Len(list[s]) /\ k # 0 /\ ~(Len(list[s]) + 1 <= ListMax)
      BY <1>5, <1>6, <2>2
    <3> QED
      BY <3>1, <3>2
  <2> QED
    BY <2>1, <2>2
<1>8. PICK k \in 0 .. Len(list[s]) :
         /\ (k = 0) <=> Len(list[s]) + 1 <= ListMax
         /\ list' = [list EXCEPT ![s] = SubSeq(l, k + 1, Len(l))]
         /\ Free(ToSet(SubSeq(l, 1, k)))
  BY <1>7
<1> DEFINE r == SubSeq(l, k + 1, Len(l))
           G == ToSet(SubSeq(l, 1, k))
<1> HIDE DEF e, m
<1>9. /\ r \in Seq(Objects) /\ Len(r) <= ListMax /\ IsInjective(r)
      /\ G \subseteq ToSet(list[s]) /\ ToSet(r) = (ToSet(list[s]) \ G) \cup {e}
  BY <1>3, <1>4, <1>8, AddedList, Zenon
<1>10. list' = [list EXCEPT ![s] = r] /\ Free(G)
  BY <1>8
<1> HIDE DEF r, G, l
<1> QED
  BY <1>9, <1>10 DEF e, m

LEMMA AddEventKeeps ==
  ASSUME IndInv, NEW s \in Shards, OS_AddEvent(s)
  PROVE  IndInv'
<1> DEFINE m == job[s]
           e == Event(m)
<1>1. /\ pc[s] \in {"work", "checked", "logged"} /\ Holds(s, {}) /\ Goto(s, "kept")
      /\ UNCHANGED <<control, down, q, job, born, arrived, written, count>>
  BY DEF OS_AddEvent, flow
<1>2. /\ s \in Threads /\ s \notin Decoders /\ s \notin Writers
      /\ m \in Msgs /\ m \in arrived /\ ShardOf[m] = s /\ ~Awaits(m) /\ CopyOf(s)
      /\ hand[s] = {e}
  BY <1>1, ShardFacts DEF Idle
<1>3. ControlOK /\ DataOK /\ Stores /\ PlaceInv
  BY TypeParts DEF IndInv, DataOK, OwnInv
<1>4. e \in Objects /\ e \notin ToSet(list[s]) /\ e \in hand[s] /\ hand[s] \ {e} = {}
  BY <1>2, <1>3, Apart, Objs
<1>5. PICK r, G : /\ r \in Seq(Objects) /\ Len(r) <= ListMax /\ IsInjective(r)
                  /\ G \subseteq ToSet(list[s]) /\ ToSet(r) = (ToSet(list[s]) \ G) \cup {e}
                  /\ list' = [list EXCEPT ![s] = r] /\ Free(G)
  BY AddEventEffect
<1> HIDE DEF e, m
<1>6. hand' = [hand EXCEPT ![s] = hand[s] \ {e}]
  BY <1>1, <1>4 DEF Holds
<1>7. DataOK' /\ FreedGrows
  BY <1>1, <1>3, <1>4, <1>5, <1>6, DataList
<1>8. Moves(s, "kept", m, {})
  BY <1>1, <1>2, <1>3 DEF Moves, Goto, Holds, ControlOK, m
<1>9. /\ pc'[s] = "kept" /\ job'[s] = m /\ hand'[s] = {} /\ list'[s] = r
      /\ \A u \in Shards : u # s => list'[u] = list[u]
      /\ \A d \in Decoders : hand'[d] = hand[d]
  BY <1>2, <1>3, <1>5, <1>8, Names DEF Moves, ControlOK, Stores
<1>10. "kept" \in Labels(s)
  BY LabelFacts
<1>11. HandOf(s)'
  <2>1. Event(m) \in ToSet(list'[s])
    BY <1>5, <1>9 DEF e
  <2> QED
    BY <1>2, <1>9, <1>10, <2>1 DEF HandOf, Labels, Idle, Event
<1>12. CopyOf(s)'
  <2>1. (~Awaits(job[s]))'
    BY <1>1, <1>2, <1>9, AwaitsOver
  <2>2. <<"arch", m>> \notin born'
    BY <1>1, <1>2 DEF CopyOf, m
  <2> QED
    BY <1>9, <2>1, <2>2 DEF CopyOf
<1>13. /\ pc[s] # "exited" /\ m \in arrived \cup {NoMsg} /\ born' = born /\ arrived' = arrived
       /\ \A o \in Objects : freed'[o] >= freed[o]
       /\ \A n \in Msgs, u \in Shards : Event(n) \in ToSet(q'[u]) => Event(n) \in ToSet(q[u])
  BY <1>1, <1>2, <1>7 DEF FreedGrows
<1> QED
  BY <1>2, <1>7, <1>8, <1>9, <1>10, <1>11, <1>12, <1>13, StepKeepsOld

LEMMA ArchiveLiveKeeps ==
  ASSUME IndInv, NEW s \in Shards, ArchiveLive(s)
  PROVE  IndInv'
<1> DEFINE m == job[s]
           o == Event(m)
           x == "archive"
<1>1. /\ pc[s] \in {"work", "checked"} /\ Goto(s, "archived")
      /\ UNCHANGED <<control, down, job, list, born, freed, arrived, written>>
      /\ \/ Room(x) /\ Put(x, o) /\ Holds(s, {}) /\ UNCHANGED count
         \/ Inc("archives_dropped") /\ UNCHANGED <<q, hand>>
  BY DEF ArchiveLive, heap
<1>2. /\ s \in Threads /\ s \notin Decoders /\ s \notin Writers
      /\ m \in Msgs /\ m \in arrived /\ ShardOf[m] = s /\ ~Awaits(m) /\ hand[s] = {o}
  BY <1>1, ShardFacts DEF Idle
<1>3. /\ ControlOK /\ DataOK /\ Stores /\ HeapOK
      /\ count \in [Counters -> Nat] /\ written \subseteq born /\ arrived \subseteq Msgs
  BY TypeParts DEF IndInv, DataOK
<1>4. o \in hand[s] /\ o \in Cargo(x) /\ x \in Queues /\ x \notin Shards
  BY <1>2, Cargoes, QueueNames DEF Event
<1> HIDE DEF m, o, x
<1>5. \E H \in {{}, {o}} : /\ Moves(s, "archived", m, H) /\ DataOK' /\ FreedGrows
                           /\ \A u \in Shards : ToSet(q'[u]) = ToSet(q[u])
  <2>1. CASE Room(x) /\ Put(x, o) /\ Holds(s, {}) /\ UNCHANGED count
    <3>1. hand' = [hand EXCEPT ![s] = hand[s] \ {o}]
      <4>1. hand[s] \ {o} = {}
        BY <1>2
      <4> QED
        BY <2>1, <4>1 DEF Holds
    <3>2. arrived' \subseteq Msgs /\ written' \subseteq born' /\ count' \in [Counters -> Nat]
      BY <1>1, <1>3, <2>1
    <3>3. list' = list /\ born' = born /\ freed' = freed /\ DataOK /\ Room(x) /\ Put(x, o)
      BY <1>1, <1>3, <2>1
    <3>4. /\ DataOK' /\ FreedGrows
          /\ \A y \in Queues : ToSet(q'[y]) = ToSet(q[y]) \cup (IF y = x THEN {o} ELSE {})
      <4>1. Sends(s, x, o) /\ DataOK /\ s \in Threads /\ x \in Queues /\ o \in hand[s]
        BY <1>2, <1>4, <3>1, <3>2, <3>3 DEF Sends
      <4> QED
        BY ONLY <4>1, DataSend
    <3>5. Moves(s, "archived", m, {})
      BY <1>1, <1>2, <1>3, <2>1 DEF Moves, Goto, Holds, ControlOK, m
    <3> QED
      BY <1>4, <3>4, <3>5, QueueNames
  <2>2. CASE Inc("archives_dropped") /\ UNCHANGED <<q, hand>>
    <3>1. count' \in [Counters -> Nat]
      BY <1>3, <2>2, Counted DEF Counters
    <3>2. DataOK'
      BY <1>1, <1>3, <2>2, <3>1, DataSame
    <3>3. Moves(s, "archived", m, {o})
      BY <1>1, <1>2, <1>3, <2>2 DEF Moves, Goto, ControlOK, Stores, m
    <3>4. FreedGrows
      BY <1>1, <1>3, FreeGrows
    <3> QED
      BY <2>2, <3>2, <3>3, <3>4
  <2> QED
    BY <1>1, <2>1, <2>2
<1>6. PICK H \in {{}, {o}} : /\ Moves(s, "archived", m, H) /\ DataOK' /\ FreedGrows
                             /\ \A u \in Shards : ToSet(q'[u]) = ToSet(q[u])
  BY <1>5
<1>7. /\ pc'[s] = "archived" /\ job'[s] = m /\ hand'[s] = H
      /\ \A d \in Decoders : hand'[d] = hand[d]
  BY <1>2, <1>3, <1>6, Names DEF Moves, ControlOK, Stores
<1>8. "archived" \in Labels(s)
  BY LabelFacts
<1>9. HandOf(s)'
  BY <1>2, <1>6, <1>7, <1>8 DEF HandOf, Labels, Idle, Event, o
<1>10. CopyOf(s)'
  <2>1. (~Awaits(job[s]))'
    BY <1>1, <1>2, <1>6, <1>7, AwaitsOver
  <2> QED
    BY <1>7, <2>1 DEF CopyOf
<1>11. /\ pc[s] # "exited" /\ m \in arrived \cup {NoMsg} /\ born' = born /\ arrived' = arrived
       /\ \A n \in Objects : freed'[n] >= freed[n]
       /\ \A n \in Msgs, u \in Shards : Event(n) \in ToSet(q'[u]) => Event(n) \in ToSet(q[u])
       /\ \A u \in Shards : u # s => list'[u] = list[u]
  BY <1>1, <1>2, <1>6 DEF FreedGrows
<1> QED
  BY <1>2, <1>6, <1>8, <1>9, <1>10, <1>11, StepKeepsOld

LEMMA FinishKeeps ==
  ASSUME IndInv, NEW s \in Shards, Finish(s)
  PROVE  IndInv'
<1>1. /\ pc[s] # "exited" /\ Free(hand[s]) /\ Inc("processed") /\ Top(s)
      /\ UNCHANGED <<control, down, q, list, born, arrived, written>>
  BY DEF Finish, flow
<1>2. count \in [Counters -> Nat] /\ written \subseteq born /\ "processed" \in Counters
  BY TypeParts DEF IndInv, DataOK, Counters
<1>3. count' \in [Counters -> Nat] /\ written' \subseteq born
  BY <1>1, <1>2, Counted
<1> QED
  BY <1>1, <1>3, Names, DropKeeps

LEMMA WriteKeeps ==
  ASSUME IndInv, NEW w \in Writers, Write(w)
  PROVE  IndInv'
<1>1. /\ pc[w] # "exited" /\ Free(hand[w]) /\ Inc(WriterCounter(w)) /\ Top(w)
      /\ written' = written \cup hand[w]
      /\ UNCHANGED <<control, down, q, list, born, arrived>>
  BY DEF Write, flow
<1>2. count \in [Counters -> Nat] /\ written \subseteq born /\ PlaceInv
  BY TypeParts DEF IndInv, DataOK, OwnInv
<1>3. WriterCounter(w) \in Counters
  BY DEF WriterCounter, Counters, Writers
<1>4. count' \in [Counters -> Nat]
  BY <1>1, <1>2, <1>3, Counted
<1>5. w \in Threads /\ hand[w] \subseteq born
  BY <1>2, Names, Apart DEF Live
<1> QED
  BY <1>1, <1>2, <1>4, <1>5, DropKeeps
(* The main thread: the data stays, until the queues are drained.          *)
LEMMA ControlKeeps ==
  ASSUME IndInv, UNCHANGED <<q, pc, job, hand, list, born, freed, arrived, written, count>>,
         ControlOK', StageInv'
  PROVE  IndInv'
<1>1. DataOK /\ HandInv /\ BornInv /\ CopyInv
  BY TypeParts DEF IndInv
<1>2. DataOK'
  <2>1. count' \in [Counters -> Nat]
    BY <1>1 DEF DataOK
  <2> QED
    BY <1>1, <2>1, DataSame
<1>3. HandInv'
  BY <1>1 DEF HandInv, HandOf
<1>4. BornInv'
  BY <1>1 DEF BornInv
<1>5. CopyInv'
  BY <1>1 DEF CopyInv, CopyOf, Awaits, Upstream
<1>6. (StateOK /\ OwnInv /\ QueueInv)'
  BY <1>2, TypeParts, PTL
<1> QED
  BY <1>3, <1>4, <1>5, <1>6 DEF IndInv

LEMMA StageFacts ==
  /\ \A i \in 1 .. 5 : Stages[i].join \subseteq Threads /\ Stages[i].close \subseteq Queues
  /\ Stages[4].join = Shards
BY DEF Stages, Threads, Queues

LEMMA RequestShutdownKeeps ==
  ASSUME IndInv, RequestShutdown
  PROVE  IndInv'
<1>1. ControlOK /\ StageInv
  BY TypeParts DEF IndInv
<1>2. /\ main = 0 /\ shutting_down' = TRUE /\ main' = 1
      /\ UNCHANGED <<join_failed, q, down, pc, job, hand, list, born, freed, arrived, written, count>>
  BY DEF RequestShutdown, flow, heap
<1>3. ControlOK'
  BY <1>1, <1>2 DEF ControlOK
<1>4. StageInv'
  <2>1. \A i \in 1 .. 5 : ~(i < 0) /\ ~(i < 1)
    OBVIOUS
  <2>2. \A x \in down : FALSE
    BY <1>1, <1>2, <2>1 DEF StageInv
  <2> QED
    BY <1>2, <2>1, <2>2 DEF StageInv
<1> QED
  BY <1>2, <1>3, <1>4, ControlKeeps

LEMMA JoinKeeps ==
  ASSUME IndInv, main \in 1 .. 5, main' = main + 1, down' = down \cup Stages[main].close,
         join_failed' \in BOOLEAN, join_failed => join_failed',
         ~join_failed' => \A t \in Stages[main].join : pc[t] = "exited",
         \A t \in Stages[main].join : pc[t] = "exited" \/ Stuck(t),
         UNCHANGED <<shutting_down, q, pc, job, hand, list, born, freed, arrived, written, count>>
  PROVE  IndInv'
<1>1. ControlOK /\ StageInv /\ HandInv
  BY TypeParts DEF IndInv
<1>2. ControlOK'
  <2>1. main' \in 0 .. 8 /\ down' \subseteq Queues
    BY <1>1, StageFacts DEF ControlOK
  <2> QED
    BY <1>1, <2>1 DEF ControlOK
<1>3. /\ main > 0 => shutting_down
      /\ \A x \in down : \E i \in 1 .. 5 : i < main /\ x \in Stages[i].close
      /\ ~join_failed => \A i \in 1 .. 5 : i < main => \A t \in Stages[i].join : pc[t] = "exited"
      /\ main > 4 => \A s \in Shards : pc[s] = "exited"
  BY <1>1 DEF StageInv
<1>4. \A i \in 1 .. 5 : i < main + 1 <=> (i < main \/ i = main)
  OBVIOUS
<1>5. \A x \in down' : \E i \in 1 .. 5 : i < main + 1 /\ x \in Stages[i].close
  BY <1>3, <1>4
<1>6. ~join_failed' => \A i \in 1 .. 5 : i < main + 1 => \A t \in Stages[i].join : pc[t] = "exited"
  BY <1>3, <1>4
<1>7. main + 1 > 4 => \A s \in Shards : pc[s] = "exited"
  <2>1. CASE main > 4
    BY <1>3, <2>1
  <2>2. CASE main = 4
    <3>1. \A s \in Shards : pc[s] # "fw"
      BY <1>1, LabelFacts, Names DEF HandInv, HandOf
    <3>2. \A s \in Shards : ~Stuck(s)
      BY <3>1 DEF Stuck
    <3> QED
      BY <2>2, <3>2, StageFacts
  <2> QED
    BY <2>1, <2>2
<1>8. StageInv'
  <2>1. main > 0
    OBVIOUS
  <2> QED
    BY <1>3, <1>5, <1>6, <1>7, <2>1 DEF StageInv, Stages, Recv, Writers
<1> QED
  BY <1>2, <1>8, ControlKeeps

LEMMA JoinStageKeeps ==
  ASSUME IndInv, JoinStage
  PROVE  IndInv'
<1>1. join_failed \in BOOLEAN
  BY DEF IndInv, StateOK
<1> QED
  BY <1>1, JoinKeeps DEF JoinStage, heap

LEMMA JoinTimeoutKeeps ==
  ASSUME IndInv, JoinTimeout
  PROVE  IndInv'
BY JoinKeeps DEF JoinTimeout, heap

(* The end: the threads that feed the rules and the lists have left, what  *)
(* is still in the queues and lists is freed.                              *)
LEMMA EndKeeps ==
  ASSUME IndInv, main \in {6, 7}, main' = main + 1,
         HeapOK', OwnInv', QueueInv', FreedGrows,
         q' \in [Queues -> Seq(Objects)], \A x \in Queues : q'[x] = q[x] \/ q'[x] = <<>>,
         list' \in [Shards -> Seq(Objects)], \A s \in Shards : list'[s] = list[s] \/ list'[s] = <<>>,
         UNCHANGED <<shutting_down, join_failed, down, pc, job, hand, born, arrived, written, count>>
  PROVE  IndInv'
<1>1. ControlOK /\ DataOK /\ StageInv /\ HandInv /\ BornInv /\ CopyInv /\ Stores /\ HeapOK
  BY TypeParts DEF IndInv, DataOK
<1>2. main > 4 /\ main > 0
  OBVIOUS
<1>3. \A s \in Shards : pc[s] = "exited"
  BY <1>1, <1>2 DEF StageInv
<1>4. ControlOK'
  <2>1. main' \in 0 .. 8
    OBVIOUS
  <2> QED
    BY <1>1, <2>1 DEF ControlOK
<1>5. DataOK'
  <2>1. Stores'
    BY <1>1 DEF Stores
  <2>2. \A x \in Queues : Len(q'[x]) <= Capacity
    <3>1. 0 <= Capacity /\ \A x \in Queues : Len(q[x]) <= Capacity
      BY <1>1, PipelineAssumption DEF DataOK
    <3>2. \A x \in Queues : q'[x] = <<>> => Len(q'[x]) = 0
      BY EmptySet, Zenon
    <3> QED
      BY <3>1, <3>2, Zenon
  <2>3. \A s \in Shards : Len(list'[s]) <= ListMax
    <3>1. 0 <= ListMax /\ \A s \in Shards : Len(list[s]) <= ListMax
      BY <1>1, PipelineAssumption DEF DataOK
    <3>2. \A s \in Shards : list'[s] = <<>> => Len(list'[s]) = 0
      BY EmptySet, Zenon
    <3> QED
      BY <3>1, <3>2, Zenon
  <2> QED
    BY <1>1, <2>1, <2>2, <2>3 DEF DataOK
<1>6. HandInv'
  <2> SUFFICES ASSUME NEW t \in Threads
               PROVE  HandOf(t)'
    BY DEF HandInv
  <2>1. HandOf(t) /\ (t \in Shards => pc[t] = "exited")
    BY <1>1, <1>3 DEF HandInv
  <2> QED
    BY <2>1 DEF HandOf, Text, Event, Labels, Idle, Cargo
<1>7. BornInv'
  <2>1. \A o \in Objects : freed[o] = 1 => freed'[o] = 1
    BY <1>1 DEF FreedGrows, HeapOK
  <2> QED
    BY <1>1, <2>1, Objs DEF BornInv, Event, Text
<1>8. CopyInv'
  <2>1. \A s \in Shards : CopyOf(s)'
    BY <1>3 DEF CopyOf, Idle
  <2>2. Upstream' \subseteq Upstream
    <3>1. \A x \in Queues : ToSet(q'[x]) \subseteq ToSet(q[x])
      BY EmptySet
    <3> QED
      BY <3>1, QueueNames DEF Upstream
  <2>3. \A m \in Msgs : Awaits(m)' => Awaits(m)
    BY <2>2 DEF Awaits, Event
  <2>4. \A m \in Msgs : Awaits(m) => \A k \in CopyKinds : <<k, m>> \notin born'
    BY <1>1 DEF CopyInv
  <2> QED
    BY <2>1, <2>3, <2>4 DEF CopyInv
<1>9. StageInv'
  <2>1. \A i \in 1 .. 5 : i < main /\ i < main + 1
    OBVIOUS
  <2>2. /\ shutting_down
        /\ \A x \in down : \E i \in 1 .. 5 : i < main + 1 /\ x \in Stages[i].close
        /\ ~join_failed => \A i \in 1 .. 5 : \A t \in Stages[i].join : pc[t] = "exited"
    BY <1>1, <1>2, <2>1 DEF StageInv
  <2> QED
    BY <1>3, <2>2 DEF StageInv, Stages, Recv, Writers
<1>10. (StateOK /\ OwnInv /\ QueueInv)'
  BY <1>4, <1>5, TypeParts, PTL
<1> QED
  BY <1>6, <1>7, <1>8, <1>9, <1>10 DEF IndInv

LEMMA DrainKeeps ==
  ASSUME IndInv, analysisd_drain_queues
  PROVE  IndInv'
<1>1. HeapOK /\ OwnInv /\ Stores
  BY TypeParts DEF IndInv, DataOK
<1>2. /\ main = 6 /\ main' = 7 /\ Free(Queued) /\ q' = [x \in Queues |-> <<>>]
      /\ UNCHANGED <<shutting_down, join_failed, down, pc, job, hand, list, born, arrived, written, count>>
  BY DEF analysisd_drain_queues
<1>3. HeapOK' /\ OwnInv'
  BY <1>1, <1>2, FlowDrain
<1>4. FreedGrows
  BY <1>1, <1>2, FreeGrows
<1>5. q' \in [Queues -> Seq(Objects)] /\ \A x \in Queues : q'[x] = <<>>
  BY <1>2, EmptySet
<1>6. QueueInv'
  BY <1>5, EmptySet DEF QueueInv
<1>7. list' \in [Shards -> Seq(Objects)] /\ \A s \in Shards : list'[s] = list[s]
  BY <1>1, <1>2 DEF Stores
<1>8. main \in {6, 7} /\ main' = main + 1
  BY <1>2
<1> QED
  BY <1>2, <1>3, <1>4, <1>5, <1>6, <1>7, <1>8, EndKeeps

LEMMA DestroyKeeps ==
  ASSUME IndInv, DestroyAll
  PROVE  IndInv'
<1>1. HeapOK /\ OwnInv /\ Stores /\ QueueInv
  BY TypeParts DEF IndInv, DataOK
<1>2. /\ main = 7 /\ main' = 8 /\ Free(Listed) /\ list' = [s \in Shards |-> <<>>]
      /\ UNCHANGED <<shutting_down, join_failed, q, down, pc, job, hand, born, arrived, written, count>>
  BY DEF DestroyAll, flow
<1>3. HeapOK' /\ OwnInv'
  BY <1>1, <1>2, FlowDestroy
<1>4. FreedGrows
  BY <1>1, <1>2, FreeGrows
<1>5. list' \in [Shards -> Seq(Objects)] /\ \A s \in Shards : list'[s] = <<>>
  BY <1>2, EmptySet
<1>6. QueueInv'
  BY <1>1, <1>2 DEF QueueInv
<1>7. q' \in [Queues -> Seq(Objects)] /\ \A x \in Queues : q'[x] = q[x]
  BY <1>1, <1>2 DEF Stores
<1>8. main \in {6, 7} /\ main' = main + 1
  BY <1>2
<1> QED
  BY <1>2, <1>3, <1>4, <1>5, <1>6, <1>7, <1>8, EndKeeps
-----------------------------------------------------------------------------
(* The invariant holds in the initial state and every step keeps it.       *)

LEMMA InitIndInv == Init => IndInv
<1> SUFFICES ASSUME Init
             PROVE  IndInv
  OBVIOUS
<1>1. /\ \A x \in Queues : q[x] = <<>> /\ ToSet(q[x]) = {} /\ IsInjective(q[x]) /\ Len(q[x]) = 0
      /\ \A s \in Shards : list[s] = <<>> /\ ToSet(list[s]) = {} /\ IsInjective(list[s]) /\ Len(list[s]) = 0
  BY EmptySet, Zenon DEF Init
<1>2. /\ \A t \in Threads : pc[t] = "pop" /\ job[t] = NoMsg /\ hand[t] = {}
      /\ \A o \in Objects : freed[o] = 0
      /\ born = {} /\ arrived = {} /\ written = {} /\ down = {} /\ main = 0
  BY DEF Init
<1>3. StateOK
  <2>1. q \in [Queues -> Seq(Objects)] /\ list \in [Shards -> Seq(Objects)]
    BY EmptySet DEF Init
  <2>2. 0 <= Capacity /\ 0 <= ListMax
    BY PipelineAssumption
  <2>3. (\A x \in Queues : Len(q[x]) <= Capacity) /\ \A s \in Shards : Len(list[s]) <= ListMax
    BY <1>1, <2>2, Zenon
  <2>4. /\ pc \in [Threads -> {"pop", "work", "fw", "push", "checked", "logged",
                               "kept", "archived", "exited"}]
        /\ job \in [Threads -> Msgs \cup {NoMsg}]
    BY DEF Init
  <2>5. hand \in [Threads -> SUBSET Objects] /\ count \in [Counters -> Nat]
    BY DEF Init
  <2>6. freed \in [Objects -> 0 .. 1]
    <3>1. 0 \in 0 .. 1
      OBVIOUS
    <3> QED
      BY <3>1, Zenon DEF Init
  <2>7. main \in 0 .. 8
    BY <1>2
  <2>8. shutting_down \in BOOLEAN /\ join_failed \in BOOLEAN
    BY Zenon DEF Init
  <2> QED
    BY <1>2, <2>1, <2>3, <2>4, <2>5, <2>6, <2>7, <2>8 DEF StateOK
<1>4. HandInv
  <2>1. ASSUME NEW t \in Threads
        PROVE  HandOf(t)
    <3>1. pc[t] \in Idle /\ pc[t] = "pop" /\ pc[t] \in Labels(t)
      BY <1>2 DEF Idle, Labels
    <3> QED
      BY <1>2, <3>1 DEF HandOf
  <2> QED
    BY <2>1 DEF HandInv
<1>5. QueueInv
  BY <1>1 DEF QueueInv
<1>6. OwnInv
  <2>1. \A p \in Places : At(p) = {}
    BY <1>1, <1>2, PlaceFacts
  <2>2. Live = {}
    BY <1>2 DEF Live
  <2> QED
    BY <1>1, <1>2, <2>1, <2>2 DEF OwnInv, OnceInv, PlaceInv
<1>7. BornInv
  BY <1>2 DEF BornInv
<1>8. CopyInv
  <2>1. \A s \in Shards : pc[s] = "pop"
    BY <1>2, Names
  <2> QED
    BY <1>2, <2>1 DEF CopyInv, CopyOf, Idle
<1>9. StageInv
  BY <1>2 DEF StageInv
<1> QED
  BY <1>3, <1>4, <1>5, <1>6, <1>7, <1>8, <1>9 DEF IndInv

LEMMA DecoderKeeps ==
  ASSUME IndInv, NEW d \in Decoders, Decoder(d)
  PROVE  IndInv'
<1>1. count \in [Counters -> Nat]
  BY DEF IndInv, StateOK
<1>2. CASE DecodeRejects(d)
  BY <1>2, DecodeRejectsKeeps
<1>3. CASE Decode(d)
  <2>1. count' \in [Counters -> Nat]
    BY <1>1, <1>3, Counted DEF Decode, Counters
  <2> DEFINE N == {Event(job[d])}
             p == "push"
  <2>2. /\ pc[d] = "work" /\ Goto(d, p) /\ Holds(d, N) /\ born' = born \cup N
        /\ Free({Text(job[d])}) /\ p \in {"push", "fw"}
        /\ N = IF p = "push" THEN {Event(job[d])} ELSE {Event(job[d]), <<"fw", job[d]>>}
        /\ UNCHANGED <<control, down, q, job, list, arrived, written>>
    BY <1>3 DEF Decode, Allocate, flow
  <2> HIDE DEF N, p
  <2> QED
    BY ONLY IndInv, d \in Decoders, <2>1, <2>2, DecodedKeeps
<1>4. CASE DecodeFirewall(d)
  <2>1. count' \in [Counters -> Nat]
    BY <1>1, <1>4 DEF DecodeFirewall
  <2> DEFINE N == {Event(job[d]), <<"fw", job[d]>>}
             p == "fw"
  <2>2. /\ pc[d] = "work" /\ Goto(d, p) /\ Holds(d, N) /\ born' = born \cup N
        /\ Free({Text(job[d])}) /\ p \in {"push", "fw"}
        /\ N = IF p = "push" THEN {Event(job[d])} ELSE {Event(job[d]), <<"fw", job[d]>>}
        /\ UNCHANGED <<control, down, q, job, list, arrived, written>>
    BY <1>4 DEF DecodeFirewall, flow
  <2> HIDE DEF N, p
  <2> QED
    BY ONLY IndInv, d \in Decoders, <2>1, <2>2, DecodedKeeps
<1>5. CASE FirewallPush(d)
  BY <1>5, FirewallPushKeeps
<1>6. CASE analysisd_push_decoded(d)
  BY <1>6, PushDecodedKeeps
<1> QED
  BY <1>2, <1>3, <1>4, <1>5, <1>6 DEF Decoder

LEMMA NextIndInv == IndInv /\ [Next]_vars => IndInv'
<1> SUFFICES ASSUME IndInv, [Next]_vars
             PROVE  IndInv'
  OBVIOUS
<1>1. ASSUME NEW t \in Threads, Step(t)
      PROVE  IndInv'
  <2>1. CASE Pop(t)
    BY <2>1, PopKeeps
  <2>2. CASE PopNull(t)
    BY <2>2, PopNullKeeps
  <2>3. CASE t = Recv /\ Receiver
    <3>1. CASE ReceiveClosed
      BY <3>1, ReceiveClosedKeeps
    <3>2. CASE PushRaw
      BY <3>2, ForwardKeeps, Names DEF PushRaw
    <3>3. CASE \E m \in Msgs : Receive(m)
      BY <3>3, ReceiveKeeps
    <3> QED
      BY <2>3, <3>1, <3>2, <3>3 DEF Receiver
  <2>4. CASE t \in Demuxers /\ Demux(t)
    <3>1. Forward(t, TypeOf[job[t]]) /\ t \in Sources
      BY <2>4, Names DEF Demux
    <3>2. job[t] \in Msgs
      BY <3>1 DEF Forward, IndInv, HandInv, HandOf, Idle
    <3>3. TypeOf[job[t]] \in Types \cup {"raw"}
      BY <3>2, PipelineAssumption
    <3> QED
      BY <3>1, <3>3, ForwardKeeps
  <2>5. CASE t \in Decoders /\ Decoder(t)
    BY <2>5, DecoderKeeps
  <2>6. CASE t \in Shards /\ Process(t)
    BY <2>6, StatAlertKeeps, RuleAlertKeeps, AddEventKeeps, ArchiveLiveKeeps,
       ArchiveCopyKeeps, FinishKeeps DEF Process
  <2>7. CASE t \in Writers /\ Write(t)
    BY <2>7, WriteKeeps
  <2> QED
    BY <1>1, <2>1, <2>2, <2>3, <2>4, <2>5, <2>6, <2>7 DEF Step
<1>2. CASE RequestShutdown
  BY <1>2, RequestShutdownKeeps
<1>3. CASE Main
  BY <1>3, JoinStageKeeps, JoinTimeoutKeeps, DrainKeeps, DestroyKeeps DEF Main
<1>4. CASE UNCHANGED vars
  <2>1. /\ UNCHANGED <<q, pc, job, hand, list, born, freed, arrived, written, count>>
        /\ UNCHANGED <<shutting_down, main, join_failed, down>>
    BY <1>4 DEF vars, flow, heap
  <2>2. ControlOK'
    <3>1. ControlOK
      BY TypeParts DEF IndInv
    <3> QED
      BY <2>1, <3>1 DEF ControlOK
  <2>3. StageInv'
    <3>1. StageInv
      BY DEF IndInv
    <3> QED
      BY <2>1, <3>1 DEF StageInv, Stages, Recv, Writers
  <2> QED
    BY <2>1, <2>2, <2>3, ControlKeeps
<1> QED
  BY <1>1, <1>2, <1>3, <1>4 DEF Next, Terminated

THEOREM Invariance == Spec => []IndInv
<1> QED
  BY InitIndInv, NextIndInv, PTL DEF Spec

(* What was given up is not in flight any more, so it is given up once.    *)
RejectedInv == /\ rejected \subseteq Msgs
               /\ \A m \in rejected : freed[Text(m)] = 1

LEMMA NextRejected ==
  ASSUME IndInv, IndInv', RejectedInv, [Next]_vars
  PROVE  RejectedInv'
<1>1. HeapOK /\ HeapOK' /\ \A m \in Msgs : Text(m) \in Objects
  BY Objs DEF IndInv, StateOK, HeapOK
<1>2. FreedGrows
  <2>1. freed' = freed \/ \E O : Free(O)
    BY DEF Next, Step, Pop, PopNull, Receiver, Receive, ReceiveClosed, PushRaw, Demux, Forward, Decoder,
           DecodeRejects, Decode, DecodeFirewall, FirewallPush, analysisd_push_decoded, Process,
           StatAlert, RuleAlert, Enqueue, OS_AddEvent, ArchiveLive, ArchiveCopy, Finish, Write,
           RequestShutdown, Main, JoinStage, JoinTimeout, analysisd_drain_queues, DestroyAll,
           Terminated, vars, heap
  <2> QED
    BY <1>1, <2>1, FreeGrows
<1>3. CASE rejected' = rejected
  <2>1. ASSUME NEW m \in rejected
        PROVE  m \in Msgs /\ freed'[Text(m)] = 1
    BY <1>1, <1>2, <2>1 DEF RejectedInv, FreedGrows, HeapOK
  <2> QED
    BY <1>3, <2>1 DEF RejectedInv
<1>4. ASSUME NEW d \in Decoders, DecodeRejects(d)
      PROVE  RejectedInv'
  <2>1. job[d] \in Msgs /\ rejected' = rejected \cup {job[d]} /\ freed'[Text(job[d])] = 1
    <3>1. pc[d] = "work" /\ Free({Text(job[d]), Event(job[d])}) /\ rejected' = rejected \cup {job[d]}
      BY <1>4 DEF DecodeRejects
    <3>2. job[d] \in Msgs /\ freed[Text(job[d])] = 0
      BY <3>1, DecoderFacts
    <3> QED
      BY <1>1, <3>1, <3>2 DEF Free
  <2>2. ASSUME NEW m \in rejected
        PROVE  m \in Msgs /\ freed'[Text(m)] = 1
    BY <1>1, <1>2, <2>2 DEF RejectedInv, FreedGrows, HeapOK
  <2> QED
    BY <2>1, <2>2 DEF RejectedInv
<1> QED
  BY <1>3, <1>4 DEF Next, Step, Pop, PopNull, Receiver, Receive, ReceiveClosed, PushRaw, Demux, Forward,
           Decoder, Decode, DecodeFirewall, FirewallPush, analysisd_push_decoded, Process,
           StatAlert, RuleAlert, OS_AddEvent, ArchiveLive, ArchiveCopy, Finish, Write,
           RequestShutdown, Main, JoinStage, JoinTimeout, analysisd_drain_queues, DestroyAll,
           Terminated, vars

THEOREM RejectedOnce == Spec => []RejectedInv
<1>1. Init => RejectedInv
  BY DEF Init, RejectedInv
<1>2. IndInv /\ IndInv' /\ RejectedInv /\ [Next]_vars => RejectedInv'
  BY NextRejected
<1> QED
  BY <1>1, <1>2, Invariance, PTL DEF Spec
-----------------------------------------------------------------------------
(* What the invariant says.                                                *)

(* Counters, queues, lists and threads stay in their types: no queue and   *)
(* no event list grows past its limit, and nothing is freed twice.         *)
THEOREM TypeCorrect == Spec => []TypeOK
<1>1. IndInv /\ RejectedInv => TypeOK
  BY DEF IndInv, RejectedInv, TypeOK
<1> QED
  BY <1>1, Invariance, RejectedOnce, PTL

LEMMA AtMostOne ==
  ASSUME NEW T, \A x, y \in T : x = y
  PROVE  T # {} => \E z : T = {z}
<1> SUFFICES ASSUME NEW z \in T
             PROVE  T = {z}
  OBVIOUS
<1> QED
  OBVIOUS

(* OneOwner: every text, event and copy that analysisd has allocated and   *)
(* not freed is in exactly one queue, one thread's hands or one event      *)
(* list; what is freed is in none, so no thread frees it again.            *)
THEOREM OneOwnerAlways == Spec => []OneOwner
<1>1. IndInv => OneOwner
  <2> SUFFICES ASSUME IndInv, NEW o \in Objects
               PROVE  Owners(o) = IF o \in born /\ freed[o] = 0 THEN 1 ELSE 0
    BY DEF OneOwner
  <2>1. PlaceInv
    BY DEF IndInv, OwnInv
  <2> DEFINE Q == {x \in Queues : o \in ToSet(q[x])}
             H == {t \in Threads : o \in hand[t]}
             L == {s \in Shards : o \in ToSet(list[s])}
  <2>2. /\ \A x, y \in Queues : o \in ToSet(q[x]) /\ o \in ToSet(q[y]) => x = y
        /\ \A t, u \in Threads : o \in hand[t] /\ o \in hand[u] => t = u
        /\ \A s, r \in Shards : o \in ToSet(list[s]) /\ o \in ToSet(list[r]) => s = r
    BY <2>1, Apart
  <2>3. /\ \A x \in Queues, t \in Threads : ~(o \in ToSet(q[x]) /\ o \in hand[t])
        /\ \A x \in Queues, s \in Shards : ~(o \in ToSet(q[x]) /\ o \in ToSet(list[s]))
        /\ \A t \in Threads, s \in Shards : ~(o \in hand[t] /\ o \in ToSet(list[s]))
    BY <2>1, Apart
  <2>4. /\ Q # {} => o \in Live
        /\ H # {} => o \in Live
        /\ L # {} => o \in Live
    BY <2>1, Apart
  <2>5. o \in Live => Q # {} \/ H # {} \/ L # {}
    BY <2>1, PlaceFacts DEF PlaceInv
  <2>6. o \in Live <=> o \in born /\ freed[o] = 0
    BY DEF Live
  <2>7. /\ Q # {} => \E z : Q = {z}
        /\ H # {} => \E z : H = {z}
        /\ L # {} => \E z : L = {z}
    <3>1. (\A x, y \in Q : x = y) /\ (\A x, y \in H : x = y) /\ \A x, y \in L : x = y
      BY <2>2
    <3> HIDE DEF Q, H, L
    <3> QED
      BY <3>1, AtMostOne
  <2>8. /\ ~(Q # {} /\ H # {})
        /\ ~(Q # {} /\ L # {})
        /\ ~(H # {} /\ L # {})
    BY <2>3
  <2>9. Owners(o) = Cardinality(Q) + Cardinality(H) + Cardinality(L)
    BY DEF Owners
  <2> HIDE DEF Q, H, L
  <2>10. Cardinality({}) = 0 /\ \A z : Cardinality({z}) = 1
    BY FS_EmptySet, FS_Singleton
  <2>11. /\ Cardinality(Q) = IF Q # {} THEN 1 ELSE 0
         /\ Cardinality(H) = IF H # {} THEN 1 ELSE 0
         /\ Cardinality(L) = IF L # {} THEN 1 ELSE 0
    BY <2>7, <2>10, Zenon
  <2> QED
    BY <2>4, <2>5, <2>6, <2>8, <2>9, <2>11
<1> QED
  BY <1>1, Invariance, PTL

(* EventLiveWhileUsed: from its pop to the archiving, the event that a     *)
(* rule-matching thread reads has not been freed, neither by the list that *)
(* owns it since OS_AddEvent nor by anybody else.                          *)
THEOREM EventLive == Spec => []EventLiveWhileUsed
<1>1. IndInv => EventLiveWhileUsed
  <2> SUFFICES ASSUME IndInv, NEW s \in Shards, pc[s] \in {"work", "checked", "logged", "kept"}
               PROVE  freed[Event(job[s])] = 0
    BY DEF EventLiveWhileUsed
  <2>1. HandOf(s) /\ s \in Threads /\ PlaceInv
    BY Names DEF IndInv, HandInv, OwnInv
  <2>2. Event(job[s]) \in hand[s] \cup ToSet(list[s])
    BY <2>1 DEF HandOf
  <2>3. Event(job[s]) \in Live
    BY <2>1, <2>2, Apart
  <2> QED
    BY <2>3 DEF Live
<1> QED
  BY <1>1, Invariance, PTL

(* ClosedAfterFeeders: as long as every join of the shutdown succeeded, a  *)
(* queue is closed only after all threads that push to it have left.       *)
THEOREM ClosedLast == Spec => []ClosedAfterFeeders
<1>1. IndInv => ClosedAfterFeeders
  <2> SUFFICES ASSUME IndInv, ~join_failed, NEW x \in down, NEW t \in Threads, Feeds(t, x)
               PROVE  pc[t] = "exited"
    BY DEF ClosedAfterFeeders
  <2>1. StageInv /\ ControlOK
    BY TypeParts DEF IndInv
  <2>2. PICK i \in 1 .. 5 : i < main /\ x \in Stages[i].close
    BY <2>1 DEF StageInv
  <2>3. /\ \A k \in 1 .. 5 : k < main => \A u \in Stages[k].join : pc[u] = "exited"
        /\ main \in 0 .. 8
    BY <2>1 DEF StageInv, ControlOK
  <2>4. \A k \in 1 .. 5 : k <= i => \A u \in Stages[k].join : pc[u] = "exited"
    BY <2>2, <2>3
  <2>5. /\ i = 1 => x = "raw"
        /\ i = 2 => x \in Types
        /\ i = 3 => x \in Shards
        /\ i = 4 => x \in Writers
        /\ i # 5
    BY <2>2 DEF Stages
  <2>6. \/ i = 1 /\ t = Recv
        \/ i = 2 /\ t \in Demuxers
        \/ i = 3 /\ t \in Decoders
        \/ i = 4 /\ t \in Decoders
        \/ i = 4 /\ t \in Shards
    BY <2>5, QueueNames DEF Feeds
  <2>7. /\ Stages[1].join = {Recv} /\ Stages[2].join = Demuxers
        /\ Stages[3].join = Decoders /\ Stages[4].join = Shards
    BY DEF Stages
  <2>8. /\ i = 1 => pc[Recv] = "exited"
        /\ i = 2 => \A u \in Demuxers : pc[u] = "exited"
        /\ i \in {3, 4} => \A u \in Decoders : pc[u] = "exited"
        /\ i = 4 => \A u \in Shards : pc[u] = "exited"
    BY <2>4, <2>7
  <2> QED
    BY <2>6, <2>8
<1> QED
  BY <1>1, Invariance, PTL
-----------------------------------------------------------------------------
(* The alerts: every one that is gone was counted.                         *)

(* What has been freed, and the alerts of it.  Lists hold events only.     *)
Freed == {o \in Objects : freed[o] = 1}
ListInv == \A s \in Shards : ToSet(list[s]) \subseteq {"event"} \X Msgs
AlertInv == main <= 6 =>
    Cardinality(Alerts(Freed)) = count["alerts_written"] + count["alerts_dropped"]

Quiet(O) == \A o \in O : o[1] \notin {"alert", "stat"}

LEMMA ObjectsFinite ==
  /\ IsFiniteSet(Objects)
  /\ \A O : O \subseteq Objects => IsFiniteSet(O) /\ IsFiniteSet(Alerts(O)) /\ Cardinality(Alerts(O)) \in Nat
<1>1. IsFiniteSet(Kinds)
  <2>1. IsFiniteSet({"text", "event", "alert", "stat", "fw", "arch"})
    <3>1. IsFiniteSet({"text"})
      BY FS_Singleton
    <3>2. IsFiniteSet({"text"} \cup {"event"})
      BY <3>1, FS_AddElement
    <3>3. IsFiniteSet(({"text"} \cup {"event"}) \cup {"alert"})
      BY <3>2, FS_AddElement
    <3>4. IsFiniteSet((({"text"} \cup {"event"}) \cup {"alert"}) \cup {"stat"})
      BY <3>3, FS_AddElement
    <3>5. IsFiniteSet(((({"text"} \cup {"event"}) \cup {"alert"}) \cup {"stat"}) \cup {"fw"})
      BY <3>4, FS_AddElement
    <3>6. IsFiniteSet((((({"text"} \cup {"event"}) \cup {"alert"}) \cup {"stat"}) \cup {"fw"}) \cup {"arch"})
      BY <3>5, FS_AddElement
    <3>7. {"text", "event", "alert", "stat", "fw", "arch"}
            = (((({"text"} \cup {"event"}) \cup {"alert"}) \cup {"stat"}) \cup {"fw"}) \cup {"arch"}
      OBVIOUS
    <3> QED
      BY <3>6, <3>7
  <2> QED
    BY <2>1 DEF Kinds
<1>2. IsFiniteSet(Objects)
  BY <1>1, PipelineAssumption, FS_Product DEF Objects
<1>3. \A O : O \subseteq Objects => IsFiniteSet(O) /\ IsFiniteSet(Alerts(O))
  <2>1. \A O : Alerts(O) \subseteq O
    BY DEF Alerts
  <2> QED
    BY <1>2, <2>1, FS_Subset
<1> QED
  BY <1>2, <1>3, FS_CardinalityType

(* Free makes exactly its argument freed, when nothing is freed twice.     *)
LEMMA FreedBy ==
  ASSUME HeapOK, HeapOK', NEW O, Free(O)
  PROVE  /\ Freed' = Freed \cup (O \cap Objects)
         /\ Freed \cap O = {}
<1>1. /\ \A o \in Objects : freed[o] \in 0 .. 1 /\ freed'[o] \in 0 .. 1
      /\ \A o \in Objects : freed'[o] = IF o \in O THEN freed[o] + 1 ELSE freed[o]
  BY DEF HeapOK, Free
<1>2. \A o \in Objects : /\ o \in O => freed[o] = 0 /\ freed'[o] = 1
                         /\ o \notin O => freed'[o] = freed[o]
  BY <1>1
<1>3. /\ \A o : o \in Freed <=> o \in Objects /\ freed[o] = 1
      /\ \A o : o \in Freed' <=> o \in Objects /\ freed'[o] = 1
  BY DEF Freed
<1>4. Freed \cap O = {}
  <2>1. \A o \in Objects : o \in O => freed[o] # 1
    BY <1>2
  <2> QED
    BY <1>3, <2>1
<1>5. Freed' = Freed \cup (O \cap Objects)
  <2>1. \A o \in Objects : freed'[o] = 1 <=> (freed[o] = 1 \/ o \in O)
    BY <1>2
  <2> QED
    BY <1>3, <2>1
<1> QED
  BY <1>4, <1>5

LEMMA AlertsKept ==
  ASSUME HeapOK, HeapOK', AlertInv, NEW O, Free(O), Quiet(O), main' <= 6 => main <= 6,
         /\ count'["alerts_written"] = count["alerts_written"]
         /\ count'["alerts_dropped"] = count["alerts_dropped"]
  PROVE  AlertInv'
<1>1. Freed' = Freed \cup (O \cap Objects)
  BY FreedBy
<1>2. Alerts(Freed)' = Alerts(Freed)
  <2>1. \A o \in O : o \notin Alerts(O)
    BY DEF Alerts, Quiet
  <2>2. Alerts(Freed') = Alerts(Freed)
    BY <1>1, <2>1 DEF Alerts, Quiet
  <2> QED
    BY <2>2 DEF Alerts
<1> QED
  BY <1>2 DEF AlertInv

LEMMA AlertGone ==
  ASSUME HeapOK, HeapOK', AlertInv, NEW o \in Alerts(Objects), Free({o}), main' = main,
         count \in [Counters -> Nat], count' \in [Counters -> Nat],
         count'["alerts_written"] + count'["alerts_dropped"]
             = count["alerts_written"] + count["alerts_dropped"] + 1
  PROVE  AlertInv'
<1>1. o \in Objects /\ o[1] \in {"alert", "stat"}
  BY DEF Alerts
<1>2. Freed' = Freed \cup {o} /\ o \notin Freed
  BY <1>1, FreedBy
<1>3. Alerts(Freed)' = Alerts(Freed) \cup {o} /\ o \notin Alerts(Freed)
  <2>1. Alerts(Freed') = Alerts(Freed) \cup {o} /\ o \notin Alerts(Freed)
    BY <1>1, <1>2 DEF Alerts
  <2> QED
    BY <2>1 DEF Alerts
<1>4. IsFiniteSet(Alerts(Freed)) /\ Cardinality(Alerts(Freed)) \in Nat
  BY ObjectsFinite DEF Freed
<1>5. Cardinality(Alerts(Freed) \cup {o}) = Cardinality(Alerts(Freed)) + 1
  BY <1>3, <1>4, FS_AddElement
<1>6. Cardinality(Alerts(Freed)') = Cardinality(Alerts(Freed)) + 1
  BY <1>3, <1>5
<1> QED
  BY <1>4, <1>6 DEF AlertInv

LEMMA OtherCounts ==
  ASSUME count \in [Counters -> Nat], NEW c \in Counters \ {"alerts_written", "alerts_dropped"},
         \/ Inc(c) \/ count' = count
         \/ \E d \in Counters \ {"alerts_written", "alerts_dropped"} : Inc2(c, d)
  PROVE  /\ count'["alerts_written"] = count["alerts_written"]
         /\ count'["alerts_dropped"] = count["alerts_dropped"]
BY DEF Counters, Inc, Inc2

(* Texts, events, and copies for archive and firewall log are not alerts.  *)
LEMMA QuietOnes ==
  /\ Quiet({}) /\ \A m : Quiet({Text(m)}) /\ Quiet({Event(m)}) /\ Quiet({Text(m), Event(m)})
  /\ \A m : Quiet({<<"fw", m>>}) /\ Quiet({<<"arch", m>>})
  /\ \A O : O \subseteq {"event"} \X Msgs => Quiet(O)
BY DEF Quiet, Text, Event

(* A step that frees nothing that is an alert, or nothing at all.          *)
LEMMA QuietStep ==
  ASSUME IndInv, IndInv', AlertInv, NEW O, Free(O) \/ freed' = freed, Quiet(O), main' = main,
         NEW c \in Counters \ {"alerts_written", "alerts_dropped"},
         \/ Inc(c) \/ count' = count
         \/ \E d \in Counters \ {"alerts_written", "alerts_dropped"} : Inc2(c, d)
  PROVE  AlertInv'
<1>1. HeapOK /\ HeapOK' /\ count \in [Counters -> Nat]
  BY DEF IndInv, StateOK, HeapOK
<1>2. /\ count'["alerts_written"] = count["alerts_written"]
      /\ count'["alerts_dropped"] = count["alerts_dropped"]
  BY <1>1, OtherCounts
<1>3. Free(O) \/ Free({})
  <2> DEFINE N == {}
  <2>1. N \cap Objects = {}
    OBVIOUS
  <2> HIDE DEF N
  <2>2. freed' = freed => Free(N)
    BY <1>1, <2>1, FreeNone
  <2> QED
    BY <2>2 DEF N
<1>4. PICK P : Free(P) /\ Quiet(P)
  BY <1>3, QuietOnes
<1> QED
  BY <1>1, <1>2, <1>4, AlertsKept

LEMMA EnqueueAlerts ==
  ASSUME IndInv, IndInv', AlertInv, NEW s, NEW w, NEW o \in Alerts(Objects), Enqueue(s, o, w),
         main' = main
  PROVE  AlertInv'
<1>1. HeapOK /\ HeapOK' /\ count \in [Counters -> Nat] /\ count' \in [Counters -> Nat]
  BY DEF IndInv, StateOK, HeapOK
<1>2. CASE freed' = freed /\ count' = count
  <2> DEFINE N == {}
  <2>1. Quiet(N) /\ "received" \in Counters \ {"alerts_written", "alerts_dropped"}
    BY QuietOnes DEF Counters
  <2> HIDE DEF N
  <2> QED
    BY <1>2, <2>1, QuietStep
<1>3. CASE Free({o}) /\ (Inc("alerts_written") \/ Inc("alerts_dropped"))
  <2>1. count'["alerts_written"] + count'["alerts_dropped"]
             = count["alerts_written"] + count["alerts_dropped"] + 1
    BY <1>1, <1>3 DEF Inc, Counters
  <2> QED
    BY <1>1, <1>3, <2>1, AlertGone
<1> QED
  BY <1>2, <1>3 DEF Enqueue

LEMMA DecoderAlerts ==
  ASSUME IndInv, IndInv', AlertInv, NEW d \in Decoders, Decoder(d)
  PROVE  AlertInv'
<1>1. {"received", "dropped", "shard_dropped", "decoded"} \subseteq Counters \ {"alerts_written", "alerts_dropped"}
  BY DEF Counters
<1>2. main' = main
  BY DEF Decoder, DecodeRejects, Decode, DecodeFirewall, FirewallPush, analysisd_push_decoded, control
<1>3. CASE DecodeRejects(d)
  BY <1>1, <1>2, <1>3, QuietOnes, QuietStep DEF DecodeRejects
<1>4. CASE Decode(d)
  BY <1>1, <1>2, <1>4, QuietOnes, QuietStep DEF Decode
<1>5. CASE DecodeFirewall(d)
  BY <1>1, <1>2, <1>5, QuietOnes, QuietStep DEF DecodeFirewall
<1>6. CASE FirewallPush(d)
  BY <1>1, <1>2, <1>6, QuietOnes, QuietStep DEF FirewallPush
<1>7. CASE analysisd_push_decoded(d)
  BY <1>1, <1>2, <1>7, QuietOnes, QuietStep DEF analysisd_push_decoded
<1> QED
  BY <1>3, <1>4, <1>5, <1>6, <1>7 DEF Decoder

LEMMA ShardAlerts ==
  ASSUME IndInv, IndInv', AlertInv, ListInv, NEW s \in Shards, Process(s)
  PROVE  AlertInv'
<1>1. {"received", "processed", "archives_dropped"} \subseteq Counters \ {"alerts_written", "alerts_dropped"}
  BY DEF Counters
<1>2. main' = main
  BY DEF Process, StatAlert, RuleAlert, OS_AddEvent, ArchiveLive, ArchiveCopy, Finish, control
<1>3. \A k \in {"alert", "stat"} : pc[s] \notin Idle => <<k, job[s]>> \in Alerts(Objects)
  BY ShardFacts, Objs DEF Alerts
<1>4. CASE StatAlert(s)
  BY <1>2, <1>3, <1>4, EnqueueAlerts DEF StatAlert, Idle
<1>5. CASE RuleAlert(s)
  BY <1>2, <1>3, <1>5, EnqueueAlerts DEF RuleAlert, Idle
<1>6. CASE OS_AddEvent(s)
  <2>1. PICK r, G : G \subseteq ToSet(list[s]) /\ Free(G)
    BY <1>6, AddEventEffect
  <2>2. Quiet(G)
    BY <2>1, QuietOnes DEF ListInv
  <2>3. count' = count
    BY <1>6 DEF OS_AddEvent
  <2> QED
    BY <1>1, <1>2, <2>1, <2>2, <2>3, QuietStep
<1>7. CASE ArchiveLive(s)
  <2>1. freed' = freed
    BY <1>7 DEF ArchiveLive, heap
  <2> QED
    BY <1>1, <1>2, <1>7, <2>1, QuietOnes, QuietStep DEF ArchiveLive
<1>8. CASE ArchiveCopy(s)
  BY <1>1, <1>2, <1>8, QuietOnes, QuietStep DEF ArchiveCopy
<1>9. CASE Finish(s)
  <2>1. Free(hand[s]) /\ Inc("processed") /\ pc[s] \notin Idle
    BY <1>9 DEF Finish, Idle
  <2>2. hand[s] \subseteq {Event(job[s])}
    <3>1. HandOf(s)
      BY Names DEF IndInv, HandInv
    <3> QED
      BY <1>9, <3>1 DEF HandOf, Finish
  <2>3. Quiet(hand[s])
    BY <2>2, QuietOnes DEF Quiet
  <2> QED
    BY <1>1, <1>2, <2>1, <2>3, QuietStep
<1> QED
  BY <1>4, <1>5, <1>6, <1>7, <1>8, <1>9 DEF Process

LEMMA WriteAlerts ==
  ASSUME IndInv, IndInv', AlertInv, NEW w \in Writers, Write(w)
  PROVE  AlertInv'
<1>1. HeapOK /\ HeapOK' /\ count \in [Counters -> Nat] /\ count' \in [Counters -> Nat] /\ HandOf(w)
  BY Names DEF IndInv, StateOK, HeapOK, HandInv
<1>2. Free(hand[w]) /\ Inc(WriterCounter(w)) /\ pc[w] = "work" /\ main' = main
  BY DEF Write, control
<1>3. PICK o \in Cargo(w) : hand[w] = {o}
  BY <1>1, <1>2 DEF HandOf
<1>4. CASE w \in {"alerts", "statistical"}
  <2>1. WriterCounter(w) = "alerts_written"
    BY <1>4 DEF WriterCounter
  <2>2. o \in Alerts(Objects)
    BY <1>3, <1>4, Cargoes, Objs DEF Alerts
  <2>3. count'["alerts_written"] + count'["alerts_dropped"]
             = count["alerts_written"] + count["alerts_dropped"] + 1
    BY <1>1, <1>2, <2>1 DEF Inc, Counters
  <2> QED
    BY <1>1, <1>2, <1>3, <2>2, <2>3, AlertGone
<1>5. CASE w \in {"archive", "firewall"}
  <2>1. WriterCounter(w) \in Counters \ {"alerts_written", "alerts_dropped"}
    BY <1>5 DEF WriterCounter, Counters
  <2>2. Quiet({o})
    BY <1>3, <1>5, Cargoes DEF Quiet
  <2> QED
    BY <1>2, <1>3, <2>1, <2>2, QuietStep
<1> QED
  BY <1>4, <1>5 DEF Writers

(* Only OS_AddEvent lengthens an event list, by the event at hand.         *)
LEMMA NextListInv ==
  ASSUME IndInv, ListInv, [Next]_vars
  PROVE  ListInv'
<1>1. list \in [Shards -> Seq(Objects)] /\ \A s \in Shards : ToSet(list[s]) \subseteq {"event"} \X Msgs
  BY DEF IndInv, StateOK, ListInv
<1>2. CASE list' = list
  BY <1>1, <1>2 DEF ListInv
<1>3. CASE list' = [s \in Shards |-> <<>>]
  <2>1. \A s \in Shards : ToSet(list'[s]) = {}
    BY <1>3, EmptySet, Zenon
  <2> QED
    BY <2>1 DEF ListInv
<1>4. ASSUME NEW s \in Shards, OS_AddEvent(s)
      PROVE  ListInv'
  <2>1. PICK r, G : /\ ToSet(r) = (ToSet(list[s]) \ G) \cup {Event(job[s])}
                    /\ list' = [list EXCEPT ![s] = r]
    BY <1>4, AddEventEffect
  <2>2. Event(job[s]) \in {"event"} \X Msgs
    BY <1>4, ShardFacts DEF OS_AddEvent, Idle, Event
  <2>3. \A u \in Shards : list'[u] = IF u = s THEN r ELSE list[u]
    BY <1>1, <2>1
  <2>4. ToSet(r) \subseteq {"event"} \X Msgs
    BY <1>1, <2>1, <2>2
  <2> QED
    BY <1>1, <2>3, <2>4 DEF ListInv
<1>5. ASSUME NEW t \in Threads, Step(t), ~(t \in Shards /\ OS_AddEvent(t))
      PROVE  list' = list
  <2>1. CASE Pop(t) \/ PopNull(t)
    BY <2>1 DEF Pop, PopNull, heap
  <2>2. CASE Receiver
    BY <2>2 DEF Receiver, ReceiveClosed, PushRaw, Receive, Forward, heap
  <2>3. CASE Demux(t)
    BY <2>3 DEF Demux, Forward
  <2>4. CASE Decoder(t)
    BY <2>4 DEF Decoder, DecodeRejects, Decode, DecodeFirewall, FirewallPush, analysisd_push_decoded
  <2>5. CASE t \in Shards /\ Process(t)
    BY <1>5, <2>5 DEF Process, StatAlert, RuleAlert, ArchiveLive, ArchiveCopy, Finish, heap
  <2>6. CASE Write(t)
    BY <2>6 DEF Write
  <2> QED
    BY <1>5, <2>1, <2>2, <2>3, <2>4, <2>5, <2>6 DEF Step
<1>6. CASE RequestShutdown \/ JoinStage \/ JoinTimeout \/ analysisd_drain_queues \/ UNCHANGED vars
  BY <1>2, <1>6 DEF RequestShutdown, JoinStage, JoinTimeout, analysisd_drain_queues, vars, heap
<1>7. CASE DestroyAll
  BY <1>3, <1>7 DEF DestroyAll
<1> QED
  BY <1>2, <1>4, <1>5, <1>6, <1>7 DEF Next, Main, Terminated

LEMMA NextAlertInv ==
  ASSUME IndInv, IndInv', ListInv, AlertInv, [Next]_vars
  PROVE  AlertInv'
<1>1. {"received", "dropped"} \subseteq Counters \ {"alerts_written", "alerts_dropped"}
  BY DEF Counters
<1>2. ASSUME NEW t \in Threads, Step(t)
      PROVE  AlertInv'
  <2>1. CASE Pop(t) \/ PopNull(t)
    <3>1. freed' = freed /\ count' = count /\ main' = main
      BY <2>1 DEF Pop, PopNull, heap, control
    <3> QED
      BY <1>1, <3>1, QuietOnes, QuietStep
  <2>2. ASSUME NEW x, Forward(t, x)
        PROVE  AlertInv'
    <3>1. main' = main
      BY <2>2 DEF Forward, control
    <3> QED
      BY <1>1, <2>2, <3>1, QuietOnes, QuietStep DEF Forward
  <2>3. CASE t = Recv /\ Receiver
    <3>1. CASE ReceiveClosed
      <4>1. freed' = freed /\ count' = count /\ main' = main
        BY <3>1 DEF ReceiveClosed, heap, control
      <4> QED
        BY <1>1, <4>1, QuietOnes, QuietStep
    <3>2. CASE PushRaw
      BY <2>2, <2>3, <3>2 DEF PushRaw
    <3>3. ASSUME NEW m \in Msgs, Receive(m)
          PROVE  AlertInv'
      <4>1. freed' = freed /\ Inc("received") /\ main' = main
        BY <3>3 DEF Receive, control
      <4> QED
        BY <1>1, <4>1, QuietOnes, QuietStep
    <3> QED
      BY <2>3, <3>1, <3>2, <3>3 DEF Receiver
  <2>4. CASE t \in Demuxers /\ Demux(t)
    BY <2>2, <2>4 DEF Demux
  <2> QED
    BY <1>2, <2>1, <2>3, <2>4, DecoderAlerts, ShardAlerts, WriteAlerts DEF Step
<1>3. CASE RequestShutdown \/ JoinStage \/ JoinTimeout \/ UNCHANGED vars
  <2>1. freed' = freed /\ count' = count
    BY <1>3 DEF RequestShutdown, JoinStage, JoinTimeout, vars, heap
  <2>2. main' <= 6 => main <= 6
    <3>1. main \in 0 .. 8
      BY DEF IndInv, StateOK
    <3>2. main' = main \/ (main = 0 /\ main' = 1) \/ (main \in 1 .. 5 /\ main' = main + 1)
      BY <1>3 DEF RequestShutdown, JoinStage, JoinTimeout, vars
    <3> QED
      BY <3>1, <3>2
  <2>3. Freed' = Freed
    BY <2>1 DEF Freed
  <2>4. Alerts(Freed)' = Alerts(Freed)
    BY <2>3 DEF Alerts
  <2> QED
    BY <2>1, <2>2, <2>4 DEF AlertInv
<1>4. CASE analysisd_drain_queues \/ DestroyAll
  BY <1>4 DEF analysisd_drain_queues, DestroyAll, AlertInv
<1> QED
  BY <1>2, <1>3, <1>4 DEF Next, Main, Terminated

(* Where an alert can be: with one of the two writers, on its way to one,  *)
(* or gone.                                                                *)
LEMMA AlertsWhere ==
  ASSUME IndInv, ListInv
  PROVE  LET Q == Alerts(Queued)
             H == Alerts(hand["alerts"] \cup hand["statistical"])
             F == Alerts(Freed)
         IN /\ Alerts(born) = F \cup (Q \cup H)
            /\ Q \cap H = {} /\ F \cap (Q \cup H) = {}
            /\ Q \subseteq Objects /\ H \subseteq Objects
<1> DEFINE Q == Alerts(Queued)
           H == Alerts(hand["alerts"] \cup hand["statistical"])
           F == Alerts(Freed)
<1>1. PlaceInv /\ HandInv /\ born \subseteq Objects /\ freed \in [Objects -> 0 .. 1]
  BY DEF IndInv, OwnInv, StateOK
<1>2. /\ \A o : o \in Q <=> o[1] \in {"alert", "stat"} /\ \E x \in Queues : o \in ToSet(q[x])
      /\ \A o : o \in H <=> o[1] \in {"alert", "stat"} /\ o \in hand["alerts"] \cup hand["statistical"]
      /\ \A o : o \in F <=> o[1] \in {"alert", "stat"} /\ o \in Objects /\ freed[o] = 1
      /\ \A o : o \in Live <=> o \in born /\ freed[o] = 0
  BY DEF Alerts, Queued, Freed, Live
<1>3. "alerts" \in Threads /\ "statistical" \in Threads
  BY Names, QueueNames
<1>4. \A o \in Q \cup H : o \in Live
  BY <1>1, <1>2, <1>3, Apart
<1>5. Q \cap H = {}
  BY <1>1, <1>2, <1>3, Apart
<1>6. \A o \in Objects : freed[o] = 0 \/ freed[o] = 1
  BY <1>1
<1>7. F \cap (Q \cup H) = {}
  <2>1. \A o \in F : o \notin Live
    BY <1>2
  <2> QED
    BY <1>4, <2>1
<1>8. ASSUME NEW t \in Threads, NEW o \in hand[t], o[1] \in {"alert", "stat"}
      PROVE  o \in hand["alerts"] \cup hand["statistical"]
  <2>1. HandOf(t)
    BY <1>1 DEF HandInv
  <2>2. CASE t \in Writers
    <3>1. pc[t] \in {"pop", "exited", "work"}
      BY <2>1, <2>2, LabelFacts DEF HandOf
    <3>2. pc[t] = "work"
      BY <1>8, <2>1, <3>1 DEF HandOf, Idle
    <3>3. o \in Cargo(t)
      BY <1>8, <2>1, <2>2, <3>2 DEF HandOf
    <3>4. t = "alerts" \/ t = "statistical"
      BY <1>8, <2>2, <3>3, Cargoes DEF Writers
    <3> QED
      BY <1>8, <3>4
  <2>3. CASE t \in Shards
    <3>1. pc[t] \in {"pop", "exited", "work", "checked", "logged", "kept", "archived"}
      BY <2>1, <2>3, LabelFacts DEF HandOf
    <3>2. hand[t] \subseteq {Event(job[t])}
      BY <2>1, <2>3, <3>1 DEF HandOf, Idle
    <3> QED
      BY <1>8, <3>2 DEF Event
  <2>4. CASE t \in Decoders
    <3>1. t \notin Shards /\ t \notin Writers /\ pc[t] \in {"pop", "exited", "work", "fw", "push"}
      BY <2>1, <2>4, LabelFacts, Names DEF HandOf
    <3>2. hand[t] \subseteq {Text(job[t]), Event(job[t]), <<"fw", job[t]>>}
      BY <2>1, <3>1 DEF HandOf, Idle
    <3> QED
      BY <1>8, <3>2 DEF Event, Text
  <2>5. CASE t \in Sources
    <3>1. t \notin Shards /\ t \notin Writers /\ pc[t] \in {"pop", "exited", "work"}
      BY <2>1, <2>5, LabelFacts, Names DEF HandOf
    <3>2. hand[t] \subseteq {Text(job[t])}
      BY <2>1, <3>1 DEF HandOf, Idle
    <3> QED
      BY <1>8, <3>2 DEF Text
  <2> QED
    BY <2>2, <2>3, <2>4, <2>5, Names
<1>9. ASSUME NEW o \in Live, o[1] \in {"alert", "stat"}
      PROVE  o \in Q \cup H
  <2>1. \/ \E x \in Queues : o \in ToSet(q[x])
        \/ \E t \in Threads : o \in hand[t]
        \/ \E s \in Shards : o \in ToSet(list[s])
    BY <1>1, PlaceFacts DEF PlaceInv
  <2>2. \A s \in Shards : o \notin ToSet(list[s])
    BY <1>9 DEF ListInv
  <2> QED
    BY <1>2, <1>8, <1>9, <2>1, <2>2
<1>10. \A o \in born : o \in Live \/ o \in Freed
  BY <1>1, <1>2, <1>6 DEF Freed
<1>11. Freed \subseteq born
  BY <1>1 DEF Freed, PlaceInv
<1>12. Live \subseteq born
  BY <1>2
<1>13. Alerts(born) = F \cup (Q \cup H)
  <2>1. \A o \in Alerts(born) : o \in F \cup (Q \cup H)
    BY <1>9, <1>10 DEF Alerts
  <2>2. \A o \in F \cup (Q \cup H) : o \in born /\ o[1] \in {"alert", "stat"}
    BY <1>2, <1>4, <1>11, <1>12 DEF Freed
  <2> QED
    BY <2>1, <2>2 DEF Alerts
<1>14. Q \subseteq Objects /\ H \subseteq Objects
  BY <1>1, <1>4, <1>12
<1> QED
  BY <1>5, <1>7, <1>13, <1>14

LEMMA DisjointSum ==
  ASSUME NEW S, NEW T, IsFiniteSet(S), IsFiniteSet(T), S \cap T = {}
  PROVE  Cardinality(S \cup T) = Cardinality(S) + Cardinality(T)
<1>1. Cardinality(S \cup T) = Cardinality(S) + Cardinality(T) - Cardinality(S \cap T)
  BY FS_Union
<1>2. Cardinality(S \cap T) = 0
  BY FS_EmptySet
<1>3. Cardinality(S) \in Nat /\ Cardinality(T) \in Nat
  BY FS_CardinalityType
<1> QED
  BY <1>1, <1>2, <1>3

(* AlertsAccounted: until analysisd_drain_queues, every alert that the     *)
(* rules or the statistics raised was written and counted, was dropped and *)
(* counted, waits in a queue, or is with one of the two writers.           *)
THEOREM AlertsCounted == Spec => []AlertsAccounted
<1>1. Init => ListInv /\ AlertInv
  <2> SUFFICES ASSUME Init
               PROVE  ListInv /\ AlertInv
    OBVIOUS
  <2>1. \A s \in Shards : ToSet(list[s]) = {}
    BY EmptySet, Zenon DEF Init
  <2>2. Alerts(Freed) = {}
    BY DEF Init, Freed, Alerts
  <2>3. count["alerts_written"] = 0 /\ count["alerts_dropped"] = 0
    BY DEF Init, Counters
  <2>4. Cardinality(Alerts(Freed)) = 0
    BY <2>2, FS_EmptySet
  <2> QED
    BY <2>1, <2>3, <2>4 DEF ListInv, AlertInv
<1>2. IndInv /\ ListInv /\ AlertInv /\ [Next]_vars => (ListInv /\ AlertInv)'
  BY NextIndInv, NextListInv, NextAlertInv
<1>3. IndInv /\ ListInv /\ AlertInv => AlertsAccounted
  <2> SUFFICES ASSUME IndInv, ListInv, AlertInv, main <= 6
               PROVE  Cardinality(Alerts(born)) =
                          count["alerts_written"] + count["alerts_dropped"] + Cardinality(Alerts(Queued))
                          + Cardinality(Alerts(hand["alerts"] \cup hand["statistical"]))
    BY DEF AlertsAccounted
  <2> DEFINE Q == Alerts(Queued)
             H == Alerts(hand["alerts"] \cup hand["statistical"])
             F == Alerts(Freed)
  <2>1. /\ Alerts(born) = F \cup (Q \cup H)
        /\ Q \cap H = {} /\ F \cap (Q \cup H) = {}
        /\ Q \subseteq Objects /\ H \subseteq Objects
    BY AlertsWhere
  <2>2. F \subseteq Objects
    BY DEF Freed, Alerts
  <2>3. Cardinality(F) = count["alerts_written"] + count["alerts_dropped"]
    BY DEF AlertInv
  <2>4. count["alerts_written"] \in Nat /\ count["alerts_dropped"] \in Nat
    BY DEF IndInv, StateOK, Counters
  <2> HIDE DEF Q, H, F
  <2>5. IsFiniteSet(Q) /\ IsFiniteSet(H) /\ IsFiniteSet(F) /\ IsFiniteSet(Q \cup H)
    BY <2>1, <2>2, ObjectsFinite, FS_Union
  <2>6. Cardinality(Q \cup H) = Cardinality(Q) + Cardinality(H)
    BY <2>1, <2>5, DisjointSum
  <2>7. Cardinality(F \cup (Q \cup H)) = Cardinality(F) + Cardinality(Q \cup H)
    BY <2>1, <2>5, DisjointSum
  <2>8. Cardinality(Q) \in Nat /\ Cardinality(H) \in Nat
    BY <2>5, FS_CardinalityType
  <2>9. Cardinality(Alerts(born)) = count["alerts_written"] + count["alerts_dropped"] + Cardinality(Q) + Cardinality(H)
    BY <2>1, <2>3, <2>4, <2>6, <2>7, <2>8
  <2> QED
    BY <2>9 DEF Q, H
<1> QED
  BY <1>1, <1>2, <1>3, Invariance, PTL DEF Spec
-----------------------------------------------------------------------------
(* The messages: every one that is no longer in flight was counted.        *)

Inner == Queues \ Writers             \* queues and threads before the writers
Workers == Threads \ Writers

(* The messages that queues X hold, p[x] being the contents of x, and that *)
(* threads work on, j[t] being what thread t works on.                     *)
Within(X, p, j) == {m \in Msgs : \/ \E x \in X : \E o \in ToSet(p[x]) : o[2] = m
                                \/ \E t \in Workers : j[t] = m}

(* What a thread works on, if that was decoded.                            *)
late == [t \in Workers |-> IF t \in Shards \/ (t \in Decoders /\ pc[t] = "push")
                           THEN job[t] ELSE NoMsg]

LEMMA InnerKinds ==
  /\ \A x \in Inner : x \in Queues /\ (x \in Shards \/ x \in Types \cup {"raw"})
  /\ \A t \in Workers : t \in Threads /\ (t \in Sources \/ t \in Decoders \/ t \in Shards)
  /\ \A t \in Sources \cup Decoders \cup Shards : t \in Workers
  /\ \A x \in Shards \cup Types \cup {"raw"} : x \in Inner
  /\ \A w \in Writers : w \notin Inner /\ w \notin Workers
BY Names, QueueNames DEF Inner, Workers, Queues, Threads

LEMMA Lates ==
  /\ \A u \in Shards : late[u] = job[u] /\ late'[u] = job'[u]
  /\ \A u \in Decoders : /\ late[u] = IF pc[u] = "push" THEN job[u] ELSE NoMsg
                         /\ late'[u] = IF pc'[u] = "push" THEN job'[u] ELSE NoMsg
  /\ \A u \in Workers : u \notin Shards \cup Decoders => late[u] = NoMsg /\ late'[u] = NoMsg
<1>1. \A u \in Shards \cup Decoders : u \in Workers /\ (u \in Decoders => u \notin Shards)
  BY InnerKinds, Names
<1>2. /\ late = [t \in Workers |-> IF t \in Shards \/ (t \in Decoders /\ pc[t] = "push")
                                 THEN job[t] ELSE NoMsg]
      /\ late' = [t \in Workers |-> IF t \in Shards \/ (t \in Decoders /\ pc'[t] = "push")
                                  THEN job'[t] ELSE NoMsg]
  BY DEF late, Workers, Threads, Writers, Recv
<1> QED
  BY <1>1, <1>2

(* A message that a thread works on, before the writers, is with no other  *)
(* thread and in no queue there.                                           *)
LEMMA Solo ==
  ASSUME IndInv, NEW t \in Workers, NEW m \in Msgs, job[t] = m
  PROVE  /\ \A x \in Inner : \A o \in ToSet(q[x]) : o[2] # m
         /\ \A u \in Workers : u # t => job[u] # m
<1>1. PlaceInv /\ HandInv /\ QueueInv /\ BornInv /\ CopyInv /\ HeapOK
  BY DEF IndInv, OwnInv, StateOK, HeapOK
<1>2. m # NoMsg
  BY PipelineAssumption
<1>3. /\ Text(m) \in Live => Event(m) \notin born
      /\ Event(m) \in Live => Event(m) \in born
      /\ Event(m) \in born => Text(m) \notin Live
  BY <1>1 DEF Live, BornInv
(* A worker on m holds its text or its event, or is a shard. *)
<1>4. ASSUME NEW u \in Workers, job[u] = m
      PROVE  \/ u \notin Shards /\ Text(m) \in hand[u]
             \/ u \in Decoders /\ Event(m) \in hand[u]
             \/ u \in Shards /\ ~Awaits(m) /\ ShardOf[m] = u
  <2>1. HandOf(u) /\ pc[u] \notin Idle
    BY <1>1, <1>2, <1>4, InnerKinds DEF HandInv, HandOf
  <2>2. CASE u \in Shards
    BY <1>1, <1>4, <2>1, <2>2 DEF CopyInv, CopyOf, HandOf
  <2>3. CASE u \in Decoders
    <3>1. u \notin Shards /\ u \notin Writers /\ pc[u] \in {"work", "fw", "push"}
      BY <2>1, <2>3, Names, LabelFacts DEF HandOf, Idle
    <3> QED
      BY <1>4, <2>1, <2>3, <3>1 DEF HandOf
  <2>4. CASE u \in Sources
    <3>1. u \notin Shards /\ u \notin Writers /\ pc[u] = "work"
      BY <2>1, <2>4, Names, LabelFacts DEF HandOf, Idle
    <3> QED
      BY <1>4, <2>1, <3>1 DEF HandOf
  <2> QED
    BY <2>2, <2>3, <2>4, InnerKinds
(* An object of m in one of the queues is its text or its event. *)
<1>5. ASSUME NEW x \in Inner, NEW o \in ToSet(q[x]), o[2] = m
      PROVE  \/ x \notin Shards /\ o = Text(m)
             \/ x \in Shards /\ o = Event(m)
  <2>1. x \in Queues /\ o \in Cargo(x)
    BY <1>1, InnerKinds DEF QueueInv
  <2>2. CASE x \in Shards
    BY <1>5, <2>1, <2>2, Cargoes DEF Event
  <2>3. CASE x \in Types \cup {"raw"}
    <3>1. x \notin Shards
      BY <2>3, QueueNames
    <3> QED
      BY <1>5, <2>1, <2>3, <3>1, Cargoes DEF Text
  <2> QED
    BY <2>2, <2>3, InnerKinds
<1>6. /\ \A u \in Workers : hand[u] \subseteq Live
      /\ \A x \in Inner : ToSet(q[x]) \subseteq Live
      /\ \A u, v \in Workers : u # v => hand[u] \cap hand[v] = {}
      /\ \A x \in Inner, u \in Workers : ToSet(q[x]) \cap hand[u] = {}
  BY <1>1, Apart, InnerKinds
<1>7. ~Awaits(m) => /\ Event(m) \in born
                    /\ \A d \in Decoders : Event(m) \notin hand[d]
                    /\ \A s \in Shards : Event(m) \notin ToSet(q[s])
  BY Objs DEF Awaits, Upstream
<1>8. \/ t \notin Shards /\ Text(m) \in hand[t]
      \/ t \in Decoders /\ Event(m) \in hand[t]
      \/ t \in Shards /\ ~Awaits(m) /\ ShardOf[m] = t
  BY <1>4
<1>9. ASSUME NEW x \in Inner, NEW o \in ToSet(q[x]), o[2] = m
      PROVE  FALSE
  <2>1. CASE x \notin Shards /\ o = Text(m)
    BY <1>3, <1>6, <1>7, <1>8, <1>9, <2>1
  <2>2. CASE x \in Shards /\ o = Event(m)
    BY <1>3, <1>6, <1>7, <1>8, <1>9, <2>2
  <2> QED
    BY <1>5, <1>9, <2>1, <2>2
<1>10. ASSUME NEW u \in Workers, u # t, job[u] = m
       PROVE  FALSE
  <2>1. CASE u \notin Shards /\ Text(m) \in hand[u]
    BY <1>3, <1>6, <1>7, <1>8, <1>10, <2>1
  <2>2. CASE u \in Decoders /\ Event(m) \in hand[u]
    BY <1>3, <1>6, <1>7, <1>8, <1>10, <2>2
  <2>3. CASE u \in Shards /\ ~Awaits(m) /\ ShardOf[m] = u
    <3>1. t \notin Shards
      BY <1>8, <1>10, <2>3, Names
    <3>2. CASE Text(m) \in hand[t]
      <4>1. Text(m) \in Live /\ Event(m) \in born
        BY <1>6, <1>7, <2>3, <3>2
      <4> QED
        BY <1>3, <4>1
    <3>3. CASE t \in Decoders /\ Event(m) \in hand[t]
      BY <1>7, <2>3, <3>3
    <3> QED
      BY <1>8, <3>1, <3>2, <3>3
  <2> QED
    BY <1>4, <1>10, <2>1, <2>2, <2>3
<1> QED
  BY <1>9, <1>10

(* What a step does to the queues X: nothing, or it puts o into x, or it   *)
(* takes o from there; and to what the threads work on, j being that       *)
(* before and k that after the step: nothing, or thread t has v now.       *)
Kept(X) == \A y \in X : q'[y] = q[y]
Grown(X, x, o) == \A y \in X : ToSet(q'[y]) = ToSet(q[y]) \cup (IF y = x THEN {o} ELSE {})
Shrunk(X, x, o) == \A y \in X : ToSet(q'[y]) = ToSet(q[y]) \ (IF y = x THEN {o} ELSE {})
Same(j, k) == \A u \in Workers : k[u] = j[u]
Sets(j, k, t, v) == \A u \in Workers : k[u] = IF u = t THEN v ELSE j[u]

(* Message m is in none of the queues X, and with no thread other than t.  *)
Alone(X, j, t, m) == /\ \A x \in X : \A o \in ToSet(q[x]) : o[2] # m
                     /\ \A u \in Workers : u # t => j[u] # m

(* How the messages in flight change.  Nothing happens to them ...         *)
LEMMA WithinSame ==
  ASSUME NEW X, NEW j, NEW k, Kept(X), Same(j, k)
  PROVE  Within(X, q', k) = Within(X, q, j)
BY DEF Within, Kept, Same

(* ... one is handed on to a queue ...                                     *)
LEMMA WithinPut ==
  ASSUME NEW X, NEW j, NEW k, NEW t \in Workers, NEW x \in X, NEW o,
         o[2] = j[t], Grown(X, x, o), Sets(j, k, t, NoMsg)
  PROVE  Within(X, q', k) = Within(X, q, j)
<1>1. NoMsg \notin Msgs
  BY PipelineAssumption
<1>2. ASSUME NEW m \in Msgs
      PROVE  \/ \E y \in X : \E e \in ToSet(q'[y]) : e[2] = m
             \/ \E u \in Workers : k[u] = m
             <=> \/ \E y \in X : \E e \in ToSet(q[y]) : e[2] = m
                 \/ \E u \in Workers : j[u] = m
  <2>1. (\E y \in X : \E e \in ToSet(q'[y]) : e[2] = m)
          <=> (\E y \in X : \E e \in ToSet(q[y]) : e[2] = m) \/ m = j[t]
    BY DEF Grown
  <2>2. (\E u \in Workers : j[u] = m) <=> (\E u \in Workers : k[u] = m) \/ m = j[t]
    BY <1>1 DEF Sets
  <2> QED
    BY <2>1, <2>2
<1> QED
  BY <1>2 DEF Within

(* ... taken from a queue ...                                              *)
LEMMA WithinPop ==
  ASSUME NEW X, NEW j, NEW k, NEW t \in Workers, NEW x \in X, NEW o \in ToSet(q[x]),
         j[t] = NoMsg, Shrunk(X, x, o), Sets(j, k, t, o[2])
  PROVE  Within(X, q', k) = Within(X, q, j)
<1>1. NoMsg \notin Msgs
  BY PipelineAssumption
<1>2. ASSUME NEW m \in Msgs
      PROVE  \/ \E y \in X : \E e \in ToSet(q'[y]) : e[2] = m
             \/ \E u \in Workers : k[u] = m
             <=> \/ \E y \in X : \E e \in ToSet(q[y]) : e[2] = m
                 \/ \E u \in Workers : j[u] = m
  <2>1. (\E y \in X : \E e \in ToSet(q[y]) : e[2] = m)
          <=> (\E y \in X : \E e \in ToSet(q'[y]) : e[2] = m) \/ m = o[2]
    <3>1. ASSUME NEW y \in X, NEW e \in ToSet(q[y])
          PROVE  e \in ToSet(q'[y]) \/ e = o
      BY DEF Shrunk
    <3>2. \A y \in X : ToSet(q'[y]) \subseteq ToSet(q[y])
      BY DEF Shrunk
    <3> QED
      BY <3>1, <3>2
  <2>2. (\E u \in Workers : k[u] = m) <=> (\E u \in Workers : j[u] = m) \/ m = o[2]
    BY <1>1 DEF Sets
  <2> QED
    BY <2>1, <2>2
<1> QED
  BY <1>2 DEF Within

(* ... let go of, and it was nowhere else ...                              *)
LEMMA WithinDrop ==
  ASSUME NEW X, NEW j, NEW k, NEW t \in Workers, NEW m \in Msgs, j[t] = m,
         Kept(X), Sets(j, k, t, NoMsg), Alone(X, j, t, m)
  PROVE  m \in Within(X, q, j) /\ Within(X, q', k) = Within(X, q, j) \ {m}
<1>1. NoMsg \notin Msgs
  BY PipelineAssumption
<1>2. ASSUME NEW n \in Msgs
      PROVE  \/ \E y \in X : \E e \in ToSet(q'[y]) : e[2] = n
             \/ \E u \in Workers : k[u] = n
             <=> /\ n # m
                 /\ \/ \E y \in X : \E e \in ToSet(q[y]) : e[2] = n
                    \/ \E u \in Workers : j[u] = n
  BY <1>1 DEF Kept, Sets, Alone
<1> QED
  BY <1>2 DEF Within

(* ... or one comes in.                                                    *)
LEMMA WithinNew ==
  ASSUME NEW X, NEW j, NEW k, NEW t \in Workers, NEW m \in Msgs, j[t] = NoMsg,
         Kept(X), Sets(j, k, t, m), Alone(X, j, t, m)
  PROVE  m \notin Within(X, q, j) /\ Within(X, q', k) = Within(X, q, j) \cup {m}
<1>1. NoMsg \notin Msgs
  BY PipelineAssumption
<1>2. ASSUME NEW n \in Msgs
      PROVE  \/ \E y \in X : \E e \in ToSet(q'[y]) : e[2] = n
             \/ \E u \in Workers : k[u] = n
             <=> \/ n = m
                 \/ \E y \in X : \E e \in ToSet(q[y]) : e[2] = n
                 \/ \E u \in Workers : j[u] = n
  BY <1>1 DEF Kept, Sets, Alone
<1>3. m \notin Within(X, q, j)
  BY <1>1 DEF Within, Alone
<1> QED
  BY <1>2, <1>3 DEF Within

(* The messages in flight, and those of them that were decoded.            *)
LEMMA Flights ==
  /\ InFlight = Within(Inner, q, job) /\ InFlight' = Within(Inner, q', job')
  /\ DecodedInFlight = Within(Shards, q, late) /\ DecodedInFlight' = Within(Shards, q', late')
<1>1. InFlight = Within(Inner, q, job) /\ InFlight' = Within(Inner, q', job')
  BY DEF InFlight, Carried, Within, Inner, Workers, Queues, Threads, Writers, Recv
<1>2. NoMsg \notin Msgs /\ \A t \in Shards \cup Decoders : t \in Workers
  BY PipelineAssumption, InnerKinds
<1>3. ASSUME NEW m \in Msgs
      PROVE  /\ (\E t \in Workers : late[t] = m)
                  <=> \E t \in Shards \cup {d \in Decoders : pc[d] = "push"} : job[t] = m
             /\ (\E t \in Workers : late'[t] = m)
                  <=> \E t \in Shards \cup {d \in Decoders : pc'[d] = "push"} : job'[t] = m
  BY <1>2, Lates
<1>4. DecodedInFlight = Within(Shards, q, late)
  BY <1>3 DEF DecodedInFlight, Carried, Within
<1>5. DecodedInFlight' = Within(Shards, q', late')
  BY <1>3 DEF DecodedInFlight, Carried, Within
<1> QED
  BY <1>1, <1>4, <1>5

(* How job and late change with a step of one thread.                      *)
LEMMA JobStep ==
  ASSUME ControlOK, NEW t \in Threads, NEW v, job' = [job EXCEPT ![t] = v]
  PROVE  Sets(job, job', t, v)
BY InnerKinds DEF ControlOK, Sets

LEMMA PcStep ==
  ASSUME ControlOK, NEW t \in Threads, NEW p, pc' = [pc EXCEPT ![t] = p]
  PROVE  Sets(pc, pc', t, p) /\ pc'[t] = p
BY InnerKinds DEF ControlOK, Sets

LEMMA LateStep ==
  ASSUME NEW t \in Threads, NEW v, Sets(job, job', t, v), NEW p, Sets(pc, pc', t, p)
  PROVE  /\ t \in Shards => Sets(late, late', t, v)
         /\ t \in Decoders /\ p = "push" => Sets(late, late', t, v)
         /\ t \notin Shards /\ (t \in Decoders => p # "push") => Sets(late, late', t, NoMsg)
BY Lates DEF Sets

LEMMA SetsNothing ==
  ASSUME NEW j, NEW k, NEW t, NEW v, Sets(j, k, t, v), t \in Workers => j[t] = v
  PROVE  Same(j, k)
BY DEF Sets, Same

(* A thread that is done with what it worked on.                           *)
LEMMA TopStep ==
  ASSUME ControlOK, NEW t \in Threads, Top(t)
  PROVE  Sets(job, job', t, NoMsg) /\ Sets(late, late', t, NoMsg)
<1> DEFINE p == IF shutting_down THEN "exited" ELSE "pop"
<1>1. pc' = [pc EXCEPT ![t] = p] /\ p # "push"
  BY DEF Top, Goto
<1> HIDE DEF p
<1>2. Sets(job, job', t, NoMsg)
  BY JobStep DEF Top
<1>3. Sets(pc, pc', t, p)
  BY <1>1, PcStep
<1> QED
  BY <1>1, <1>2, <1>3, LateStep

LEMMA InnerPut ==
  ASSUME Stores, NEW X, X \subseteq Inner, NEW x \in Inner, NEW o \in Objects, Put(x, o)
  PROVE  Grown(X, x, o)
<1>1. \A y \in Inner : q'[y] = IF y = x THEN Append(q[x], o) ELSE q[y]
  BY InnerKinds DEF Put, Stores
<1>2. q[x] \in Seq(Objects)
  BY InnerKinds DEF Stores
<1>3. ToSet(Append(q[x], o)) = ToSet(q[x]) \cup {o}
  BY <1>2, AppendFacts
<1> QED
  BY <1>1, <1>3 DEF Grown

(* A queue of a writer is none of the queues that count.                   *)
LEMMA PutAside ==
  ASSUME Stores, NEW w \in Writers, NEW o, Put(w, o)
  PROVE  Kept(Inner)
BY InnerKinds DEF Put, Stores, Kept

LEMMA ShardsInner ==
  Shards \subseteq Inner /\ (Kept(Inner) => Kept(Shards)) /\ (q' = q => Kept(Inner))
BY InnerKinds DEF Kept

(* The counters that MessagesAccounted adds up, and what they have to do.  *)
Outcomes == {"received", "dropped", "shard_dropped", "decoded", "processed"}

LEMMA FlightFinite ==
  ASSUME IndInv, RejectedInv
  PROVE  /\ IsFiniteSet(InFlight) /\ Cardinality(InFlight) \in Nat
         /\ IsFiniteSet(DecodedInFlight) /\ Cardinality(DecodedInFlight) \in Nat
         /\ IsFiniteSet(rejected) /\ Cardinality(rejected) \in Nat
<1>1. InFlight \subseteq Msgs /\ DecodedInFlight \subseteq Msgs /\ rejected \subseteq Msgs
  BY DEF InFlight, DecodedInFlight, Carried, RejectedInv
<1>2. IsFiniteSet(InFlight) /\ IsFiniteSet(DecodedInFlight) /\ IsFiniteSet(rejected)
  BY <1>1, PipelineAssumption, FS_Subset
<1> QED
  BY <1>2, FS_CardinalityType

(* Sets of messages change by one.                                         *)
LEMMA OneLess ==
  ASSUME NEW S, IsFiniteSet(S), NEW m \in S
  PROVE  Cardinality(S \ {m}) \in Nat /\ Cardinality(S \ {m}) + 1 = Cardinality(S)
<1>1. Cardinality(S \ {m}) = Cardinality(S) - 1 /\ IsFiniteSet(S \ {m})
  BY FS_RemoveElement
<1>2. Cardinality(S) \in Nat /\ Cardinality(S \ {m}) \in Nat
  BY <1>1, FS_CardinalityType
<1> QED
  BY <1>1, <1>2

LEMMA OneMore ==
  ASSUME NEW S, IsFiniteSet(S), NEW m, m \notin S
  PROVE  Cardinality(S \cup {m}) \in Nat /\ Cardinality(S \cup {m}) = Cardinality(S) + 1
BY FS_AddElement, FS_CardinalityType

LEMMA OneFewer ==
  ASSUME NEW a \in Nat, NEW b \in Nat, NEW c \in Nat, NEW d \in Nat, NEW e \in Nat, NEW f \in Nat,
         f + 1 = d, a = b + c + d + e
  PROVE  a = (b + 1) + c + f + e
OBVIOUS

(* What one more on a counter does to those that are added up.             *)
LEMMA CountUp ==
  ASSUME IndInv
  PROVE  /\ \A c \in Outcomes : count[c] \in Nat
         /\ count' = count => \A c \in Outcomes : count'[c] = count[c]
         /\ \A k \in Counters \ Outcomes : Inc(k) => \A c \in Outcomes : count'[c] = count[c]
         /\ \A k \in Outcomes : Inc(k) =>
              \A c \in Outcomes : count'[c] = IF c = k THEN count[c] + 1 ELSE count[c]
         /\ Inc2("shard_dropped", "dropped") =>
              \A c \in Outcomes : count'[c] = IF c \in {"shard_dropped", "dropped"}
                                             THEN count[c] + 1 ELSE count[c]
<1>1. count \in [Counters -> Nat] /\ Outcomes \subseteq Counters
  BY DEF IndInv, StateOK, Counters, Outcomes
<1>2. ASSUME NEW k \in Counters, Inc(k), NEW c \in Outcomes
      PROVE  count'[c] = IF c = k THEN count[c] + 1 ELSE count[c]
  BY <1>1, <1>2 DEF Inc
<1>3. ASSUME Inc2("shard_dropped", "dropped"), NEW c \in Outcomes
      PROVE  count'[c] = IF c \in {"shard_dropped", "dropped"} THEN count[c] + 1 ELSE count[c]
  BY <1>1, <1>3 DEF Inc2, Counters
<1> QED
  BY <1>1, <1>2, <1>3

(* Nothing happens that is counted, or that moves a message ...            *)
LEMMA MessageKept ==
  ASSUME IndInv, RejectedInv, MessagesAccounted, shutting_down' = shutting_down,
         InFlight' = InFlight, DecodedInFlight' = DecodedInFlight, rejected' = rejected,
         \A c \in Outcomes : count'[c] = count[c]
  PROVE  MessagesAccounted'
<1>1. /\ Cardinality(InFlight)' = Cardinality(InFlight)
      /\ Cardinality(DecodedInFlight)' = Cardinality(DecodedInFlight)
      /\ Cardinality(rejected)' = Cardinality(rejected)
  OBVIOUS
<1>2. /\ count'["received"] = count["received"] /\ count'["dropped"] = count["dropped"]
      /\ count'["shard_dropped"] = count["shard_dropped"] /\ count'["decoded"] = count["decoded"]
      /\ count'["processed"] = count["processed"]
  BY DEF Outcomes
<1> QED
  BY <1>1, <1>2 DEF MessagesAccounted

(* ... one is received ...                                                 *)
LEMMA MessageIn ==
  ASSUME IndInv, RejectedInv, MessagesAccounted, shutting_down' = shutting_down,
         NEW m, m \notin InFlight, InFlight' = InFlight \cup {m}, DecodedInFlight' = DecodedInFlight,
         rejected' = rejected, Inc("received")
  PROVE  MessagesAccounted'
<1>1. /\ Cardinality(InFlight)' = Cardinality(InFlight) + 1
      /\ Cardinality(DecodedInFlight)' = Cardinality(DecodedInFlight)
      /\ Cardinality(rejected)' = Cardinality(rejected)
  BY FlightFinite, OneLess, OneMore
<1>2. /\ count'["received"] = count["received"] + 1
      /\ count'["dropped"] = count["dropped"]
      /\ count'["shard_dropped"] = count["shard_dropped"]
      /\ count'["decoded"] = count["decoded"]
      /\ count'["processed"] = count["processed"]
  BY CountUp DEF Outcomes
<1>3. /\ count["received"] \in Nat /\ count["dropped"] \in Nat /\ count["shard_dropped"] \in Nat
      /\ count["decoded"] \in Nat /\ count["processed"] \in Nat
  BY CountUp DEF Outcomes
<1>4. /\ Cardinality(InFlight) \in Nat /\ Cardinality(DecodedInFlight) \in Nat
      /\ Cardinality(rejected) \in Nat
  BY FlightFinite
<1> QED
  BY <1>1, <1>2, <1>3, <1>4 DEF MessagesAccounted

(* ... decoded ...                                                         *)
LEMMA MessageDecoded ==
  ASSUME IndInv, RejectedInv, MessagesAccounted, shutting_down' = shutting_down,
         NEW m, m \notin DecodedInFlight, DecodedInFlight' = DecodedInFlight \cup {m},
         InFlight' = InFlight,
         rejected' = rejected, Inc("decoded")
  PROVE  MessagesAccounted'
<1>1. /\ Cardinality(InFlight)' = Cardinality(InFlight)
      /\ Cardinality(DecodedInFlight)' = Cardinality(DecodedInFlight) + 1
      /\ Cardinality(rejected)' = Cardinality(rejected)
  BY FlightFinite, OneLess, OneMore
<1>2. /\ count'["received"] = count["received"]
      /\ count'["dropped"] = count["dropped"]
      /\ count'["shard_dropped"] = count["shard_dropped"]
      /\ count'["decoded"] = count["decoded"] + 1
      /\ count'["processed"] = count["processed"]
  BY CountUp DEF Outcomes
<1>3. /\ count["received"] \in Nat /\ count["dropped"] \in Nat /\ count["shard_dropped"] \in Nat
      /\ count["decoded"] \in Nat /\ count["processed"] \in Nat
  BY CountUp DEF Outcomes
<1>4. /\ Cardinality(InFlight) \in Nat /\ Cardinality(DecodedInFlight) \in Nat
      /\ Cardinality(rejected) \in Nat
  BY FlightFinite
<1> QED
  BY <1>1, <1>2, <1>3, <1>4 DEF MessagesAccounted

(* ... dropped before it was decoded ...                                   *)
LEMMA MessageDropped ==
  ASSUME IndInv, RejectedInv, MessagesAccounted, shutting_down' = shutting_down,
         NEW m \in InFlight, InFlight' = InFlight \ {m}, DecodedInFlight' = DecodedInFlight,
         rejected' = rejected, Inc("dropped")
  PROVE  MessagesAccounted'
<1>1. /\ Cardinality(InFlight)' + 1 = Cardinality(InFlight) /\ Cardinality(InFlight)' \in Nat
      /\ Cardinality(DecodedInFlight)' = Cardinality(DecodedInFlight)
      /\ Cardinality(rejected)' = Cardinality(rejected)
  BY FlightFinite, OneLess, OneMore
<1>2. /\ count'["received"] = count["received"]
      /\ count'["dropped"] = count["dropped"] + 1
      /\ count'["shard_dropped"] = count["shard_dropped"]
      /\ count'["decoded"] = count["decoded"]
      /\ count'["processed"] = count["processed"]
  BY CountUp DEF Outcomes
<1>3. /\ count["received"] \in Nat /\ count["dropped"] \in Nat /\ count["shard_dropped"] \in Nat
      /\ count["decoded"] \in Nat /\ count["processed"] \in Nat
  BY CountUp DEF Outcomes
<1>4. /\ Cardinality(InFlight) \in Nat /\ Cardinality(DecodedInFlight) \in Nat
      /\ Cardinality(rejected) \in Nat
  BY FlightFinite
<1>5. ~shutting_down =>
        /\ count["decoded"] = count["shard_dropped"] + count["processed"]
                                 + Cardinality(DecodedInFlight)
        /\ count["received"] = count["dropped"] + count["processed"]
                                  + Cardinality(InFlight) + Cardinality(rejected)
  BY DEF MessagesAccounted
<1>6. ~shutting_down =>
        count'["decoded"] = count'["shard_dropped"] + count'["processed"]
                              + Cardinality(DecodedInFlight)'
  BY ONLY <1>1, <1>2, <1>3, <1>4, <1>5
<1>7. ~shutting_down =>
        count["received"] = (count["dropped"] + 1) + count["processed"]
                              + Cardinality(InFlight)' + Cardinality(rejected)
  BY <1>1, <1>3, <1>4, <1>5, OneFewer
<1>8. ~shutting_down =>
        count'["received"] = count'["dropped"] + count'["processed"]
                               + Cardinality(InFlight)' + Cardinality(rejected)'
  BY ONLY <1>1, <1>2, <1>7
<1> QED
  BY <1>6, <1>8 DEF MessagesAccounted

(* ... or given up ...                                                     *)
LEMMA MessageRejected ==
  ASSUME IndInv, RejectedInv, MessagesAccounted, shutting_down' = shutting_down,
         NEW m \in InFlight, m \notin rejected, InFlight' = InFlight \ {m},
         DecodedInFlight' = DecodedInFlight,
         rejected' = rejected \cup {m}, count' = count
  PROVE  MessagesAccounted'
<1>1. /\ Cardinality(InFlight)' + 1 = Cardinality(InFlight) /\ Cardinality(InFlight)' \in Nat
      /\ Cardinality(DecodedInFlight)' = Cardinality(DecodedInFlight)
      /\ Cardinality(rejected)' = Cardinality(rejected) + 1
  BY FlightFinite, OneLess, OneMore
<1>2. /\ count'["received"] = count["received"]
      /\ count'["dropped"] = count["dropped"]
      /\ count'["shard_dropped"] = count["shard_dropped"]
      /\ count'["decoded"] = count["decoded"]
      /\ count'["processed"] = count["processed"]
  BY CountUp DEF Outcomes
<1>3. /\ count["received"] \in Nat /\ count["dropped"] \in Nat /\ count["shard_dropped"] \in Nat
      /\ count["decoded"] \in Nat /\ count["processed"] \in Nat
  BY CountUp DEF Outcomes
<1>4. /\ Cardinality(InFlight) \in Nat /\ Cardinality(DecodedInFlight) \in Nat
      /\ Cardinality(rejected) \in Nat
  BY FlightFinite
<1>5. ~shutting_down =>
        /\ count["decoded"] = count["shard_dropped"] + count["processed"]
                                 + Cardinality(DecodedInFlight)
        /\ count["received"] = count["dropped"] + count["processed"]
                                  + Cardinality(InFlight) + Cardinality(rejected)
  BY DEF MessagesAccounted
<1>6. ~shutting_down =>
        /\ count'["decoded"] = count'["shard_dropped"] + count'["processed"]
                                  + Cardinality(DecodedInFlight)'
        /\ count'["received"] = count'["dropped"] + count'["processed"]
                                   + Cardinality(InFlight)' + Cardinality(rejected)'
  BY ONLY <1>1, <1>2, <1>3, <1>4, <1>5
<1> QED
  BY <1>6 DEF MessagesAccounted

(* ... dropped afterwards ...                                              *)
LEMMA MessageRefused ==
  ASSUME IndInv, RejectedInv, MessagesAccounted, shutting_down' = shutting_down,
         NEW m \in InFlight, m \in DecodedInFlight, InFlight' = InFlight \ {m},
         DecodedInFlight' = DecodedInFlight \ {m}, rejected' = rejected, Inc2("shard_dropped", "dropped")
  PROVE  MessagesAccounted'
<1>1. /\ Cardinality(InFlight)' + 1 = Cardinality(InFlight) /\ Cardinality(InFlight)' \in Nat
      /\ Cardinality(DecodedInFlight)' + 1 = Cardinality(DecodedInFlight)
      /\ Cardinality(DecodedInFlight)' \in Nat
      /\ Cardinality(rejected)' = Cardinality(rejected)
  BY FlightFinite, OneLess, OneMore
<1>2. /\ count'["received"] = count["received"]
      /\ count'["dropped"] = count["dropped"] + 1
      /\ count'["shard_dropped"] = count["shard_dropped"] + 1
      /\ count'["decoded"] = count["decoded"]
      /\ count'["processed"] = count["processed"]
  BY CountUp DEF Outcomes
<1>3. /\ count["received"] \in Nat /\ count["dropped"] \in Nat /\ count["shard_dropped"] \in Nat
      /\ count["decoded"] \in Nat /\ count["processed"] \in Nat
  BY CountUp DEF Outcomes
<1>4. /\ Cardinality(InFlight) \in Nat /\ Cardinality(DecodedInFlight) \in Nat
      /\ Cardinality(rejected) \in Nat
  BY FlightFinite
<1> QED
  BY <1>1, <1>2, <1>3, <1>4 DEF MessagesAccounted

(* ... or processed.                                                       *)
LEMMA MessageDone ==
  ASSUME IndInv, RejectedInv, MessagesAccounted, shutting_down' = shutting_down,
         NEW m \in InFlight, m \in DecodedInFlight, InFlight' = InFlight \ {m},
         DecodedInFlight' = DecodedInFlight \ {m}, rejected' = rejected, Inc("processed")
  PROVE  MessagesAccounted'
<1>1. /\ Cardinality(InFlight)' + 1 = Cardinality(InFlight) /\ Cardinality(InFlight)' \in Nat
      /\ Cardinality(DecodedInFlight)' + 1 = Cardinality(DecodedInFlight)
      /\ Cardinality(DecodedInFlight)' \in Nat
      /\ Cardinality(rejected)' = Cardinality(rejected)
  BY FlightFinite, OneLess, OneMore
<1>2. /\ count'["received"] = count["received"]
      /\ count'["dropped"] = count["dropped"]
      /\ count'["shard_dropped"] = count["shard_dropped"]
      /\ count'["decoded"] = count["decoded"]
      /\ count'["processed"] = count["processed"] + 1
  BY CountUp DEF Outcomes
<1>3. /\ count["received"] \in Nat /\ count["dropped"] \in Nat /\ count["shard_dropped"] \in Nat
      /\ count["decoded"] \in Nat /\ count["processed"] \in Nat
  BY CountUp DEF Outcomes
<1>4. /\ Cardinality(InFlight) \in Nat /\ Cardinality(DecodedInFlight) \in Nat
      /\ Cardinality(rejected) \in Nat
  BY FlightFinite
<1> QED
  BY <1>1, <1>2, <1>3, <1>4 DEF MessagesAccounted

-----------------------------------------------------------------------------
(* The steps of the threads.                                               *)
LEMMA PopMessages ==
  ASSUME IndInv, RejectedInv, MessagesAccounted, NEW t \in Threads, Pop(t)
  PROVE  MessagesAccounted'
<1> DEFINE x == Input(t)
           o == Head(q[x])
<1>1. /\ t # Recv /\ pc[t] = "pop" /\ q[x] # <<>> /\ q' = [q EXCEPT ![x] = Tail(@)]
      /\ job' = [job EXCEPT ![t] = o[2]] /\ pc' = [pc EXCEPT ![t] = "work"]
      /\ shutting_down' = shutting_down /\ count' = count /\ rejected' = rejected
  BY DEF Pop, Goto, control
<1>2. Stores /\ ControlOK /\ OnceInv /\ HandOf(t)
  BY TypeParts DEF IndInv, HandInv, DataOK, OwnInv
<1>3. job[t] = NoMsg
  BY <1>1, <1>2 DEF HandOf, Idle
<1>4. /\ x \in Queues /\ (t \in Writers => x = t) /\ (t \in Shards => x = t)
      /\ (t \notin Writers => x \notin Writers) /\ (t \notin Shards => x \notin Shards)
  BY <1>1, Inputs, Names, QueueNames DEF Sources
<1> HIDE DEF x
<1>5. /\ \A y \in Queues : ToSet(q'[y]) = ToSet(q[y]) \ (IF y = x THEN {o} ELSE {})
      /\ \A y \in Queues : y # x => q'[y] = q[y]
      /\ o \in ToSet(q[x])
  BY <1>1, <1>2, <1>4, QueueTake DEF Stores
<1> HIDE DEF o
<1>6. Sets(job, job', t, o[2]) /\ Sets(pc, pc', t, "work")
  BY <1>1, <1>2, JobStep, PcStep
<1>7. InFlight' = InFlight
  <2>1. CASE t \in Writers
    <3>1. Kept(Inner)
      BY <1>4, <1>5, <2>1, InnerKinds DEF Kept
    <3>2. Same(job, job')
      BY <1>6, <2>1, InnerKinds, SetsNothing
    <3> QED
      BY <3>1, <3>2, WithinSame, Flights
  <2>2. CASE t \notin Writers
    <3>1. t \in Workers /\ x \in Inner
      BY <1>4, <2>2 DEF Workers, Inner
    <3>2. Shrunk(Inner, x, o)
      BY <1>5, InnerKinds DEF Shrunk
    <3> QED
      BY <1>3, <1>5, <1>6, <3>1, <3>2, WithinPop, Flights
  <2> QED
    BY <2>1, <2>2
<1>8. DecodedInFlight' = DecodedInFlight
  <2>1. \A y \in Shards : y \in Queues
    BY QueueNames
  <2>2. t \in Workers => late[t] = NoMsg
    BY <1>1, <1>3, Lates
  <2>3. CASE t \in Shards
    <3>1. t \in Workers /\ x = t
      BY <1>4, <2>3, InnerKinds
    <3>2. Shrunk(Shards, x, o)
      BY <1>5, <2>1 DEF Shrunk
    <3>3. Sets(late, late', t, o[2])
      BY <1>6, <2>3, LateStep
    <3> QED
      BY <1>5, <2>2, <2>3, <3>1, <3>2, <3>3, WithinPop, Flights
  <2>4. CASE t \notin Shards
    <3>1. Kept(Shards)
      BY <1>4, <1>5, <2>1, <2>4 DEF Kept
    <3>2. Sets(late, late', t, NoMsg)
      BY <1>6, <2>4, LateStep
    <3>3. Same(late, late')
      BY <2>2, <3>2, SetsNothing
    <3> QED
      BY <3>1, <3>3, WithinSame, Flights
  <2> QED
    BY <2>3, <2>4
<1> QED
  BY <1>1, <1>7, <1>8, CountUp, MessageKept

LEMMA ForwardMessages ==
  ASSUME IndInv, RejectedInv, MessagesAccounted, NEW t \in Sources,
         NEW x \in Types \cup {"raw"}, Forward(t, x)
  PROVE  MessagesAccounted'
<1>1. Stores /\ ControlOK /\ t \in Workers /\ t \in Threads /\ x \in Inner /\ HandOf(t)
  BY TypeParts, InnerKinds, Names DEF IndInv, DataOK, HandInv
<1>2. /\ pc[t] = "work" /\ Top(t) /\ shutting_down' = shutting_down /\ rejected' = rejected
      /\ \/ Put(x, Text(job[t])) /\ count' = count
         \/ Inc("dropped") /\ q' = q
  BY DEF Forward, control
<1>3. job[t] \in Msgs
  BY <1>1, <1>2 DEF HandOf, Idle
<1>4. Text(job[t]) \in Objects /\ Text(job[t])[2] = job[t]
  BY <1>3, Objs DEF Text
<1>5. Sets(job, job', t, NoMsg) /\ Sets(late, late', t, NoMsg)
  BY <1>1, <1>2, TopStep
<1>6. DecodedInFlight' = DecodedInFlight
  <2>1. Kept(Shards)
    BY <1>1, <1>2, QueueNames DEF Put, Stores, Kept
  <2>2. late[t] = NoMsg
    BY <1>1, Names, Lates
  <2>3. Same(late, late')
    BY <1>5, <2>2, SetsNothing
  <2> QED
    BY <2>1, <2>3, WithinSame, Flights
<1>7. CASE Put(x, Text(job[t])) /\ count' = count
  <2>1. Grown(Inner, x, Text(job[t]))
    BY <1>1, <1>4, <1>7, InnerPut
  <2>2. InFlight' = InFlight
    BY <1>1, <1>4, <1>5, <2>1, WithinPut, Flights
  <2> QED
    BY <1>2, <1>6, <1>7, <2>2, CountUp, MessageKept
<1>8. CASE Inc("dropped") /\ q' = q
  <2>1. Kept(Inner) /\ Alone(Inner, job, t, job[t])
    BY <1>1, <1>3, <1>8, Solo, ShardsInner DEF Alone
  <2>2. job[t] \in InFlight /\ InFlight' = InFlight \ {job[t]}
    BY <1>1, <1>3, <1>5, <2>1, WithinDrop, Flights
  <2> QED
    BY <1>2, <1>6, <1>8, <2>2, MessageDropped
<1> QED
  BY <1>2, <1>7, <1>8

(* A message that a decoder or a shard works on is nowhere else.           *)
LEMMA AloneLate ==
  ASSUME IndInv, NEW t \in Workers, NEW m \in Msgs, job[t] = m
  PROVE  Alone(Inner, job, t, m) /\ Alone(Shards, late, t, m)
<1>1. Alone(Inner, job, t, m)
  BY Solo DEF Alone
<1>2. \A u \in Workers : u # t => late[u] # m
  <2>1. m # NoMsg
    BY PipelineAssumption
  <2>2. \A u \in Workers : late[u] = job[u] \/ late[u] = NoMsg
    BY Lates
  <2> QED
    BY <1>1, <2>1, <2>2 DEF Alone
<1> QED
  BY <1>1, <1>2, ShardsInner DEF Alone

LEMMA DecoderMessages ==
  ASSUME IndInv, RejectedInv, MessagesAccounted, NEW d \in Decoders, Decoder(d), ~shutting_down
  PROVE  MessagesAccounted'
<1>1. Stores /\ ControlOK /\ d \in Workers /\ d \in Threads /\ d \notin Shards /\ HandOf(d)
  BY TypeParts, InnerKinds, Names DEF IndInv, DataOK, HandInv
<1>2. shutting_down' = shutting_down /\ pc[d] \notin Idle
  BY DEF Decoder, DecodeRejects, Decode, DecodeFirewall, FirewallPush, analysisd_push_decoded, control, Idle
<1>3. job[d] \in Msgs
  BY <1>1, <1>2 DEF HandOf
<1>4. late[d] = IF pc[d] = "push" THEN job[d] ELSE NoMsg
  BY Lates
<1>5. Alone(Inner, job, d, job[d]) /\ Alone(Shards, late, d, job[d])
  BY <1>1, <1>3, AloneLate
<1>6. CASE DecodeRejects(d)
  <2>1. /\ q' = q /\ Top(d) /\ count' = count /\ pc[d] = "work"
        /\ rejected' = rejected \cup {job[d]}
    BY <1>6 DEF DecodeRejects, flow
  <2>2. Sets(job, job', d, NoMsg) /\ Sets(late, late', d, NoMsg)
    BY <1>1, <2>1, TopStep
  <2>3. Kept(Inner) /\ Kept(Shards)
    BY <2>1, ShardsInner
  <2>4. job[d] \in InFlight /\ InFlight' = InFlight \ {job[d]}
    BY <1>1, <1>3, <1>5, <2>2, <2>3, WithinDrop, Flights
  <2>5. late[d] = NoMsg
    BY <1>4, <2>1
  <2>6. Same(late, late')
    BY <2>2, <2>5, SetsNothing
  <2>7. DecodedInFlight' = DecodedInFlight
    BY <2>3, <2>6, WithinSame, Flights
  <2>8. job[d] \notin rejected
    <3>1. freed[Text(job[d])] = 0
      BY <2>1, DecoderFacts
    <3> QED
      BY <3>1 DEF RejectedInv
  <2> QED
    BY <1>2, <2>1, <2>4, <2>7, <2>8, MessageRejected
<1>7. CASE Decode(d) \/ DecodeFirewall(d) \/ FirewallPush(d)
  <2>1. /\ job' = job /\ rejected' = rejected /\ pc[d] # "push"
        /\ \/ Inc("decoded") /\ pc' = [pc EXCEPT ![d] = "push"]
           \/ count' = count /\ pc' = [pc EXCEPT ![d] = "fw"]
    BY <1>7 DEF Decode, DecodeFirewall, FirewallPush, Goto
  <2>2. q' = q \/ Put("firewall", <<"fw", job[d]>>)
    BY <1>7 DEF Decode, DecodeFirewall, FirewallPush, flow
  <2>3. Kept(Inner) /\ Kept(Shards)
    BY <1>1, <2>2, PutAside, QueueNames, ShardsInner
  <2>4. Same(job, job')
    BY <2>1 DEF Same
  <2>5. InFlight' = InFlight
    BY <2>3, <2>4, WithinSame, Flights
  <2>6. Sets(job, job', d, job[d])
    BY <2>1 DEF Sets
  <2>7. late[d] = NoMsg
    BY <1>4, <2>1
  <2>8. CASE Inc("decoded") /\ pc' = [pc EXCEPT ![d] = "push"]
    <3>1. Sets(pc, pc', d, "push")
      BY <1>1, <2>8, PcStep
    <3>2. Sets(late, late', d, job[d])
      BY <1>1, <2>6, <3>1, LateStep
    <3>3. job[d] \notin DecodedInFlight /\ DecodedInFlight' = DecodedInFlight \cup {job[d]}
      BY <1>1, <1>3, <1>5, <2>3, <2>7, <3>2, WithinNew, Flights
    <3> QED
      BY <1>2, <2>1, <2>5, <2>8, <3>3, MessageDecoded
  <2>9. CASE count' = count /\ pc' = [pc EXCEPT ![d] = "fw"]
    <3>1. Sets(pc, pc', d, "fw")
      BY <1>1, <2>9, PcStep
    <3>2. Sets(late, late', d, NoMsg)
      BY <1>1, <2>6, <3>1, LateStep
    <3>3. Same(late, late')
      BY <2>7, <3>2, SetsNothing
    <3>4. DecodedInFlight' = DecodedInFlight
      BY <2>3, <3>3, WithinSame, Flights
    <3> QED
      BY <1>2, <2>1, <2>5, <2>9, <3>4, CountUp, MessageKept
  <2> QED
    BY <2>1, <2>8, <2>9
<1>8. CASE analysisd_push_decoded(d)
  <2> DEFINE s == ShardOf[job[d]]
  <2>1. /\ Top(d) /\ pc[d] = "push" /\ rejected' = rejected
        /\ \/ Put(s, Event(job[d])) /\ count' = count
           \/ Inc2("shard_dropped", "dropped") /\ q' = q
    BY <1>8 DEF analysisd_push_decoded
  <2>2. s \in Shards /\ s \in Inner /\ Event(job[d]) \in Objects /\ Event(job[d])[2] = job[d]
    BY <1>3, PipelineAssumption, InnerKinds, Objs DEF Event
  <2>3. Sets(job, job', d, NoMsg) /\ Sets(late, late', d, NoMsg)
    BY <1>1, <2>1, TopStep
  <2>4. late[d] = job[d]
    BY <1>4, <2>1
  <2> HIDE DEF s
  <2>5. CASE Put(s, Event(job[d])) /\ count' = count
    <3>1. Grown(Inner, s, Event(job[d])) /\ Grown(Shards, s, Event(job[d]))
      BY <1>1, <2>2, <2>5, InnerPut, ShardsInner
    <3>2. InFlight' = InFlight
      BY <1>1, <2>2, <2>3, <3>1, WithinPut, Flights
    <3>3. DecodedInFlight' = DecodedInFlight
      BY <1>1, <2>2, <2>3, <2>4, <3>1, WithinPut, Flights
    <3> QED
      BY <1>2, <2>1, <2>5, <3>2, <3>3, CountUp, MessageKept
  <2>6. CASE Inc2("shard_dropped", "dropped") /\ q' = q
    <3>1. Kept(Inner) /\ Kept(Shards)
      BY <2>6, ShardsInner
    <3>2. job[d] \in InFlight /\ InFlight' = InFlight \ {job[d]}
      BY <1>1, <1>3, <1>5, <2>3, <3>1, WithinDrop, Flights
    <3>3. job[d] \in DecodedInFlight /\ DecodedInFlight' = DecodedInFlight \ {job[d]}
      BY <1>1, <1>3, <1>5, <2>3, <2>4, <3>1, WithinDrop, Flights
    <3> QED
      BY <1>2, <2>1, <2>6, <3>2, <3>3, MessageRefused
  <2> QED
    BY <2>1, <2>5, <2>6
<1> QED
  BY <1>6, <1>7, <1>8 DEF Decoder

LEMMA ShardMessages ==
  ASSUME IndInv, RejectedInv, MessagesAccounted, NEW s \in Shards, Process(s)
  PROVE  MessagesAccounted'
<1>1. Stores /\ ControlOK /\ s \in Workers /\ s \in Threads
  BY TypeParts, InnerKinds, Names DEF IndInv, DataOK
<1>2. shutting_down' = shutting_down /\ pc[s] \notin Idle /\ rejected' = rejected
  BY DEF Process, StatAlert, RuleAlert, OS_AddEvent, ArchiveLive, ArchiveCopy, Finish, control, Idle
<1>3. job[s] \in Msgs
  BY <1>2, ShardFacts
<1>4. {"alerts_written", "alerts_dropped", "archives_dropped"} \subseteq Counters \ Outcomes
  BY DEF Counters, Outcomes
<1>5. late[s] = job[s]
  BY Lates
<1>6. CASE Finish(s)
  <2>1. q' = q /\ Top(s) /\ Inc("processed")
    BY <1>6 DEF Finish, flow
  <2>2. Sets(job, job', s, NoMsg) /\ Sets(late, late', s, NoMsg)
    BY <1>1, <2>1, TopStep
  <2>3. Alone(Inner, job, s, job[s]) /\ Alone(Shards, late, s, job[s])
    BY <1>1, <1>3, AloneLate
  <2>4. Kept(Inner) /\ Kept(Shards)
    BY <2>1, ShardsInner
  <2>5. job[s] \in InFlight /\ InFlight' = InFlight \ {job[s]}
    BY <1>1, <1>3, <2>2, <2>3, <2>4, WithinDrop, Flights
  <2>6. job[s] \in DecodedInFlight /\ DecodedInFlight' = DecodedInFlight \ {job[s]}
    BY <1>1, <1>3, <1>5, <2>2, <2>3, <2>4, WithinDrop, Flights
  <2> QED
    BY <1>2, <2>1, <2>5, <2>6, MessageDone
<1>7. CASE StatAlert(s) \/ RuleAlert(s) \/ OS_AddEvent(s) \/ ArchiveLive(s) \/ ArchiveCopy(s)
  <2>1. job' = job /\ \E p : pc' = [pc EXCEPT ![s] = p]
    BY <1>7 DEF StatAlert, RuleAlert, OS_AddEvent, ArchiveLive, ArchiveCopy, Goto
  <2>2. \/ count' = count
        \/ Inc("alerts_written") \/ Inc("alerts_dropped") \/ Inc("archives_dropped")
    BY <1>7 DEF StatAlert, RuleAlert, Enqueue, OS_AddEvent, ArchiveLive, ArchiveCopy
  <2>3. q' = q \/ \E w \in Writers : \E o : Put(w, o)
    BY <1>7, QueueNames DEF StatAlert, RuleAlert, Enqueue, OS_AddEvent, ArchiveLive, ArchiveCopy, flow
  <2>4. Kept(Inner) /\ Kept(Shards)
    BY <1>1, <2>3, PutAside, ShardsInner
  <2>5. Same(job, job')
    BY <2>1 DEF Same
  <2>6. InFlight' = InFlight
    BY <2>4, <2>5, WithinSame, Flights
  <2>7. DecodedInFlight' = DecodedInFlight
    <3>1. PICK p : pc' = [pc EXCEPT ![s] = p]
      BY <2>1
    <3>2. Sets(job, job', s, job[s]) /\ Sets(pc, pc', s, p)
      BY <1>1, <2>1, <3>1, PcStep DEF Sets
    <3>3. Sets(late, late', s, job[s])
      BY <1>1, <3>2, LateStep
    <3>4. Same(late, late')
      BY <1>5, <3>3, SetsNothing
    <3> QED
      BY <2>4, <3>4, WithinSame, Flights
  <2>8. \A c \in Outcomes : count'[c] = count[c]
    BY <1>4, <2>2, CountUp
  <2> QED
    BY <1>2, <2>6, <2>7, <2>8, MessageKept
<1> QED
  BY <1>6, <1>7 DEF Process

LEMMA WriteMessages ==
  ASSUME IndInv, RejectedInv, MessagesAccounted, NEW w \in Writers, Write(w)
  PROVE  MessagesAccounted'
<1>1. /\ q' = q /\ Top(w) /\ Inc(WriterCounter(w)) /\ rejected' = rejected
      /\ shutting_down' = shutting_down
  BY DEF Write, flow, control
<1>2. WriterCounter(w) \in Counters \ Outcomes
  BY DEF WriterCounter, Counters, Outcomes, Writers
<1>3. w \in Threads /\ w \notin Workers /\ ControlOK
  BY Names, InnerKinds, TypeParts DEF IndInv
<1>4. Sets(job, job', w, NoMsg) /\ Sets(late, late', w, NoMsg)
  BY <1>1, <1>3, TopStep
<1>5. Same(job, job') /\ Same(late, late') /\ Kept(Inner) /\ Kept(Shards)
  BY <1>1, <1>3, <1>4, SetsNothing, ShardsInner
<1>6. InFlight' = InFlight /\ DecodedInFlight' = DecodedInFlight
  BY <1>5, WithinSame, Flights
<1> QED
  BY <1>1, <1>2, <1>6, CountUp, MessageKept

LEMMA ReceiveMessages ==
  ASSUME IndInv, RejectedInv, MessagesAccounted, NEW m \in Msgs, Receive(m)
  PROVE  MessagesAccounted'
<1>1. /\ pc[Recv] = "pop" /\ m \notin arrived /\ q' = q /\ job' = [job EXCEPT ![Recv] = m]
      /\ Inc("received") /\ shutting_down' = shutting_down /\ rejected' = rejected
      /\ pc' = [pc EXCEPT ![Recv] = "work"]
  BY DEF Receive, Goto, flow, control
<1>2. /\ Recv \in Workers /\ Recv \in Threads /\ Recv \notin Shards /\ Recv \notin Decoders
      /\ ControlOK /\ HandOf(Recv) /\ BornInv /\ PlaceInv
  BY Names, InnerKinds, TypeParts DEF Sources, IndInv, HandInv, OwnInv
<1>3. job[Recv] = NoMsg /\ late[Recv] = NoMsg
  BY <1>1, <1>2, Lates DEF HandOf, Idle
<1>4. Sets(job, job', Recv, m) /\ Sets(pc, pc', Recv, "work")
  BY <1>1, <1>2, JobStep, PcStep
<1>5. Sets(late, late', Recv, NoMsg)
  BY <1>2, <1>4, LateStep
<1>6. Kept(Inner) /\ Kept(Shards) /\ Same(late, late')
  BY <1>1, <1>3, <1>5, SetsNothing, ShardsInner
<1>7. Alone(Inner, job, Recv, m)
  <2>1. \A u \in Workers : job[u] # m
    BY <1>1, <1>2, InnerKinds, PipelineAssumption DEF BornInv
  <2>2. \A x \in Inner : ToSet(q[x]) \subseteq born
    BY <1>2, Apart, InnerKinds DEF Live
  <2>3. \A x \in Inner : \A o \in ToSet(q[x]) : o[2] # m
    BY <1>1, <1>2, <2>2 DEF BornInv
  <2> QED
    BY <2>1, <2>3 DEF Alone
<1>8. m \notin InFlight /\ InFlight' = InFlight \cup {m}
  BY <1>2, <1>3, <1>4, <1>6, <1>7, WithinNew, Flights
<1>9. DecodedInFlight' = DecodedInFlight
  BY <1>6, WithinSame, Flights
<1> QED
  BY <1>1, <1>8, <1>9, MessageIn

LEMMA PopNullMessages ==
  ASSUME IndInv, RejectedInv, MessagesAccounted, NEW t \in Threads, PopNull(t)
  PROVE  MessagesAccounted'
<1>1. /\ q' = q /\ job' = job /\ count' = count /\ shutting_down' = shutting_down
      /\ rejected' = rejected /\ pc[t] = "pop" /\ pc' = [pc EXCEPT ![t] = "exited"]
  BY DEF PopNull, Goto, flow, control
<1>2. ControlOK /\ job[t] = NoMsg
  BY <1>1, TypeParts DEF IndInv, HandInv, HandOf, Idle
<1>3. Sets(job, job', t, NoMsg) /\ Sets(pc, pc', t, "exited")
  BY <1>1, <1>2, PcStep DEF Sets
<1>4. Sets(late, late', t, NoMsg)
  BY <1>3, LateStep
<1>5. t \in Workers => late[t] = NoMsg
  BY <1>1, <1>2, Lates
<1>6. Kept(Inner) /\ Kept(Shards) /\ Same(job, job') /\ Same(late, late')
  BY <1>1, <1>2, <1>3, <1>4, <1>5, SetsNothing, ShardsInner
<1>7. InFlight' = InFlight /\ DecodedInFlight' = DecodedInFlight
  BY <1>6, WithinSame, Flights
<1> QED
  BY <1>1, <1>7, CountUp, MessageKept

LEMMA NextMessages ==
  ASSUME IndInv, RejectedInv, MessagesAccounted, [Next]_vars
  PROVE  MessagesAccounted'
<1>1. CASE shutting_down'
  BY <1>1 DEF MessagesAccounted
<1>2. HandInv
  BY DEF IndInv
<1>3. ASSUME NEW t \in Threads, Step(t), ~shutting_down'
      PROVE  MessagesAccounted'
  <2>1. CASE Pop(t)
    BY <2>1, PopMessages
  <2>2. CASE PopNull(t)
    BY <2>2, PopNullMessages
  <2>3. CASE t = Recv /\ Receiver
    <3>1. ~ReceiveClosed
      BY <1>3 DEF ReceiveClosed, control
    <3>2. CASE PushRaw
      BY <3>2, ForwardMessages, Names DEF PushRaw
    <3>3. ASSUME NEW m \in Msgs, Receive(m)
          PROVE  MessagesAccounted'
      BY <3>3, ReceiveMessages
    <3> QED
      BY <2>3, <3>1, <3>2, <3>3 DEF Receiver
  <2>4. CASE t \in Demuxers /\ Demux(t)
    <3>1. Forward(t, TypeOf[job[t]]) /\ t \in Sources
      BY <2>4, Names DEF Demux
    <3>2. job[t] \in Msgs
      BY <1>2, <3>1 DEF Forward, HandInv, HandOf, Idle
    <3>3. TypeOf[job[t]] \in Types \cup {"raw"}
      BY <3>2, PipelineAssumption
    <3> QED
      BY <3>1, <3>3, ForwardMessages
  <2>5. CASE t \in Decoders /\ Decoder(t)
    <3>1. ~shutting_down
      BY <1>3, <2>5 DEF Decoder, DecodeRejects, Decode, DecodeFirewall, FirewallPush,
                        analysisd_push_decoded, control
    <3> QED
      BY <2>5, <3>1, DecoderMessages
  <2>6. CASE t \in Shards /\ Process(t)
    BY <2>6, ShardMessages
  <2>7. CASE t \in Writers /\ Write(t)
    BY <2>7, WriteMessages
  <2> QED
    BY <1>3, <2>1, <2>2, <2>3, <2>4, <2>5, <2>6, <2>7 DEF Step
<1>4. CASE RequestShutdown
  BY <1>1, <1>4 DEF RequestShutdown
<1>5. CASE Main
  <2>1. main > 0 /\ shutting_down' = shutting_down
    BY <1>5 DEF Main, JoinStage, JoinTimeout, analysisd_drain_queues, DestroyAll
  <2>2. shutting_down
    BY <2>1 DEF IndInv, StageInv
  <2> QED
    BY <1>1, <2>1, <2>2
<1>6. CASE UNCHANGED vars
  <2>1. /\ q' = q /\ job' = job /\ pc' = pc /\ count' = count /\ shutting_down' = shutting_down
        /\ rejected' = rejected
    BY <1>6 DEF vars, flow
  <2>2. late' = late
    BY <2>1 DEF late, Workers, Threads, Writers, Recv
  <2>3. Kept(Inner) /\ Kept(Shards) /\ Same(job, job') /\ Same(late, late')
    BY <2>1, <2>2, ShardsInner DEF Same
  <2>4. InFlight' = InFlight /\ DecodedInFlight' = DecodedInFlight
    BY <2>3, WithinSame, Flights
  <2> QED
    BY <2>1, <2>4, CountUp, MessageKept
<1> QED
  BY <1>1, <1>3, <1>4, <1>5, <1>6 DEF Next, Terminated

(* MessagesAccounted: until the shutdown, every datagram that was counted  *)
(* as decoded is counted as processed or as dropped at its shard's queue,  *)
(* or is between the decoder and the end of its rule matching; and every   *)
(* one that was counted as received is counted as dropped or processed, is *)
(* in flight, or is one that a decoder gave up without counting it.        *)
THEOREM MessagesCounted == Spec => []MessagesAccounted
<1>1. Init => MessagesAccounted
  <2> SUFFICES ASSUME Init
               PROVE  MessagesAccounted
    OBVIOUS
  <2>1. \A x \in Queues : ToSet(q[x]) = {}
    BY EmptySet, Zenon DEF Init
  <2>2. \A t \in Threads : job[t] \notin Msgs
    BY PipelineAssumption DEF Init
  <2>3. InFlight = {}
    BY <2>1, <2>2 DEF InFlight, Carried
  <2>4. DecodedInFlight = {}
    BY <2>1, <2>2, Names, QueueNames DEF DecodedInFlight, Carried
  <2>5. Cardinality(InFlight) = 0 /\ Cardinality(DecodedInFlight) = 0 /\ Cardinality(rejected) = 0
    BY <2>3, <2>4, FS_EmptySet DEF Init
  <2>6. /\ count["received"] = 0 /\ count["dropped"] = 0 /\ count["shard_dropped"] = 0
        /\ count["decoded"] = 0 /\ count["processed"] = 0
    BY DEF Init, Counters
  <2> QED
    BY <2>5, <2>6 DEF MessagesAccounted
<1>2. IndInv /\ RejectedInv /\ MessagesAccounted /\ [Next]_vars => MessagesAccounted'
  BY NextMessages
<1> QED
  BY <1>1, <1>2, Invariance, RejectedOnce, PTL DEF Spec
-----------------------------------------------------------------------------
(* Nobody waits for ever.                                                  *)

(* The shutdown closes what it has to, and no thread leaves without it.    *)
CloseInv ==
    /\ shutting_down => main > 0
    /\ \A i \in 1 .. 5 : i < main => Stages[i].close \subseteq down
    /\ \A t \in Threads : pc[t] = "exited" => shutting_down

(* The threads leave the main thread's state alone, and leave their loop   *)
(* only in a shutdown.                                                     *)
LEMMA StepControl ==
  ASSUME IndInv, NEW t \in Threads, Step(t)
  PROVE  /\ UNCHANGED <<control, down>>
         /\ \A u \in Threads : pc'[u] = "exited" => pc[u] = "exited" \/ shutting_down
<1> DEFINE Goes(p) == /\ UNCHANGED <<control, down>> /\ pc' = [pc EXCEPT ![t] = p]
                      /\ p = "exited" => shutting_down
<1>1. DOMAIN pc = Threads /\ StageInv
  BY DEF IndInv, StateOK
<1>2. ASSUME NEW p, Goes(p)
      PROVE  /\ UNCHANGED <<control, down>>
             /\ \A u \in Threads : pc'[u] = "exited" => pc[u] = "exited" \/ shutting_down
  <2>1. \A u \in Threads : pc'[u] = IF u = t THEN p ELSE pc[u]
    BY <1>1, <1>2
  <2> QED
    BY <1>2, <2>1
<1>3. ASSUME Top(t), UNCHANGED <<control, down>>
      PROVE  \E p : Goes(p)
  <2>1. Goes(IF shutting_down THEN "exited" ELSE "pop")
    BY <1>3 DEF Top, Goto
  <2> QED
    BY <2>1
<1>4. CASE Pop(t)
  <2>1. Goes("work")
    BY <1>4 DEF Pop, Goto
  <2> QED
    BY <1>2, <2>1
<1>5. CASE PopNull(t)
  <2>1. \A i \in 1 .. 5 : i < main => main > 0
    BY DEF IndInv, StateOK
  <2>2. shutting_down
    BY <1>1, <1>5, <2>1 DEF StageInv, PopNull
  <2>3. Goes("exited")
    BY <1>5, <2>2 DEF PopNull, Goto, flow
  <2> QED
    BY <1>2, <2>3
<1>6. CASE t = Recv /\ Receiver
  <2>1. CASE ReceiveClosed
    BY <1>2, <1>3, <1>6, <2>1 DEF ReceiveClosed, flow
  <2>2. CASE PushRaw
    BY <1>2, <1>3, <1>6, <2>2 DEF PushRaw, Forward
  <2>3. CASE \E m \in Msgs : Receive(m)
    <3>1. Goes("work")
      BY <1>6, <2>3 DEF Receive, Goto, flow
    <3> QED
      BY <1>2, <3>1
  <2> QED
    BY <1>6, <2>1, <2>2, <2>3 DEF Receiver
<1>7. CASE t \in Demuxers /\ Demux(t)
  BY <1>2, <1>3, <1>7 DEF Demux, Forward
<1>8. CASE t \in Decoders /\ Decoder(t)
  <2>1. CASE DecodeRejects(t)
    BY <1>2, <1>3, <2>1 DEF DecodeRejects, flow
  <2>2. CASE Decode(t)
    <3>1. Goes("push")
      BY <2>2 DEF Decode, Goto, flow
    <3> QED
      BY <1>2, <3>1
  <2>3. CASE DecodeFirewall(t)
    <3>1. Goes("fw")
      BY <2>3 DEF DecodeFirewall, Goto, flow
    <3> QED
      BY <1>2, <3>1
  <2>4. CASE FirewallPush(t)
    <3>1. Goes("push")
      BY <2>4 DEF FirewallPush, Goto
    <3> QED
      BY <1>2, <3>1
  <2>5. CASE analysisd_push_decoded(t)
    BY <1>2, <1>3, <2>5 DEF analysisd_push_decoded
  <2> QED
    BY <1>8, <2>1, <2>2, <2>3, <2>4, <2>5 DEF Decoder
<1>9. CASE t \in Shards /\ Process(t)
  <2>1. CASE StatAlert(t)
    <3>1. Goes("checked")
      BY <2>1 DEF StatAlert, Goto
    <3> QED
      BY <1>2, <3>1
  <2>2. CASE RuleAlert(t)
    <3>1. Goes("logged")
      BY <2>2 DEF RuleAlert, Goto
    <3> QED
      BY <1>2, <3>1
  <2>3. CASE OS_AddEvent(t)
    <3>1. Goes("kept")
      BY <2>3 DEF OS_AddEvent, Goto, flow
    <3> QED
      BY <1>2, <3>1
  <2>4. CASE ArchiveLive(t)
    <3>1. Goes("archived")
      BY <2>4 DEF ArchiveLive, Goto
    <3> QED
      BY <1>2, <3>1
  <2>5. CASE ArchiveCopy(t)
    <3>1. Goes("archived")
      BY <2>5 DEF ArchiveCopy, Goto
    <3> QED
      BY <1>2, <3>1
  <2>6. CASE Finish(t)
    BY <1>2, <1>3, <2>6 DEF Finish, flow
  <2> QED
    BY <1>9, <2>1, <2>2, <2>3, <2>4, <2>5, <2>6 DEF Process
<1>10. CASE t \in Writers /\ Write(t)
  BY <1>2, <1>3, <1>10 DEF Write, flow
<1> QED
  BY <1>4, <1>5, <1>6, <1>7, <1>8, <1>9, <1>10 DEF Step

LEMMA NextCloseInv == IndInv /\ CloseInv /\ [Next]_vars => CloseInv'
<1> SUFFICES ASSUME IndInv, CloseInv, [Next]_vars
             PROVE  CloseInv'
  OBVIOUS
<1>1. /\ shutting_down => main > 0
      /\ \A i \in 1 .. 5 : i < main => Stages[i].close \subseteq down
      /\ \A t \in Threads : pc[t] = "exited" => shutting_down
  BY DEF CloseInv
<1>2. ASSUME UNCHANGED <<shutting_down, main, down>>,
             \A t \in Threads : pc'[t] = "exited" => pc[t] = "exited" \/ shutting_down
      PROVE  CloseInv'
  BY <1>1, <1>2 DEF CloseInv, Stages, Recv, Writers
<1>3. ASSUME main \in 0 .. 7, main' = main + 1, shutting_down', pc' = pc,
             main \in 1 .. 5 => down' = down \cup Stages[main].close,
             main \notin 1 .. 5 => down' = down
      PROVE  CloseInv'
  <2>1. \A i \in 1 .. 5 : i < main + 1 => i < main \/ (i = main /\ main \in 1 .. 5)
    BY <1>3
  <2>2. \A i \in 1 .. 5 : i < main + 1 => Stages[i].close \subseteq down'
    BY <1>1, <1>3, <2>1
  <2>3. main + 1 > 0
    BY <1>3
  <2> QED
    BY <1>3, <2>2, <2>3 DEF CloseInv, Stages, Recv, Writers
<1>4. CASE \E t \in Threads : Step(t)
  BY <1>2, <1>4, StepControl DEF control
<1>5. CASE RequestShutdown
  <2>1. main = 0 /\ main' = 1 /\ shutting_down' /\ pc' = pc /\ down' = down
    BY <1>5 DEF RequestShutdown, flow
  <2> QED
    BY <1>3, <2>1
<1>6. CASE Main
  <2>1. \A n \in 1 .. 8 : n > 0
    OBVIOUS
  <2>2. StageInv /\ main \in 0 .. 8
    BY DEF IndInv, StateOK
  <2>3. /\ main \in 1 .. 7 /\ main' = main + 1 /\ shutting_down' = shutting_down /\ pc' = pc
        /\ main \in 1 .. 5 => down' = down \cup Stages[main].close
        /\ main \notin 1 .. 5 => down' = down
    <3>1. CASE JoinStage \/ JoinTimeout
      BY <3>1 DEF JoinStage, JoinTimeout
    <3>2. CASE analysisd_drain_queues \/ DestroyAll
      BY <3>2 DEF analysisd_drain_queues, DestroyAll, flow
    <3> QED
      BY <1>6, <3>1, <3>2 DEF Main
  <2>4. shutting_down'
    BY <2>1, <2>2, <2>3 DEF StageInv
  <2> QED
    BY <1>3, <2>3, <2>4
<1>7. CASE UNCHANGED vars
  BY <1>2, <1>7 DEF vars, flow
<1> QED
  BY <1>4, <1>5, <1>6, <1>7 DEF Next, Terminated

(* NoGridlock: in a state in which every thread waits, for a datagram, an  *)
(* item or room, or has left, either the main thread can go on with the    *)
(* shutdown, or none was asked for and nothing is in the pipeline.         *)
THEOREM NobodyWaitsForever == Spec => []NoGridlock
<1>1. Init => CloseInv
  <2> SUFFICES ASSUME Init
               PROVE  CloseInv
    OBVIOUS
  <2>1. \A i \in 1 .. 5 : ~(i < 0)
    OBVIOUS
  <2>2. main = 0 /\ ~shutting_down /\ \A t \in Threads : pc[t] = "pop"
    BY DEF Init
  <2> QED
    BY <2>1, <2>2 DEF CloseInv
<1>2. IndInv /\ CloseInv => NoGridlock
  <2> SUFFICES ASSUME IndInv, CloseInv, Alive, \A t \in Threads : Waits(t)
               PROVE  /\ shutting_down => ~MainWaits
                      /\ ~shutting_down => \A x \in Queues : q[x] = <<>>
                      /\ ~shutting_down => \A t \in Threads : hand[t] = {}
    BY DEF NoGridlock
  <2>1. ControlOK /\ StageInv /\ HandInv /\ main \in 0 .. 7 /\ \A i \in 1 .. 5 : i < main => main > 0
    <3>1. ControlOK /\ StageInv /\ HandInv
      BY TypeParts DEF IndInv
    <3> QED
      BY <3>1 DEF Alive, ControlOK
  <2>2. /\ shutting_down => main > 0
        /\ \A i \in 1 .. 5 : i < main => Stages[i].close \subseteq down
        /\ \A t \in Threads : pc[t] = "exited" => shutting_down
    BY DEF CloseInv
  <2>3. \A t \in Threads : \/ pc[t] = "exited"
                           \/ t = Recv /\ pc[t] = "pop" /\ ~shutting_down
                           \/ t # Recv /\ pc[t] = "pop" /\ q[Input(t)] = <<>> /\ Input(t) \notin down
                           \/ pc[t] = "fw" /\ ~Room("firewall") /\ "firewall" \notin down
    BY DEF Waits
  <2>4. "firewall" \in Threads /\ "firewall" # Recv /\ pc["firewall"] # "fw" /\ Input("firewall") = "firewall"
    BY <2>1, Names, QueueNames, Inputs, LabelFacts DEF HandInv, HandOf
  <2>5. ASSUME NEW t \in Threads, pc[t] = "fw", ~Room("firewall"), "firewall" \notin down
        PROVE  Stuck(t)
    <3>1. q["firewall"] # <<>>
      <4>1. Len(<<>>) = 0 /\ 0 < Capacity
        BY EmptySet, PipelineAssumption
      <4> QED
        BY <2>5, <4>1 DEF Room
    <3>2. pc["firewall"] = "exited"
      BY <2>3, <2>4, <3>1
    <3> QED
      BY <2>5, <3>2 DEF Stuck
  <2>6. ASSUME ~shutting_down
        PROVE  (\A x \in Queues : q[x] = <<>>) /\ \A t \in Threads : hand[t] = {}
    <3>1. ~(\E t \in Threads : pc[t] = "exited") /\ down = {}
      BY <2>1, <2>2, <2>6 DEF StageInv
    <3>2. \A t \in Threads : pc[t] # "fw"
      BY <2>3, <2>4, <2>5, <3>1 DEF Stuck
    <3>3. \A t \in Threads : pc[t] = "pop" /\ (t # Recv => q[Input(t)] = <<>>)
      BY <2>3, <3>1, <3>2
    <3>4. \A t \in Threads : hand[t] = {}
      BY <2>1, <3>3 DEF HandInv, HandOf, Idle
    <3>5. \A x \in Queues : \E t \in Threads : t # Recv /\ Input(t) = x
      <4>1. \E t \in Threads : t # Recv /\ Input(t) = "raw"
        BY StagesStaffed, Names, Inputs
      <4>2. \A x \in Types : \E t \in Threads : t # Recv /\ Input(t) = x
        <5> TAKE x \in Types
        <5>1. PICK d \in Decoders : DecoderType[d] = x
          BY StagesStaffed
        <5>2. Input(d) = x /\ d \in Threads /\ d # Recv
          BY <5>1, Names DEF Input
        <5> QED
          BY <5>2
      <4>3. \A x \in Shards \cup Writers : x \in Threads /\ x # Recv /\ Input(x) = x
        BY Names, Inputs
      <4> QED
        BY <4>1, <4>2, <4>3 DEF Queues
    <3> QED
      BY <3>3, <3>4, <3>5
  <2>7. ASSUME shutting_down
        PROVE  ~MainWaits
    <3>1. main > 0 /\ main \notin {0, 8}
      BY <2>1, <2>2, <2>7
    <3>2. ASSUME main \in 1 .. 5, NEW t \in Stages[main].join
          PROVE  pc[t] = "exited" \/ Stuck(t)
      <4>1. t \in Threads
        BY <3>2, StageFacts
      <4>2. ASSUME t # Recv
            PROVE  Input(t) \in down
        <5>1. /\ main = 1 => t \in {Recv}
              /\ main = 2 => t \in Demuxers
              /\ main = 3 => t \in Decoders
              /\ main = 4 => t \in Shards
              /\ main = 5 => t \in Writers
          BY <3>2 DEF Stages
        <5>2. /\ Stages[1].close = {"raw"} /\ Stages[2].close = Types
              /\ Stages[3].close = Shards /\ Stages[4].close = Writers
          BY DEF Stages
        <5>3. /\ main = 2 => "raw" \in down
              /\ main = 3 => Types \subseteq down
              /\ main = 4 => Shards \subseteq down
              /\ main = 5 => Writers \subseteq down
          <6>1. \A i \in 1 .. 4 : main = i + 1 => Stages[i].close \subseteq down
            BY <2>2
          <6> QED
            BY <5>2, <6>1
        <5>4. main \in {2, 3, 4, 5}
          BY <3>2, <4>2, <5>1
        <5> QED
          BY <5>1, <5>3, <5>4, Inputs
      <4> QED
        BY <2>3, <2>5, <2>7, <4>1, <4>2
    <3> QED
      BY <3>1, <3>2 DEF MainWaits
  <2> QED
    BY <2>6, <2>7
<1>3. Spec => []CloseInv
  BY <1>1, NextCloseInv, Invariance, PTL DEF Spec
<1> QED
  BY <1>2, <1>3, Invariance, PTL
-----------------------------------------------------------------------------
(* Everything moves on.                                                    *)

(* How far the objects in a place have come.                               *)
Depth(p) == CASE p[1] = "hand" -> (CASE p[2] = Recv -> 1
                                     [] p[2] \in Demuxers -> 3
                                     [] p[2] \in Decoders -> 5
                                     [] p[2] \in Shards -> 7
                                     [] OTHER -> 9)
              [] p[1] = "queue" -> (CASE p[2] = "raw" -> 2
                                      [] p[2] \in Types -> 4
                                      [] p[2] \in Shards -> 6
                                      [] OTHER -> 8)
              [] OTHER -> 8

Located ==
    /\ \A o \in Objects : o \notin born => Position(o) = 0
    /\ \A o \in Objects : o \in born /\ freed[o] # 0 => Position(o) = 10
    /\ \A p \in Places : \A o \in At(p) : Position(o) = Depth(p)

LEMMA Depths ==
  /\ Depth(<<"hand", Recv>>) = 1 /\ Depth(<<"queue", "raw">>) = 2
  /\ \A t \in Demuxers : Depth(<<"hand", t>>) = 3
  /\ \A x \in Types : Depth(<<"queue", x>>) = 4
  /\ \A t \in Decoders : Depth(<<"hand", t>>) = 5
  /\ \A x \in Shards : Depth(<<"queue", x>>) = 6
  /\ \A t \in Shards : Depth(<<"hand", t>>) = 7 /\ Depth(<<"list", t>>) = 8
  /\ \A x \in Writers : Depth(<<"queue", x>>) = 8 /\ Depth(<<"hand", x>>) = 9
  /\ \A p \in Places : Depth(p) \in 1 .. 9
<1>1. Depth(<<"hand", Recv>>) = 1 /\ Depth(<<"queue", "raw">>) = 2
  <2>1. Depth(<<"hand", Recv>>) = 1
    BY Names DEF Depth
  <2>2. Depth(<<"queue", "raw">>) = 2
    BY QueueNames DEF Depth
  <2> QED
    BY <2>1, <2>2
<1>2. \A t \in Demuxers : Depth(<<"hand", t>>) = 3
  BY Names DEF Depth
<1>3. \A x \in Types : Depth(<<"queue", x>>) = 4
  BY QueueNames DEF Depth
<1>4. \A t \in Decoders : Depth(<<"hand", t>>) = 5
  BY Names DEF Depth
<1>5. \A x \in Shards : Depth(<<"queue", x>>) = 6
  BY QueueNames DEF Depth
<1>6. \A t \in Shards : Depth(<<"hand", t>>) = 7 /\ Depth(<<"list", t>>) = 8
  BY Names DEF Depth
<1>7. \A x \in Writers : Depth(<<"queue", x>>) = 8
  BY QueueNames DEF Depth
<1>8. \A x \in Writers : Depth(<<"hand", x>>) = 9
  BY Names DEF Depth
<1>9. \A p \in Places : Depth(p) \in 1 .. 9
  <2>1. \A t \in Threads : Depth(<<"hand", t>>) \in {1, 3, 5, 7, 9}
    BY <1>1, <1>2, <1>4, <1>6, <1>8 DEF Threads
  <2>2. \A x \in Queues : Depth(<<"queue", x>>) \in {2, 4, 6, 8}
    BY <1>1, <1>3, <1>5, <1>7 DEF Queues
  <2>3. \A s \in Shards : Depth(<<"list", s>>) = 8
    BY <1>6
  <2>4. \A p \in Places : Depth(p) \in {1, 3, 5, 7, 9} \cup {2, 4, 6, 8} \cup {8}
    BY <2>1, <2>2, <2>3, PlaceFacts
  <2> QED
    BY <2>4
<1> QED
  BY <1>1, <1>2, <1>3, <1>4, <1>5, <1>6, <1>7, <1>8, <1>9

(* The position of a live object is that of the only place it is in.       *)
LEMMA PositionAt == PlaceInv => Located
<1> SUFFICES ASSUME PlaceInv
             PROVE  Located
  OBVIOUS
<1>1. ASSUME NEW o \in Objects, o \notin born
      PROVE  Position(o) = 0
  BY <1>1 DEF Position
<1>2. ASSUME NEW o \in Objects, o \in born, freed[o] # 0
      PROVE  Position(o) = 10
  BY <1>2 DEF Position
<1>3. ASSUME NEW t \in Threads, NEW o \in hand[t]
      PROVE  Station(o) = Depth(<<"hand", t>>)
  <2>1. /\ \A x \in Queues : o \notin ToSet(q[x])
        /\ \A u \in Threads : o \in hand[u] <=> u = t
    BY Apart
  <2>2. /\ o \notin ToSet(q["raw"]) /\ ~(\E x \in Types : o \in ToSet(q[x]))
        /\ ~(\E x \in Shards : o \in ToSet(q[x]))
    BY <2>1, QueueNames
  <2>3. /\ o \in hand[Recv] <=> t = Recv
        /\ (\E u \in Demuxers : o \in hand[u]) <=> t \in Demuxers
        /\ (\E u \in Decoders : o \in hand[u]) <=> t \in Decoders
        /\ (\E u \in Shards : o \in hand[u]) <=> t \in Shards
        /\ (\E u \in Writers : o \in hand[u]) <=> t \in Writers
    BY <2>1, Names
  <2>4. CASE t = Recv
    BY <2>2, <2>3, <2>4, Names, Depths DEF Station
  <2>5. CASE t \in Demuxers
    BY <2>2, <2>3, <2>5, Names, Depths DEF Station
  <2>6. CASE t \in Decoders
    BY <2>2, <2>3, <2>6, Names, Depths DEF Station
  <2>7. CASE t \in Shards
    BY <2>2, <2>3, <2>7, Names, Depths DEF Station
  <2>8. CASE t \in Writers
    BY <2>2, <2>3, <2>8, Names, Depths DEF Station
  <2> QED
    BY <2>4, <2>5, <2>6, <2>7, <2>8 DEF Threads
<1>4. ASSUME NEW x \in Queues, NEW o \in ToSet(q[x])
      PROVE  Station(o) = Depth(<<"queue", x>>)
  <2>1. /\ \A y \in Queues : o \in ToSet(q[y]) <=> y = x
        /\ \A u \in Threads : o \notin hand[u]
    BY Apart
  <2>2. /\ o \notin hand[Recv] /\ ~(\E u \in Demuxers : o \in hand[u])
        /\ ~(\E u \in Decoders : o \in hand[u]) /\ ~(\E u \in Shards : o \in hand[u])
        /\ ~(\E u \in Writers : o \in hand[u])
    BY <2>1, Names
  <2>3. /\ o \in ToSet(q["raw"]) <=> x = "raw"
        /\ (\E y \in Types : o \in ToSet(q[y])) <=> x \in Types
        /\ (\E y \in Shards : o \in ToSet(q[y])) <=> x \in Shards
    BY <2>1, QueueNames
  <2>4. CASE x = "raw"
    BY <2>2, <2>3, <2>4, QueueNames, Depths DEF Station
  <2>5. CASE x \in Types
    BY <2>2, <2>3, <2>5, QueueNames, Depths DEF Station
  <2>6. CASE x \in Shards
    BY <2>2, <2>3, <2>6, QueueNames, Depths DEF Station
  <2>7. CASE x \in Writers
    BY <2>2, <2>3, <2>7, QueueNames, Depths DEF Station
  <2> QED
    BY <2>4, <2>5, <2>6, <2>7 DEF Queues
<1>5. ASSUME NEW s \in Shards, NEW o \in ToSet(list[s])
      PROVE  Station(o) = Depth(<<"list", s>>)
  <2>1. /\ o \in born /\ freed[o] = 0
        /\ \A x \in Queues : o \notin ToSet(q[x])
        /\ \A u \in Threads : o \notin hand[u]
    BY Apart DEF Live
  <2>2. /\ o \notin hand[Recv] /\ ~(\E u \in Demuxers : o \in hand[u])
        /\ ~(\E u \in Decoders : o \in hand[u]) /\ ~(\E u \in Shards : o \in hand[u])
    BY <2>1, Names
  <2>3. /\ o \notin ToSet(q["raw"]) /\ ~(\E y \in Types : o \in ToSet(q[y]))
        /\ ~(\E y \in Shards : o \in ToSet(q[y])) /\ ~(\E u \in Writers : o \in hand[u])
    BY <2>1, Names, QueueNames
  <2> QED
    BY <2>1, <2>2, <2>3, Depths DEF Station
<1>6. ASSUME NEW p \in Places, NEW o \in At(p)
      PROVE  Position(o) = Depth(p)
  <2> SUFFICES Station(o) = Depth(p)
    BY DEF PlaceInv, Live, Position
  <2>1. CASE \E x \in Queues : p = <<"queue", x>>
    BY <1>4, <1>6, <2>1, PlaceFacts
  <2>2. CASE \E t \in Threads : p = <<"hand", t>>
    BY <1>3, <1>6, <2>2, PlaceFacts
  <2>3. CASE \E s \in Shards : p = <<"list", s>>
    BY <1>5, <1>6, <2>3, PlaceFacts
  <2> QED
    BY <2>1, <2>2, <2>3, PlaceFacts
<1> QED
  BY <1>1, <1>2, <1>6 DEF Located

Ahead == \A o \in Objects : Position(o)' >= Position(o)
Further == \E o \in Objects : Position(o)' > Position(o)

(* Objects move forward.                                                   *)
LEMMA FlowAhead ==
  ASSUME HeapOK, PlaceInv, PlaceInv', NEW X, NEW N, NEW b \in Places, NEW Y, Flow(X, N, b, Y),
         X \subseteq Live, N \subseteq Objects \ born, Y \subseteq X \cup N,
         \A o \in X \cap Y : Position(o) <= Depth(b)
  PROVE  /\ Ahead
         /\ (\E o \in X \cap Y : Position(o) < Depth(b)) => Further
         /\ N # {} \/ X \ Y # {} => Further
<1>1. Located /\ Located'
  BY PositionAt, PTL
<1>2. /\ \A o \in Objects : o \notin born => Position(o) = 0
      /\ \A o \in Objects : o \in born /\ freed[o] # 0 => Position(o) = 10
      /\ \A p \in Places : \A o \in At(p) : Position(o) = Depth(p)
  BY <1>1 DEF Located
<1>3. /\ \A o \in Objects : o \notin born' => Position(o)' = 0
      /\ \A o \in Objects : o \in born' /\ freed'[o] # 0 => Position(o)' = 10
      /\ \A p \in Places : \A o \in At(p)' : Position(o)' = Depth(p)
  BY <1>1 DEF Located, Depth, Places, Recv, Queues, Threads, Writers
<1>4. /\ born \subseteq Objects /\ \A o \in Objects : freed[o] \in {0, 1}
      /\ \A o \in born : o \in Live <=> freed[o] = 0
      /\ Live \subseteq born
      /\ \A o \in Live : \E p \in Places : o \in At(p)
  BY DEF HeapOK, Live, PlaceInv
<1>5. /\ \A p \in Places : At(p)' = (At(p) \ X) \cup (IF p = b THEN Y ELSE {})
      /\ born' = born \cup N
      /\ \A o \in Objects : freed'[o] = IF o \in (X \cup N) \ Y THEN freed[o] + 1 ELSE freed[o]
  BY DEF Flow
<1>6. \A o \in Live : Position(o) \in 1 .. 9
  BY <1>2, <1>4, Depths
<1>7. \A o \in Y : Position(o)' = Depth(b) /\ Depth(b) \in 1 .. 9
  BY <1>3, <1>5, Depths
<1>8. \A o \in (X \cup N) \ Y : o \in Objects /\ Position(o)' = 10
  <2> TAKE o \in (X \cup N) \ Y
  <2>1. o \in Objects /\ o \in born'
    BY <1>4, <1>5
  <2>2. freed'[o] # 0
    BY <1>4, <1>5, <2>1
  <2> QED
    BY <1>3, <2>1, <2>2
<1>9. \A o \in N : o \in Objects /\ Position(o) = 0
  BY <1>2
<1>10. \A o \in X : o \in Objects /\ Position(o) \in 1 .. 9
  BY <1>4, <1>6
<1>11. \A o \in Live \ X : Position(o)' = Position(o)
  <2> TAKE o \in Live \ X
  <2>1. PICK p \in Places : o \in At(p)
    BY <1>4
  <2>2. o \in At(p)'
    BY <1>5, <2>1
  <2> QED
    BY <1>2, <1>3, <2>1, <2>2
<1>12. \A o \in Objects : o \notin born \cup N => Position(o)' = 0 /\ Position(o) = 0
  BY <1>2, <1>3, <1>5
<1>13. \A o \in born \ Live : Position(o)' = 10 /\ Position(o) = 10
  <2> TAKE o \in born \ Live
  <2>1. o \in Objects /\ freed[o] # 0 /\ o \notin X \cup N /\ o \in born'
    BY <1>4, <1>5
  <2>2. freed'[o] = freed[o]
    BY <1>5, <2>1
  <2> QED
    BY <1>2, <1>3, <2>1, <2>2
<1>14. Ahead
  <2> SUFFICES ASSUME NEW o \in Objects
               PROVE  Position(o)' >= Position(o)
    BY DEF Ahead
  <2>1. CASE o \notin born \cup N
    BY <1>12, <2>1
  <2>2. CASE o \in born \ Live
    BY <1>13, <2>2
  <2>3. CASE o \in Live \ X
    BY <1>6, <1>11, <2>3
  <2>4. CASE o \in X /\ o \in Y
    BY <1>7, <1>10, <2>4
  <2>5. CASE o \in N /\ o \in Y
    BY <1>7, <1>9, <2>5
  <2>6. CASE o \in (X \cup N) \ Y
    BY <1>8, <1>9, <1>10, <2>6
  <2> QED
    BY <2>1, <2>2, <2>3, <2>4, <2>5, <2>6
<1>15. ASSUME NEW o \in X \cap Y, Position(o) < Depth(b)
       PROVE  Further
  <2>1. o \in Objects /\ Position(o)' = Depth(b)
    BY <1>7, <1>10
  <2> QED
    BY <1>10, <1>15, <2>1, <1>7 DEF Further
<1>16. ASSUME NEW o \in N
       PROVE  Further
  <2>1. o \in Objects /\ Position(o) = 0 /\ Position(o)' \in 1 .. 10
    BY <1>7, <1>8, <1>9
  <2> QED
    BY <2>1 DEF Further
<1>17. ASSUME NEW o \in X \ Y
       PROVE  Further
  <2>1. o \in Objects /\ Position(o) \in 1 .. 9 /\ Position(o)' = 10
    BY <1>8, <1>10
  <2> QED
    BY <2>1 DEF Further
<1> QED
  BY <1>14, <1>15, <1>16, <1>17

LEMMA OwnFacts ==
  ASSUME IndInv
  PROVE  HeapOK /\ OwnInv /\ Stores /\ PlaceInv /\ OnceInv /\ Located
<1>1. HeapOK /\ OwnInv /\ Stores /\ PlaceInv /\ OnceInv
  BY TypeParts DEF IndInv, DataOK, OwnInv
<1> QED
  BY <1>1, PositionAt

(* Nothing moves.                                                          *)
LEMMA AheadSame ==
  ASSUME IndInv, UNCHANGED <<q, hand, list, born, freed>>
  PROVE  Ahead
<1> SUFFICES ASSUME NEW o \in Objects
             PROVE  Position(o)' >= Position(o)
  BY DEF Ahead
<1>1. Position(o)' = Position(o)
  BY DEF Position, Station
<1>2. Position(o) \in 0 .. 10
  <2>1. PlaceInv /\ Located /\ HeapOK
    BY OwnFacts
  <2>2. CASE o \notin born
    BY <2>1, <2>2 DEF Located
  <2>3. CASE o \in born /\ freed[o] # 0
    BY <2>1, <2>3 DEF Located
  <2>4. CASE o \in born /\ freed[o] = 0
    <3>1. PICK p \in Places : o \in At(p)
      BY <2>1, <2>4 DEF PlaceInv, Live
    <3> QED
      BY <2>1, <3>1, Depths DEF Located
  <2> QED
    BY <2>2, <2>3, <2>4
<1> QED
  BY <1>1, <1>2

(* What thread t holds changes: it gets new objects, or frees some.        *)
LEMMA AheadHand ==
  ASSUME IndInv, NEW t \in Threads, NEW N, NEW H,
         N \subseteq Objects \ born, H \subseteq hand[t] \cup N,
         hand' = [hand EXCEPT ![t] = H], q' = q, list' = list,
         born' = born \cup N, Free((hand[t] \cup N) \ H)
  PROVE  Ahead /\ (N # {} \/ hand[t] \ H # {} => Further)
<1>1. HeapOK /\ OwnInv /\ Stores /\ PlaceInv /\ Located
  BY OwnFacts
<1> DEFINE b == <<"hand", t>>
           X == hand[t]
<1>2. PlaceInv' /\ Flow(X, N, b, H)
  BY <1>1, FlowHand DEF OwnInv
<1>3. b \in Places /\ X \subseteq Live /\ At(b) = X
  BY <1>1, PlaceFacts, Apart
<1>4. \A o \in X \cap H : Position(o) <= Depth(b)
  BY <1>1, <1>3, Depths DEF Located
<1>5. H \subseteq X \cup N
  OBVIOUS
<1> HIDE DEF b, X
<1>6. Ahead /\ (N # {} \/ X \ H # {} => Further)
  BY <1>1, <1>2, <1>3, <1>4, <1>5, FlowAhead
<1> QED
  BY <1>6 DEF X

(* Thread t passes o on to a queue that is further on.                     *)
LEMMA AheadSend ==
  ASSUME IndInv, NEW t \in Threads, NEW x \in Queues, NEW o, hand[t] = {o},
         Depth(<<"hand", t>>) < Depth(<<"queue", x>>),
         hand' = [hand EXCEPT ![t] = {}], Put(x, o), list' = list, born' = born, freed' = freed
  PROVE  Ahead /\ Further
<1>1. HeapOK /\ OwnInv /\ Stores /\ PlaceInv /\ Located
  BY OwnFacts
<1> DEFINE b == <<"queue", x>>
           X == {o}
           N == {}
<1>2. hand' = [hand EXCEPT ![t] = hand[t] \ {o}]
  <2>1. hand[t] \ {o} = {}
    OBVIOUS
  <2> QED
    BY <2>1
<1>3. PlaceInv' /\ Flow(X, N, b, X)
  BY <1>1, <1>2, FlowSend DEF OwnInv
<1>4. b \in Places /\ X \subseteq Live /\ N \subseteq Objects \ born /\ o \in X \cap X
  BY <1>1, PlaceFacts, Apart
<1>5. Position(o) = Depth(<<"hand", t>>) /\ Depth(<<"hand", t>>) \in 1 .. 9 /\ Depth(b) \in 1 .. 9
  BY <1>1, <1>4, PlaceFacts, Depths DEF Located
<1>6. /\ \A z \in X \cap X : Position(z) <= Depth(b)
      /\ \E z \in X \cap X : Position(z) < Depth(b)
  BY <1>5
<1>7. X \subseteq X \cup N
  OBVIOUS
<1> HIDE DEF b, X, N
<1> QED
  BY ONLY <1>1, <1>3, <1>4, <1>6, <1>7, FlowAhead

(* A new object goes to a queue, or is freed at once.                      *)
LEMMA AheadNew ==
  ASSUME IndInv, NEW o \in Objects \ born, NEW x \in Queues,
         hand' = hand, list' = list, born' = born \cup {o},
         \/ Put(x, o) /\ UNCHANGED freed
         \/ Free({o}) /\ UNCHANGED q
  PROVE  Ahead /\ Further
<1>1. HeapOK /\ OwnInv /\ Stores /\ PlaceInv
  BY OwnFacts
<1> DEFINE X == {}
           N == {o}
<1>2. \E b \in Places, Y \in {{}, N} : PlaceInv' /\ Flow(X, N, b, Y)
  <2>1. CASE Put(x, o) /\ UNCHANGED freed
    <3>1. PlaceInv' /\ Flow(X, N, <<"queue", x>>, N)
      BY <1>1, <2>1, FlowNew DEF OwnInv
    <3>2. <<"queue", x>> \in Places
      BY PlaceFacts
    <3> QED
      BY <3>1, <3>2
  <2>2. CASE Free({o}) /\ UNCHANGED q
    <3>1. PlaceInv' /\ Flow(X, N, <<"queue", "raw">>, {})
      BY <1>1, <2>2, FlowRefused DEF OwnInv
    <3>2. <<"queue", "raw">> \in Places
      BY PlaceFacts, QueueNames
    <3> QED
      BY <3>1, <3>2
  <2> QED
    BY <2>1, <2>2
<1>3. PICK b \in Places, Y \in {{}, N} : PlaceInv' /\ Flow(X, N, b, Y)
  BY <1>2
<1>4. /\ X \subseteq Live /\ N \subseteq Objects \ born /\ Y \subseteq X \cup N /\ N # {}
      /\ \A z \in X \cap Y : Position(z) <= Depth(b)
  OBVIOUS
<1> HIDE DEF X, N
<1> QED
  BY <1>1, <1>3, <1>4, FlowAhead

(* Thread t takes the oldest object of a queue that is before it.          *)
LEMMA AheadPop ==
  ASSUME IndInv, NEW t \in Threads, NEW x \in Queues, q[x] # <<>>, hand[t] = {},
         Depth(<<"queue", x>>) < Depth(<<"hand", t>>),
         hand' = [hand EXCEPT ![t] = {Head(q[x])}],
         q' = [q EXCEPT ![x] = Tail(@)], list' = list, born' = born, freed' = freed
  PROVE  Ahead /\ Further
<1>1. HeapOK /\ OwnInv /\ Stores /\ PlaceInv /\ OnceInv /\ Located
  BY OwnFacts
<1> DEFINE b == <<"hand", t>>
           o == Head(q[x])
           X == {o}
           N == {}
<1>2. PlaceInv' /\ Flow(X, N, b, X)
  BY <1>1, FlowPop DEF OwnInv
<1>3. o \in ToSet(q[x])
  BY <1>1, QueueTake
<1> HIDE DEF o
<1>4. b \in Places /\ X \subseteq Live /\ N \subseteq Objects \ born /\ o \in X \cap X
  BY <1>1, <1>3, PlaceFacts, Apart
<1>5. /\ Position(o) = Depth(<<"queue", x>>)
      /\ Depth(<<"queue", x>>) \in 1 .. 9 /\ Depth(b) \in 1 .. 9
  BY <1>1, <1>3, PlaceFacts, Depths DEF Located
<1>6. /\ \A z \in X \cap X : Position(z) <= Depth(b)
      /\ \E z \in X \cap X : Position(z) < Depth(b)
  BY <1>5
<1>7. X \subseteq X \cup N
  OBVIOUS
<1> HIDE DEF b, X, N
<1> QED
  BY ONLY <1>1, <1>2, <1>4, <1>6, <1>7, FlowAhead

(* What MovesOn asks of a step of thread t.                                *)
TurnsOn(t) == /\ Turn(pc'[t]) > Turn(pc[t])
              /\ \A u \in Threads \ {t} : pc'[u] = pc[u]

LEMMA TurnFacts ==
  /\ Turn("work") = 0 /\ Turn("checked") = 1 /\ Turn("kept") = 3
  /\ Turn("archived") = 4 /\ Turn("pop") = 5 /\ Turn("exited") = 6
<1>1. Turn("work") = 0 /\ Turn("checked") = 1
  BY DEF Turn
<1>2. Turn("kept") = 3 /\ Turn("archived") = 4
  BY DEF Turn
<1>3. Turn("pop") = 5 /\ Turn("exited") = 6
  BY DEF Turn
<1> QED
  BY <1>1, <1>2, <1>3

(* A thread that frees all it holds, or passes its only object on.         *)
LEMMA MovesDrop ==
  ASSUME IndInv, NEW t \in Threads, hand' = [hand EXCEPT ![t] = {}], Free(hand[t]),
         UNCHANGED <<q, list, born>>
  PROVE  Ahead /\ (hand[t] # {} => Further)
<1> DEFINE N == {}
           H == {}
<1>1. /\ N \subseteq Objects \ born /\ H \subseteq hand[t] \cup N /\ born' = born \cup N
      /\ hand[t] # {} => hand[t] \ H # {}
  OBVIOUS
<1>2. Free((hand[t] \cup N) \ H)
  <2>1. (hand[t] \cup N) \ H = hand[t]
    OBVIOUS
  <2> QED
    BY <2>1
<1>3. hand' = [hand EXCEPT ![t] = H] /\ q' = q /\ list' = list
  OBVIOUS
<1> HIDE DEF N, H
<1> QED
  BY <1>1, <1>2, <1>3, AheadHand

LEMMA PopMoves ==
  ASSUME IndInv, NEW t \in Threads, Pop(t)
  PROVE  Ahead /\ Further
<1> DEFINE x == Input(t)
<1>1. HandInv
  BY DEF IndInv
<1>2. /\ t # Recv /\ pc[t] = "pop" /\ x \in Queues /\ q[x] # <<>>
      /\ q' = [q EXCEPT ![x] = Tail(@)] /\ hand' = [hand EXCEPT ![t] = {Head(q[x])}]
      /\ list' = list /\ born' = born /\ freed' = freed
  BY Inputs DEF Pop, Holds, heap
<1>3. hand[t] = {}
  BY <1>1, <1>2 DEF HandInv, HandOf, Idle
<1>4. Depth(<<"queue", x>>) < Depth(<<"hand", t>>)
  <2>1. CASE t \in Demuxers
    BY <2>1, Inputs, Depths
  <2>2. CASE t \in Decoders
    BY <2>2, Inputs, Depths
  <2>3. CASE t \in Shards
    <3>1. Depth(<<"queue", t>>) = 6 /\ Depth(<<"hand", t>>) = 7 /\ x = t
      BY <2>3, Inputs, Depths
    <3> QED
      BY <3>1
  <2>4. CASE t \in Writers
    <3>1. Depth(<<"queue", t>>) = 8 /\ Depth(<<"hand", t>>) = 9 /\ x = t
      BY <2>4, Inputs, Depths
    <3> QED
      BY <3>1
  <2> QED
    BY <1>2, <2>1, <2>2, <2>3, <2>4 DEF Threads
<1> HIDE DEF x
<1> QED
  BY <1>2, <1>3, <1>4, AheadPop

LEMMA PopNullMoves ==
  ASSUME IndInv, NEW t \in Threads, PopNull(t)
  PROVE  Ahead /\ TurnsOn(t)
<1>1. /\ pc[t] = "pop" /\ pc' = [pc EXCEPT ![t] = "exited"]
      /\ UNCHANGED <<q, hand, list, born, freed>>
  BY DEF PopNull, Goto, flow, heap
<1>2. DOMAIN pc = Threads
  BY DEF IndInv, StateOK
<1>3. pc'[t] = "exited" /\ \A u \in Threads \ {t} : pc'[u] = pc[u]
  BY <1>1, <1>2
<1>4. Turn("exited") > Turn("pop")
  BY TurnFacts
<1> QED
  BY <1>1, <1>3, <1>4, AheadSame DEF TurnsOn

LEMMA ReceiveMoves ==
  ASSUME IndInv, NEW m \in Msgs, Receive(m)
  PROVE  Ahead /\ Further
<1> DEFINE N == {Text(m)}
<1>1. HandInv /\ BornInv /\ HeapOK /\ Recv \in Threads
  BY OwnFacts, Names DEF IndInv
<1>2. /\ pc[Recv] = "pop" /\ m \notin arrived /\ born' = born \cup N
      /\ hand' = [hand EXCEPT ![Recv] = N] /\ UNCHANGED <<q, list, freed>>
  BY DEF Receive, Allocate, Holds, flow
<1>3. hand[Recv] = {}
  BY <1>1, <1>2 DEF HandInv, HandOf, Idle
<1>4. Text(m) \in Objects \ born
  BY <1>1, <1>2, Objs DEF BornInv, Text
<1>5. N \subseteq Objects \ born /\ N \subseteq hand[Recv] \cup N /\ N # {}
  BY <1>4
<1>6. Free((hand[Recv] \cup N) \ N)
  BY <1>1, <1>2, <1>3, FreeNone
<1> HIDE DEF N
<1> QED
  BY <1>1, <1>2, <1>5, <1>6, AheadHand

LEMMA ReceiveClosedMoves ==
  ASSUME IndInv, ReceiveClosed
  PROVE  Ahead /\ TurnsOn(Recv)
<1>1. /\ pc[Recv] = "pop" /\ pc' = [pc EXCEPT ![Recv] = "exited"]
      /\ hand' = [hand EXCEPT ![Recv] = {}] /\ UNCHANGED <<q, list, born, freed>>
  BY DEF ReceiveClosed, Top, Goto, flow, heap
<1>2. DOMAIN pc = Threads /\ HandInv /\ Stores /\ Recv \in Threads
  BY OwnFacts, Names DEF IndInv, StateOK
<1>3. hand[Recv] = {}
  BY <1>1, <1>2 DEF HandInv, HandOf, Idle
<1>4. hand' = hand
  BY <1>1, <1>2, <1>3 DEF Stores
<1>5. pc'[Recv] = "exited" /\ \A u \in Threads \ {Recv} : pc'[u] = pc[u]
  BY <1>1, <1>2
<1>6. Turn("exited") > Turn("pop")
  BY TurnFacts
<1> QED
  BY <1>1, <1>4, <1>5, <1>6, AheadSame DEF TurnsOn

LEMMA ForwardMoves ==
  ASSUME IndInv, NEW t \in Sources, NEW x \in Queues, Forward(t, x),
         Depth(<<"hand", t>>) < Depth(<<"queue", x>>)
  PROVE  Ahead /\ Further
<1> DEFINE o == Text(job[t])
<1>1. HandInv /\ t \in Threads /\ t \notin Shards \cup Writers
  BY Names DEF IndInv
<1>2. /\ pc[t] = "work" /\ hand' = [hand EXCEPT ![t] = {}]
      /\ list' = list /\ born' = born
      /\ \/ Put(x, o) /\ freed' = freed
         \/ Free({o}) /\ q' = q
  BY DEF Forward, Top
<1>3. hand[t] = {o}
  BY <1>1, <1>2 DEF HandInv, HandOf
<1> HIDE DEF o
<1>4. CASE Put(x, o) /\ freed' = freed
  BY <1>1, <1>2, <1>3, <1>4, AheadSend
<1>5. CASE Free({o}) /\ q' = q
  BY <1>1, <1>2, <1>3, <1>5, MovesDrop
<1> QED
  BY <1>2, <1>4, <1>5

(* The text is freed, what comes of it stays in the decoder's hands.       *)
LEMMA DecodeMoves ==
  ASSUME IndInv, NEW d \in Decoders, pc[d] = "work", NEW N, NEW H,
         N \subseteq {Event(job[d]), <<"fw", job[d]>>}, N # {}, H \subseteq N,
         hand' = [hand EXCEPT ![d] = H], born' = born \cup N,
         Free({Text(job[d])} \cup (N \ H)), q' = q, list' = list
  PROVE  Ahead /\ Further
<1>1. /\ d \in Threads /\ hand[d] = {Text(job[d])}
      /\ Event(job[d]) \in Objects \ born /\ <<"fw", job[d]>> \in Objects \ born
  BY DecoderFacts
<1>2. N \subseteq Objects \ born /\ H \subseteq hand[d] \cup N
  BY <1>1
<1>3. Free((hand[d] \cup N) \ H)
  <2>1. Text(job[d]) \notin N
    BY DEF Text, Event
  <2>2. (hand[d] \cup N) \ H = {Text(job[d])} \cup (N \ H)
    BY <1>1, <2>1
  <2> QED
    BY <2>2
<1> QED
  BY <1>1, <1>2, <1>3, AheadHand

LEMMA DecoderMoves ==
  ASSUME IndInv, NEW d \in Decoders, Decoder(d)
  PROVE  Ahead /\ Further
<1>1. /\ HandInv /\ d \in Threads /\ d \notin Shards \cup Writers
      /\ Depth(<<"hand", d>>) = 5
  BY Names, Depths DEF IndInv
<1>2. CASE DecodeRejects(d)
  <2> DEFINE N == {Event(job[d])}
             H == {}
  <2>1. N \ H = N /\ {Text(job[d])} \cup N = {Text(job[d]), Event(job[d])}
    OBVIOUS
  <2>2. Free({Text(job[d])} \cup (N \ H))
    BY <1>2, <2>1 DEF DecodeRejects
  <2>3. /\ pc[d] = "work" /\ N \subseteq {Event(job[d]), <<"fw", job[d]>>} /\ N # {} /\ H \subseteq N
        /\ hand' = [hand EXCEPT ![d] = H] /\ born' = born \cup N /\ q' = q /\ list' = list
    BY <1>2 DEF DecodeRejects, Allocate, Top, flow
  <2> HIDE DEF N, H
  <2> QED
    BY <2>2, <2>3, DecodeMoves
<1>3. CASE Decode(d) \/ DecodeFirewall(d)
  <2>1. PICK N \in {{Event(job[d])}, {Event(job[d]), <<"fw", job[d]>>}} :
          /\ pc[d] = "work" /\ born' = born \cup N /\ hand' = [hand EXCEPT ![d] = N]
          /\ Free({Text(job[d])}) /\ q' = q /\ list' = list
    BY <1>3 DEF Decode, DecodeFirewall, Allocate, Holds, flow
  <2>2. {Text(job[d])} \cup (N \ N) = {Text(job[d])}
    OBVIOUS
  <2>3. Free({Text(job[d])} \cup (N \ N))
    BY <2>1, <2>2
  <2>4. N \subseteq {Event(job[d]), <<"fw", job[d]>>} /\ N # {} /\ N \subseteq N
    OBVIOUS
  <2> QED
    BY <2>1, <2>3, <2>4, DecodeMoves
<1>4. CASE FirewallPush(d)
  <2> DEFINE o == <<"fw", job[d]>>
             H == {Event(job[d])}
             x == "firewall"
  <2>1. /\ pc[d] = "fw" /\ hand' = [hand EXCEPT ![d] = H] /\ list' = list /\ born' = born
        /\ \/ Put(x, o) /\ freed' = freed
           \/ Free({o}) /\ q' = q
    BY <1>4 DEF FirewallPush, Holds
  <2>2. hand[d] = {Event(job[d]), o} /\ Event(job[d]) # o
    BY <1>1, <2>1 DEF HandInv, HandOf, Event
  <2>3. hand[d] \ {o} = H /\ o \in hand[d]
    BY <2>2
  <2>4. x \in Queues /\ Depth(<<"queue", x>>) = 8
    BY QueueNames, Depths
  <2> HIDE DEF o, H, x
  <2>5. CASE Put(x, o) /\ freed' = freed
    <3>1. HeapOK /\ OwnInv /\ Stores /\ PlaceInv /\ Located
      BY OwnFacts
    <3> DEFINE b == <<"queue", x>>
               X == {o}
               N == {}
    <3>2. hand' = [hand EXCEPT ![d] = hand[d] \ {o}]
      BY <2>1, <2>3
    <3>3. PlaceInv' /\ Flow(X, N, b, X)
      BY <1>1, <2>1, <2>3, <2>4, <2>5, <3>1, <3>2, FlowSend DEF OwnInv
    <3>4. b \in Places /\ X \subseteq Live /\ N \subseteq Objects \ born /\ X \subseteq X \cup N
      BY <1>1, <2>3, <2>4, <3>1, PlaceFacts, Apart
    <3>5. Position(o) = 5
      BY <1>1, <2>3, <3>1, PlaceFacts DEF Located
    <3>6. /\ \A z \in X \cap X : Position(z) <= Depth(b)
          /\ \E z \in X \cap X : Position(z) < Depth(b)
      BY <2>4, <3>5
    <3> HIDE DEF b, X, N
    <3> QED
      BY ONLY <3>1, <3>3, <3>4, <3>6, FlowAhead
  <2>6. CASE Free({o}) /\ q' = q
    <3> DEFINE N == {}
    <3>1. /\ N \subseteq Objects \ born /\ H \subseteq hand[d] \cup N /\ born' = born \cup N
          /\ hand[d] \ H # {}
      BY <2>1, <2>2, <2>3 DEF H
    <3>2. Free((hand[d] \cup N) \ H)
      <4>1. (hand[d] \cup N) \ H = {o}
        BY <2>2 DEF H
      <4> QED
        BY <2>6, <4>1
    <3>3. IndInv /\ d \in Threads
      BY <1>1
    <3> HIDE DEF N
    <3> QED
      BY ONLY <2>1, <2>6, <3>1, <3>2, <3>3, AheadHand
  <2> QED
    BY <2>1, <2>5, <2>6
<1>5. CASE analysisd_push_decoded(d)
  <2> DEFINE o == Event(job[d])
             s == ShardOf[job[d]]
  <2>1. /\ pc[d] = "push" /\ hand' = [hand EXCEPT ![d] = {}] /\ list' = list /\ born' = born
        /\ \/ Put(s, o) /\ freed' = freed
           \/ Free({o}) /\ q' = q
    BY <1>5 DEF analysisd_push_decoded, Top
  <2>2. hand[d] = {o} /\ job[d] \in Msgs
    BY <1>1, <2>1 DEF HandInv, HandOf, Idle
  <2>3. s \in Shards /\ s \in Queues /\ Depth(<<"queue", s>>) = 6
    BY <2>2, PipelineAssumption, QueueNames, Depths
  <2> HIDE DEF o, s
  <2>4. CASE Put(s, o) /\ freed' = freed
    <3>1. Depth(<<"hand", d>>) < Depth(<<"queue", s>>)
      BY <1>1, <2>3
    <3> QED
      BY <1>1, <2>1, <2>2, <2>3, <2>4, <3>1, AheadSend
  <2>5. CASE Free({o}) /\ q' = q
    BY <1>1, <2>1, <2>2, <2>5, MovesDrop
  <2> QED
    BY <2>1, <2>4, <2>5
<1> QED
  BY <1>2, <1>3, <1>4, <1>5 DEF Decoder

(* A shard makes a copy for a writer.                                      *)
LEMMA CopyMoves ==
  ASSUME IndInv, NEW s \in Shards, NEW o \in Objects, o \notin born, NEW w \in Writers,
         born' = born \cup {o}, hand' = hand, list' = list,
         \/ Put(w, o) /\ UNCHANGED freed
         \/ Free({o}) /\ UNCHANGED q
  PROVE  Ahead /\ Further
BY AheadNew, QueueNames

LEMMA ProcessMoves ==
  ASSUME IndInv, NEW s \in Shards, Process(s)
  PROVE  Ahead /\ (Further \/ TurnsOn(s))
<1>1. /\ s \in Threads /\ DOMAIN pc = Threads /\ HandInv
      /\ Depth(<<"hand", s>>) = 7 /\ Depth(<<"list", s>>) = 8
      /\ Depth(<<"queue", "archive">>) = 8 /\ "archive" \in Queues
  BY Names, QueueNames, Depths DEF IndInv, StateOK
<1>2. HeapOK /\ OwnInv /\ Stores /\ PlaceInv /\ Located
  BY OwnFacts
<1>3. CASE StatAlert(s)
  <2>1. pc[s] = "work" /\ Enqueue(s, <<"stat", job[s]>>, "statistical") /\ UNCHANGED <<hand, list>>
    BY <1>3 DEF StatAlert
  <2>2. job[s] \in Msgs /\ <<"stat", job[s]>> \notin born
    BY <2>1, ShardFacts DEF Idle, CopyOf
  <2>3. <<"stat", job[s]>> \in Objects
    BY <2>2, Objs
  <2> QED
    BY <2>1, <2>2, <2>3, CopyMoves, QueueNames DEF Enqueue, Allocate
<1>4. CASE RuleAlert(s)
  <2>1. /\ pc[s] \in {"work", "checked"} /\ Enqueue(s, <<"alert", job[s]>>, "alerts")
        /\ UNCHANGED <<hand, list>>
    BY <1>4 DEF RuleAlert
  <2>2. job[s] \in Msgs /\ <<"alert", job[s]>> \notin born
    BY <2>1, ShardFacts DEF Idle, CopyOf
  <2>3. <<"alert", job[s]>> \in Objects
    BY <2>2, Objs
  <2> QED
    BY <2>1, <2>2, <2>3, CopyMoves, QueueNames DEF Enqueue, Allocate
<1>5. CASE OS_AddEvent(s)
  <2> DEFINE e == Event(job[s])
             b == <<"list", s>>
             N == {}
             Y == {e}
  <2>1. /\ pc[s] \in {"work", "checked", "logged"} /\ hand' = [hand EXCEPT ![s] = {}]
        /\ q' = q /\ born' = born
    BY <1>5 DEF OS_AddEvent, Holds, flow
  <2>2. hand[s] = {e}
    BY <2>1, ShardFacts DEF Idle
  <2>3. PICK r, G : /\ r \in Seq(Objects) /\ Len(r) <= ListMax /\ IsInjective(r)
                    /\ G \subseteq ToSet(list[s]) /\ ToSet(r) = (ToSet(list[s]) \ G) \cup {e}
                    /\ list' = [list EXCEPT ![s] = r] /\ Free(G)
    BY <1>5, AddEventEffect
  <2> HIDE DEF e
  <2>4. hand' = [hand EXCEPT ![s] = hand[s] \ {e}] /\ e \in hand[s]
    <3>1. hand[s] \ {e} = {}
      BY <2>2
    <3> QED
      BY <2>1, <2>2, <3>1
  <2> DEFINE X == {e} \cup G
  <2>5. PlaceInv' /\ Flow(X, N, b, Y)
    BY <1>2, <2>1, <2>3, <2>4, FlowList DEF OwnInv
  <2>6. b \in Places /\ X \subseteq Live /\ N \subseteq Objects \ born /\ Y \subseteq X \cup N
    BY <1>1, <1>2, <2>3, <2>4, PlaceFacts, Apart
  <2>7. Position(e) = 7 /\ Depth(b) = 8 /\ e \in X \cap Y /\ \A z \in X \cap Y : z = e
    BY <1>1, <1>2, <2>4, PlaceFacts DEF Located
  <2>8. /\ \A z \in X \cap Y : Position(z) <= Depth(b)
        /\ \E z \in X \cap Y : Position(z) < Depth(b)
    <3> HIDE DEF b, X, Y
    <3> QED
      BY <2>7
  <2> HIDE DEF b, X, N, Y
  <2> QED
    BY ONLY <1>2, <2>5, <2>6, <2>8, FlowAhead
<1>6. CASE ArchiveLive(s)
  <2>1. /\ pc[s] \in {"work", "checked"} /\ pc' = [pc EXCEPT ![s] = "archived"]
        /\ UNCHANGED <<list, born, freed>>
        /\ \/ Put("archive", Event(job[s])) /\ hand' = [hand EXCEPT ![s] = {}]
           \/ UNCHANGED <<q, hand>>
    BY <1>6 DEF ArchiveLive, Goto, Holds, heap
  <2>2. hand[s] = {Event(job[s])}
    BY <2>1, ShardFacts DEF Idle
  <2>3. CASE Put("archive", Event(job[s])) /\ hand' = [hand EXCEPT ![s] = {}]
    <3>1. Depth(<<"hand", s>>) < Depth(<<"queue", "archive">>)
      BY <1>1
    <3> QED
      BY <1>1, <2>1, <2>2, <2>3, <3>1, AheadSend
  <2>4. CASE UNCHANGED <<q, hand>>
    <3>1. Turn("archived") > Turn("work") /\ Turn("archived") > Turn("checked")
      BY TurnFacts
    <3>2. pc'[s] = "archived" /\ \A u \in Threads \ {s} : pc'[u] = pc[u]
      BY <1>1, <2>1
    <3>3. TurnsOn(s)
      BY <2>1, <3>1, <3>2 DEF TurnsOn
    <3> QED
      BY <2>1, <2>4, <3>3, AheadSame
  <2> QED
    BY <2>1, <2>3, <2>4
<1>7. CASE ArchiveCopy(s)
  <2>1. /\ pc[s] = "kept" /\ born' = born \cup {<<"arch", job[s]>>} /\ UNCHANGED <<hand, list>>
        /\ \/ Put("archive", <<"arch", job[s]>>) /\ UNCHANGED freed
           \/ Free({<<"arch", job[s]>>}) /\ UNCHANGED q
    BY <1>7 DEF ArchiveCopy, Allocate
  <2>2. job[s] \in Msgs /\ <<"arch", job[s]>> \notin born
    BY <2>1, ShardFacts DEF Idle, CopyOf
  <2>3. <<"arch", job[s]>> \in Objects
    BY <2>2, Objs
  <2> QED
    BY <2>1, <2>2, <2>3, CopyMoves, QueueNames
<1>8. CASE Finish(s)
  <2>1. /\ pc[s] \in {"work", "archived", "checked", "kept"} /\ Free(hand[s])
        /\ hand' = [hand EXCEPT ![s] = {}] /\ UNCHANGED <<q, list, born>>
        /\ pc' = [pc EXCEPT ![s] = IF shutting_down THEN "exited" ELSE "pop"]
    BY <1>8 DEF Finish, Top, Goto, flow
  <2>2. Ahead /\ (hand[s] # {} => Further)
    BY <1>1, <2>1, MovesDrop
  <2>3. TurnsOn(s)
    <3>1. pc'[s] \in {"pop", "exited"} /\ \A u \in Threads \ {s} : pc'[u] = pc[u]
      BY <1>1, <2>1
    <3>2. Turn(pc'[s]) >= 5
      BY <3>1, TurnFacts
    <3>3. Turn(pc[s]) \in 0 .. 4
      BY <2>1, TurnFacts
    <3> QED
      BY <3>1, <3>2, <3>3, TurnFacts DEF TurnsOn
  <2> QED
    BY <2>2, <2>3
<1> QED
  BY <1>3, <1>4, <1>5, <1>6, <1>7, <1>8 DEF Process

LEMMA WriteMoves ==
  ASSUME IndInv, NEW w \in Writers, Write(w)
  PROVE  Ahead /\ Further
<1>1. HandInv /\ w \in Threads
  BY Names DEF IndInv
<1>2. /\ pc[w] = "work" /\ Free(hand[w]) /\ hand' = [hand EXCEPT ![w] = {}]
      /\ UNCHANGED <<q, list, born>>
  BY DEF Write, Top, flow
<1>3. hand[w] # {}
  BY <1>1, <1>2 DEF HandInv, HandOf
<1> QED
  BY <1>1, <1>2, <1>3, MovesDrop

LEMMA StepMoves ==
  ASSUME IndInv, NEW t \in Threads, Step(t)
  PROVE  Ahead /\ (Further \/ TurnsOn(t))
<1>1. CASE Pop(t)
  BY <1>1, PopMoves
<1>2. CASE PopNull(t)
  BY <1>2, PopNullMoves
<1>3. CASE t = Recv /\ Receiver
  <2>1. CASE ReceiveClosed
    BY <1>3, <2>1, ReceiveClosedMoves
  <2>2. CASE PushRaw
    <3>1. Recv \in Sources /\ "raw" \in Queues /\ Depth(<<"hand", Recv>>) < Depth(<<"queue", "raw">>)
      BY Names, QueueNames, Depths
    <3> QED
      BY <2>2, <3>1, ForwardMoves DEF PushRaw
  <2>3. CASE \E m \in Msgs : Receive(m)
    BY <2>3, ReceiveMoves
  <2> QED
    BY <1>3, <2>1, <2>2, <2>3 DEF Receiver
<1>4. CASE t \in Demuxers /\ Demux(t)
  <2> DEFINE x == TypeOf[job[t]]
  <2>1. Forward(t, x) /\ t \in Sources
    BY <1>4, Names DEF Demux
  <2>2. x \in Types
    <3>1. job[t] \in Msgs
      BY <2>1 DEF Forward, IndInv, HandInv, HandOf, Idle
    <3> QED
      BY <3>1, PipelineAssumption
  <2>3. x \in Queues /\ Depth(<<"hand", t>>) < Depth(<<"queue", x>>)
    BY <1>4, <2>2, QueueNames, Depths
  <2> HIDE DEF x
  <2> QED
    BY <2>1, <2>3, ForwardMoves
<1>5. CASE t \in Decoders /\ Decoder(t)
  BY <1>5, DecoderMoves
<1>6. CASE t \in Shards /\ Process(t)
  BY <1>6, ProcessMoves
<1>7. CASE t \in Writers /\ Write(t)
  BY <1>7, WriteMoves
<1> QED
  BY <1>1, <1>2, <1>3, <1>4, <1>5, <1>6, <1>7 DEF Step

(* The main thread and the stuttering step move no object but to free it.  *)
LEMMA MainMoves ==
  ASSUME IndInv, RequestShutdown \/ Main \/ UNCHANGED vars
  PROVE  Ahead
<1>1. HeapOK /\ OwnInv /\ PlaceInv
  BY OwnFacts
<1> DEFINE b == <<"queue", "raw">>
           N == {}
<1>2. /\ b \in Places /\ N \subseteq Objects \ born
      /\ \A X : N \subseteq X \cup N /\ \A z \in X \cap N : Position(z) <= Depth(b)
  BY PlaceFacts, QueueNames
<1>3. CASE UNCHANGED <<q, hand, list, born, freed>>
  BY <1>3, AheadSame
<1>4. CASE analysisd_drain_queues
  <2> DEFINE X == Queued
  <2>1. PlaceInv' /\ Flow(X, N, b, N)
    BY <1>1, <1>4, FlowDrain DEF analysisd_drain_queues, OwnInv
  <2>2. X \subseteq Live
    BY <1>1, Apart DEF Queued
  <2> HIDE DEF X, b, N
  <2> QED
    BY <1>1, <1>2, <2>1, <2>2, FlowAhead
<1>5. CASE DestroyAll
  <2> DEFINE X == Listed
  <2>1. PlaceInv' /\ Flow(X, N, b, N)
    BY <1>1, <1>5, FlowDestroy DEF DestroyAll, OwnInv, flow
  <2>2. X \subseteq Live
    BY <1>1, Apart DEF Listed
  <2> HIDE DEF X, b, N
  <2> QED
    BY <1>1, <1>2, <2>1, <2>2, FlowAhead
<1>6. CASE RequestShutdown \/ JoinStage \/ JoinTimeout \/ UNCHANGED vars
  BY <1>3, <1>6 DEF RequestShutdown, JoinStage, JoinTimeout, vars, flow, heap
<1> QED
  BY <1>4, <1>5, <1>6 DEF Main

(* MovesOn: no step puts an object back to an earlier stage, and a step of *)
(* a thread takes some object further, to the next stage or to its end, or *)
(* takes the thread itself on in its loop.                                 *)
THEOREM EverythingMovesOn == Spec => MovesOn
<1>1. ASSUME IndInv, [Next]_vars
      PROVE  Ahead /\ \A t \in Threads : Step(t) => Further \/ TurnsOn(t)
  <2>1. \A t \in Threads : Step(t) => Ahead /\ (Further \/ TurnsOn(t))
    BY <1>1, StepMoves
  <2> QED
    BY <1>1, <2>1, MainMoves DEF Next, Terminated
<1>2. IndInv => born \subseteq Objects
  BY DEF IndInv, StateOK
<1>3. IndInv /\ [Next]_vars =>
        [ /\ \A o \in born : Position(o)' >= Position(o)
          /\ \/ \E o \in Objects : Position(o)' > Position(o)
             \/ \A t \in Threads : Step(t) =>
                  /\ Turn(pc'[t]) > Turn(pc[t])
                  /\ \A u \in Threads \ {t} : pc'[u] = pc[u] ]_vars
  BY <1>1, <1>2 DEF Ahead, Further, TurnsOn
<1> QED
  BY <1>3, Invariance, PTL DEF Spec, MovesOn
=============================================================================
