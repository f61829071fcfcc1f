-------------------------- MODULE CorrelationProofs --------------------------
(***************************************************************************)
(* Proofs about the lists of earlier matches (Correlation), for every set  *)
(* of shards and events, every assignment of rules, frequencies, time      *)
(* frames and levels, and every limit of the lists.                        *)
(***************************************************************************)
EXTENDS Correlation, SequenceTheorems, FiniteSetTheorems, WellFoundedInduction, TLAPS

-----------------------------------------------------------------------------
(* The inductive invariant, in parts.                                      *)

Busy == {"search", "mark", "fire", "sid", "group", "add", "finish"}

Kept(s) == Range(elist[s]) \cup Range(victims[s])

(* What the control state says of the other variables of the thread.       *)
PcInv ==
    \A s \in Shards :
       /\ cur[s] # None <=> pc[s] \in Busy
       /\ pc[s] = "search" => child[s] >= 1
       /\ pc[s] = "mark" => child[s] \in 1 .. Len(Children[Base[cur[s]]])
       /\ pc[s] = "mark" => found[s] \in Found
       /\ pc[s] \in {"fire", "sid", "group", "add"} => rule[s] \in Rules
       /\ victims[s] # <<>> => pc[s] \in {"unlink", "free"}
       /\ pc[s] = "free" => victims[s] # <<>>

(* An event is in one place, of its own shard, and alive from the moment   *)
(* it is taken.                                                            *)
OwnInv ==
    \A s \in Shards :
       /\ IsInjective(feed[s]) /\ IsInjective(elist[s]) /\ IsInjective(victims[s])
       /\ Range(feed[s]) \cup Kept(s) \subseteq Range(Feed[s])
       /\ cur[s] # None => cur[s] \in Range(Feed[s]) \ (Range(feed[s]) \cup Kept(s))
       /\ Range(feed[s]) \cap Kept(s) = {} /\ Range(elist[s]) \cap Range(victims[s]) = {}
       /\ Range(feed[s]) \cap live = {}
       /\ Kept(s) \subseteq live /\ (cur[s] # None => cur[s] \in live)

(* An event has its rule once that has fired.                              *)
GenInv ==
    \A s \in Shards :
       /\ \A e \in Range(feed[s]) : gen[e] = None
       /\ pc[s] \in {"search", "mark", "fire", "finish"} => gen[cur[s]] = None
       /\ pc[s] \in {"sid", "group", "add"} => gen[cur[s]] = rule[s]

(* The events that refer to nodes: not before they are put on the lists,   *)
(* and no longer when they are freed.                                      *)
NodeInv ==
    /\ sidnode \cup groupnodes \subseteq live
    /\ \A e \in sidnode : gen[e] \in SidLists
    /\ \A e \in groupnodes : gen[e] \in Rules
    /\ \A s \in Shards :
         /\ pc[s] \in {"search", "mark", "fire", "finish", "sid"} => cur[s] \notin sidnode
         /\ pc[s] \in {"search", "mark", "fire", "finish", "sid", "group"} => cur[s] \notin groupnodes
         /\ pc[s] = "free" => Head(victims[s]) \notin sidnode \cup groupnodes

(* Two threads with a successful search: for different rules, and at most  *)
(* one of them on a shared list.                                           *)
LockInv ==
    \A s, o \in Shards : s # o /\ pc[s] = "mark" /\ pc[o] = "mark" =>
        /\ Current(s) # Current(o)
        /\ Kind[Current(s)] = "event" \/ Kind[Current(o)] = "event"

(* What a successful search has counted is still on its list.              *)
FoundInv ==
    \A s \in Shards : pc[s] = "mark" =>
        LET l == ListOf(s, Current(s)) IN
        /\ l # <<>> /\ found[s].first = l[Len(l)]
        /\ found[s].set \subseteq Range(l) /\ found[s].oldest \in found[s].set

Enough(r, c) == Cardinality(c) >= Frequency[r] \/ Cardinality(c) = LastMax

ContextInv ==
    \A s \in Shards : pc[s] = "mark" =>
        /\ lastev[Current(s)] \subseteq found[s].set
        /\ Enough(Current(s), lastev[Current(s)])

(* The ignore time counts from the last alert: no event the rule fired for *)
(* is younger.                                                             *)
IgnoreInv ==
    \A e \in Events : gen[e] # None /\ IgnoreTime[gen[e]] > 0 => Time[e] <= ignored[gen[e]]

IndInv == /\ TypeOK /\ PcInv /\ OwnInv /\ GenInv /\ NodeInv /\ NodesOwned /\ LockInv
          /\ FoundInv /\ ContextInv /\ ContextOwn /\ IgnoreInv /\ IgnoredApart

-----------------------------------------------------------------------------
(* The second inductive invariant, for TriggersApart.                      *)

(* A mark of level l stands for one of rule r: it is as high, or may have  *)
(* been written over by a rule that searches under the other lock.         *)
Covers(l, r) == \/ l >= Level[r]
                \/ \E c \in Composite : OtherLock(c, r) /\ l >= Level[c]

(* The events that have not yet been put on a list of this kind.           *)
Before(k) == CASE k = "sid" -> {"search", "mark", "fire", "finish", "sid"}
               [] k = "group" -> {"search", "mark", "fire", "finish", "sid", "group"}
               [] OTHER -> Busy
Waiting(k) == {e \in Events : \E s \in Shards : \/ e \in Range(feed[s])
                                                \/ pc[s] \in Before(k) /\ e = cur[s]}

(* The events of the mark come before the one that carries it.             *)
Behind(l, m) == \A i, j \in DOMAIN l : l[i] \in m.set /\ l[j] = m.first => i <= j

UnmarkedInv ==
    \A s \in Shards :
       /\ \A e \in Range(feed[s]) : matched[e] = 0
       /\ pc[s] \in {"search", "mark"} => matched[cur[s]] = 0

(* What a search is about to write stands for the marks it writes over.    *)
OverInv ==
    \A s \in Shards : pc[s] = "mark" => \A m \in marks :
        m.first \in {found[s].first, found[s].oldest} => Covers(Level[Current(s)], m.rule)

MarkInv ==
    \A m \in marks :
       /\ Covers(matched[m.first], m.rule)
       /\ m.set \cap Waiting(Kind[m.rule]) = {}
       /\ \A s \in Shards : Behind(ListOf(s, m.rule), m)

MarksInv == UnmarkedInv /\ OverInv /\ MarkInv /\ TriggersApart

-----------------------------------------------------------------------------
(* Numbers and cardinalities.                                              *)

LEMMA LeastNumber ==
  ASSUME NEW T \in SUBSET Nat, T # {}
  PROVE  \E x \in T : \A y \in T : x <= y
<1> DEFINE R == OpToRel(<, Nat)
<1>1. IsWellFoundedOn(R, Nat)
  BY NatLessThanWellFounded
<1>2. \A x, y \in Nat : x < y => <<x, y>> \in R
  BY DEF OpToRel
<1> HIDE DEF R
<1>3. PICK x \in T : \A y \in T : ~ (<<y, x>> \in R)
  BY <1>1, WFMin
<1>4. \A y \in T : ~(y < x)
  BY <1>2, <1>3, Zenon
<1>5. \A y \in T : x <= y
  BY <1>4
<1> QED
  BY <1>3, <1>5

LEMMA MinProperties ==
  ASSUME NEW T \in SUBSET Nat, T # {}
  PROVE  Min(T) \in T /\ \A y \in T : Min(T) <= y
  BY LeastNumber DEF Min

LEMMA MaxProperties ==
  ASSUME NEW n \in Nat, NEW T \in SUBSET (0 .. n), T # {}
  PROVE  Max(T) \in T /\ \A y \in T : Max(T) >= y
<1> DEFINE U == {k \in 0 .. n : \A y \in T : y <= k}
<1>1. n \in U /\ U \in SUBSET Nat
  OBVIOUS
<1>2. PICK k \in U : \A j \in U : k <= j
  BY <1>1, LeastNumber, Zenon
<1>3. k \in T
  <2>1. CASE k = 0
    <3>1. PICK y \in T : TRUE
      OBVIOUS
    <3>2. y <= k /\ y \in 0 .. n
      BY <1>2, <3>1
    <3> QED
      BY <2>1, <3>1, <3>2
  <2>2. CASE k > 0
    <3> SUFFICES ASSUME k \notin T PROVE k - 1 \in U
      BY <1>2, <2>2
    <3> QED
      BY <1>2, <2>2
  <2> QED
    BY <2>1, <2>2
<1>4. \E x \in T : \A y \in T : x >= y
  BY <1>2, <1>3
<1> QED
  BY <1>4 DEF Max

(* The k greatest of n numbers: k of them, if there are as many.           *)
LEMMA Greatest ==
  ASSUME NEW N \in Nat, NEW n \in SUBSET (1 .. N), NEW K \in Nat, NEW k \in 0 .. K,
         Cardinality({i \in n : Cardinality({j \in n : j >= i}) <= K}) = K
  PROVE  /\ {i \in n : Cardinality({j \in n : j >= i}) <= k} \subseteq
                {i \in n : Cardinality({j \in n : j >= i}) <= K}
         /\ IsFiniteSet({i \in n : Cardinality({j \in n : j >= i}) <= k})
         /\ Cardinality({i \in n : Cardinality({j \in n : j >= i}) <= k}) = k
<1> DEFINE up(i) == {j \in n : j >= i}
           S(x) == {i \in n : Cardinality(up(i)) <= x}
<1>1. IsFiniteSet(n)
  <2>1. IsFiniteSet(1 .. N) /\ n \in SUBSET (1 .. N)
    BY FS_Interval
  <2> QED
    BY <2>1, FS_Subset, Zenon
<1>2. \A i \in n : IsFiniteSet(up(i)) /\ Cardinality(up(i)) \in Nat \ {0}
  <2> TAKE i \in n
  <2>1. IsFiniteSet(up(i)) /\ Cardinality(up(i)) \in Nat
    BY <1>1, FS_Subset, FS_CardinalityType
  <2>2. up(i) # {}
    OBVIOUS
  <2> QED
    BY <2>1, <2>2, FS_EmptySet
<1>3. \A i, j \in n : i < j => Cardinality(up(j)) < Cardinality(up(i))
  <2> SUFFICES ASSUME NEW i \in n, NEW j \in n, i < j
               PROVE  Cardinality(up(j)) < Cardinality(up(i))
    OBVIOUS
  <2>0. \A x \in n : x \in Nat
    OBVIOUS
  <2>1. up(j) \in SUBSET up(i) /\ i \in up(i) /\ i \notin up(j)
    <3>1. i >= i /\ ~(i >= j) /\ \A x \in n : x >= j => x >= i
      BY <2>0
    <3> QED
      BY <3>1, Zenon
  <2>2. /\ Cardinality(up(j)) <= Cardinality(up(i))
        /\ Cardinality(up(i)) = Cardinality(up(j)) => up(i) = up(j)
    BY <1>2, <2>1, FS_Subset
  <2>3. up(i) # up(j)
    BY <2>1, Zenon
  <2>4. Cardinality(up(i)) \in Nat /\ Cardinality(up(j)) \in Nat
    BY <1>2
  <2> HIDE DEF up
  <2> QED
    BY <2>2, <2>3, <2>4
<1> HIDE DEF up
<1> DEFINE f(x) == [i \in S(x) |-> Cardinality(up(i))]
<1>4. \A x \in Nat : f(x) \in Injection(S(x), 1 .. x)
  <2> SUFFICES ASSUME NEW x \in Nat
               PROVE  f(x) \in Injection(S(x), 1 .. x)
    OBVIOUS
  <2>1. \A i \in S(x) : Cardinality(up(i)) \in 1 .. x
    BY <1>2
  <2> HIDE DEF S
  <2>2. \A a, b \in S(x) : f(x)[a] = f(x)[b] => a = b
    <3> SUFFICES ASSUME NEW a \in S(x), NEW b \in S(x), Cardinality(up(a)) = Cardinality(up(b))
                 PROVE  a = b
      OBVIOUS
    <3>1. a \in n /\ b \in n /\ a \in Nat /\ b \in Nat
      BY DEF S
    <3> QED
      BY <1>2, <1>3, <3>1
  <2>3. f(x) \in [S(x) -> 1 .. x]
    BY <2>1
  <2> QED
    BY <2>2, <2>3 DEF Injection, IsInjective
<1>5. \A x \in Nat : IsFiniteSet(1 .. x) /\ Cardinality(1 .. x) = x
  BY FS_Interval
<1>6. \A x \in Nat : IsFiniteSet(S(x)) /\ (Cardinality(S(x)) = x <=> f(x) \in Surjection(S(x), 1 .. x))
  BY <1>4, <1>5, FS_Injection
<1>7. f(K) \in Surjection(S(K), 1 .. K)
  <2>1. Cardinality(S(K)) = K
    BY DEF up
  <2> HIDE DEF S, f
  <2> QED
    BY <1>6, <2>1
<1>8. f(k) \in Surjection(S(k), 1 .. k)
  <2>1. f(k) \in [S(k) -> 1 .. k] /\ k \in Nat
    <3> HIDE DEF S, f
    <3> QED
      BY <1>4 DEF Injection
  <2>2. ASSUME NEW y \in 1 .. k
        PROVE  \E i \in S(k) : f(k)[i] = y
    <3>1. y \in 1 .. K
      OBVIOUS
    <3>2. PICK i \in S(K) : f(K)[i] = y
      BY <1>7, <3>1 DEF Surjection
    <3>3. Cardinality(up(i)) = y
      BY <3>2
    <3>4. i \in S(k)
      BY <3>3
    <3> QED
      BY <3>3, <3>4
  <2> QED
    BY <2>1, <2>2 DEF Surjection
<1>9. Cardinality(S(k)) = k /\ IsFiniteSet(S(k))
  BY <1>6, <1>8
<1>10. S(k) \subseteq S(K)
  <2> SUFFICES ASSUME NEW i \in S(k) PROVE i \in S(K)
    OBVIOUS
  <2>1. i \in n /\ Cardinality(up(i)) <= k
    OBVIOUS
  <2>2. Cardinality(up(i)) <= K
    BY <1>2, <2>1
  <2> QED
    BY <2>1, <2>2
<1> QED
  BY <1>9, <1>10 DEF up

-----------------------------------------------------------------------------
(* Lists of events.                                                        *)

LEMMA InRange ==
  ASSUME NEW S, NEW l \in Seq(S)
  PROVE  /\ Len(l) \in Nat /\ DOMAIN l = 1 .. Len(l) /\ Range(l) \subseteq S
         /\ \A m : m \in Range(l) <=> \E x \in 1 .. Len(l) : l[x] = m
         /\ l = <<>> <=> Range(l) = {}
         /\ IsInjective(l) <=> \A x, y \in 1 .. Len(l) : l[x] = l[y] => x = y
         /\ l # <<>> => Len(l) \in 1 .. Len(l) /\ Head(l) = l[1]
<1>1. Len(l) \in Nat /\ DOMAIN l = 1 .. Len(l) /\ l \in [1 .. Len(l) -> S]
  BY LenProperties
<1>2. \A m : m \in Range(l) <=> \E x \in 1 .. Len(l) : l[x] = m
  BY <1>1 DEF Range
<1>3. l = <<>> <=> Len(l) = 0
  BY EmptySeq
<1>4. IsInjective(l) <=> \A x, y \in 1 .. Len(l) : l[x] = l[y] => x = y
  BY <1>1 DEF IsInjective
<1>5. l # <<>> => Len(l) \in 1 .. Len(l) /\ Head(l) = l[1]
  BY <1>1, <1>3
<1>6. Range(l) \subseteq S
  BY <1>1, <1>2
<1>7. l = <<>> <=> Range(l) = {}
  <2>1. CASE Len(l) = 0
    BY <1>2, <1>3, <2>1
  <2>2. CASE Len(l) # 0
    <3>1. 1 \in 1 .. Len(l)
      BY <1>1, <2>2
    <3> QED
      BY <1>2, <1>3, <2>2, <3>1
  <2> QED
    BY <2>1, <2>2
<1> QED
  BY <1>1, <1>2, <1>4, <1>5, <1>6, <1>7

LEMMA AppendList ==
  ASSUME NEW S, NEW l \in Seq(S), NEW e \in S
  PROVE  /\ Append(l, e) \in Seq(S) /\ Append(l, e) # <<>>
         /\ Len(Append(l, e)) = Len(l) + 1 /\ Append(l, e)[Len(l) + 1] = e
         /\ Range(Append(l, e)) = Range(l) \cup {e}
         /\ IsInjective(l) /\ e \notin Range(l) => IsInjective(Append(l, e))
         /\ \A m : Behind(l, m) /\ e \notin m.set => Behind(Append(l, e), m)
<1> DEFINE k == Append(l, e)
<1>1. /\ Len(l) \in Nat /\ k \in Seq(S) /\ k # <<>> /\ Len(k) = Len(l) + 1
      /\ \A x \in 1 .. Len(l) : k[x] = l[x]
      /\ k[Len(l) + 1] = e
  BY InRange, AppendProperties
<1> HIDE DEF k
<1>2. /\ \A z : z \in Range(k) <=> \E x \in 1 .. Len(l) + 1 : k[x] = z
      /\ \A z : z \in Range(l) <=> \E x \in 1 .. Len(l) : l[x] = z
      /\ DOMAIN k = 1 .. Len(l) + 1 /\ DOMAIN l = 1 .. Len(l)
      /\ IsInjective(l) => \A x, y \in 1 .. Len(l) : l[x] = l[y] => x = y
      /\ (\A x, y \in 1 .. Len(l) + 1 : k[x] = k[y] => x = y) => IsInjective(k)
  BY <1>1, InRange
<1>3. /\ \A x \in 1 .. Len(l) + 1 : x \in 1 .. Len(l) \/ x = Len(l) + 1
      /\ \A x \in 1 .. Len(l) : x \in 1 .. Len(l) + 1
      /\ Len(l) + 1 \in 1 .. Len(l) + 1
  BY <1>1
<1>4. Range(k) = Range(l) \cup {e}
  <2>1. \A z : z \in Range(k) <=> z \in Range(l) \cup {e}
    BY <1>1, <1>2, <1>3
  <2> QED
    BY <2>1
<1>5. ASSUME IsInjective(l), e \notin Range(l)
      PROVE  IsInjective(k)
  <2> SUFFICES ASSUME NEW x \in 1 .. Len(l) + 1, NEW y \in 1 .. Len(l) + 1, k[x] = k[y]
               PROVE  x = y
    BY <1>2
  <2> QED
    BY <1>1, <1>2, <1>3, <1>5
<1>6. ASSUME NEW m, Behind(l, m), e \notin m.set
      PROVE  Behind(k, m)
  <2> SUFFICES ASSUME NEW i \in 1 .. Len(l) + 1, NEW j \in 1 .. Len(l) + 1,
                      k[i] \in m.set, k[j] = m.first
               PROVE  i <= j
    BY <1>2 DEF Behind
  <2>1. i \in 1 .. Len(l) /\ l[i] \in m.set
    BY <1>1, <1>3, <1>6
  <2>2. CASE j \in 1 .. Len(l)
    BY <1>1, <1>2, <1>6, <2>1, <2>2 DEF Behind
  <2> QED
    BY <1>1, <1>3, <2>1, <2>2
<1> QED
  BY <1>1, <1>4, <1>5, <1>6 DEF k

(* A list with some of the elements of another, in their order.            *)
Picks(k, l, f) ==
    /\ f \in [1 .. Len(k) -> 1 .. Len(l)]
    /\ \A i, j \in 1 .. Len(k) : i < j => f[i] < f[j]
    /\ \A i \in 1 .. Len(k) : k[i] = l[f[i]]

LEMMA PickedList ==
  ASSUME NEW S, NEW l \in Seq(S), NEW k \in Seq(S), NEW f, Picks(k, l, f)
  PROVE  /\ Range(k) \subseteq Range(l)
         /\ IsInjective(l) => IsInjective(k)
         /\ \A m : Behind(l, m) => Behind(k, m)
<1>1. /\ Len(l) \in Nat /\ DOMAIN l = 1 .. Len(l) /\ Len(k) \in Nat /\ DOMAIN k = 1 .. Len(k)
      /\ \A z : z \in Range(k) <=> \E x \in 1 .. Len(k) : k[x] = z
      /\ \A z : z \in Range(l) <=> \E x \in 1 .. Len(l) : l[x] = z
      /\ IsInjective(l) => \A x, y \in 1 .. Len(l) : l[x] = l[y] => x = y
      /\ (\A x, y \in 1 .. Len(k) : k[x] = k[y] => x = y) => IsInjective(k)
  BY InRange
<1>2. /\ \A i \in 1 .. Len(k) : f[i] \in 1 .. Len(l) /\ k[i] = l[f[i]] /\ i \in Nat
      /\ \A i, j \in 1 .. Len(k) : i < j => f[i] < f[j]
  BY <1>1 DEF Picks
<1>3. Range(k) \subseteq Range(l)
  BY <1>1, <1>2
<1>4. ASSUME IsInjective(l)
      PROVE  IsInjective(k)
  <2> SUFFICES ASSUME NEW x \in 1 .. Len(k), NEW y \in 1 .. Len(k), k[x] = k[y]
               PROVE  x = y
    BY <1>1
  <2>1. f[x] = f[y] /\ f[x] \in Nat
    BY <1>1, <1>2, <1>4
  <2>2. ~(x < y) /\ ~(y < x)
    BY <1>2, <2>1
  <2> QED
    BY <2>2
<1>5. ASSUME NEW m, Behind(l, m)
      PROVE  Behind(k, m)
  <2> SUFFICES ASSUME NEW i \in 1 .. Len(k), NEW j \in 1 .. Len(k), k[i] \in m.set, k[j] = m.first
               PROVE  i <= j
    BY <1>1 DEF Behind
  <2>1. f[i] <= f[j] /\ f[i] \in Nat /\ f[j] \in Nat
    BY <1>1, <1>2, <1>5 DEF Behind
  <2>2. j < i => f[j] < f[i]
    BY <1>2
  <2> QED
    BY <1>2, <2>1, <2>2
<1> QED
  BY <1>3, <1>4, <1>5

LEMMA TailList ==
  ASSUME NEW S, NEW l \in Seq(S), l # <<>>
  PROVE  /\ Head(l) \in Range(l) /\ Tail(l) \in Seq(S)
         /\ Len(Tail(l)) = Len(l) - 1 /\ Len(l) \in Nat \ {0}
         /\ \E f : Picks(Tail(l), l, f)
         /\ IsInjective(l) => Range(Tail(l)) = Range(l) \ {Head(l)}
<1> DEFINE k == Tail(l)
           f == [i \in 1 .. Len(k) |-> i + 1]
<1>1. /\ Len(l) \in Nat \ {0} /\ Head(l) = l[1] /\ 1 \in 1 .. Len(l)
      /\ k \in Seq(S) /\ Len(k) = Len(l) - 1
      /\ \A x \in 1 .. Len(l) - 1 : k[x] = l[x + 1]
  BY InRange, EmptySeq, HeadTailProperties
<1> HIDE DEF k
<1>2. Picks(k, l, f)
  BY <1>1 DEF Picks
<1>3. /\ \A z : z \in Range(k) <=> \E x \in 1 .. Len(l) - 1 : k[x] = z
      /\ \A z : z \in Range(l) <=> \E x \in 1 .. Len(l) : l[x] = z
      /\ IsInjective(l) => \A x, y \in 1 .. Len(l) : l[x] = l[y] => x = y
  BY <1>1, InRange
<1>4. ASSUME IsInjective(l)
      PROVE  Range(k) = Range(l) \ {Head(l)}
  <2>1. ASSUME NEW z, z \in Range(l), z # l[1]
        PROVE  z \in Range(k)
    <3>1. PICK x \in 1 .. Len(l) : l[x] = z
      BY <1>3, <2>1
    <3>2. x - 1 \in 1 .. Len(l) - 1 /\ (x - 1) + 1 = x
      BY <1>1, <2>1, <3>1
    <3>3. k[x - 1] = z
      BY <1>1, <3>1, <3>2
    <3> QED
      BY <1>3, <3>2, <3>3
  <2>2. ASSUME NEW z, z \in Range(k)
        PROVE  z \in Range(l) /\ z # l[1]
    <3>1. PICK x \in 1 .. Len(l) - 1 : l[x + 1] = z
      BY <1>1, <1>3, <2>2
    <3>2. x + 1 \in 1 .. Len(l) /\ x + 1 # 1
      BY <1>1
    <3> QED
      BY <1>1, <1>3, <1>4, <3>1, <3>2
  <2> QED
    BY <1>1, <2>1, <2>2
<1> QED
  BY <1>1, <1>2, <1>3, <1>4 DEF k

(* What is left of the list after the eviction of the n oldest, and what   *)
(* goes, the newest of it first.                                           *)
LEMMA SplitList ==
  ASSUME NEW S, NEW l \in Seq(S), NEW n \in 0 .. Len(l)
  PROVE  LET k == SubSeq(l, n + 1, Len(l))
             v == Reverse(SubSeq(l, 1, n))
         IN /\ k \in Seq(S) /\ v \in Seq(S) /\ Len(k) = Len(l) - n
            /\ \E f : Picks(k, l, f)
            /\ Range(l) = Range(k) \cup Range(v)
            /\ IsInjective(l) => IsInjective(v) /\ Range(k) \cap Range(v) = {}
<1> DEFINE k == SubSeq(l, n + 1, Len(l))
           u == SubSeq(l, 1, n)
           v == Reverse(u)
           f == [i \in 1 .. Len(k) |-> i + n]
<1>1. Len(l) \in Nat /\ n \in Nat /\ n <= Len(l) /\ \A x \in 1 .. Len(l) : l[x] \in S
  BY InRange, ElementOfSeq
<1>2. /\ k \in Seq(S) /\ Len(k) = Len(l) - n
      /\ \A x \in 1 .. Len(l) - n : k[x] = l[x + n]
  <2>1. \A x \in n + 1 .. Len(l) : l[x] \in S
    BY <1>1
  <2> QED
    BY <1>1, <2>1, SubSeqProperties
<1>3. u \in Seq(S) /\ Len(u) = n /\ \A x \in 1 .. n : u[x] = l[x]
  <2>1. \A x \in 1 .. n : l[x] \in S
    BY <1>1
  <2> QED
    BY <1>1, <2>1, SubSeqProperties
<1> HIDE DEF k, u
<1>4. v = [i \in 1 .. n |-> u[(n - i) + 1]]
  BY <1>3 DEF Reverse
<1>5. v \in Seq(S) /\ Len(v) = n /\ \A i \in 1 .. n : v[i] = l[(n - i) + 1]
  <2>1. \A i \in 1 .. n : (n - i) + 1 \in 1 .. n /\ (n - i) + 1 \in 1 .. Len(l)
    BY <1>1
  <2>2. v \in [1 .. n -> S] /\ \A i \in 1 .. n : v[i] = l[(n - i) + 1]
    BY <1>1, <1>3, <1>4, <2>1
  <2> HIDE DEF v
  <2> QED
    BY <1>1, <2>2, IsASeq
<1> HIDE DEF v
<1>6. Picks(k, l, f)
  BY <1>1, <1>2 DEF Picks
<1>7. /\ \A z : z \in Range(k) <=> \E x \in 1 .. Len(l) - n : l[x + n] = z
      /\ \A z : z \in Range(v) <=> \E x \in 1 .. n : v[x] = z
      /\ \A z : z \in Range(l) <=> \E x \in 1 .. Len(l) : l[x] = z
      /\ IsInjective(l) => \A x, y \in 1 .. Len(l) : l[x] = l[y] => x = y
      /\ (\A x, y \in 1 .. n : v[x] = v[y] => x = y) => IsInjective(v)
  <2>1. \A z : z \in Range(k) <=> \E x \in 1 .. Len(l) - n : k[x] = z
    BY <1>2, InRange
  <2>2. /\ \A z : z \in Range(v) <=> \E x \in 1 .. n : v[x] = z
        /\ (\A x, y \in 1 .. n : v[x] = v[y] => x = y) => IsInjective(v)
    BY <1>5, InRange
  <2>3. /\ \A z : z \in Range(l) <=> \E x \in 1 .. Len(l) : l[x] = z
        /\ IsInjective(l) => \A x, y \in 1 .. Len(l) : l[x] = l[y] => x = y
    BY InRange
  <2>4. \A z : (\E x \in 1 .. Len(l) - n : k[x] = z) <=> (\E x \in 1 .. Len(l) - n : l[x + n] = z)
    BY <1>2
  <2> QED
    BY <2>1, <2>2, <2>3, <2>4
<1>8. \A z : z \in Range(v) <=> \E x \in 1 .. n : l[x] = z
  <2> TAKE z
  <2>1. ASSUME NEW x \in 1 .. n, l[x] = z
        PROVE  z \in Range(v)
    <3>1. (n - x) + 1 \in 1 .. n /\ (n - ((n - x) + 1)) + 1 = x
      BY <1>1
    <3> QED
      BY <1>5, <1>7, <2>1, <3>1
  <2>2. ASSUME NEW x \in 1 .. n, v[x] = z
        PROVE  \E y \in 1 .. n : l[y] = z
    <3>1. (n - x) + 1 \in 1 .. n
      BY <1>1
    <3> QED
      BY <1>5, <2>2, <3>1
  <2> QED
    BY <1>7, <2>1, <2>2
<1>9. Range(l) = Range(k) \cup Range(v)
  <2>1. ASSUME NEW z, z \in Range(l)
        PROVE  z \in Range(k) \cup Range(v)
    <3>1. PICK x \in 1 .. Len(l) : l[x] = z
      BY <1>7, <2>1
    <3>2. x \in 1 .. n \/ (x - n \in 1 .. Len(l) - n /\ (x - n) + n = x)
      BY <1>1
    <3> QED
      BY <1>7, <1>8, <3>1, <3>2
  <2>2. ASSUME NEW z, z \in Range(k) \cup Range(v)
        PROVE  z \in Range(l)
    <3>1. \A x \in 1 .. Len(l) - n : x + n \in 1 .. Len(l)
      BY <1>1
    <3>2. \A x \in 1 .. n : x \in 1 .. Len(l)
      BY <1>1
    <3> QED
      BY <1>7, <1>8, <2>2, <3>1, <3>2
  <2> QED
    BY <2>1, <2>2
<1>10. ASSUME IsInjective(l)
       PROVE  IsInjective(v) /\ Range(k) \cap Range(v) = {}
  <2>1. ASSUME NEW x \in 1 .. n, NEW y \in 1 .. n, v[x] = v[y]
        PROVE  x = y
    <3>1. (n - x) + 1 \in 1 .. Len(l) /\ (n - y) + 1 \in 1 .. Len(l)
      BY <1>1
    <3>2. l[(n - x) + 1] = l[(n - y) + 1]
      BY <1>5, <2>1
    <3>3. \A i, j \in 1 .. Len(l) : l[i] = l[j] => i = j
      BY <1>7, <1>10
    <3>4. (n - x) + 1 = (n - y) + 1
      BY <3>1, <3>2, <3>3
    <3> QED
      BY <1>1, <3>4
  <2>2. ASSUME NEW z, z \in Range(k), z \in Range(v)
        PROVE  FALSE
    <3>1. PICK x \in 1 .. Len(l) - n : l[x + n] = z
      BY <1>7, <2>2
    <3>2. PICK y \in 1 .. n : l[y] = z
      BY <1>8, <2>2
    <3>3. x + n \in 1 .. Len(l) /\ y \in 1 .. Len(l) /\ x + n # y
      BY <1>1
    <3> QED
      BY <1>7, <1>10, <3>1, <3>2, <3>3
  <2>3. IsInjective(v)
    BY <1>7, <2>1
  <2> QED
    BY <2>2, <2>3
<1>11. \E g : Picks(k, l, g)
  BY <1>6
<1> QED
  BY <1>2, <1>5, <1>9, <1>10, <1>11 DEF k, u, v

LEMMA WholeList ==
  ASSUME NEW S, NEW l \in Seq(S)
  PROVE  /\ Reverse(l) \in Seq(S) /\ Range(Reverse(l)) = Range(l)
         /\ IsInjective(l) => IsInjective(Reverse(l))
<1>1. Len(l) \in Nat /\ Len(l) \in 0 .. Len(l)
  BY InRange
<1>2. SubSeq(l, 1, Len(l)) = l
  BY SubSeqFull
<1>3. SubSeq(l, Len(l) + 1, Len(l)) = <<>> /\ Range(<<>>) = {}
  BY <1>1, SubSeqEmpty DEF Range
<1> DEFINE v == Reverse(SubSeq(l, 1, Len(l)))
           k == SubSeq(l, Len(l) + 1, Len(l))
<1>4. /\ v \in Seq(S) /\ Range(l) = Range(k) \cup Range(v)
      /\ IsInjective(l) => IsInjective(v)
  BY <1>1, SplitList, Zenon
<1>5. v = Reverse(l) /\ Range(k) = {}
  BY <1>2, <1>3
<1> HIDE DEF v, k
<1> QED
  BY <1>4, <1>5

LEMMA RemoveList ==
  ASSUME NEW S, NEW l \in Seq(S), NEW e
  PROVE  /\ RemoveFirst(l, e) \in Seq(S) /\ Len(RemoveFirst(l, e)) <= Len(l)
         /\ \E f : Picks(RemoveFirst(l, e), l, f)
         /\ IsInjective(l) => Range(RemoveFirst(l, e)) = Range(l) \ {e}
<1>1. Len(l) \in Nat
  BY InRange
<1>2. CASE ~ \E i \in 1 .. Len(l) : l[i] = e
  <2>1. RemoveFirst(l, e) = l
    BY <1>2 DEF RemoveFirst
  <2>2. Picks(l, l, [i \in 1 .. Len(l) |-> i])
    BY <1>1 DEF Picks
  <2>3. Range(l) = Range(l) \ {e}
    BY <1>2, InRange
  <2> QED
    BY <1>1, <2>1, <2>2, <2>3
<1>3. CASE \E i \in 1 .. Len(l) : l[i] = e
  <2> DEFINE n == SelectInSeq(l, LAMBDA v : v = e)
             a == SubSeq(l, 1, n - 1)
             b == SubSeq(l, n + 1, Len(l))
             k == a \o b
             f == [i \in 1 .. Len(k) |-> IF i < n THEN i ELSE i + 1]
  <2>1. n \in 1 .. Len(l) /\ l[n] = e
    <3> DEFINE T == {i \in 1 .. Len(l) : l[i] = e}
    <3>1. T \in SUBSET Nat /\ T # {}
      BY <1>3
    <3>2. n = Min(T)
      BY <3>1 DEF SelectInSeq
    <3> HIDE DEF n
    <3>3. Min(T) \in T
      BY <3>1, MinProperties, Zenon
    <3> QED
      BY <3>2, <3>3
  <2>2. RemoveFirst(l, e) = k
    BY <1>3 DEF RemoveFirst, RemoveAt
  <2> HIDE DEF n
  <2>3. a \in Seq(S) /\ Len(a) = n - 1 /\ \A m \in 1 .. n - 1 : a[m] = l[m]
    <3>1. \A m \in 1 .. n - 1 : l[m] \in S
      BY <1>1, <2>1, ElementOfSeq
    <3> QED
      BY <1>1, <2>1, <3>1, SubSeqProperties
  <2>4. b \in Seq(S) /\ Len(b) = Len(l) - n /\ \A m \in 1 .. Len(l) - n : b[m] = l[m + n]
    <3>1. \A m \in n + 1 .. Len(l) : l[m] \in S
      BY <1>1, <2>1, ElementOfSeq
    <3> QED
      BY <1>1, <2>1, <3>1, SubSeqProperties
  <2> HIDE DEF a, b
  <2>5. /\ k \in Seq(S) /\ Len(k) = Len(l) - 1
        /\ \A m \in 1 .. Len(l) - 1 : k[m] = IF m < n THEN l[m] ELSE l[m + 1]
    <3>1. /\ k \in Seq(S) /\ Len(k) = Len(a) + Len(b)
          /\ \A m \in 1 .. Len(a) + Len(b) : k[m] = IF m <= Len(a) THEN a[m] ELSE b[m - Len(a)]
      BY <2>3, <2>4, ConcatProperties
    <3>2. Len(a) + Len(b) = Len(l) - 1
      BY <1>1, <2>1, <2>3, <2>4
    <3> HIDE DEF k
    <3>3. ASSUME NEW m \in 1 .. Len(l) - 1
          PROVE  k[m] = IF m < n THEN l[m] ELSE l[m + 1]
      <4>1. CASE m < n
        BY <1>1, <2>1, <2>3, <3>1, <3>2, <4>1
      <4>2. CASE ~(m < n)
        <5>1. m - (n - 1) \in 1 .. Len(l) - n /\ (m - (n - 1)) + n = m + 1 /\ ~(m <= n - 1)
          BY <1>1, <2>1, <4>2
        <5>2. k[m] = b[m - (n - 1)]
          BY <2>3, <3>1, <3>2, <5>1
        <5>3. b[m - (n - 1)] = l[(m - (n - 1)) + n]
          BY <2>4, <5>1
        <5> QED
          BY <4>2, <5>1, <5>2, <5>3
      <4> QED
        BY <4>1, <4>2
    <3> QED
      BY <3>1, <3>2, <3>3
  <2> HIDE DEF k
  <2>6. Picks(k, l, f)
    <3>1. f \in [1 .. Len(k) -> 1 .. Len(l)]
      BY <1>1, <2>1, <2>5
    <3>2. \A i, j \in 1 .. Len(k) : i < j => f[i] < f[j]
      BY <1>1, <2>1, <2>5
    <3>3. \A i \in 1 .. Len(k) : k[i] = l[f[i]]
      BY <1>1, <2>1, <2>5
    <3> HIDE DEF f
    <3> QED
      BY <3>1, <3>2, <3>3 DEF Picks
  <2>7. ASSUME IsInjective(l)
        PROVE  Range(k) = Range(l) \ {e}
    <3>0. /\ \A z : z \in Range(k) <=> \E x \in 1 .. Len(l) - 1 : k[x] = z
          /\ \A z : z \in Range(l) <=> \E x \in 1 .. Len(l) : l[x] = z
          /\ \A x, y \in 1 .. Len(l) : l[x] = l[y] => x = y
      BY <2>5, <2>7, InRange
    <3>1. ASSUME NEW z, z \in Range(l), z # e
          PROVE  z \in Range(k)
      <4>1. PICK x \in 1 .. Len(l) : l[x] = z
        BY <3>0, <3>1
      <4>2. x # n
        BY <2>1, <3>1, <4>1
      <4>3. CASE x < n
        <5>1. x \in 1 .. Len(l) - 1
          BY <1>1, <2>1, <4>3
        <5> QED
          BY <2>5, <3>0, <4>1, <4>3, <5>1
      <4>4. CASE x > n
        <5>1. x - 1 \in 1 .. Len(l) - 1 /\ ~(x - 1 < n) /\ (x - 1) + 1 = x
          BY <1>1, <2>1, <4>4
        <5>2. k[x - 1] = z
          BY <2>5, <4>1, <5>1
        <5> QED
          BY <3>0, <5>1, <5>2
      <4> QED
        BY <1>1, <2>1, <4>2, <4>3, <4>4
    <3>2. ASSUME NEW z, z \in Range(k)
          PROVE  z \in Range(l) /\ z # e
      <4>1. PICK x \in 1 .. Len(l) - 1 : k[x] = z
        BY <3>0, <3>2
      <4>2. PICK y \in 1 .. Len(l) : y # n /\ l[y] = z
        <5>1. x \in 1 .. Len(l) /\ x + 1 \in 1 .. Len(l) /\ (x < n => x # n) /\ (~(x < n) => x + 1 # n)
          BY <1>1, <2>1
        <5> QED
          BY <2>5, <4>1, <5>1
      <4> QED
        BY <2>1, <3>0, <4>2
    <3> QED
      BY <3>1, <3>2
  <2>8. \E g : Picks(k, l, g)
    BY <2>6
  <2> QED
    BY <1>1, <2>2, <2>5, <2>7, <2>8
<1> QED
  BY <1>2, <1>3

-----------------------------------------------------------------------------
(* The rules and their lists.                                              *)

LEMMA RuleSets ==
  /\ Simple \subseteq Rules /\ Composite \subseteq Rules /\ SidLists \subseteq Rules
  /\ GroupLists \subseteq Composite /\ \A e \in Events : Base[e] \in Simple
  /\ \A b \in Simple : Children[b] \in Seq(Composite)
  /\ None \notin Events /\ None \notin Rules
<1>1. Simple \subseteq Rules /\ Composite \subseteq Rules /\ GroupLists \subseteq Composite
  BY DEF Rules, GroupLists
<1>2. SidLists \subseteq Rules
  BY CorrelationAssumption DEF SidLists
<1>3. \A e \in Events : Base[e] \in Simple
  BY DEF Simple
<1> QED
  BY <1>1, <1>2, <1>3, CorrelationAssumption

LEMMA SharedList ==
  ASSUME NEW s \in Shards, NEW r \in Composite
  PROVE  \/ /\ Kind[r] = "sid"
            /\ \E b \in SidLists : Watched[r] = {b} /\ ListOf(s, r) = sidlist[b]
         \/ Kind[r] = "group" /\ r \in GroupLists /\ ListOf(s, r) = grouplist[r]
         \/ Kind[r] = "event" /\ ListOf(s, r) = elist[s]
<1>1. Kind[r] \in {"sid", "group", "event"}
  BY CorrelationAssumption
<1>2. CASE Kind[r] = "sid"
  <2>1. PICK b \in Rules : Watched[r] = {b}
    BY <1>2, CorrelationAssumption
  <2>2. b \in SidLists
    BY <1>2, <2>1 DEF SidLists
  <2>3. ListOf(s, r) = sidlist[b]
    <3>1. (CHOOSE x \in Watched[r] : TRUE) = b
      BY <2>1
    <3> QED
      BY <1>2, <3>1 DEF ListOf
  <2> QED
    BY <1>2, <2>1, <2>2, <2>3
<1>3. CASE Kind[r] = "group"
  BY <1>3 DEF ListOf, GroupLists
<1>4. CASE Kind[r] = "event"
  BY <1>4 DEF ListOf
<1> QED
  BY <1>1, <1>2, <1>3, <1>4

LEMMA CurrentRule ==
  ASSUME TypeOK, PcInv, NEW s \in Shards,
         pc[s] = "mark" \/ (pc[s] = "search" /\ child[s] <= Len(Children[Base[cur[s]]]))
  PROVE  Current(s) \in Composite /\ cur[s] \in Events
<1>1. cur[s] \in Events
  BY DEF TypeOK, PcInv, Busy
<1>2. Children[Base[cur[s]]] \in Seq(Composite)
  BY <1>1, RuleSets
<1>3. child[s] \in 1 .. Len(Children[Base[cur[s]]])
  BY <1>2 DEF TypeOK, PcInv
<1> QED
  BY <1>1, <1>2, <1>3, ElementOfSeq DEF Current

LEMMA AnyList ==
  ASSUME TypeOK, OwnInv, NodeInv, NodesOwned, NEW s \in Shards, NEW r \in Composite
  PROVE  /\ ListOf(s, r) \in Seq(Events) /\ IsInjective(ListOf(s, r))
         /\ Range(ListOf(s, r)) \subseteq live
         /\ Kind[r] = "sid" => Range(ListOf(s, r)) \subseteq sidnode
         /\ Kind[r] = "group" => Range(ListOf(s, r)) \subseteq groupnodes
         /\ Kind[r] = "event" => ListOf(s, r) = elist[s]
<1>1. CASE \E b \in SidLists : Kind[r] = "sid" /\ ListOf(s, r) = sidlist[b]
  BY <1>1 DEF TypeOK, NodesOwned, NodeInv
<1>2. CASE Kind[r] = "group" /\ r \in GroupLists /\ ListOf(s, r) = grouplist[r]
  BY <1>2 DEF TypeOK, NodesOwned, NodeInv
<1>3. CASE Kind[r] = "event" /\ ListOf(s, r) = elist[s]
  BY <1>3 DEF TypeOK, OwnInv, Kept
<1> QED
  BY <1>1, <1>2, <1>3, SharedList

(* The walk stops behind every event with the mark.                        *)
LEMMA StopProperties ==
  ASSUME NEW r \in Composite, NEW e \in Events, NEW l \in Seq(Events)
  PROVE  /\ Stop(r, e, l) \in 0 .. Len(l)
         /\ \A i \in 1 .. Len(l) : matched[l[i]] >= Level[r] => i <= Stop(r, e, l)
<1> DEFINE T == {0} \cup {i \in DOMAIN l : \/ Time[e] - Time[l[i]] > Timeframe[r]
                                           \/ matched[l[i]] >= Level[r]}
<1>1. Len(l) \in Nat /\ DOMAIN l = 1 .. Len(l)
  BY InRange
<1>2. T \in SUBSET (0 .. Len(l)) /\ T # {}
  BY <1>1
<1>3. \A i \in 1 .. Len(l) : matched[l[i]] >= Level[r] => i \in T
  BY <1>1
<1>4. Stop(r, e, l) = Max(T)
  BY DEF Stop
<1> HIDE DEF T
<1>5. Max(T) \in T /\ \A y \in T : Max(T) >= y
  BY <1>1, <1>2, MaxProperties
<1> QED
  BY <1>1, <1>2, <1>3, <1>4, <1>5

(* What a search does.                                                     *)
SearchDone(s) ==
    LET r == Current(s)
        l == ListOf(s, r)
    IN /\ pc'[s] = "mark" /\ child' = child /\ found'[s] \in Found
       /\ l # <<>> /\ found'[s].first = l[Len(l)]
       /\ found'[s].set \subseteq Range(l) /\ found'[s].oldest \in found'[s].set
       /\ lastev'[r] \subseteq found'[s].set /\ Enough(r, lastev'[r])
       /\ \A i, j \in 1 .. Len(l) : l[i] \in found'[s].set /\ matched[l[j]] >= Level[r] => j < i

Searched(s) ==
    LET r == Current(s)
    IN /\ pc[s] = "search" /\ r \in Composite /\ cur[s] \in Events
       /\ child[s] <= Len(Children[Base[cur[s]]])
       /\ RuleFree(s, r) /\ (Kind[r] # "event" => PrevMatchedFree(s))
       /\ lastev' \in [Composite -> SUBSET Events]
       /\ \A q \in Composite \ {r} : lastev'[q] = lastev[q]
       /\ pc' \in [Shards -> Steps] /\ child' \in [Shards -> Nat]
       /\ found' \in [Shards -> Found \cup {None}]
       /\ \A o \in Shards \ {s} : pc'[o] = pc[o] /\ found'[o] = found[o] /\ child'[o] = child[o]
       /\ UNCHANGED <<feed, cur, rule, elist, victims, shared, gen, matched, ignored, live, marks>>
       /\ \/ SearchDone(s)
          \/ pc' = pc /\ found' = found /\ child'[s] = child[s] + 1

LEMMA SearchFacts ==
  ASSUME TypeOK, PcInv, OwnInv, NodeInv, NodesOwned, NEW s \in Shards, Search(s)
  PROVE  Searched(s)
<1> DEFINE r == Current(s)
           l == ListOf(s, r)
           n == Counts(r, cur[s], l)
           Newest(k) == {i \in n : Cardinality({j \in n : j >= i}) <= k}
           K == Frequency[r] + 1
           c == Newest(K)
           logs == IF Kind[r] = "sid" THEN Frequency[r] + 1 ELSE Frequency[r]
           k == IF logs > LastMax THEN LastMax ELSE logs
           f == [set |-> {l[i] : i \in c}, oldest |-> l[Min(c)], first |-> l[Len(l)]]
<1>1. /\ pc[s] = "search" /\ child[s] <= Len(Children[Base[cur[s]]])
      /\ RuleFree(s, r) /\ (Kind[r] # "event" => PrevMatchedFree(s))
      /\ lastev' = [lastev EXCEPT ![r] = {l[i] : i \in Newest(k)}]
      /\ \/ /\ Cardinality(c) = K
            /\ found' = [found EXCEPT ![s] = f] /\ Goto(s, "mark") /\ UNCHANGED child
         \/ child' = [child EXCEPT ![s] = @ + 1] /\ UNCHANGED <<found, pc>>
      /\ UNCHANGED <<feed, cur, rule, elist, victims, shared, gen, matched, ignored, live, marks>>
  BY DEF Search
<1>2. r \in Composite /\ cur[s] \in Events
  BY <1>1, CurrentRule
<1>3. l \in Seq(Events) /\ IsInjective(l)
  BY <1>2, AnyList
<1>4. /\ K \in Nat \ {0} /\ k \in 0 .. K /\ (k >= Frequency[r] \/ k = LastMax)
  BY <1>2, CorrelationAssumption
<1>5. Stop(r, cur[s], l) \in 0 .. Len(l)
      /\ \A i \in 1 .. Len(l) : matched[l[i]] >= Level[r] => i <= Stop(r, cur[s], l)
  BY <1>2, <1>3, StopProperties
<1>6. /\ Len(l) \in Nat /\ \A i \in 1 .. Len(l) : l[i] \in Events
      /\ \A i, j \in 1 .. Len(l) : l[i] = l[j] => i = j
      /\ \A z : z \in Range(l) <=> \E i \in 1 .. Len(l) : l[i] = z
  BY <1>3, InRange, ElementOfSeq
<1>7. n \subseteq 1 .. Len(l) /\ \A i \in n : i > Stop(r, cur[s], l)
  BY <1>5, <1>6 DEF Counts
<1>8. TypeOK
  OBVIOUS
<1>12. \A x : Newest(x) \subseteq n
  OBVIOUS
<1> HIDE DEF r, l, n, K, k, logs
<1>9. /\ lastev' \in [Composite -> SUBSET Events] /\ \A q \in Composite \ {r} : lastev'[q] = lastev[q]
      /\ lastev'[r] = {l[i] : i \in Newest(k)}
  <2> HIDE DEF Newest
  <2>0. \A i \in Newest(k) : l[i] \in Events
    BY <1>6, <1>7, <1>12
  <2>1. {l[i] : i \in Newest(k)} \subseteq Events
    BY <2>0
  <2> QED
    BY <1>1, <1>2, <1>8, <2>1 DEF TypeOK
<1>10. CASE /\ Cardinality(c) = K
            /\ found' = [found EXCEPT ![s] = f] /\ Goto(s, "mark") /\ UNCHANGED child
  <2>1. /\ Newest(k) \subseteq c /\ IsFiniteSet(Newest(k)) /\ Cardinality(Newest(k)) = k
    <3>1. Len(l) \in Nat /\ n \in SUBSET (1 .. Len(l)) /\ K \in Nat /\ k \in 0 .. K
      BY <1>4, <1>6, <1>7
    <3>2. Cardinality({i \in n : Cardinality({j \in n : j >= i}) <= K}) = K
      BY <1>10
    <3>3. /\ {i \in n : Cardinality({j \in n : j >= i}) <= k} \subseteq
                {i \in n : Cardinality({j \in n : j >= i}) <= K}
          /\ IsFiniteSet({i \in n : Cardinality({j \in n : j >= i}) <= k})
          /\ Cardinality({i \in n : Cardinality({j \in n : j >= i}) <= k}) = k
      BY <3>1, <3>2, Greatest, ZenonT(30)
    <3> QED
      BY <3>3
  <2>2. c # {} /\ c \in SUBSET Nat /\ c \subseteq n /\ c \subseteq 1 .. Len(l)
    <3>1. c \subseteq n
      BY <1>12
    <3> HIDE DEF c
    <3>2. c # {}
      BY <1>4, <1>10, FS_EmptySet
    <3> QED
      BY <1>6, <1>7, <3>1, <3>2
  <2>3. Newest(k) \subseteq n
    BY <1>12
  <2> HIDE DEF c, Newest
  <2>4. Min(c) \in c
    BY <2>2, MinProperties, Zenon
  <2>5. l # <<>> /\ Len(l) \in 1 .. Len(l)
    <3>0. PICK i \in c : TRUE
      BY <2>2
    <3>1. Len(l) # 0
      BY <1>6, <2>2, <3>0
    <3> QED
      BY <1>3, <1>6, <3>1, InRange, EmptySeq
  <2>6. f \in Found /\ f.set \subseteq Range(l) /\ f.oldest \in f.set /\ f.first = l[Len(l)]
    <3>1. \A i \in c : l[i] \in Events /\ l[i] \in Range(l)
      BY <1>6, <2>2
    <3>2. l[Len(l)] \in Events
      BY <1>6, <2>5
    <3>3. f.set \subseteq Range(l) /\ f.set \subseteq Events /\ f.oldest \in f.set
      BY <2>4, <3>1
    <3>4. f.first = l[Len(l)] /\ f.first \in Events /\ f.oldest \in Events
      BY <3>2, <3>3
    <3> QED
      BY <3>3, <3>4 DEF Found
  <2>7. {l[i] : i \in Newest(k)} \subseteq f.set
    BY <2>1
  <2>8. Cardinality({l[i] : i \in Newest(k)}) = k
    <3> DEFINE g == [i \in Newest(k) |-> l[i]]
               D == {l[i] : i \in Newest(k)}
    <3>1. \A i, j \in Newest(k) : l[i] = l[j] => i = j
      BY <1>6, <1>7, <2>3
    <3>2. g \in Bijection(Newest(k), D)
      BY <3>1 DEF Bijection, Injection, Surjection, IsInjective
    <3>3. ExistsBijection(Newest(k), D)
      BY <3>2 DEF ExistsBijection
    <3> HIDE DEF D
    <3>4. Cardinality(D) = Cardinality(Newest(k))
      BY <2>1, <3>3, FS_Bijection
    <3> QED
      BY <2>1, <3>4 DEF D
  <2>9. Enough(r, lastev'[r]) /\ lastev'[r] \subseteq f.set
    <3>1. lastev'[r] = {l[i] : i \in Newest(k)}
      BY <1>9
    <3>2. Cardinality(lastev'[r]) = k
      BY <2>8, <3>1
    <3> QED
      BY <1>4, <2>7, <3>1, <3>2 DEF Enough
  <2>10. \A i, j \in 1 .. Len(l) : l[i] \in f.set /\ matched[l[j]] >= Level[r] => j < i
    <3> SUFFICES ASSUME NEW i \in 1 .. Len(l), NEW j \in 1 .. Len(l),
                        l[i] \in f.set, matched[l[j]] >= Level[r]
                 PROVE  j < i
      OBVIOUS
    <3>1. PICK x \in c : l[x] = l[i]
      OBVIOUS
    <3>2. i \in c
      BY <1>6, <2>2, <3>1
    <3> QED
      BY <1>5, <1>6, <1>7, <2>2, <3>2
  <2> HIDE DEF f
  <2>11. found'[s] = f /\ found' \in [Shards -> Found \cup {None}]
         /\ \A o \in Shards \ {s} : found'[o] = found[o]
    BY <1>8, <1>10, <2>6 DEF TypeOK
  <2>12. pc' \in [Shards -> Steps] /\ pc'[s] = "mark" /\ \A o \in Shards \ {s} : pc'[o] = pc[o]
    BY <1>8, <1>10 DEF TypeOK, Goto, Steps
  <2>13. SearchDone(s)
    BY <1>10, <2>5, <2>6, <2>9, <2>10, <2>11, <2>12 DEF SearchDone, r, l
  <2>14. child' \in [Shards -> Nat] /\ \A o \in Shards \ {s} : child'[o] = child[o]
    BY <1>8, <1>10 DEF TypeOK
  <2> QED
    BY <1>1, <1>2, <1>9, <2>11, <2>12, <2>13, <2>14 DEF Searched, r
<1>11. CASE child' = [child EXCEPT ![s] = @ + 1] /\ UNCHANGED <<found, pc>>
  <2>1. /\ child' \in [Shards -> Nat] /\ child'[s] = child[s] + 1
        /\ \A o \in Shards \ {s} : child'[o] = child[o]
    BY <1>8, <1>11 DEF TypeOK
  <2>2. pc' \in [Shards -> Steps] /\ found' \in [Shards -> Found \cup {None}]
        /\ pc' = pc /\ found' = found
    BY <1>8, <1>11 DEF TypeOK
  <2> QED
    BY <1>1, <1>2, <1>9, <2>1, <2>2 DEF Searched, r
<1> QED
  BY <1>1, <1>10, <1>11

-----------------------------------------------------------------------------
(* Types.                                                                  *)

LEMMA GotoFacts ==
  ASSUME TypeOK, NEW s \in Shards, NEW l \in Steps, Goto(s, l)
  PROVE  /\ pc' \in [Shards -> Steps] /\ pc'[s] = l
         /\ \A o \in Shards \ {s} : pc'[o] = pc[o]
  BY DEF TypeOK, Goto

(* The eviction leaves no more events than the list may hold.              *)
LEMMA EvictedBound ==
  ASSUME NEW l \in Seq(Events), NEW e \in Events, Len(l) <= MemSize + 1
  PROVE  /\ Evicted(l, e) \in 0 .. Len(l)
         /\ Len(l) - Evicted(l, e) <= MemSize
<1> DEFINE T == {k \in 0 .. Len(l) :
                   k = Len(l) \/ (k >= MinEvict /\ Time[e] - Time[l[k + 1]] <= MaxFreq)}
<1>1. Len(l) \in Nat /\ MemSize \in Nat /\ MinEvict \in Nat \ {0}
  BY InRange, CorrelationAssumption
<1>2. T \in SUBSET Nat /\ Len(l) \in T
  BY <1>1
<1>3. Evicted(l, e) = IF Len(l) <= MemSize THEN 0 ELSE Min(T)
  BY DEF Evicted
<1>4. \A k \in T : k \in 0 .. Len(l) /\ (k = Len(l) \/ k >= MinEvict)
  OBVIOUS
<1> HIDE DEF T
<1>5. Min(T) \in T
  BY <1>2, MinProperties
<1> QED
  BY <1>1, <1>3, <1>4, <1>5

(* What the insertion into the event list does.                            *)
Added(s) ==
    LET l == Append(elist[s], cur[s]) IN
    /\ pc[s] = "add" /\ cur[s] \in Events
    /\ elist' \in [Shards -> Seq(Events)] /\ victims' \in [Shards -> Seq(Events)]
    /\ cur' \in [Shards -> Events \cup {None}] /\ pc' \in [Shards -> Steps]
    /\ \A o \in Shards \ {s} : /\ elist'[o] = elist[o] /\ victims'[o] = victims[o]
                               /\ cur'[o] = cur[o] /\ pc'[o] = pc[o]
    /\ cur'[s] = None /\ pc'[s] = "unlink"
    /\ Len(elist'[s]) <= MemSize
    /\ \E f : Picks(elist'[s], l, f)
    /\ Range(elist'[s]) \cup Range(victims'[s]) = Range(elist[s]) \cup {cur[s]}
    /\ IsInjective(elist[s]) /\ cur[s] \notin Range(elist[s]) =>
         /\ IsInjective(elist'[s]) /\ IsInjective(victims'[s])
         /\ Range(elist'[s]) \cap Range(victims'[s]) = {}
    /\ UNCHANGED <<feed, child, found, rule, shared, gen, matched, lastev, ignored, live, marks>>

LEMMA AddEventFacts ==
  ASSUME TypeOK, PcInv, NEW s \in Shards, AddEvent(s)
  PROVE  Added(s)
<1> DEFINE l == Append(elist[s], cur[s])
           k == Evicted(l, cur[s])
           a == SubSeq(l, k + 1, Len(l))
           v == Reverse(SubSeq(l, 1, k))
<1>1. pc[s] = "add" /\ cur[s] \in Events /\ elist[s] \in Seq(Events) /\ Len(elist[s]) <= MemSize
  BY DEF AddEvent, TypeOK, PcInv, Busy
<1>2. /\ l \in Seq(Events) /\ Len(l) = Len(elist[s]) + 1
      /\ Range(l) = Range(elist[s]) \cup {cur[s]}
      /\ IsInjective(elist[s]) /\ cur[s] \notin Range(elist[s]) => IsInjective(l)
  BY <1>1, AppendList
<1>3. elist' = [elist EXCEPT ![s] = a] /\ victims' = [victims EXCEPT ![s] = v]
  BY DEF AddEvent
<1>4. /\ cur' = [cur EXCEPT ![s] = None] /\ Goto(s, "unlink")
      /\ UNCHANGED <<feed, child, found, rule, shared, gen, matched, lastev, ignored, live, marks>>
  BY DEF AddEvent
<1> HIDE DEF l
<1>5. k \in 0 .. Len(l) /\ Len(l) - k <= MemSize
  <2>1. Len(l) <= MemSize + 1
    BY <1>1, <1>2, InRange, CorrelationAssumption
  <2> QED
    BY <1>1, <1>2, <2>1, EvictedBound
<1> HIDE DEF k
<1>6. /\ a \in Seq(Events) /\ v \in Seq(Events) /\ Len(a) = Len(l) - k
      /\ \E f : Picks(a, l, f)
      /\ Range(l) = Range(a) \cup Range(v)
      /\ IsInjective(l) => IsInjective(v) /\ Range(a) \cap Range(v) = {}
  BY <1>2, <1>5, SplitList, Zenon
<1>7. IsInjective(l) => IsInjective(a)
  <2>1. PICK f : Picks(a, l, f)
    BY <1>6
  <2> HIDE DEF a
  <2>2. a \in Seq(Events) /\ l \in Seq(Events)
    BY <1>2, <1>6
  <2> QED
    BY <2>1, <2>2, PickedList
<1> HIDE DEF a, v
<1>8. /\ elist' \in [Shards -> Seq(Events)] /\ victims' \in [Shards -> Seq(Events)]
      /\ cur' \in [Shards -> Events \cup {None}]
      /\ elist'[s] = a /\ victims'[s] = v /\ cur'[s] = None
      /\ \A o \in Shards \ {s} : /\ elist'[o] = elist[o] /\ victims'[o] = victims[o]
                                 /\ cur'[o] = cur[o]
  BY <1>3, <1>4, <1>6 DEF TypeOK
<1>9. /\ pc' \in [Shards -> Steps] /\ pc'[s] = "unlink"
      /\ \A o \in Shards \ {s} : pc'[o] = pc[o]
  BY <1>4, GotoFacts DEF Steps
<1> QED
  BY <1>1, <1>2, <1>4, <1>5, <1>6, <1>7, <1>8, <1>9 DEF Added, l

(* What the insertion into the list of a rule does.                        *)
SidAdded(s) ==
    LET r == rule[s]
        l == Append(sidlist[r], cur[s])
    IN /\ pc[s] = "sid" /\ cur[s] \in Events /\ r \in Rules
       /\ pc' \in [Shards -> Steps] /\ pc'[s] = "group"
       /\ \A o \in Shards \ {s} : pc'[o] = pc[o]
       /\ sidlist' \in [SidLists -> Seq(Events)] /\ sidnode' \subseteq Events
       /\ UNCHANGED <<thread, elist, victims, grouplist, groupnodes, gen, matched, lastev, ignored, live, marks>>
       /\ \/ r \notin SidLists /\ UNCHANGED <<sidlist, sidnode>>
          \/ /\ r \in SidLists /\ PrevMatchedFree(s)
             /\ \A q \in SidLists \ {r} : sidlist'[q] = sidlist[q]
             /\ Len(sidlist'[r]) <= SidMax
             /\ \/ sidlist'[r] = l /\ sidnode' = sidnode \cup {cur[s]}
                \/ sidlist'[r] = Tail(l) /\ sidnode' = (sidnode \cup {cur[s]}) \ {Head(l)}

LEMMA AddSidFacts ==
  ASSUME TypeOK, PcInv, NEW s \in Shards, AddSid(s)
  PROVE  SidAdded(s)
<1> DEFINE r == rule[s]
           l == Append(sidlist[r], cur[s])
<1>1. /\ pc[s] = "sid" /\ cur[s] \in Events /\ r \in Rules
      /\ sidlist \in [SidLists -> Seq(Events)] /\ sidnode \subseteq Events
      /\ \A q \in SidLists : Len(sidlist[q]) <= SidMax
  BY DEF AddSid, TypeOK, PcInv, Busy
<1>2. pc' \in [Shards -> Steps] /\ pc'[s] = "group" /\ \A o \in Shards \ {s} : pc'[o] = pc[o]
  BY GotoFacts DEF AddSid, Steps
<1>3. UNCHANGED <<thread, elist, victims, grouplist, groupnodes, gen, matched, lastev, ignored, live, marks>>
  BY DEF AddSid
<1>4. CASE r \notin SidLists
  <2>1. UNCHANGED <<sidlist, sidnode>>
    BY <1>4 DEF AddSid
  <2>2. sidlist' \in [SidLists -> Seq(Events)] /\ sidnode' \subseteq Events
    BY <1>1, <2>1
  <2> QED
    BY <1>1, <1>2, <1>3, <1>4, <2>1, <2>2 DEF SidAdded
<1>5. CASE r \in SidLists
  <2>1. /\ PrevMatchedFree(s)
        /\ sidlist' = [sidlist EXCEPT ![r] = IF Len(l) > SidMax THEN Tail(l) ELSE l]
        /\ sidnode' = (sidnode \cup {cur[s]}) \ (IF Len(l) > SidMax THEN {Head(l)} ELSE {})
    BY <1>5 DEF AddSid
  <2>2. /\ l \in Seq(Events) /\ l # <<>> /\ Len(l) = Len(sidlist[r]) + 1 /\ Len(sidlist[r]) \in Nat
        /\ Len(sidlist[r]) <= SidMax
    BY <1>1, <1>5, AppendList, InRange
  <2>3. Tail(l) \in Seq(Events) /\ Len(Tail(l)) = Len(l) - 1
    BY <2>2, TailList
  <2> HIDE DEF l
  <2>4. CASE Len(l) > SidMax
    <3>1. /\ sidlist' \in [SidLists -> Seq(Events)] /\ sidlist'[r] = Tail(l)
          /\ \A q \in SidLists \ {r} : sidlist'[q] = sidlist[q]
      BY <1>1, <1>5, <2>1, <2>3, <2>4
    <3>2. sidnode' = (sidnode \cup {cur[s]}) \ {Head(l)} /\ sidnode' \subseteq Events
      BY <1>1, <2>1, <2>4
    <3>3. Len(sidlist'[r]) = Len(sidlist[r])
      BY <2>2, <2>3, <3>1
    <3>4. Len(sidlist'[r]) <= SidMax
      BY <2>2, <3>3
    <3> QED
      BY <1>1, <1>2, <1>3, <1>5, <2>1, <3>1, <3>2, <3>4 DEF SidAdded, l
  <2>5. CASE ~(Len(l) > SidMax)
    <3>1. /\ sidlist' \in [SidLists -> Seq(Events)] /\ sidlist'[r] = l
          /\ \A q \in SidLists \ {r} : sidlist'[q] = sidlist[q]
      BY <1>1, <1>5, <2>1, <2>2, <2>5
    <3>2. sidnode' = sidnode \cup {cur[s]} /\ sidnode' \subseteq Events
      BY <1>1, <2>1, <2>5
    <3>3. Len(sidlist'[r]) <= SidMax
      BY <2>2, <2>5, <3>1, CorrelationAssumption
    <3> QED
      BY <1>1, <1>2, <1>3, <1>5, <2>1, <3>1, <3>2, <3>3 DEF SidAdded, l
  <2> QED
    BY <2>4, <2>5
<1> QED
  BY <1>4, <1>5

(* What the insertion into the lists of groups does.                       *)
GroupsAdded(s) ==
    /\ pc[s] = "group" /\ cur[s] \in Events /\ rule[s] \in Rules
    /\ pc' \in [Shards -> Steps] /\ pc'[s] = "add"
    /\ \A o \in Shards \ {s} : pc'[o] = pc[o]
    /\ grouplist' \in [GroupLists -> Seq(Events)] /\ groupnodes' \subseteq Events
    /\ UNCHANGED <<thread, elist, victims, sidlist, sidnode, gen, matched, lastev, ignored, live, marks>>
    /\ \A c \in GroupLists :
         grouplist'[c] = IF rule[s] \in Watched[c] THEN Append(grouplist[c], cur[s]) ELSE grouplist[c]
    /\ groupnodes' = IF \E c \in GroupLists : rule[s] \in Watched[c]
                     THEN groupnodes \cup {cur[s]} ELSE groupnodes
    /\ (\E c \in GroupLists : rule[s] \in Watched[c]) => PrevMatchedFree(s)

LEMMA AddGroupsFacts ==
  ASSUME TypeOK, PcInv, NEW s \in Shards, AddGroups(s)
  PROVE  GroupsAdded(s)
<1>1. /\ pc[s] = "group" /\ cur[s] \in Events /\ rule[s] \in Rules
      /\ grouplist \in [GroupLists -> Seq(Events)] /\ groupnodes \subseteq Events
  BY DEF AddGroups, TypeOK, PcInv, Busy
<1>2. pc' \in [Shards -> Steps] /\ pc'[s] = "add" /\ \A o \in Shards \ {s} : pc'[o] = pc[o]
  BY GotoFacts DEF AddGroups, Steps
<1>3. UNCHANGED <<thread, elist, victims, sidlist, sidnode, gen, matched, lastev, ignored, live, marks>>
  BY DEF AddGroups
<1>4. /\ Watchers(rule[s]) \subseteq GroupLists
      /\ \A c \in GroupLists : c \in Watchers(rule[s]) <=> rule[s] \in Watched[c]
      /\ \A c \in GroupLists : Append(grouplist[c], cur[s]) \in Seq(Events)
  BY <1>1, AppendList DEF Watchers
<1>5. CASE Watchers(rule[s]) = {}
  <2>1. UNCHANGED <<grouplist, groupnodes>>
    BY <1>5 DEF AddGroups
  <2>2. \A c \in GroupLists : rule[s] \notin Watched[c]
    BY <1>4, <1>5
  <2> QED
    BY <1>1, <1>2, <1>3, <2>1, <2>2 DEF GroupsAdded
<1>6. CASE Watchers(rule[s]) # {}
  <2>1. /\ PrevMatchedFree(s) /\ groupnodes' = groupnodes \cup {cur[s]}
        /\ grouplist' = [c \in GroupLists |-> IF c \in Watchers(rule[s])
                           THEN Append(grouplist[c], cur[s]) ELSE grouplist[c]]
    BY <1>6 DEF AddGroups
  <2>2. \E c \in GroupLists : rule[s] \in Watched[c]
    BY <1>4, <1>6
  <2>3. /\ grouplist' \in [GroupLists -> Seq(Events)]
        /\ \A c \in GroupLists :
             grouplist'[c] = IF rule[s] \in Watched[c] THEN Append(grouplist[c], cur[s]) ELSE grouplist[c]
    BY <1>1, <1>4, <2>1
  <2> QED
    BY <1>1, <1>2, <1>3, <2>1, <2>2, <2>3 DEF GroupsAdded
<1> QED
  BY <1>5, <1>6

(* What the unlinking of a victim does.                                    *)
Unlinked(s) ==
    LET e == Head(victims[s]) IN
    /\ pc[s] = "unlink" /\ victims[s] # <<>> /\ e \in Range(victims[s])
    /\ pc' \in [Shards -> Steps] /\ pc'[s] = "free"
    /\ \A o \in Shards \ {s} : pc'[o] = pc[o]
    /\ e \in sidnode \cup groupnodes => PrevMatchedFree(s)
    /\ sidlist' \in [SidLists -> Seq(Events)] /\ grouplist' \in [GroupLists -> Seq(Events)]
    /\ sidnode' = sidnode \ {e} /\ groupnodes' = groupnodes \ {e}
    /\ \A r \in SidLists : sidlist'[r] =
         IF e \in sidnode /\ gen[e] = r THEN RemoveFirst(sidlist[r], e) ELSE sidlist[r]
    /\ \A c \in GroupLists : grouplist'[c] =
         IF e \in groupnodes /\ gen[e] \in Watched[c] THEN RemoveFirst(grouplist[c], e) ELSE grouplist[c]
    /\ UNCHANGED <<thread, elist, victims, gen, matched, lastev, ignored, live, marks>>

LEMMA UnlinkFacts ==
  ASSUME TypeOK, NodeInv, NEW s \in Shards, UnlinkVictim(s)
  PROVE  Unlinked(s)
<1> DEFINE e == Head(victims[s])
<1>1. /\ pc[s] = "unlink" /\ victims[s] # <<>> /\ (e \in sidnode \cup groupnodes => PrevMatchedFree(s))
      /\ Unlink(e) /\ sidnode' = sidnode \ {e} /\ groupnodes' = groupnodes \ {e}
      /\ UNCHANGED <<thread, elist, victims, gen, matched, lastev, ignored, live, marks>>
  BY DEF UnlinkVictim
<1>2. pc' \in [Shards -> Steps] /\ pc'[s] = "free" /\ \A o \in Shards \ {s} : pc'[o] = pc[o]
  BY GotoFacts DEF UnlinkVictim, Steps
<1>3. e \in Range(victims[s])
  BY <1>1, TailList DEF TypeOK
<1> HIDE DEF e
<1>4. /\ \A r \in SidLists : RemoveFirst(sidlist[r], e) \in Seq(Events)
      /\ \A c \in GroupLists : RemoveFirst(grouplist[c], e) \in Seq(Events)
  BY RemoveList DEF TypeOK
<1>5. /\ sidlist \in [SidLists -> Seq(Events)] /\ grouplist \in [GroupLists -> Seq(Events)]
      /\ e \in sidnode => gen[e] \in SidLists
      /\ e \in groupnodes => gen[e] \in Rules
  BY DEF TypeOK, NodeInv
<1>6. /\ sidlist' \in [SidLists -> Seq(Events)]
      /\ \A r \in SidLists : sidlist'[r] =
           IF e \in sidnode /\ gen[e] = r THEN RemoveFirst(sidlist[r], e) ELSE sidlist[r]
  <2>1. CASE e \in sidnode
    <3>1. gen[e] \in SidLists /\ gen[e] # None
      BY <1>5, <2>1, RuleSets
    <3>2. sidlist' = [sidlist EXCEPT ![gen[e]] = RemoveFirst(@, e)]
      BY <1>1, <2>1, <3>1 DEF Unlink
    <3> QED
      BY <1>4, <1>5, <2>1, <3>1, <3>2
  <2>2. CASE e \notin sidnode
    <3>1. sidlist' = sidlist
      BY <1>1, <2>2 DEF Unlink
    <3> QED
      BY <1>5, <2>2, <3>1
  <2> QED
    BY <2>1, <2>2
<1>7. /\ grouplist' \in [GroupLists -> Seq(Events)]
      /\ \A c \in GroupLists : grouplist'[c] =
           IF e \in groupnodes /\ gen[e] \in Watched[c] THEN RemoveFirst(grouplist[c], e) ELSE grouplist[c]
  <2>1. CASE e \in groupnodes
    <3>1. gen[e] # None
      BY <1>5, <2>1, RuleSets
    <3>2. grouplist' = [c \in GroupLists |-> IF c \in Watchers(gen[e])
                          THEN RemoveFirst(grouplist[c], e) ELSE grouplist[c]]
      BY <1>1, <2>1, <3>1 DEF Unlink
    <3>3. \A c \in GroupLists : c \in Watchers(gen[e]) <=> gen[e] \in Watched[c]
      BY DEF Watchers
    <3> QED
      BY <1>4, <1>5, <2>1, <3>2, <3>3
  <2>2. CASE e \notin groupnodes
    <3>1. grouplist' = grouplist
      BY <1>1, <2>2 DEF Unlink
    <3> QED
      BY <1>5, <2>2, <3>1
  <2> QED
    BY <2>1, <2>2
<1> QED
  BY <1>1, <1>2, <1>3, <1>6, <1>7 DEF Unlinked, e

(* What the marks do.                                                      *)
Marked(s) ==
    LET r == Current(s)
        f == found[s]
    IN /\ pc[s] = "mark" /\ r \in Composite /\ cur[s] \in Events /\ f \in Found
       /\ pc' \in [Shards -> Steps] /\ pc'[s] = "fire"
       /\ \A o \in Shards \ {s} : pc'[o] = pc[o]
       /\ found' \in [Shards -> Found \cup {None}] /\ found'[s] = None
       /\ \A o \in Shards \ {s} : found'[o] = found[o]
       /\ rule' \in [Shards -> Rules \cup {None}] /\ rule'[s] = r
       /\ \A o \in Shards \ {s} : rule'[o] = rule[o]
       /\ lastev' \in [Composite -> SUBSET Events] /\ lastev'[r] = {}
       /\ \A q \in Composite \ {r} : lastev'[q] = lastev[q]
       /\ matched' \in [Events -> Nat]
       /\ \A e \in Events : matched'[e] = IF e \in {cur[s], f.oldest, f.first} THEN Level[r] ELSE matched[e]
       /\ marks' = marks \cup {[rule |-> r, set |-> f.set, first |-> f.first, context |-> lastev[r]]}
       /\ marks' \subseteq Marks
       /\ UNCHANGED <<feed, cur, child, elist, victims, shared, gen, ignored, live>>

LEMMA MarkFacts ==
  ASSUME TypeOK, PcInv, NEW s \in Shards, Mark(s)
  PROVE  Marked(s)
<1> DEFINE r == Current(s)
           f == found[s]
<1>1. pc[s] = "mark" /\ r \in Composite /\ cur[s] \in Events
  BY CurrentRule DEF Mark
<1>2. f \in Found /\ f.set \subseteq Events /\ f.oldest \in Events /\ f.first \in Events
  BY <1>1 DEF TypeOK, PcInv, Found
<1>3. pc' \in [Shards -> Steps] /\ pc'[s] = "fire" /\ \A o \in Shards \ {s} : pc'[o] = pc[o]
  BY GotoFacts DEF Mark, Steps
<1>4. /\ found' = [found EXCEPT ![s] = None] /\ rule' = [rule EXCEPT ![s] = r]
      /\ lastev' = [lastev EXCEPT ![r] = {}]
      /\ matched' = [e \in Events |-> IF e \in {cur[s], f.oldest, f.first} THEN Level[r] ELSE matched[e]]
      /\ marks' = marks \cup {[rule |-> r, set |-> f.set, first |-> f.first, context |-> lastev[r]]}
      /\ UNCHANGED <<feed, cur, child, elist, victims, shared, gen, ignored, live>>
  BY DEF Mark
<1> HIDE DEF r
<1>5. /\ found' \in [Shards -> Found \cup {None}] /\ found'[s] = None
      /\ \A o \in Shards \ {s} : found'[o] = found[o]
  BY <1>4 DEF TypeOK
<1>6. /\ rule' \in [Shards -> Rules \cup {None}] /\ rule'[s] = r
      /\ \A o \in Shards \ {s} : rule'[o] = rule[o]
  BY <1>1, <1>4, RuleSets DEF TypeOK
<1>7. /\ lastev' \in [Composite -> SUBSET Events] /\ lastev'[r] = {}
      /\ \A q \in Composite \ {r} : lastev'[q] = lastev[q]
  BY <1>1, <1>4 DEF TypeOK
<1>8. /\ matched' \in [Events -> Nat]
      /\ \A e \in Events : matched'[e] = IF e \in {cur[s], f.oldest, f.first} THEN Level[r] ELSE matched[e]
  BY <1>1, <1>4, CorrelationAssumption DEF TypeOK
<1>9. marks' \subseteq Marks
  <2>1. lastev[r] \subseteq Events
    BY <1>1 DEF TypeOK
  <2>2. [rule |-> r, set |-> f.set, first |-> f.first, context |-> lastev[r]] \in Marks
    BY <1>1, <1>2, <2>1 DEF Marks
  <2> QED
    BY <1>4, <2>2 DEF TypeOK
<1> QED
  BY <1>1, <1>2, <1>3, <1>4, <1>5, <1>6, <1>7, <1>8, <1>9 DEF Marked, r

(* A step of the thread of one shard.                                      *)
Step(s) ==
    \/ Take(s) \/ Search(s) \/ Mark(s) \/ NoChild(s) \/ Fire(s) \/ AddSid(s) \/ AddGroups(s)
    \/ AddEvent(s) \/ UnlinkVictim(s) \/ FreeVictim(s) \/ Freed(s) \/ Finish(s) \/ Destroy(s)

LEMMA TypeStep ==
  ASSUME IndInv, NEW s \in Shards, Step(s)
  PROVE  TypeOK'
<1> USE DEF IndInv, thread, shared
<1>1. CASE Take(s)
  <2>1. Head(feed[s]) \in Events /\ Tail(feed[s]) \in Seq(Events)
    BY <1>1, HeadTailProperties DEF Take, TypeOK
  <2>2. pc' \in [Shards -> Steps]
    BY <1>1, GotoFacts DEF Take, Steps
  <2> QED
    BY <1>1, <2>1, <2>2 DEF Take, TypeOK
<1>2. CASE Search(s)
  <2>1. Searched(s)
    BY <1>2, SearchFacts
  <2> QED
    BY <2>1 DEF Searched, TypeOK
<1>3. CASE Mark(s)
  <2>1. Marked(s)
    BY <1>3, MarkFacts
  <2> QED
    BY <2>1 DEF Marked, TypeOK
<1>4. CASE NoChild(s)
  <2>1. pc' \in [Shards -> Steps]
    BY <1>4, GotoFacts DEF NoChild, Steps
  <2>2. Base[cur[s]] \in Rules
    BY <1>4, RuleSets DEF NoChild, TypeOK, PcInv, Busy
  <2> QED
    BY <1>4, <2>1, <2>2 DEF NoChild, TypeOK
<1>5. CASE Fire(s)
  <2>1. rule[s] \in Rules /\ cur[s] \in Events /\ Time[cur[s]] \in Nat
    BY <1>5, CorrelationAssumption DEF Fire, TypeOK, PcInv, Busy
  <2>2. pc' \in [Shards -> Steps]
    BY <1>5, GotoFacts DEF Fire, Steps
  <2>3. gen' \in [Events -> Rules \cup {None}]
    BY <1>5, <2>1 DEF Fire, TypeOK
  <2>4. ignored' \in [Rules -> Nat]
    BY <1>5, <2>1 DEF Fire, Ignore, TypeOK
  <2> QED
    BY <1>5, <2>2, <2>3, <2>4 DEF Fire, TypeOK
<1>6. CASE AddSid(s)
  <2>1. SidAdded(s)
    BY <1>6, AddSidFacts
  <2>2. \A r \in SidLists : Len(sidlist'[r]) <= SidMax
    BY <2>1 DEF SidAdded, TypeOK
  <2> QED
    BY <2>1, <2>2 DEF SidAdded, TypeOK
<1>7. CASE AddGroups(s)
  <2>1. GroupsAdded(s)
    BY <1>7, AddGroupsFacts
  <2> QED
    BY <2>1 DEF GroupsAdded, TypeOK
<1>8. CASE AddEvent(s)
  <2>1. Added(s)
    BY <1>8, AddEventFacts
  <2>2. \A o \in Shards : Len(elist'[o]) <= MemSize
    BY <2>1 DEF Added, TypeOK
  <2> QED
    BY <2>1, <2>2 DEF Added, TypeOK
<1>9. CASE UnlinkVictim(s)
  <2>1. Unlinked(s)
    BY <1>9, UnlinkFacts
  <2>2. \A r \in SidLists : Len(sidlist'[r]) <= SidMax
    <3> TAKE r \in SidLists
    <3>1. /\ sidlist[r] \in Seq(Events) /\ Len(sidlist[r]) <= SidMax
          /\ sidlist'[r] = sidlist[r] \/ sidlist'[r] = RemoveFirst(sidlist[r], Head(victims[s]))
      BY <2>1 DEF Unlinked, TypeOK
    <3>2. Len(RemoveFirst(sidlist[r], Head(victims[s]))) <= Len(sidlist[r])
          /\ RemoveFirst(sidlist[r], Head(victims[s])) \in Seq(Events)
      BY <3>1, RemoveList
    <3> QED
      BY <3>1, <3>2, InRange, CorrelationAssumption
  <2> QED
    BY <2>1, <2>2 DEF Unlinked, TypeOK
<1>10. CASE FreeVictim(s)
  <2>1. pc' \in [Shards -> Steps]
    BY <1>10, GotoFacts DEF FreeVictim, Steps
  <2>2. Tail(victims[s]) \in Seq(Events)
    BY <1>10, HeadTailProperties DEF FreeVictim, TypeOK, PcInv
  <2> QED
    BY <1>10, <2>1, <2>2 DEF FreeVictim, TypeOK
<1>11. CASE Freed(s)
  <2>1. pc' \in [Shards -> Steps]
    BY <1>11, GotoFacts DEF Freed, Steps
  <2> QED
    BY <1>11, <2>1 DEF Freed, TypeOK
<1>12. CASE Finish(s)
  <2>1. pc' \in [Shards -> Steps]
    BY <1>12, GotoFacts DEF Finish, Steps
  <2> QED
    BY <1>12, <2>1 DEF Finish, TypeOK
<1>13. CASE Destroy(s)
  <2>1. pc' \in [Shards -> Steps]
    BY <1>13, GotoFacts DEF Destroy, Steps
  <2>2. Reverse(elist[s]) \in Seq(Events) /\ <<>> \in Seq(Events) /\ Len(<<>>) = 0
    BY WholeList, EmptySeq DEF TypeOK
  <2>3. \A o \in Shards : Len(elist'[o]) <= MemSize
    BY <1>13, <2>2, CorrelationAssumption DEF Destroy, TypeOK
  <2> QED
    BY <1>13, <2>1, <2>2, <2>3 DEF Destroy, TypeOK
<1> QED
  BY <1>1, <1>2, <1>3, <1>4, <1>5, <1>6, <1>7, <1>8, <1>9, <1>10, <1>11, <1>12, <1>13 DEF Step

-----------------------------------------------------------------------------
(* The threads.                                                            *)

(* A thread changes nothing that is another's.                             *)
LEMMA OthersKeep ==
  ASSUME IndInv, NEW s \in Shards, Step(s), NEW o \in Shards, o # s
  PROVE  /\ pc'[o] = pc[o] /\ cur'[o] = cur[o] /\ child'[o] = child[o] /\ found'[o] = found[o]
         /\ rule'[o] = rule[o] /\ feed'[o] = feed[o] /\ elist'[o] = elist[o]
         /\ victims'[o] = victims[o]
<1> USE DEF IndInv, thread, shared, TypeOK
<1>1. CASE Take(s)
  BY <1>1 DEF Take, Goto
<1>2. CASE Search(s)
  BY <1>2, SearchFacts DEF Searched
<1>3. CASE Mark(s)
  BY <1>3, MarkFacts DEF Marked
<1>4. CASE NoChild(s)
  BY <1>4 DEF NoChild, Goto
<1>5. CASE Fire(s)
  BY <1>5 DEF Fire, Goto
<1>6. CASE AddSid(s)
  <2>1. SidAdded(s)
    BY <1>6, AddSidFacts
  <2> QED
    BY <2>1 DEF SidAdded
<1>7. CASE AddGroups(s)
  <2>1. GroupsAdded(s)
    BY <1>7, AddGroupsFacts
  <2> QED
    BY <2>1 DEF GroupsAdded
<1>8. CASE AddEvent(s)
  <2>1. Added(s)
    BY <1>8, AddEventFacts
  <2> QED
    BY <2>1 DEF Added
<1>9. CASE UnlinkVictim(s)
  <2>1. Unlinked(s)
    BY <1>9, UnlinkFacts
  <2> QED
    BY <2>1 DEF Unlinked
<1>10. CASE FreeVictim(s)
  BY <1>10 DEF FreeVictim, Goto
<1>11. CASE Freed(s)
  BY <1>11 DEF Freed, Goto
<1>12. CASE Finish(s)
  BY <1>12 DEF Finish, Goto
<1>13. CASE Destroy(s)
  BY <1>13 DEF Destroy, Goto
<1> QED
  BY <1>1, <1>2, <1>3, <1>4, <1>5, <1>6, <1>7, <1>8, <1>9, <1>10, <1>11, <1>12, <1>13 DEF Step

LEMMA PcStep ==
  ASSUME IndInv, NEW s \in Shards, Step(s)
  PROVE  PcInv'
<1> DEFINE P(o) ==
       /\ cur[o] # None <=> pc[o] \in Busy
       /\ pc[o] = "search" => child[o] >= 1
       /\ pc[o] = "mark" => child[o] \in 1 .. Len(Children[Base[cur[o]]])
       /\ pc[o] = "mark" => found[o] \in Found
       /\ pc[o] \in {"fire", "sid", "group", "add"} => rule[o] \in Rules
       /\ victims[o] # <<>> => pc[o] \in {"unlink", "free"}
       /\ pc[o] = "free" => victims[o] # <<>>
<1>0. TypeOK /\ PcInv /\ OwnInv /\ NodeInv /\ NodesOwned /\ P(s)
  BY DEF IndInv, PcInv
<1>1. ASSUME NEW o \in Shards, o # s
      PROVE  P(o)'
  BY <1>1, OthersKeep DEF IndInv, PcInv
<1>2. P(s)'
  <2> USE DEF TypeOK, thread, shared, Busy
  <2>1. CASE Take(s)
    <3>1. Head(feed[s]) \in Events
      BY <2>1, HeadTailProperties DEF Take, IndInv
    <3> QED
      BY <1>0, <2>1, <3>1, RuleSets DEF Take, Goto
  <2>2. CASE Search(s)
    <3>1. Searched(s)
      BY <1>0, <2>2, SearchFacts
    <3>2. CASE SearchDone(s)
      <4>1. child[s] \in 1 .. Len(Children[Base[cur[s]]])
        BY <1>0, <3>1, RuleSets DEF Searched
      <4>2. found'[s] \in Found
        BY <3>2 DEF SearchDone
      <4> QED
        BY <1>0, <3>1, <3>2, <4>1, <4>2 DEF Searched, SearchDone
    <3>3. CASE pc' = pc /\ found' = found /\ child'[s] = child[s] + 1
      BY <1>0, <3>1, <3>3 DEF Searched
    <3> QED
      BY <3>1, <3>2, <3>3 DEF Searched
  <2>3. CASE Mark(s)
    <3>1. Marked(s)
      BY <1>0, <2>3, MarkFacts
    <3>2. pc[s] = "mark" /\ pc'[s] = "fire" /\ cur' = cur /\ victims' = victims
      BY <3>1 DEF Marked
    <3>3. rule'[s] \in Rules
      BY <3>1, RuleSets DEF Marked
    <3> QED
      BY <1>0, <3>2, <3>3
  <2>4. CASE NoChild(s)
    BY <1>0, <2>4, RuleSets DEF NoChild, Goto
  <2>5. CASE Fire(s)
    BY <1>0, <2>5 DEF Fire, Goto
  <2>6. CASE AddSid(s)
    BY <1>0, <2>6, AddSidFacts DEF SidAdded
  <2>7. CASE AddGroups(s)
    BY <1>0, <2>7, AddGroupsFacts DEF GroupsAdded
  <2>8. CASE AddEvent(s)
    BY <1>0, <2>8, AddEventFacts DEF Added
  <2>9. CASE UnlinkVictim(s)
    BY <1>0, <2>9, UnlinkFacts DEF Unlinked
  <2>10. CASE FreeVictim(s)
    BY <1>0, <2>10 DEF FreeVictim, Goto
  <2>11. CASE Freed(s)
    BY <1>0, <2>11 DEF Freed, Goto
  <2>12. CASE Finish(s)
    BY <1>0, <2>12 DEF Finish, Goto
  <2>13. CASE Destroy(s)
    BY <1>0, <2>13 DEF Destroy, Goto
  <2> QED
    BY <2>1, <2>2, <2>3, <2>4, <2>5, <2>6, <2>7, <2>8, <2>9, <2>10, <2>11, <2>12, <2>13 DEF Step
<1> QED
  BY <1>1, <1>2 DEF PcInv

(* Where the events of a shard are.                                        *)
LEMMA OwnStep ==
  ASSUME IndInv, NEW s \in Shards, Step(s)
  PROVE  OwnInv'
<1> DEFINE P(o) ==
       /\ IsInjective(feed[o]) /\ IsInjective(elist[o]) /\ IsInjective(victims[o])
       /\ Range(feed[o]) \cup Kept(o) \subseteq Range(Feed[o])
       /\ cur[o] # None => cur[o] \in Range(Feed[o]) \ (Range(feed[o]) \cup Kept(o))
       /\ Range(feed[o]) \cap Kept(o) = {} /\ Range(elist[o]) \cap Range(victims[o]) = {}
       /\ Range(feed[o]) \cap live = {}
       /\ Kept(o) \subseteq live /\ (cur[o] # None => cur[o] \in live)
<1>0. TypeOK /\ PcInv /\ OwnInv /\ NodeInv /\ NodesOwned /\ P(s)
  BY DEF IndInv, OwnInv
(* The events of a shard live and die by its own steps.                    *)
<1>1. \A e : (e \in live /\ e \notin live') \/ (e \notin live /\ e \in live') => e \in Range(Feed[s])
  <2> USE DEF TypeOK, thread, shared
  <2>1. CASE Take(s)
    <3>1. Head(feed[s]) \in Range(Feed[s])
      BY <1>0, <2>1, TailList DEF Take
    <3> QED
      BY <2>1, <3>1 DEF Take
  <2>2. CASE FreeVictim(s)
    <3>1. Head(victims[s]) \in Range(Feed[s])
      BY <1>0, <2>2, TailList DEF FreeVictim, PcInv, Kept
    <3> QED
      BY <2>2, <3>1 DEF FreeVictim
  <2>3. CASE Finish(s)
    BY <1>0, <2>3 DEF Finish, PcInv, Busy
  <2>4. CASE ~Take(s) /\ ~FreeVictim(s) /\ ~Finish(s)
    <3>1. live' = live
      BY <2>4 DEF Step, Search, Mark, NoChild, Fire, AddSid, AddGroups, AddEvent, UnlinkVictim,
                  Freed, Destroy
    <3> QED
      BY <3>1
  <2> QED
    BY <2>1, <2>2, <2>3, <2>4
<1>2. ASSUME NEW o \in Shards, o # s
      PROVE  P(o)'
  <2>1. /\ cur'[o] = cur[o] /\ feed'[o] = feed[o] /\ elist'[o] = elist[o] /\ victims'[o] = victims[o]
    BY <1>2, OthersKeep
  <2>2. P(o) /\ Range(Feed[s]) \cap Range(Feed[o]) = {}
    BY <1>0, <1>2, CorrelationAssumption DEF OwnInv
  <2>3. \A e \in Range(Feed[o]) : e \in live <=> e \in live'
    BY <1>1, <2>2
  <2> QED
    BY <2>1, <2>2, <2>3 DEF Kept
<1>3. P(s)'
  <2> USE DEF TypeOK, thread, shared
  <2>1. CASE Take(s)
    <3> DEFINE e == Head(feed[s])
    <3>1. /\ feed'[s] = Tail(feed[s]) /\ cur'[s] = e /\ live' = live \cup {e} /\ feed[s] # <<>>
          /\ elist' = elist /\ victims' = victims /\ feed[s] \in Seq(Events)
      BY <1>0, <2>1 DEF Take
    <3>2. /\ e \in Range(feed[s]) /\ Tail(feed[s]) \in Seq(Events)
          /\ Range(Tail(feed[s])) = Range(feed[s]) \ {e}
      BY <1>0, <3>1, TailList
    <3>3. IsInjective(Tail(feed[s]))
      <4>1. PICK f : Picks(Tail(feed[s]), feed[s], f)
        BY <3>1, TailList
      <4>2. Tail(feed[s]) \in Seq(Events) /\ feed[s] \in Seq(Events) /\ IsInjective(feed[s])
        BY <1>0, <3>1, <3>2
      <4> QED
        BY <4>1, <4>2, PickedList
    <3> HIDE DEF e
    <3> QED
      BY <1>0, <3>1, <3>2, <3>3 DEF Kept
  <2>2. CASE AddEvent(s)
    <3>1. Added(s)
      BY <1>0, <2>2, AddEventFacts
    <3>2. /\ cur[s] \in Range(Feed[s]) \ (Range(feed[s]) \cup Kept(s)) /\ cur[s] \in live
          /\ victims[s] = <<>> /\ cur'[s] = None
      BY <1>0, <3>1, RuleSets DEF Added, PcInv, Busy
    <3>3. Range(victims[s]) = {}
      BY <1>0, <3>2, InRange
    <3> QED
      BY <1>0, <3>1, <3>2, <3>3 DEF Added, Kept
  <2>3. CASE FreeVictim(s)
    <3> DEFINE e == Head(victims[s])
    <3>1. /\ victims'[s] = Tail(victims[s]) /\ live' = live \ {e} /\ victims[s] # <<>>
          /\ elist' = elist /\ feed' = feed /\ cur' = cur /\ victims[s] \in Seq(Events)
          /\ cur[s] = None
      BY <1>0, <2>3 DEF FreeVictim, PcInv, Busy
    <3>2. /\ e \in Range(victims[s]) /\ Range(Tail(victims[s])) = Range(victims[s]) \ {e}
          /\ Tail(victims[s]) \in Seq(Events)
      BY <1>0, <3>1, TailList
    <3>3. IsInjective(Tail(victims[s]))
      <4>1. PICK f : Picks(Tail(victims[s]), victims[s], f)
        BY <3>1, TailList
      <4>2. Tail(victims[s]) \in Seq(Events) /\ victims[s] \in Seq(Events) /\ IsInjective(victims[s])
        BY <1>0, <3>1, <3>2
      <4> QED
        BY <4>1, <4>2, PickedList
    <3> HIDE DEF e
    <3> QED
      BY <1>0, <3>1, <3>2, <3>3 DEF Kept
  <2>4. CASE Finish(s)
    <3>1. cur'[s] = None /\ live' = live \ {cur[s]} /\ UNCHANGED <<feed, elist, victims>>
          /\ cur[s] # None
      BY <1>0, <2>4 DEF Finish, PcInv, Busy
    <3> QED
      BY <1>0, <3>1 DEF Kept
  <2>5. CASE Destroy(s)
    <3>1. /\ elist'[s] = <<>> /\ victims'[s] = Reverse(elist[s]) /\ UNCHANGED <<feed, cur, live>>
          /\ elist[s] \in Seq(Events) /\ victims[s] = <<>>
      BY <1>0, <2>5 DEF Destroy, PcInv
    <3>2. /\ Range(Reverse(elist[s])) = Range(elist[s]) /\ IsInjective(Reverse(elist[s]))
          /\ <<>> \in Seq(Events) /\ Range(<<>>) = {}
      BY <1>0, <3>1, WholeList, EmptySeq, InRange
    <3>3. IsInjective(<<>>)
      BY DEF IsInjective
    <3> QED
      BY <1>0, <3>1, <3>2, <3>3 DEF Kept
  <2>6. CASE ~Take(s) /\ ~AddEvent(s) /\ ~FreeVictim(s) /\ ~Finish(s) /\ ~Destroy(s)
    <3>1. UNCHANGED <<feed, cur, elist, victims, live>>
      BY <2>6 DEF Step, Search, Mark, NoChild, Fire, AddSid, AddGroups, UnlinkVictim, Freed
    <3> QED
      BY <1>0, <3>1 DEF Kept
  <2> QED
    BY <2>1, <2>2, <2>3, <2>4, <2>5, <2>6
<1> QED
  BY <1>2, <1>3 DEF OwnInv

(* No event has two owners.                                                *)
LEMMA NotAnothers ==
  ASSUME OwnInv, NEW s \in Shards, NEW o \in Shards, o # s
  PROVE  /\ \A e \in Range(feed[s]) \cup Kept(s) : e \notin Range(feed[o]) \cup Kept(o)
         /\ cur[s] # None => /\ cur[s] \notin Range(feed[o]) \cup Kept(o)
                             /\ cur[s] # cur[o]
  BY CorrelationAssumption DEF OwnInv

(* The rule of an event is set once, when it fires.                        *)
LEMMA GenSteps ==
  ASSUME IndInv, NEW s \in Shards, Step(s)
  PROVE  \/ gen' = gen
         \/ /\ Fire(s) /\ pc[s] = "fire" /\ pc'[s] = "sid" /\ cur[s] \in Events /\ rule[s] \in Rules
            /\ gen[cur[s]] = None /\ gen'[cur[s]] = rule[s]
            /\ \A e \in Events \ {cur[s]} : gen'[e] = gen[e]
<1>1. CASE Fire(s)
  <2>1. cur[s] \in Events /\ rule[s] \in Rules /\ gen[cur[s]] = None /\ gen \in [Events -> Rules \cup {None}]
    BY <1>1 DEF Fire, IndInv, TypeOK, PcInv, Busy, GenInv
  <2>2. pc[s] = "fire" /\ pc \in [Shards -> Steps]
    BY <1>1 DEF Fire, IndInv, TypeOK
  <2>3. gen' = gen \/ (gen' = [gen EXCEPT ![cur[s]] = rule[s]] /\ Goto(s, "sid"))
    BY <1>1 DEF Fire
  <2> QED
    BY <1>1, <2>1, <2>2, <2>3 DEF Goto
<1>2. CASE ~Fire(s)
  BY <1>2 DEF Step, Take, Search, Mark, NoChild, AddSid, AddGroups, AddEvent, UnlinkVictim,
              FreeVictim, Freed, Finish, Destroy
<1> QED
  BY <1>1, <1>2

LEMMA GenStep ==
  ASSUME IndInv, TypeOK', OwnInv', PcInv', NEW s \in Shards, Step(s)
  PROVE  GenInv'
<1> DEFINE P(o) ==
       /\ \A e \in Range(feed[o]) : gen[e] = None
       /\ pc[o] \in {"search", "mark", "fire", "finish"} => gen[cur[o]] = None
       /\ pc[o] \in {"sid", "group", "add"} => gen[cur[o]] = rule[o]
<1>0. /\ TypeOK /\ PcInv /\ OwnInv /\ NodeInv /\ NodesOwned /\ P(s)
      /\ \A o \in Shards : Range(feed[o]) \subseteq Events
  <2>1. TypeOK /\ PcInv /\ OwnInv /\ NodeInv /\ NodesOwned /\ P(s)
    BY DEF IndInv, GenInv
  <2>2. \A o \in Shards : Range(feed[o]) \subseteq Events
    BY <2>1, InRange DEF TypeOK
  <2> QED
    BY <2>1, <2>2
<1>1. ASSUME NEW o \in Shards, o # s
      PROVE  P(o)'
  <2>1. pc'[o] = pc[o] /\ cur'[o] = cur[o] /\ feed'[o] = feed[o] /\ rule'[o] = rule[o]
    BY <1>1, OthersKeep
  <2>2. P(o)
    BY DEF IndInv, GenInv
  <2>3. CASE gen' = gen
    BY <2>1, <2>2, <2>3
  <2>4. CASE /\ cur[s] \in Events /\ \A e \in Events \ {cur[s]} : gen'[e] = gen[e]
    <3>1. cur[s] \notin Range(feed[o]) /\ cur[s] # cur[o]
      BY <1>0, <1>1, <2>4, NotAnothers, RuleSets
    <3>2. pc[o] \in Busy => cur[o] \in Events
      BY <1>0 DEF TypeOK, PcInv
    <3> QED
      BY <1>0, <2>1, <2>2, <2>4, <3>1, <3>2 DEF Busy
  <2> QED
    BY <2>3, <2>4, GenSteps
<1>2. P(s)'
  <2> USE DEF thread, shared
  <2>1. CASE Fire(s)
    <3>1. /\ feed' = feed /\ cur' = cur /\ rule' = rule /\ pc'[s] \in {"finish", "sid"} /\ pc[s] = "fire"
          /\ pc'[s] = "finish" => gen' = gen
      BY <1>0, <2>1 DEF Fire, Goto, TypeOK
    <3>2. cur[s] \notin Range(feed[s])
      BY <1>0, <3>1 DEF OwnInv, PcInv, Busy
    <3>3. CASE gen' = gen
      <4>1. pc'[s] = "finish"
        <5>1. rule[s] # None /\ gen[cur[s]] = None /\ cur[s] \in Events
          BY <1>0, <3>1, RuleSets DEF PcInv, TypeOK, Busy
        <5> QED
          BY <1>0, <2>1, <3>3, <5>1 DEF Fire, Goto, TypeOK
      <4> QED
        BY <1>0, <3>1, <3>3, <4>1
    <3>4. CASE /\ pc'[s] = "sid" /\ gen'[cur[s]] = rule[s]
               /\ \A e \in Events \ {cur[s]} : gen'[e] = gen[e]
      BY <1>0, <3>1, <3>2, <3>4
    <3> QED
      BY <3>3, <3>4, GenSteps
  <2>2. CASE Take(s)
    <3>1. /\ feed'[s] = Tail(feed[s]) /\ cur'[s] = Head(feed[s]) /\ pc'[s] = "search" /\ gen' = gen
          /\ feed[s] # <<>> /\ feed[s] \in Seq(Events)
      BY <1>0, <2>2 DEF Take, Goto, TypeOK
    <3>2. /\ Head(feed[s]) \in Range(feed[s]) /\ Range(Tail(feed[s])) \subseteq Range(feed[s])
      BY <1>0, <3>1, TailList DEF OwnInv
    <3> QED
      BY <1>0, <3>1, <3>2
  <2>3. CASE ~Fire(s) /\ ~Take(s)
    <3>1. gen' = gen /\ feed' = feed
      BY <2>3 DEF Step, Search, Mark, NoChild, AddSid, AddGroups, AddEvent, UnlinkVictim,
                  FreeVictim, Freed, Finish, Destroy
    <3>2. CASE Search(s)
      <4>1. pc[s] = "search" /\ cur' = cur /\ pc'[s] \in {"search", "mark"}
        BY <1>0, <3>2, SearchFacts DEF Searched, SearchDone
      <4> QED
        BY <1>0, <3>1, <4>1
    <3>3. CASE Mark(s) \/ NoChild(s)
      <4>1. pc[s] \in {"search", "mark"} /\ cur' = cur /\ pc'[s] = "fire"
        BY <1>0, <3>3 DEF Mark, NoChild, Goto, TypeOK
      <4> QED
        BY <1>0, <3>1, <4>1
    <3>4. CASE AddSid(s) \/ AddGroups(s)
      <4>1. pc[s] \in {"sid", "group"} /\ cur' = cur /\ pc'[s] \in {"group", "add"} /\ rule' = rule
        BY <1>0, <3>4 DEF AddSid, AddGroups, Goto, TypeOK
      <4> QED
        BY <1>0, <3>1, <4>1
    <3>5. CASE AddEvent(s) \/ UnlinkVictim(s) \/ FreeVictim(s) \/ Freed(s) \/ Finish(s) \/ Destroy(s)
      <4>1. pc'[s] \in {"unlink", "free", "idle"}
        BY <1>0, <3>5 DEF AddEvent, UnlinkVictim, FreeVictim, Freed, Finish, Destroy, Goto, TypeOK
      <4> QED
        BY <1>0, <3>1, <4>1
    <3> QED
      BY <2>3, <3>2, <3>3, <3>4, <3>5 DEF Step
  <2> QED
    BY <2>1, <2>2, <2>3
<1> QED
  BY <1>1, <1>2 DEF GenInv

-----------------------------------------------------------------------------
(* The nodes.                                                              *)

(* An event refers to nodes between its insertion and its unlinking.       *)
LEMMA NodeStep ==
  ASSUME IndInv, TypeOK', OwnInv', NEW s \in Shards, Step(s)
  PROVE  NodeInv'
<1> DEFINE P(o) ==
       /\ pc[o] \in {"search", "mark", "fire", "finish", "sid"} => cur[o] \notin sidnode
       /\ pc[o] \in {"search", "mark", "fire", "finish", "sid", "group"} => cur[o] \notin groupnodes
       /\ pc[o] = "free" => Head(victims[o]) \notin sidnode \cup groupnodes
           Q == /\ sidnode \cup groupnodes \subseteq live
                /\ \A e \in sidnode : gen[e] \in SidLists
                /\ \A e \in groupnodes : gen[e] \in Rules
<1>0. /\ TypeOK /\ PcInv /\ OwnInv /\ NodeInv /\ NodesOwned /\ GenInv /\ P(s) /\ Q
      /\ \A o \in Shards : pc[o] \in Busy <=> cur[o] # None
  BY DEF IndInv, NodeInv, PcInv
<1>2. ASSUME NEW o \in Shards, o # s
      PROVE  P(o)'
  <2>1. pc'[o] = pc[o] /\ cur'[o] = cur[o] /\ victims'[o] = victims[o]
    BY <1>2, OthersKeep
  <2>2. P(o)
    BY <1>0 DEF NodeInv
  <2>3. CASE AddSid(s)
    <3>1. /\ pc[s] = "sid" /\ cur[s] # None /\ groupnodes' = groupnodes
          /\ \A e \in sidnode' : e \in sidnode \/ e = cur[s]
      BY <1>0, <2>3, AddSidFacts, RuleSets DEF SidAdded
    <3>2. cur[s] # cur[o] /\ cur[s] \notin Kept(o)
      BY <1>0, <1>2, <3>1, NotAnothers
    <3>3. pc[o] = "free" => Head(victims[o]) \in Kept(o)
      BY <1>0, TailList DEF Kept, PcInv, TypeOK
    <3> QED
      BY <2>1, <2>2, <3>1, <3>2, <3>3
  <2>4. CASE AddGroups(s)
    <3>1. /\ pc[s] = "group" /\ cur[s] # None /\ sidnode' = sidnode
          /\ \A e \in groupnodes' : e \in groupnodes \/ e = cur[s]
      BY <1>0, <2>4, AddGroupsFacts, RuleSets DEF GroupsAdded
    <3>2. cur[s] # cur[o] /\ cur[s] \notin Kept(o)
      BY <1>0, <1>2, <3>1, NotAnothers
    <3>3. pc[o] = "free" => Head(victims[o]) \in Kept(o)
      BY <1>0, TailList DEF Kept, PcInv, TypeOK
    <3> QED
      BY <2>1, <2>2, <3>1, <3>2, <3>3
  <2>5. CASE ~AddSid(s) /\ ~AddGroups(s)
    <3>1. sidnode' \subseteq sidnode /\ groupnodes' \subseteq groupnodes
      BY <2>5 DEF Step, Take, Search, Mark, NoChild, Fire, AddEvent, UnlinkVictim, FreeVictim,
                  Freed, Finish, Destroy, shared
    <3> QED
      BY <2>1, <2>2, <3>1
  <2> QED
    BY <2>3, <2>4, <2>5
<1>3. P(s)' /\ Q'
  <2> USE DEF thread, shared
  <2>1. CASE Take(s)
    <3>1. /\ cur'[s] = Head(feed[s]) /\ pc'[s] = "search" /\ live \subseteq live'
          /\ feed[s] # <<>> /\ feed[s] \in Seq(Events) /\ UNCHANGED <<gen, sidnode, groupnodes>>
      BY <1>0, <2>1 DEF Take, Goto, TypeOK
    <3>2. cur'[s] \notin live
      BY <1>0, <3>1, TailList DEF OwnInv
    <3> QED
      BY <1>0, <3>1, <3>2
  <2>2. CASE Search(s)
    <3>1. /\ pc[s] = "search" /\ pc'[s] \in {"search", "mark"}
          /\ UNCHANGED <<cur, gen, sidnode, groupnodes, live, victims>>
      BY <1>0, <2>2, SearchFacts DEF Searched, SearchDone
    <3> QED
      BY <1>0, <3>1
  <2>3. CASE Mark(s) \/ NoChild(s)
    <3>1. /\ pc[s] \in {"search", "mark"} /\ pc'[s] = "fire"
          /\ UNCHANGED <<cur, gen, sidnode, groupnodes, live, victims>>
      BY <1>0, <2>3 DEF Mark, NoChild, Goto, TypeOK
    <3> QED
      BY <1>0, <3>1
  <2>4. CASE Fire(s)
    <3>1. /\ pc[s] = "fire" /\ pc'[s] \in {"sid", "finish"}
          /\ UNCHANGED <<cur, sidnode, groupnodes, live, victims>>
      BY <1>0, <2>4 DEF Fire, Goto, TypeOK
    <3>2. \A e \in sidnode \cup groupnodes : gen'[e] = gen[e]
      <4>1. \A e \in sidnode \cup groupnodes : e \in Events /\ e # cur[s]
        BY <1>0, <3>1 DEF TypeOK
      <4> QED
        BY <4>1, GenSteps
    <3> QED
      BY <1>0, <3>1, <3>2
  <2>5. CASE AddSid(s)
    <3>1. SidAdded(s)
      BY <1>0, <2>5, AddSidFacts
    <3>2. /\ pc[s] = "sid" /\ pc'[s] = "group" /\ UNCHANGED <<cur, gen, groupnodes, live, victims>>
          /\ \A e \in sidnode' : e \in sidnode \/ (e = cur[s] /\ rule[s] \in SidLists)
      BY <3>1 DEF SidAdded
    <3>3. gen[cur[s]] = rule[s] /\ cur[s] \in live
      BY <1>0, <3>1, <3>2 DEF GenInv, OwnInv, Busy
    <3> QED
      BY <1>0, <3>2, <3>3
  <2>6. CASE AddGroups(s)
    <3>1. GroupsAdded(s)
      BY <1>0, <2>6, AddGroupsFacts
    <3>2. /\ pc[s] = "group" /\ pc'[s] = "add" /\ UNCHANGED <<cur, gen, sidnode, live, victims>>
          /\ \A e \in groupnodes' : e \in groupnodes \/ e = cur[s]
          /\ rule[s] \in Rules
      BY <3>1 DEF GroupsAdded
    <3>3. gen[cur[s]] = rule[s] /\ cur[s] \in live
      BY <1>0, <3>1, <3>2 DEF GenInv, OwnInv, Busy
    <3> QED
      BY <1>0, <3>2, <3>3
  <2>7. CASE UnlinkVictim(s)
    <3>1. Unlinked(s)
      BY <1>0, <2>7, UnlinkFacts
    <3> QED
      BY <1>0, <3>1 DEF Unlinked
  <2>8. CASE FreeVictim(s)
    <3>1. /\ pc[s] = "free" /\ pc'[s] = "unlink" /\ UNCHANGED <<gen, sidnode, groupnodes>>
          /\ live' = live \ {Head(victims[s])}
      BY <1>0, <2>8 DEF FreeVictim, Goto, TypeOK
    <3> QED
      BY <1>0, <3>1
  <2>9. CASE Finish(s)
    <3>1. /\ pc[s] = "finish" /\ pc'[s] = "idle" /\ UNCHANGED <<gen, sidnode, groupnodes>>
          /\ live' = live \ {cur[s]}
      BY <1>0, <2>9 DEF Finish, Goto, TypeOK
    <3> QED
      BY <1>0, <3>1
  <2>10. CASE AddEvent(s) \/ Freed(s) \/ Destroy(s)
    <3>1. pc'[s] \in {"unlink", "idle"} /\ UNCHANGED <<gen, sidnode, groupnodes, live>>
      BY <1>0, <2>10 DEF AddEvent, Freed, Destroy, Goto, TypeOK
    <3> QED
      BY <1>0, <3>1
  <2> QED
    BY <2>1, <2>2, <2>3, <2>4, <2>5, <2>6, <2>7, <2>8, <2>9, <2>10 DEF Step
<1> QED
  BY <1>2, <1>3 DEF NodeInv

(* The lists of the rules change with the events that refer to nodes.      *)
LEMMA NodesOwnedStep ==
  ASSUME IndInv, TypeOK', NEW s \in Shards, Step(s)
  PROVE  NodesOwned'
<1> DEFINE S(r) == /\ IsInjective(sidlist[r])
                   /\ Range(sidlist[r]) = {e \in sidnode : gen[e] = r}
           G(r) == /\ IsInjective(grouplist[r])
                   /\ Range(grouplist[r]) = {e \in groupnodes : gen[e] \in Watched[r]}
<1>0. /\ TypeOK /\ PcInv /\ OwnInv /\ NodeInv /\ NodesOwned /\ GenInv
      /\ \A r \in SidLists : S(r) /\ sidlist[r] \in Seq(Events)
      /\ \A r \in GroupLists : G(r) /\ grouplist[r] \in Seq(Events)
      /\ sidnode \subseteq Events /\ groupnodes \subseteq Events
  BY DEF IndInv, NodesOwned, TypeOK
<1> SUFFICES (\A r \in SidLists : S(r)') /\ (\A r \in GroupLists : G(r)')
  BY DEF NodesOwned
<1> USE DEF thread, shared
<1>1. CASE Fire(s)
  <2>1. pc[s] = "fire" /\ UNCHANGED <<sidlist, grouplist, sidnode, groupnodes>>
    BY <1>1 DEF Fire
  <2>2. cur[s] \notin sidnode \cup groupnodes
    BY <1>0, <2>1 DEF NodeInv
  <2>3. \A e \in sidnode \cup groupnodes : gen'[e] = gen[e]
    BY <1>0, <2>2, GenSteps
  <2>4. ASSUME NEW r \in SidLists
        PROVE  S(r)'
    BY <1>0, <2>1, <2>3
  <2>5. ASSUME NEW r \in GroupLists
        PROVE  G(r)'
    BY <1>0, <2>1, <2>3
  <2> QED
    BY <2>4, <2>5
<1>2. CASE AddSid(s)
  <2> DEFINE r == rule[s]
             l == Append(sidlist[r], cur[s])
  <2>1. SidAdded(s)
    BY <1>0, <1>2, AddSidFacts
  <2>2. gen' = gen /\ grouplist' = grouplist /\ groupnodes' = groupnodes /\ cur[s] \in Events
    BY <2>1 DEF SidAdded
  <2>3. \A c \in GroupLists : G(c)'
    BY <1>0, <2>2
  <2>4. CASE UNCHANGED <<sidlist, sidnode>>
    <3>1. ASSUME NEW q \in SidLists
          PROVE  S(q)'
      BY <1>0, <2>2, <2>4
    <3> QED
      BY <2>3, <3>1
  <2>5. CASE r \in SidLists /\ ~UNCHANGED <<sidlist, sidnode>>
    <3>1. /\ gen[cur[s]] = r /\ cur[s] \notin sidnode
          /\ \A q \in SidLists \ {r} : sidlist'[q] = sidlist[q]
          /\ \/ sidlist'[r] = l /\ sidnode' = sidnode \cup {cur[s]}
             \/ sidlist'[r] = Tail(l) /\ sidnode' = (sidnode \cup {cur[s]}) \ {Head(l)}
      BY <1>0, <2>1, <2>5 DEF SidAdded, GenInv, NodeInv
    <3>2. /\ l \in Seq(Events) /\ l # <<>> /\ Range(l) = Range(sidlist[r]) \cup {cur[s]}
          /\ IsInjective(l)
      BY <1>0, <2>2, <2>5, <3>1, AppendList
    <3> HIDE DEF l
    <3>3. Range(l) = {e \in sidnode \cup {cur[s]} : gen[e] = r}
      BY <1>0, <2>2, <2>5, <3>1, <3>2
    <3>4. CASE sidlist'[r] = l /\ sidnode' = sidnode \cup {cur[s]}
      <4>1. ASSUME NEW q \in SidLists
            PROVE  S(q)'
        BY <1>0, <2>2, <2>5, <3>1, <3>2, <3>3, <3>4
      <4> QED
        BY <2>3, <4>1
    <3>5. CASE sidlist'[r] = Tail(l) /\ sidnode' = (sidnode \cup {cur[s]}) \ {Head(l)}
      <4>1. /\ Head(l) \in Range(l) /\ Range(Tail(l)) = Range(l) \ {Head(l)}
            /\ Tail(l) \in Seq(Events)
        BY <3>2, TailList
      <4>2. IsInjective(Tail(l))
        <5>1. PICK f : Picks(Tail(l), l, f)
          BY <3>2, TailList
        <5> QED
          BY <3>2, <4>1, <5>1, PickedList
      <4>3. ASSUME NEW q \in SidLists, q = r
            PROVE  S(q)'
        <5>1. sidlist'[q] = Tail(l) /\ Range(Tail(l)) = Range(l) \ {Head(l)} /\ gen' = gen
          BY <2>2, <3>5, <4>1, <4>3
        <5>2. {e \in sidnode' : gen[e] = q} = Range(l) \ {Head(l)}
          BY <3>3, <3>5, <4>3
        <5>3. {e \in sidnode' : gen'[e] = q} = Range(l) \ {Head(l)}
          BY <5>1, <5>2
        <5> QED
          BY <4>2, <5>1, <5>3
      <4>4. ASSUME NEW q \in SidLists, q # r
            PROVE  S(q)'
        <5>1. gen[Head(l)] = r /\ sidlist'[q] = sidlist[q]
          BY <3>1, <3>3, <4>1, <4>4
        <5>2. {e \in sidnode' : gen[e] = q} = {e \in sidnode : gen[e] = q}
          BY <3>1, <3>5, <4>4, <5>1
        <5> QED
          BY <1>0, <2>2, <5>1, <5>2
      <4> QED
        BY <2>3, <4>3, <4>4
    <3> QED
      BY <3>1, <3>4, <3>5
  <2> QED
    BY <2>1, <2>4, <2>5 DEF SidAdded
<1>3. CASE AddGroups(s)
  <2>1. GroupsAdded(s)
    BY <1>0, <1>3, AddGroupsFacts
  <2>2. /\ gen' = gen /\ sidlist' = sidlist /\ sidnode' = sidnode /\ cur[s] \in Events
        /\ gen[cur[s]] = rule[s] /\ cur[s] \notin groupnodes
    BY <1>0, <2>1 DEF GroupsAdded, GenInv, NodeInv
  <2>3. ASSUME NEW r \in SidLists
        PROVE  S(r)'
    BY <1>0, <2>2
  <2>4. ASSUME NEW c \in GroupLists
        PROVE  G(c)'
    <3>1. CASE rule[s] \in Watched[c]
      <4>1. grouplist'[c] = Append(grouplist[c], cur[s]) /\ groupnodes' = groupnodes \cup {cur[s]}
        BY <2>1, <3>1 DEF GroupsAdded
      <4>2. cur[s] \notin Range(grouplist[c])
        BY <1>0, <2>2
      <4>3. /\ IsInjective(Append(grouplist[c], cur[s]))
            /\ Range(Append(grouplist[c], cur[s])) = Range(grouplist[c]) \cup {cur[s]}
        BY <1>0, <2>2, <4>2, AppendList
      <4> QED
        BY <1>0, <2>2, <3>1, <4>1, <4>3
    <3>2. CASE rule[s] \notin Watched[c]
      <4>1. grouplist'[c] = grouplist[c] /\ groupnodes' \in {groupnodes, groupnodes \cup {cur[s]}}
        BY <2>1, <3>2 DEF GroupsAdded
      <4>2. {e \in groupnodes' : gen[e] \in Watched[c]} = {e \in groupnodes : gen[e] \in Watched[c]}
        BY <2>2, <3>2, <4>1
      <4> QED
        BY <1>0, <2>2, <4>1, <4>2
    <3> QED
      BY <3>1, <3>2
  <2> QED
    BY <2>3, <2>4
<1>4. CASE UnlinkVictim(s)
  <2> DEFINE e == Head(victims[s])
  <2>1. Unlinked(s)
    BY <1>0, <1>4, UnlinkFacts
  <2>2. ASSUME NEW r \in SidLists
        PROVE  S(r)'
    <3>1. /\ gen' = gen /\ sidnode' = sidnode \ {e}
          /\ sidlist'[r] = IF e \in sidnode /\ gen[e] = r THEN RemoveFirst(sidlist[r], e) ELSE sidlist[r]
      BY <2>1 DEF Unlinked
    <3> HIDE DEF e
    <3>2. CASE e \in sidnode /\ gen[e] = r
      <4>1. /\ RemoveFirst(sidlist[r], e) \in Seq(Events)
            /\ Range(RemoveFirst(sidlist[r], e)) = Range(sidlist[r]) \ {e}
        BY <1>0, RemoveList
      <4>2. IsInjective(RemoveFirst(sidlist[r], e))
        <5>1. PICK f : Picks(RemoveFirst(sidlist[r], e), sidlist[r], f)
          BY <1>0, RemoveList
        <5> QED
          BY <1>0, <4>1, <5>1, PickedList
      <4> QED
        BY <1>0, <3>1, <3>2, <4>1, <4>2
    <3>3. CASE ~(e \in sidnode /\ gen[e] = r)
      BY <1>0, <3>1, <3>3
    <3> QED
      BY <3>2, <3>3
  <2>3. ASSUME NEW c \in GroupLists
        PROVE  G(c)'
    <3>1. /\ gen' = gen /\ groupnodes' = groupnodes \ {e}
          /\ grouplist'[c] = IF e \in groupnodes /\ gen[e] \in Watched[c]
                             THEN RemoveFirst(grouplist[c], e) ELSE grouplist[c]
      BY <2>1 DEF Unlinked
    <3> HIDE DEF e
    <3>2. CASE e \in groupnodes /\ gen[e] \in Watched[c]
      <4>1. /\ RemoveFirst(grouplist[c], e) \in Seq(Events)
            /\ Range(RemoveFirst(grouplist[c], e)) = Range(grouplist[c]) \ {e}
        BY <1>0, RemoveList
      <4>2. IsInjective(RemoveFirst(grouplist[c], e))
        <5>1. PICK f : Picks(RemoveFirst(grouplist[c], e), grouplist[c], f)
          BY <1>0, RemoveList
        <5> QED
          BY <1>0, <4>1, <5>1, PickedList
      <4> QED
        BY <1>0, <3>1, <3>2, <4>1, <4>2
    <3>3. CASE ~(e \in groupnodes /\ gen[e] \in Watched[c])
      BY <1>0, <3>1, <3>3
    <3> QED
      BY <3>2, <3>3
  <2> QED
    BY <2>2, <2>3
<1>5. CASE ~Fire(s) /\ ~AddSid(s) /\ ~AddGroups(s) /\ ~UnlinkVictim(s)
  <2>1. UNCHANGED <<sidlist, grouplist, sidnode, groupnodes, gen>>
    BY <1>5 DEF Step, Take, Search, Mark, NoChild, AddEvent, FreeVictim, Freed, Finish, Destroy
  <2> QED
    BY <1>0, <2>1
<1> QED
  BY <1>1, <1>2, <1>3, <1>4, <1>5

-----------------------------------------------------------------------------
(* The searches that have succeeded.                                       *)

(* A thread that is about to mark has just searched, or it waits.          *)
LEMMA NewMark ==
  ASSUME IndInv, NEW s \in Shards, Step(s), pc'[s] = "mark"
  PROVE  /\ Searched(s) /\ SearchDone(s) /\ Current(s)' = Current(s)
         /\ \A r \in Composite : ListOf(s, r)' = ListOf(s, r)
<1> USE DEF IndInv
<1>1. CASE Search(s)
  <2>1. Searched(s)
    BY <1>1, SearchFacts
  <2>2. SearchDone(s)
    BY <2>1 DEF Searched
  <2>3. cur' = cur /\ child' = child /\ elist' = elist /\ sidlist' = sidlist /\ grouplist' = grouplist
    BY <2>1, <2>2 DEF Searched, SearchDone, shared
  <2>4. Current(s)' = Current(s) /\ \A r \in Composite : ListOf(s, r)' = ListOf(s, r)
    BY <2>3 DEF Current, ListOf
  <2> QED
    BY <2>1, <2>2, <2>4
<1>2. CASE ~Search(s)
  BY <1>2, GotoFacts DEF Step, Take, Mark, NoChild, Fire, AddSid, AddGroups, AddEvent, UnlinkVictim,
              FreeVictim, Freed, Finish, Destroy, Steps
<1> QED
  BY <1>1, <1>2

LEMMA OldMark ==
  ASSUME IndInv, NEW s \in Shards, Step(s), NEW o \in Shards, o # s
  PROVE  pc'[o] = pc[o] /\ Current(o)' = Current(o) /\ found'[o] = found[o] /\ cur'[o] = cur[o]
  BY OthersKeep DEF Current

(* Only with prev_matched_mutex does a thread change a list of the rules.  *)
LEMMA SharedListsLocked ==
  ASSUME IndInv, NEW s \in Shards, Step(s)
  PROVE  (sidlist' = sidlist /\ grouplist' = grouplist) \/ PrevMatchedFree(s)
<1> USE DEF IndInv, shared
<1>1. CASE AddSid(s)
  BY <1>1 DEF AddSid
<1>2. CASE AddGroups(s)
  BY <1>2 DEF AddGroups
<1>3. CASE UnlinkVictim(s)
  BY <1>3 DEF UnlinkVictim, Unlink
<1>4. CASE ~AddSid(s) /\ ~AddGroups(s) /\ ~UnlinkVictim(s)
  BY <1>4 DEF Step, Take, Search, Mark, NoChild, Fire, AddEvent, FreeVictim, Freed, Finish, Destroy
<1> QED
  BY <1>1, <1>2, <1>3, <1>4

(* The list on which a thread has counted stays as it is until the marks.  *)
LEMMA ListKept ==
  ASSUME IndInv, NEW s \in Shards, Step(s), NEW o \in Shards, o # s, pc[o] = "mark",
         NEW r \in Composite, r = Current(o)
  PROVE  ListOf(o, r)' = ListOf(o, r)
<1>1. elist'[o] = elist[o]
  BY OthersKeep
<1>2. CASE Kind[r] = "event"
  BY <1>1, <1>2 DEF ListOf
<1>3. CASE Kind[r] # "event"
  <2>1. sidlist' = sidlist /\ grouplist' = grouplist
    BY <1>3, SharedListsLocked DEF PrevMatchedFree
  <2> QED
    BY <1>1, <2>1 DEF ListOf
<1> QED
  BY <1>2, <1>3

(* The mutex of the rule, and prev_matched_mutex for a shared list.        *)
LEMMA LockStep ==
  ASSUME IndInv, NEW s \in Shards, Step(s)
  PROVE  LockInv'
<1> DEFINE Apart(a, b) == /\ Current(a) # Current(b)
                          /\ Kind[Current(a)] = "event" \/ Kind[Current(b)] = "event"
<1>1. ASSUME NEW a \in Shards, NEW b \in Shards, a # b, pc'[a] = "mark", pc'[b] = "mark"
      PROVE  Apart(a, b)'
  <2>1. CASE a # s /\ b # s
    <3>1. Apart(a, b)
      BY <1>1, <2>1, OldMark DEF IndInv, LockInv
    <3> QED
      BY <2>1, <3>1, OldMark
  <2>2. ASSUME NEW o \in Shards, o # s, pc'[o] = "mark", pc'[s] = "mark"
        PROVE  Apart(s, o)' /\ Apart(o, s)'
    <3>1. Searched(s) /\ Current(s)' = Current(s)
      BY <2>2, NewMark
    <3>2. pc[o] = "mark" /\ Current(o)' = Current(o)
      BY <2>2, OldMark
    <3>3. RuleFree(s, Current(s)) /\ (Kind[Current(s)] # "event" => PrevMatchedFree(s))
      BY <3>1 DEF Searched
    <3>4. Current(o) # Current(s) /\ (Kind[Current(s)] # "event" => Kind[Current(o)] = "event")
      BY <2>2, <3>2, <3>3 DEF RuleFree, PrevMatchedFree
    <3> QED
      BY <3>1, <3>2, <3>4
  <2> QED
    BY <1>1, <2>1, <2>2
<1> QED
  BY <1>1 DEF LockInv

(* What was counted is still there when it is marked.                      *)
LEMMA FoundStep ==
  ASSUME IndInv, NEW s \in Shards, Step(s)
  PROVE  FoundInv'
<1> DEFINE P(o, r) == LET l == ListOf(o, r) IN
             /\ l # <<>> /\ found[o].first = l[Len(l)]
             /\ found[o].set \subseteq Range(l) /\ found[o].oldest \in found[o].set
<1>1. ASSUME NEW o \in Shards, pc'[o] = "mark"
      PROVE  \E r \in Composite : r = Current(o)' /\ P(o, r)'
  <2>1. CASE o = s
    <3>1. Searched(s) /\ SearchDone(s) /\ Current(s)' = Current(s)
          /\ \A r \in Composite : ListOf(s, r)' = ListOf(s, r)
      BY <1>1, <2>1, NewMark
    <3>2. PICK r \in Composite : r = Current(s)
      BY <3>1 DEF Searched
    <3>3. P(s, r)'
      BY <3>1, <3>2 DEF SearchDone
    <3> QED
      BY <2>1, <3>1, <3>2, <3>3
  <2>2. CASE o # s
    <3>1. pc[o] = "mark" /\ Current(o)' = Current(o) /\ found'[o] = found[o]
      BY <1>1, <2>2, OldMark
    <3>2. PICK r \in Composite : r = Current(o)
      BY <3>1, CurrentRule DEF IndInv
    <3>3. P(o, r)
      BY <3>1, <3>2 DEF IndInv, FoundInv
    <3>4. ListOf(o, r)' = ListOf(o, r)
      BY <2>2, <3>1, <3>2, ListKept
    <3> QED
      BY <3>1, <3>2, <3>3, <3>4
  <2> QED
    BY <2>1, <2>2
<1> QED
  BY <1>1 DEF FoundInv

(* The logs of a rule are those of the search that holds its mutex.        *)
LEMMA ContextStep ==
  ASSUME IndInv, NEW s \in Shards, Step(s)
  PROVE  ContextInv'
<1> DEFINE P(o, r) == lastev[r] \subseteq found[o].set /\ Enough(r, lastev[r])
<1>1. ASSUME NEW o \in Shards, pc'[o] = "mark"
      PROVE  \E r : r = Current(o)' /\ P(o, r)'
  <2>1. CASE o = s
    <3>1. SearchDone(s) /\ Current(s)' = Current(s)
      BY <1>1, <2>1, NewMark
    <3>2. P(s, Current(s))' /\ Current(s)' = Current(s)
      BY <3>1 DEF SearchDone, Enough
    <3> QED
      BY <2>1, <3>2
  <2>2. CASE o # s
    <3>1. pc[o] = "mark" /\ Current(o)' = Current(o) /\ found'[o] = found[o]
      BY <1>1, <2>2, OldMark
    <3>2. PICK r \in Composite : r = Current(o)
      BY <3>1, CurrentRule DEF IndInv
    <3>3. P(o, r)
      BY <3>1, <3>2 DEF IndInv, ContextInv
    <3>4. lastev'[r] = lastev[r]
      <4>1. CASE Search(s)
        <5>1. Searched(s)
          BY <4>1, SearchFacts DEF IndInv
        <5>2. r # Current(s)
          BY <2>2, <3>1, <3>2, <5>1 DEF Searched, RuleFree
        <5> QED
          BY <5>1, <5>2 DEF Searched
      <4>2. CASE Mark(s)
        <5>1. Marked(s)
          BY <4>2, MarkFacts DEF IndInv
        <5>2. r # Current(s)
          BY <2>2, <3>1, <3>2, <5>1 DEF Marked, IndInv, LockInv
        <5> QED
          BY <5>1, <5>2 DEF Marked
      <4>3. CASE ~Search(s) /\ ~Mark(s)
        BY <4>3 DEF Step, Take, NoChild, Fire, AddSid, AddGroups, AddEvent, UnlinkVictim,
                    FreeVictim, Freed, Finish, Destroy
      <4> QED
        BY <4>1, <4>2, <4>3
    <3> QED
      BY <3>1, <3>2, <3>3, <3>4 DEF Enough
  <2> QED
    BY <2>1, <2>2
<1> QED
  BY <1>1 DEF ContextInv

(* A mark is added by the step that marks.                                 *)
LEMMA MarksGrow ==
  ASSUME IndInv, NEW s \in Shards, Step(s)
  PROVE  \/ UNCHANGED <<marks, matched>> /\ ~Mark(s)
         \/ Mark(s) /\ Marked(s)
<1>1. CASE Mark(s)
  BY <1>1, MarkFacts DEF IndInv
<1>2. CASE ~Mark(s)
  BY <1>2 DEF Step, Take, Search, NoChild, Fire, AddSid, AddGroups, AddEvent, UnlinkVictim,
              FreeVictim, Freed, Finish, Destroy
<1> QED
  BY <1>1, <1>2

LEMMA ContextOwnStep ==
  ASSUME IndInv, NEW s \in Shards, Step(s)
  PROVE  ContextOwn'
<1> DEFINE P(m) == m.context \subseteq m.set /\ Enough(m.rule, m.context)
<1>1. ContextOwn <=> \A m \in marks : P(m)
  BY DEF ContextOwn, Enough
<1>2. ContextOwn' <=> \A m \in marks' : P(m)
  BY DEF ContextOwn, Enough
<1>3. \A m \in marks : P(m)
  BY <1>1 DEF IndInv
<1>4. CASE Marked(s)
  <2> DEFINE n == [rule |-> Current(s), set |-> found[s].set, first |-> found[s].first,
                   context |-> lastev[Current(s)]]
  <2>1. marks' = marks \cup {n} /\ pc[s] = "mark"
    BY <1>4 DEF Marked
  <2>2. P(n)
    BY <2>1 DEF IndInv, ContextInv
  <2> HIDE DEF n, P
  <2> QED
    BY <1>2, <1>3, <2>1, <2>2
<1>5. CASE UNCHANGED marks
  BY <1>2, <1>3, <1>5
<1> QED
  BY <1>4, <1>5, MarksGrow

-----------------------------------------------------------------------------
(* The ignore time.                                                        *)

LEMMA IgnoreStep ==
  ASSUME IndInv, NEW s \in Shards, Step(s)
  PROVE  IgnoreInv' /\ IgnoredApart'
<1>0. TypeOK /\ IgnoreInv /\ IgnoredApart
  BY DEF IndInv
<1>1. CASE Fire(s) /\ gen' # gen
  <2> DEFINE r == rule[s]
             c == cur[s]
  <2>1. /\ c \in Events /\ r \in Rules /\ gen[c] = None /\ gen'[c] = r
        /\ \A e \in Events \ {c} : gen'[e] = gen[e]
    BY <1>1, GenSteps
  <2>2. /\ \A e \in Events : Time[e] \in Nat \ {0}
        /\ \A q \in Rules : IgnoreTime[q] \in Nat /\ ignored[q] \in Nat
        /\ r # None
    BY <1>0, <2>1, RuleSets, CorrelationAssumption DEF TypeOK
  <2>3. ~(IgnoreTime[r] > 0 /\ ignored[r] # 0 /\ Time[c] - ignored[r] < IgnoreTime[r])
    BY <1>1 DEF Fire
  <2>4. ignored' = IF IgnoreTime[r] > 0 THEN [ignored EXCEPT ![r] = Time[c]] ELSE ignored
    BY <1>1, <2>3 DEF Fire, Ignore
  <2>5. /\ IgnoreTime[r] > 0 => ignored'[r] = Time[c]
        /\ \A q \in Rules \ {r} : ignored'[q] = ignored[q]
    BY <1>0, <2>1, <2>4 DEF TypeOK
  <2>6. \A e \in Events : gen[e] \in Rules \cup {None}
    BY <1>0 DEF TypeOK
  <2> HIDE DEF r, c
  <2>7. \A e \in Events : gen[e] = r /\ IgnoreTime[r] > 0 => Time[c] - Time[e] >= IgnoreTime[r]
    <3> SUFFICES ASSUME NEW e \in Events, gen[e] = r, IgnoreTime[r] > 0
                 PROVE  Time[c] - Time[e] >= IgnoreTime[r]
      OBVIOUS
    <3>1. Time[e] <= ignored[r]
      BY <1>0, <2>2 DEF IgnoreInv
    <3> QED
      BY <2>1, <2>2, <2>3, <3>1
  <2>8. IgnoreInv'
    <3> SUFFICES ASSUME NEW e \in Events, gen'[e] # None, IgnoreTime[gen'[e]] > 0
                 PROVE  Time[e] <= ignored'[gen'[e]]
      BY DEF IgnoreInv
    <3>1. CASE e = c
      BY <2>1, <2>2, <2>5, <3>1
    <3>2. CASE e # c /\ gen[e] = r
      <4>1. Time[c] - Time[e] >= IgnoreTime[r] /\ gen'[e] = r
        BY <2>1, <2>7, <3>2
      <4> QED
        BY <2>1, <2>2, <2>5, <4>1
    <3>3. CASE e # c /\ gen[e] # r
      BY <1>0, <2>1, <2>5, <2>6, <3>3 DEF IgnoreInv
    <3> QED
      BY <3>1, <3>2, <3>3
  <2>9. IgnoredApart'
    <3> SUFFICES ASSUME NEW e \in Events, NEW f \in Events, e # f, gen'[e] = gen'[f], gen'[e] # None
                 PROVE  LET gap == Time[e] - Time[f]
                        IN  IgnoreTime[gen'[e]] <= (IF gap < 0 THEN -gap ELSE gap)
      BY DEF IgnoredApart
    <3>1. CASE e # c /\ f # c
      BY <1>0, <2>1, <3>1 DEF IgnoredApart
    <3>2. CASE e = c
      <4>1. gen[f] = r /\ gen'[e] = r
        BY <2>1, <3>2
      <4>2. IgnoreTime[r] = 0 \/ Time[c] - Time[f] >= IgnoreTime[r]
        BY <2>1, <2>2, <2>7, <4>1
      <4> QED
        BY <2>1, <2>2, <3>2, <4>1, <4>2
    <3>3. CASE f = c
      <4>1. gen[e] = r /\ gen'[e] = r
        BY <2>1, <3>3
      <4>2. IgnoreTime[r] = 0 \/ Time[c] - Time[e] >= IgnoreTime[r]
        BY <2>1, <2>2, <2>7, <4>1
      <4> QED
        BY <2>1, <2>2, <3>3, <4>1, <4>2
    <3> QED
      BY <3>1, <3>2, <3>3
  <2> QED
    BY <2>8, <2>9
<1>2. CASE gen' = gen /\ ignored' = ignored
  BY <1>0, <1>2 DEF IgnoreInv, IgnoredApart
<1>3. CASE ~Fire(s)
  BY <1>2, <1>3 DEF Step, Take, Search, Mark, NoChild, AddSid, AddGroups, AddEvent, UnlinkVictim,
              FreeVictim, Freed, Finish, Destroy
<1>4. CASE Fire(s) /\ gen' = gen
  <2>1. cur[s] \in Events /\ rule[s] \in Rules /\ gen[cur[s]] = None /\ rule[s] # None
    BY <1>4, RuleSets DEF Fire, IndInv, TypeOK, PcInv, Busy, GenInv
  <2>2. gen' # [gen EXCEPT ![cur[s]] = rule[s]]
    BY <1>0, <1>4, <2>1 DEF TypeOK
  <2>3. ignored' = ignored
    BY <1>4, <2>2 DEF Fire
  <2> QED
    BY <1>2, <1>4, <2>3
<1> QED
  BY <1>1, <1>3, <1>4

-----------------------------------------------------------------------------
(* The invariant.                                                          *)

LEMMA InitIndInv ==
  Init => IndInv
<1> SUFFICES ASSUME Init PROVE IndInv
  OBVIOUS
<1> USE CorrelationAssumption DEF Init
<1>1. TypeOK
  <2>1. <<>> \in Seq(Events) /\ Len(<<>>) = 0
    BY EmptySeq
  <2> QED
    BY <2>1 DEF TypeOK, Steps, Found
<1>2. PcInv
  BY RuleSets DEF PcInv, Busy
<1>3. Range(<<>>) = {} /\ IsInjective(<<>>)
  BY DEF Range, IsInjective
<1>4. OwnInv
  BY <1>3 DEF OwnInv, Kept
<1>5. \A s \in Shards : Range(Feed[s]) \subseteq Events
  BY InRange
<1>6. GenInv
  BY <1>5 DEF GenInv
<1>7. NodeInv /\ NodesOwned
  BY <1>3 DEF NodeInv, NodesOwned
<1>8. LockInv /\ FoundInv /\ ContextInv /\ ContextOwn
  BY DEF LockInv, FoundInv, ContextInv, ContextOwn
<1>9. IgnoreInv /\ IgnoredApart
  BY DEF IgnoreInv, IgnoredApart
<1> QED
  BY <1>1, <1>2, <1>4, <1>6, <1>7, <1>8, <1>9 DEF IndInv

LEMMA NextIndInv ==
  IndInv /\ [Next]_vars => IndInv'
<1>1. ASSUME IndInv, NEW s \in Shards, Step(s)
      PROVE  IndInv'
  <2>1. TypeOK'
    BY <1>1, TypeStep
  <2>2. PcInv'
    BY <1>1, PcStep
  <2>3. OwnInv'
    BY <1>1, OwnStep
  <2>4. GenInv'
    BY <1>1, <2>1, <2>2, <2>3, GenStep
  <2>5. NodeInv' /\ NodesOwned'
    BY <1>1, <2>1, <2>3, NodeStep, NodesOwnedStep
  <2>6. LockInv' /\ FoundInv'
    BY <1>1, LockStep, FoundStep
  <2>7. ContextInv' /\ ContextOwn'
    BY <1>1, ContextStep, ContextOwnStep
  <2>8. IgnoreInv' /\ IgnoredApart'
    BY <1>1, IgnoreStep
  <2> QED
    BY <2>1, <2>2, <2>3, <2>4, <2>5, <2>6, <2>7, <2>8 DEF IndInv
<1>2. ASSUME IndInv, UNCHANGED vars
      PROVE  IndInv'
  <2> USE <1>2 DEF IndInv, vars, thread, shared
  <2>1. TypeOK' /\ PcInv' /\ OwnInv' /\ GenInv' /\ NodeInv' /\ NodesOwned'
    BY DEF TypeOK, PcInv, OwnInv, Kept, GenInv, NodeInv, NodesOwned
  <2>2. \A s \in Shards : Current(s)' = Current(s)
    BY DEF Current
  <2>3. LockInv' /\ ContextInv' /\ ContextOwn'
    BY <2>2 DEF LockInv, ContextInv, ContextOwn
  <2>4. \A s \in Shards : ListOf(s, Current(s))' = ListOf(s, Current(s))
    BY <2>2 DEF ListOf
  <2>5. FoundInv'
    BY <2>4 DEF FoundInv
  <2>6. IgnoreInv' /\ IgnoredApart'
    BY DEF IgnoreInv, IgnoredApart
  <2> QED
    BY <2>1, <2>3, <2>5, <2>6
<1> QED
  BY <1>1, <1>2 DEF Next, Step

LEMMA Invariance == Spec => []IndInv
  BY InitIndInv, NextIndInv, PTL DEF Spec

(* The values of the variables are of their types, and the lists that have *)
(* a limit never exceed it.                                                *)
THEOREM CorrelationTypeCorrect == Spec => []TypeOK
<1>1. IndInv => TypeOK
  BY DEF IndInv
<1> QED
  BY <1>1, Invariance, PTL

(* No search of any thread comes upon a freed event, whatever shard owns   *)
(* it and whenever that shard evicts it.                                   *)
THEOREM ListedEventsLive == Spec => []ListedLive
<1>1. IndInv => ListedLive
  <2> SUFFICES ASSUME IndInv PROVE ListedLive
    OBVIOUS
  <2>0. TypeOK /\ PcInv /\ OwnInv /\ NodeInv /\ NodesOwned /\ FoundInv
    BY DEF IndInv
  <2>1. \A r \in SidLists : Range(sidlist[r]) \subseteq live
    BY <2>0 DEF NodesOwned, NodeInv
  <2>2. \A r \in GroupLists : Range(grouplist[r]) \subseteq live
    BY <2>0 DEF NodesOwned, NodeInv
  <2>3. \A s \in Shards : Range(elist[s]) \cup Range(victims[s]) \subseteq live
    BY <2>0 DEF OwnInv, Kept
  <2>4. ASSUME NEW s \in Shards, pc[s] = "mark"
        PROVE  found[s].set \cup {found[s].first, cur[s]} \subseteq live
    <3>1. PICK r \in Composite : r = Current(s)
      BY <2>0, <2>4, CurrentRule
    <3>2. ListOf(s, r) \in Seq(Events) /\ Range(ListOf(s, r)) \subseteq live
      BY <2>0, AnyList
    <3>3. /\ ListOf(s, r) # <<>> /\ found[s].first = ListOf(s, r)[Len(ListOf(s, r))]
          /\ found[s].set \subseteq Range(ListOf(s, r))
      BY <2>0, <2>4, <3>1 DEF FoundInv
    <3>4. found[s].first \in Range(ListOf(s, r))
      BY <3>2, <3>3, InRange
    <3>5. cur[s] \in live
      BY <2>0, <2>4 DEF OwnInv, PcInv, Busy
    <3> QED
      BY <3>2, <3>3, <3>4, <3>5
  <2> QED
    BY <2>1, <2>2, <2>3, <2>4 DEF ListedLive
<1> QED
  BY <1>1, Invariance, PTL

(* An event refers to a node exactly while the node is on its list, so no  *)
(* node is deleted twice.                                                  *)
THEOREM NodesDeletedOnce == Spec => []NodesOwned
<1>1. IndInv => NodesOwned
  BY DEF IndInv
<1> QED
  BY <1>1, Invariance, PTL

(* The context of an alert is that of its own search, though all threads   *)
(* write last_events of the rule.                                          *)
THEOREM ContextOfAlert == Spec => []ContextOwn
<1>1. IndInv => ContextOwn
  BY DEF IndInv
<1> QED
  BY <1>1, Invariance, PTL

(* The alerts of a rule with an ignore time are that far apart.            *)
THEOREM AlertsApart == Spec => []IgnoredApart
<1>1. IndInv => IgnoredApart
  BY DEF IndInv
<1> QED
  BY <1>1, Invariance, PTL

-----------------------------------------------------------------------------
(* The marks.                                                              *)

(* An event that is on a list of a kind does not wait to be put there.     *)
LEMMA WaitingShrinks ==
  ASSUME IndInv, NEW s \in Shards, Step(s), NEW k
  PROVE  Waiting(k)' \subseteq Waiting(k)
<1> DEFINE W(o) == Range(feed[o]) \cup (IF pc[o] \in Before(k) THEN {cur[o]} ELSE {})
<1>1. /\ \A e \in Events : e \in Waiting(k) <=> \E o \in Shards : e \in W(o)
      /\ \A e : e \in Waiting(k)' => e \in Events /\ \E o \in Shards : e \in W(o)'
  BY DEF Waiting
<1>2. ASSUME NEW o \in Shards, o # s
      PROVE  W(o)' = W(o)
  BY <1>2, OthersKeep DEF Before
<1>3. W(s)' \subseteq W(s)
  <2>0. TypeOK /\ PcInv /\ OwnInv
    BY DEF IndInv
  <2> USE DEF thread, shared
  <2>1. CASE Take(s)
    <3>1. /\ feed[s] \in Seq(Events) /\ feed[s] # <<>> /\ feed'[s] = Tail(feed[s])
          /\ cur'[s] = Head(feed[s])
      BY <2>0, <2>1 DEF Take, TypeOK
    <3>2. Head(feed[s]) \in Range(feed[s]) /\ Range(Tail(feed[s])) \subseteq Range(feed[s])
      BY <2>0, <3>1, TailList DEF OwnInv
    <3> QED
      BY <3>1, <3>2
  <2>2. CASE Search(s)
    <3>1. /\ feed' = feed /\ cur' = cur /\ pc[s] = "search"
      BY <2>0, <2>2 DEF Search
    <3> QED
      BY <3>1 DEF Before, Busy
  <2>3. CASE Mark(s) \/ NoChild(s) \/ Fire(s)
    <3>1. /\ feed' = feed /\ cur' = cur /\ pc[s] \in {"search", "mark", "fire"}
      BY <2>3 DEF Mark, NoChild, Fire
    <3> QED
      BY <3>1 DEF Before, Busy
  <2>4. CASE AddSid(s)
    <3>1. /\ feed' = feed /\ cur' = cur /\ pc[s] = "sid" /\ pc'[s] = "group"
      BY <2>0, <2>4 DEF AddSid, Goto, TypeOK
    <3> QED
      BY <3>1 DEF Before, Busy
  <2>5. CASE AddGroups(s)
    <3>1. /\ feed' = feed /\ cur' = cur /\ pc[s] = "group" /\ pc'[s] = "add"
      BY <2>0, <2>5 DEF AddGroups, Goto, TypeOK
    <3> QED
      BY <3>1 DEF Before, Busy
  <2>6. CASE AddEvent(s) \/ UnlinkVictim(s) \/ FreeVictim(s) \/ Freed(s) \/ Finish(s) \/ Destroy(s)
    <3>1. feed' = feed /\ pc'[s] \in {"unlink", "free", "idle"}
      BY <2>0, <2>6 DEF AddEvent, UnlinkVictim, FreeVictim, Freed, Finish, Destroy, Goto, TypeOK
    <3> QED
      BY <3>1 DEF Before, Busy
  <2> QED
    BY <2>1, <2>2, <2>3, <2>4, <2>5, <2>6 DEF Step
<1> HIDE DEF W
<1> QED
  BY <1>1, <1>2, <1>3

LEMMA ListNotWaiting ==
  ASSUME IndInv, NEW s \in Shards, NEW r \in Composite
  PROVE  Range(ListOf(s, r)) \cap Waiting(Kind[r]) = {}
<1>0. TypeOK /\ PcInv /\ OwnInv /\ NodeInv /\ NodesOwned
  BY DEF IndInv
<1> SUFFICES ASSUME NEW e \in Range(ListOf(s, r)), NEW o \in Shards
             PROVE  e \notin Range(feed[o]) /\ (pc[o] \in Before(Kind[r]) => e # cur[o])
  BY DEF Waiting
<1>1. e \in live
  BY <1>0, AnyList
<1>2. e \notin Range(feed[o])
  BY <1>0, <1>1 DEF OwnInv
<1>3. Kind[r] \in {"sid", "group", "event"}
  BY CorrelationAssumption
<1>4. CASE Kind[r] = "sid"
  BY <1>0, <1>2, <1>4, AnyList DEF NodeInv, Before
<1>5. CASE Kind[r] = "group"
  BY <1>0, <1>2, <1>5, AnyList DEF NodeInv, Before
<1>6. CASE Kind[r] = "event"
  <2>1. e \in Kept(s)
    BY <1>0, <1>6, AnyList DEF Kept
  <2>2. cur[o] # None => cur[o] # e
    <3>1. CASE o = s
      BY <1>0, <2>1, <3>1 DEF OwnInv
    <3>2. CASE o # s
      BY <1>0, <2>1, <3>2, NotAnothers
    <3> QED
      BY <3>1, <3>2
  <2>3. pc[o] \in Before(Kind[r]) => cur[o] # None
    BY <1>0, <1>6 DEF PcInv, Before
  <2> QED
    BY <1>2, <2>2, <2>3
<1> QED
  BY <1>3, <1>4, <1>5, <1>6

(* A list grows at its end, by an event that waited, and loses events      *)
(* without changing the order of the others.                               *)
LEMMA ListSteps ==
  ASSUME IndInv, NEW s \in Shards, Step(s), NEW o \in Shards, NEW q \in Composite
  PROVE  \E l \in Seq(Events) :
            /\ \/ l = ListOf(o, q)
               \/ /\ cur[s] \in Waiting(Kind[q]) /\ cur[s] \in Events
                  /\ l = Append(ListOf(o, q), cur[s])
            /\ \E f : Picks(ListOf(o, q)', l, f)
<1>0. TypeOK /\ PcInv /\ OwnInv /\ NodeInv /\ NodesOwned
  BY DEF IndInv
<1>1. ListOf(o, q) \in Seq(Events)
  BY <1>0, AnyList
<1>2. \A l \in Seq(Events) : \E f : Picks(l, l, f)
  <2> TAKE l \in Seq(Events)
  <2>1. Len(l) \in Nat
    BY InRange
  <2>2. Picks(l, l, [i \in 1 .. Len(l) |-> i])
    BY <2>1 DEF Picks
  <2> QED
    BY <2>2
<1>3. ASSUME ListOf(o, q)' = ListOf(o, q)
      PROVE  \E f : Picks(ListOf(o, q)', ListOf(o, q), f)
  BY <1>1, <1>2, <1>3
<1>4. Kind[q] \in {"sid", "group", "event"}
  BY CorrelationAssumption
<1>5. CASE Kind[q] = "sid"
  <2>1. PICK b \in SidLists : ListOf(o, q) = sidlist[b] /\ ListOf(o, q)' = sidlist'[b]
    <3>1. PICK b \in SidLists : Watched[q] = {b}
      BY <1>5, SharedList
    <3>2. (CHOOSE x \in Watched[q] : TRUE) = b
      BY <3>1
    <3> QED
      BY <1>5, <3>1, <3>2 DEF ListOf
  <2>2. sidlist[b] \in Seq(Events)
    BY <1>0 DEF TypeOK
  <2>3. CASE AddSid(s)
    <3>1. SidAdded(s)
      BY <1>0, <2>3, AddSidFacts
    <3>2. cur[s] \in Waiting("sid") /\ cur[s] \in Events
      BY <3>1 DEF SidAdded, Waiting, Before
    <3>3. /\ Append(sidlist[b], cur[s]) \in Seq(Events) /\ Append(sidlist[b], cur[s]) # <<>>
      BY <2>2, <3>2, AppendList
    <3>4. CASE sidlist'[b] = sidlist[b]
      BY <1>1, <1>3, <2>1, <3>4
    <3>5. CASE sidlist'[b] = Append(sidlist[b], cur[s])
      BY <1>2, <1>5, <2>1, <3>2, <3>3, <3>5
    <3>6. CASE sidlist'[b] = Tail(Append(sidlist[b], cur[s]))
      <4>1. \E f : Picks(Tail(Append(sidlist[b], cur[s])), Append(sidlist[b], cur[s]), f)
        BY <3>3, TailList
      <4> QED
        BY <1>5, <2>1, <3>2, <3>3, <3>6, <4>1
    <3> QED
      BY <3>1, <3>4, <3>5, <3>6 DEF SidAdded
  <2>4. CASE UnlinkVictim(s)
    <3>1. Unlinked(s)
      BY <1>0, <2>4, UnlinkFacts
    <3>2. CASE sidlist'[b] = sidlist[b]
      BY <1>1, <1>3, <2>1, <3>2
    <3>3. CASE sidlist'[b] = RemoveFirst(sidlist[b], Head(victims[s]))
      <4>1. \E f : Picks(RemoveFirst(sidlist[b], Head(victims[s])), sidlist[b], f)
        BY <2>2, RemoveList
      <4> QED
        BY <2>1, <2>2, <3>3, <4>1
    <3> QED
      BY <3>1, <3>2, <3>3 DEF Unlinked
  <2>5. CASE ~AddSid(s) /\ ~UnlinkVictim(s)
    <3>1. sidlist' = sidlist
      BY <2>5 DEF Step, Take, Search, Mark, NoChild, Fire, AddGroups, AddEvent, FreeVictim,
                  Freed, Finish, Destroy, shared
    <3> QED
      BY <1>1, <1>3, <2>1, <3>1
  <2> QED
    BY <2>3, <2>4, <2>5
<1>6. CASE Kind[q] = "group"
  <2>1. q \in GroupLists /\ ListOf(o, q) = grouplist[q] /\ ListOf(o, q)' = grouplist'[q]
    BY <1>6 DEF ListOf, GroupLists
  <2>2. grouplist[q] \in Seq(Events)
    BY <1>0, <2>1 DEF TypeOK
  <2>3. CASE AddGroups(s)
    <3>1. GroupsAdded(s)
      BY <1>0, <2>3, AddGroupsFacts
    <3>2. cur[s] \in Waiting("group") /\ cur[s] \in Events
      BY <3>1 DEF GroupsAdded, Waiting, Before
    <3>3. Append(grouplist[q], cur[s]) \in Seq(Events)
      BY <2>2, <3>2, AppendList
    <3>4. CASE grouplist'[q] = grouplist[q]
      BY <1>1, <1>3, <2>1, <3>4
    <3>5. CASE grouplist'[q] = Append(grouplist[q], cur[s])
      BY <1>2, <1>6, <2>1, <3>2, <3>3, <3>5
    <3> QED
      BY <2>1, <3>1, <3>4, <3>5 DEF GroupsAdded
  <2>4. CASE UnlinkVictim(s)
    <3>1. Unlinked(s)
      BY <1>0, <2>4, UnlinkFacts
    <3>2. CASE grouplist'[q] = grouplist[q]
      BY <1>1, <1>3, <2>1, <3>2
    <3>3. CASE grouplist'[q] = RemoveFirst(grouplist[q], Head(victims[s]))
      <4>1. \E f : Picks(RemoveFirst(grouplist[q], Head(victims[s])), grouplist[q], f)
        BY <2>2, RemoveList
      <4> QED
        BY <2>1, <2>2, <3>3, <4>1
    <3> QED
      BY <2>1, <3>1, <3>2, <3>3 DEF Unlinked
  <2>5. CASE ~AddGroups(s) /\ ~UnlinkVictim(s)
    <3>1. grouplist' = grouplist
      BY <2>5 DEF Step, Take, Search, Mark, NoChild, Fire, AddSid, AddEvent, FreeVictim,
                  Freed, Finish, Destroy, shared
    <3> QED
      BY <1>1, <1>3, <2>1, <3>1
  <2> QED
    BY <2>3, <2>4, <2>5
<1>7. CASE Kind[q] = "event"
  <2>1. ListOf(o, q) = elist[o] /\ ListOf(o, q)' = elist'[o]
    BY <1>7 DEF ListOf
  <2>2. CASE o # s
    BY <1>1, <1>3, <2>1, <2>2, OthersKeep
  <2>3. CASE o = s /\ AddEvent(s)
    <3>1. Added(s)
      BY <1>0, <2>3, AddEventFacts
    <3>2. cur[s] \in Waiting("event") /\ cur[s] \in Events
      BY <3>1 DEF Added, Waiting, Before, Busy
    <3>3. Append(elist[s], cur[s]) \in Seq(Events)
      BY <1>0, <3>2, AppendList DEF TypeOK
    <3>4. \E f : Picks(elist'[s], Append(elist[s], cur[s]), f)
      BY <3>1 DEF Added
    <3> QED
      BY <1>7, <2>1, <2>3, <3>2, <3>3, <3>4
  <2>4. CASE o = s /\ Destroy(s)
    <3>1. elist'[s] = <<>>
      BY <1>0, <2>4 DEF Destroy, TypeOK
    <3>2. Picks(<<>>, elist[s], <<>>)
      BY DEF Picks
    <3> QED
      BY <1>1, <2>1, <2>4, <3>1, <3>2
  <2>5. CASE ~AddEvent(s) /\ ~Destroy(s)
    <3>1. elist' = elist
      BY <2>5 DEF Step, Take, Search, Mark, NoChild, Fire, AddSid, AddGroups, UnlinkVictim,
                  FreeVictim, Freed, Finish
    <3> QED
      BY <1>1, <1>3, <2>1, <3>1
  <2> QED
    BY <2>2, <2>3, <2>4, <2>5
<1> QED
  BY <1>4, <1>5, <1>6, <1>7

LEMMA BehindKept ==
  ASSUME IndInv, IndInv', NEW s \in Shards, Step(s), NEW o \in Shards, NEW q \in Composite,
         NEW m, m.set \cap Waiting(Kind[q]) = {}, Behind(ListOf(o, q), m)
  PROVE  Behind(ListOf(o, q)', m)
<1>1. PICK l \in Seq(Events) :
         /\ \/ l = ListOf(o, q)
            \/ /\ cur[s] \in Waiting(Kind[q]) /\ cur[s] \in Events
               /\ l = Append(ListOf(o, q), cur[s])
         /\ \E f : Picks(ListOf(o, q)', l, f)
  BY ListSteps, Zenon
<1>2. ListOf(o, q) \in Seq(Events)
  BY AnyList DEF IndInv
<1>3. ListOf(o, q)' \in Seq(Events)
  <2>1. \A r \in Composite : ListOf(o, r) \in Seq(Events)
    BY AnyList DEF IndInv
  <2>2. \A b \in SidLists : sidlist'[b] \in Seq(Events)
    BY DEF IndInv, TypeOK
  <2>3. grouplist' \in [GroupLists -> Seq(Events)] /\ elist'[o] \in Seq(Events)
    BY DEF IndInv, TypeOK
  <2>4. CASE Kind[q] = "sid"
    <3>1. PICK b \in SidLists : Watched[q] = {b}
      BY <2>4, SharedList
    <3>2. (CHOOSE x \in Watched[q] : TRUE) = b
      BY <3>1
    <3> QED
      BY <2>2, <2>4, <3>2 DEF ListOf
  <2>5. CASE Kind[q] # "sid"
    BY <2>3, <2>5 DEF ListOf, GroupLists
  <2> QED
    BY <2>4, <2>5
<1>4. Behind(l, m)
  BY <1>1, <1>2, AppendList
<1>5. PICK f : Picks(ListOf(o, q)', l, f)
  BY <1>1
<1> QED
  BY <1>3, <1>4, <1>5, PickedList

LEMMA CoversMore ==
  ASSUME NEW l \in Nat, NEW k \in Nat, l <= k, NEW r \in Composite, Covers(l, r)
  PROVE  Covers(k, r)
<1>1. \A c \in Composite : Level[c] \in Nat
  BY CorrelationAssumption
<1> QED
  BY <1>1 DEF Covers

(* An event that is not on a list yet has no mark.                         *)
LEMMA UnmarkedStep ==
  ASSUME IndInv, UnmarkedInv, NEW s \in Shards, Step(s)
  PROVE  UnmarkedInv'
<1> DEFINE F(o) == \A e \in Range(feed[o]) : matched[e] = 0
           C(o) == pc[o] \in {"search", "mark"} => matched[cur[o]] = 0
<1>0. /\ TypeOK /\ PcInv /\ OwnInv /\ NodeInv /\ NodesOwned /\ FoundInv
      /\ \A o \in Shards : F(o) /\ C(o)
  BY DEF IndInv, UnmarkedInv
<1> HIDE DEF F, C
<1>1. CASE Mark(s)
  <2> DEFINE r == Current(s)
             f == found[s]
             l == ListOf(s, r)
  <2>1. Marked(s)
    BY <1>0, <1>1, MarkFacts
  <2>2. /\ pc[s] = "mark" /\ r \in Composite /\ cur[s] \in Events /\ pc'[s] = "fire"
        /\ \A e \in Events : matched'[e] = IF e \in {cur[s], f.oldest, f.first} THEN Level[r] ELSE matched[e]
        /\ UNCHANGED <<feed, cur>>
    BY <2>1 DEF Marked
  <2>3. l \in Seq(Events) /\ l # <<>> /\ f.first = l[Len(l)] /\ f.set \subseteq Range(l) /\ f.oldest \in f.set
    BY <1>0, <2>2, AnyList DEF FoundInv
  <2>4. f.first \in Range(l) /\ f.oldest \in Range(l) /\ Range(l) \subseteq Events
    BY <2>3, InRange
  <2>5. Range(l) \cap Waiting(Kind[r]) = {} /\ Range(l) \subseteq live
    BY <1>0, <2>2, ListNotWaiting, AnyList
  <2>6. cur[s] \in live /\ cur[s] # None
    BY <1>0, <2>2 DEF OwnInv, PcInv, Busy
  <2> HIDE DEF r, f, l
  <2>7. ASSUME NEW o \in Shards
        PROVE  F(o)'
    <3>1. feed[o] \in Seq(Events) /\ Range(feed[o]) \cap live = {}
      BY <1>0 DEF OwnInv, TypeOK
    <3>2. Range(feed[o]) \subseteq Events
      BY <3>1, InRange
    <3>3. \A e \in Range(feed[o]) : e \in Events /\ e # cur[s] /\ e # f.first /\ e # f.oldest
      BY <2>4, <2>5, <2>6, <3>1, <3>2
    <3> QED
      BY <1>0, <2>2, <3>3 DEF F
  <2>8. ASSUME NEW o \in Shards
        PROVE  C(o)'
    <3>1. CASE o = s
      BY <2>2, <3>1 DEF C
    <3>2. CASE o # s /\ pc[o] \in {"search", "mark"}
      <4>1. cur[o] \in Events /\ cur[o] # None
        BY <1>0, <3>2 DEF PcInv, Busy, TypeOK
      <4>2. cur[o] \in Waiting(Kind[r])
        BY <3>2, <4>1 DEF Waiting, Before, Busy
      <4>3. cur[o] # cur[s]
        BY <1>0, <2>6, <3>2, NotAnothers
      <4>4. matched'[cur[o]] = matched[cur[o]]
        BY <2>2, <2>4, <2>5, <4>1, <4>2, <4>3
      <4> QED
        BY <1>0, <2>2, <3>2, <4>4 DEF C
    <3>3. CASE o # s /\ pc[o] \notin {"search", "mark"}
      BY <1>1, <3>3, OldMark DEF C, Step
    <3> QED
      BY <3>1, <3>2, <3>3
  <2> QED
    BY <2>7, <2>8 DEF UnmarkedInv, F, C
<1>2. CASE ~Mark(s)
  <2>1. matched' = matched
    BY <1>2, MarksGrow
  <2>2. ASSUME NEW o \in Shards, o # s
        PROVE  F(o)' /\ C(o)'
    <3>1. feed'[o] = feed[o] /\ cur'[o] = cur[o] /\ pc'[o] = pc[o]
      BY <2>2, OthersKeep
    <3> QED
      BY <1>0, <2>1, <2>2, <3>1 DEF F, C
  <2>3. F(s)' /\ C(s)'
    <3>1. CASE Take(s)
      <4>1. /\ feed[s] \in Seq(Events) /\ feed[s] # <<>> /\ feed'[s] = Tail(feed[s])
            /\ cur'[s] = Head(feed[s])
        BY <1>0, <3>1 DEF Take, TypeOK
      <4>2. Head(feed[s]) \in Range(feed[s]) /\ Range(Tail(feed[s])) \subseteq Range(feed[s])
        BY <1>0, <4>1, TailList DEF OwnInv
      <4> QED
        BY <1>0, <2>1, <4>1, <4>2 DEF F, C
    <3>2. CASE ~Take(s)
      <4>1. feed' = feed
        BY <1>2, <3>2 DEF Step, Search, NoChild, Fire, AddSid, AddGroups, AddEvent,
                          UnlinkVictim, FreeVictim, Freed, Finish, Destroy, thread
      <4>2. pc'[s] \in {"search", "mark"} => pc[s] = "search" /\ cur' = cur
        <5>1. CASE Search(s)
          BY <5>1 DEF Search
        <5>2. CASE ~Search(s)
          BY <1>0, <1>2, <3>2, <5>2, GotoFacts DEF Step, NoChild, Fire, AddSid, AddGroups, AddEvent,
             UnlinkVictim, FreeVictim, Freed, Finish, Destroy, Steps
        <5> QED
          BY <5>1, <5>2
      <4> QED
        BY <1>0, <2>1, <4>1, <4>2 DEF F, C
    <3> QED
      BY <3>1, <3>2
  <2> QED
    BY <2>2, <2>3 DEF UnmarkedInv, F, C
<1> QED
  BY <1>1, <1>2

(* What a search found unmarked may be marked meanwhile by a search under  *)
(* the other lock only.                                                    *)
LEMMA OverStep ==
  ASSUME IndInv, MarkInv, OverInv, NEW s \in Shards, Step(s)
  PROVE  OverInv'
<1>0. /\ TypeOK /\ PcInv /\ OwnInv /\ NodeInv /\ NodesOwned /\ FoundInv
      /\ \A c \in Composite : Level[c] \in Nat
      /\ \A m \in marks : m.rule \in Composite /\ m.first \in Events
  BY CorrelationAssumption DEF IndInv, TypeOK, Marks
<1> SUFFICES ASSUME NEW o \in Shards, pc'[o] = "mark", NEW m \in marks',
                    m.first \in {found'[o].first, found'[o].oldest}
             PROVE  \E q : q = Current(o)' /\ Covers(Level[q], m.rule)
  BY DEF OverInv, Covers
<1>1. CASE o = s
  <2> DEFINE r == Current(s)
             l == ListOf(s, r)
  <2>1. /\ Searched(s) /\ r' = r
        /\ r \in Composite /\ l # <<>> /\ found'[s].first = l[Len(l)]
        /\ found'[s].set \subseteq Range(l) /\ found'[s].oldest \in found'[s].set
        /\ \A i, j \in 1 .. Len(l) : l[i] \in found'[s].set /\ matched[l[j]] >= Level[r] => j < i
    BY <1>1, NewMark DEF Searched, SearchDone
  <2>2. m \in marks
    BY <2>1 DEF Searched
  <2>3. l \in Seq(Events)
    BY <1>0, <2>1, AnyList
  <2>4. PICK q \in Composite : q = r /\ q = Current(o)'
    BY <1>1, <2>1
  <2> HIDE DEF r, l
  <2>5. /\ Len(l) \in 1 .. Len(l) /\ Len(l) \in Nat
        /\ \A z : z \in Range(l) <=> \E i \in 1 .. Len(l) : l[i] = z
    BY <2>1, <2>3, InRange
  <2>6. PICK i \in 1 .. Len(l) : l[i] = found'[s].oldest
    BY <2>1, <2>5
  <2>7. ~(matched[l[i]] >= Level[r]) /\ ~(matched[l[Len(l)]] >= Level[r])
    BY <2>1, <2>5, <2>6
  <2>8. matched[m.first] \in Nat /\ ~(matched[m.first] >= Level[q])
    BY <1>0, <1>1, <2>1, <2>2, <2>4, <2>6, <2>7 DEF TypeOK
  <2>9. Covers(matched[m.first], m.rule)
    BY <2>2 DEF MarkInv
  <2>10. Covers(Level[q], m.rule)
    <3>1. Level[q] \in Nat /\ matched[m.first] <= Level[q]
      BY <1>0, <2>8
    <3> QED
      BY <1>0, <2>2, <2>8, <2>9, <3>1, CoversMore
  <2> QED
    BY <2>4, <2>10
<1>2. CASE o # s
  <2>1. pc[o] = "mark" /\ Current(o)' = Current(o) /\ found'[o] = found[o]
    BY <1>2, OldMark
  <2>2. PICK q \in Composite : q = Current(o)
    BY <1>0, <2>1, CurrentRule
  <2>3. CASE m \in marks
    BY <2>1, <2>2, <2>3 DEF OverInv
  <2>4. CASE m \notin marks
    <3>1. Marked(s)
      BY <2>4, MarksGrow
    <3> DEFINE r == Current(s)
               f == found[s]
               g == found[o]
               l == ListOf(s, r)
               k == ListOf(o, q)
    <3>2. /\ pc[s] = "mark" /\ r \in Composite /\ m.rule = r /\ m.first = f.first
      BY <2>4, <3>1 DEF Marked
    <3>3. /\ l \in Seq(Events) /\ l # <<>> /\ f.first = l[Len(l)]
          /\ k \in Seq(Events) /\ k # <<>> /\ g.first = k[Len(k)]
          /\ g.set \subseteq Range(k) /\ g.oldest \in g.set
      BY <1>0, <2>1, <2>2, <3>2, AnyList DEF FoundInv
    <3>4. f.first \in Range(l) /\ g.first \in Range(k) /\ g.oldest \in Range(k)
      BY <3>3, InRange
    <3>5. Kind[r] = "event" \/ Kind[q] = "event"
      BY <1>2, <2>1, <2>2, <3>2 DEF IndInv, LockInv, r
    <3>6. ~(Kind[r] = "event" /\ Kind[q] = "event")
      <4> SUFFICES ASSUME Kind[r] = "event", Kind[q] = "event" PROVE FALSE
        OBVIOUS
      <4>1. Range(l) \subseteq Kept(s) /\ Range(k) \subseteq Kept(o)
        BY <1>0, <2>2, <3>2, AnyList DEF Kept, l
      <4>2. \A e \in Kept(s) : e \notin Kept(o)
        BY <1>0, <1>2, NotAnothers
      <4> QED
        BY <2>1, <3>2, <3>4, <4>1, <4>2
    <3>7. OtherLock(q, m.rule)
      BY <3>2, <3>5, <3>6 DEF OtherLock
    <3>8. Covers(Level[q], m.rule)
      BY <1>0, <3>7 DEF Covers
    <3> QED
      BY <2>1, <2>2, <3>8
  <2> QED
    BY <2>3, <2>4
<1> QED
  BY <1>1, <1>2

(* A mark stays on the event that carries it, and what it was made for     *)
(* stays behind that event.                                                *)
LEMMA MarkStep ==
  ASSUME IndInv, IndInv', UnmarkedInv, OverInv, MarkInv, NEW s \in Shards, Step(s)
  PROVE  MarkInv'
<1>0. TypeOK /\ PcInv /\ OwnInv /\ NodeInv /\ NodesOwned /\ FoundInv
  BY DEF IndInv
<1> DEFINE P(m) == /\ Covers(matched[m.first], m.rule)
                   /\ m.set \cap Waiting(Kind[m.rule]) = {}
                   /\ \A o \in Shards : Behind(ListOf(o, m.rule), m)
<1>1. ASSUME NEW m \in marks
      PROVE  P(m)'
  <2>1. m.rule \in Composite /\ m.first \in Events
    BY <1>0 DEF TypeOK, Marks
  <2>2. P(m)
    BY DEF MarkInv
  <2>3. Covers(matched'[m.first], m.rule)
    <3>1. CASE Marked(s)
      <4> DEFINE r == Current(s)
                 f == found[s]
      <4>1. /\ pc[s] = "mark" /\ r \in Composite /\ cur[s] \in Events
            /\ matched'[m.first] = IF m.first \in {cur[s], f.oldest, f.first} THEN Level[r]
                                   ELSE matched[m.first]
        BY <2>1, <3>1 DEF Marked
      <4>2. m.first \in {f.oldest, f.first} => Covers(Level[r], m.rule)
        BY <4>1 DEF OverInv
      <4>3. matched[cur[s]] = 0
        BY <4>1 DEF UnmarkedInv
      <4>4. Level[r] \in Nat /\ 0 \in Nat /\ 0 <= Level[r]
        BY <4>1, CorrelationAssumption
      <4> HIDE DEF r, f
      <4>5. m.first = cur[s] => Covers(Level[r], m.rule)
        BY <2>1, <2>2, <4>3, <4>4, CoversMore
      <4> QED
        BY <2>2, <4>1, <4>2, <4>5
    <3>2. CASE matched' = matched
      BY <2>2, <3>2
    <3> QED
      BY <3>1, <3>2, MarksGrow
  <2>4. m.set \cap Waiting(Kind[m.rule])' = {}
    BY <2>2, WaitingShrinks
  <2>5. \A o \in Shards : Behind(ListOf(o, m.rule)', m)
    BY <2>1, <2>2, BehindKept
  <2>6. /\ \A o \in Shards : Behind(ListOf(o, m.rule), m)' <=> Behind(ListOf(o, m.rule)', m)
        /\ Covers(matched[m.first], m.rule)' <=> Covers(matched'[m.first], m.rule)
    BY DEF Behind, Covers
  <2> QED
    BY <2>3, <2>4, <2>5, <2>6
<1>2. CASE Marked(s)
  <2> DEFINE r == Current(s)
             f == found[s]
             l == ListOf(s, r)
  <2>1. /\ pc[s] = "mark" /\ r \in Composite /\ f \in Found
        /\ \A e \in Events : matched'[e] = IF e \in {cur[s], f.oldest, f.first} THEN Level[r] ELSE matched[e]
        /\ marks' = marks \cup {[rule |-> r, set |-> f.set, first |-> f.first, context |-> lastev[r]]}
        /\ UNCHANGED <<elist, sidlist, grouplist>>
    BY <1>2 DEF Marked, shared
  <2>2. PICK q \in Composite : q = r
    BY <2>1
  <2>3. PICK n : n = [rule |-> q, set |-> f.set, first |-> f.first, context |-> lastev[r]]
    OBVIOUS
  <2>4. n.rule = q /\ n.set = f.set /\ n.first = f.first
    BY <2>3
  <2>5. l \in Seq(Events) /\ l # <<>> /\ f.first = l[Len(l)] /\ f.set \subseteq Range(l) /\ IsInjective(l)
    BY <1>0, <2>1, AnyList DEF FoundInv
  <2>6. /\ Len(l) \in Nat /\ Len(l) \in 1 .. Len(l) /\ DOMAIN l = 1 .. Len(l)
        /\ \A i, j \in 1 .. Len(l) : l[i] = l[j] => i = j
        /\ f.first \in Range(l) /\ Range(l) \subseteq Events
    BY <2>5, InRange
  <2>7. Covers(matched'[n.first], q)
    <3>1. f.first \in Events /\ Level[q] \in Nat
      BY <2>6, CorrelationAssumption
    <3>2. matched'[f.first] = Level[q]
      BY <2>1, <2>2, <3>1
    <3> QED
      BY <2>4, <3>1, <3>2 DEF Covers
  <2>8. n.set \cap Waiting(Kind[q])' = {}
    <3>1. Range(l) \cap Waiting(Kind[q]) = {}
      BY <2>1, <2>2, ListNotWaiting
    <3> QED
      BY <2>4, <2>5, <3>1, WaitingShrinks
  <2>9. ASSUME NEW o \in Shards
        PROVE  Behind(ListOf(o, q)', n)
    <3>1. ListOf(o, q)' = ListOf(o, q)
      BY <2>1 DEF ListOf
    <3> HIDE DEF f
    <3>2. Behind(l, n)
      <4> HIDE DEF l
      <4> SUFFICES ASSUME NEW i \in 1 .. Len(l), NEW j \in 1 .. Len(l), l[j] = f.first
                   PROVE  i <= j
        BY <2>4, <2>6 DEF Behind
      <4>1. j = Len(l)
        BY <2>5, <2>6
      <4> QED
        BY <2>6, <4>1
    <3>3. CASE ListOf(o, q) = l
      BY <3>1, <3>2, <3>3
    <3>4. CASE Kind[q] = "event" /\ o # s
      <4>1. l = elist[s] /\ ListOf(o, q) = elist[o] /\ elist[o] \in Seq(Events)
        BY <2>1, <2>2, <3>4 DEF ListOf, IndInv, TypeOK
      <4>2. f.first \in Kept(s)
        BY <2>6, <4>1 DEF Kept
      <4>3. f.first \notin Range(elist[o])
        BY <1>0, <3>4, <4>2, NotAnothers DEF Kept
      <4>4. \A j \in DOMAIN elist[o] : elist[o][j] # f.first
        BY <4>1, <4>3, InRange
      <4> QED
        BY <2>4, <3>1, <4>1, <4>4 DEF Behind
    <3>5. Kind[q] = "event" \/ ListOf(o, q) = l
      <4>0. Kind[q] \in {"sid", "group", "event"}
        BY CorrelationAssumption
      <4>1. Kind[q] = "event" \/ ListOf(o, q) = ListOf(s, q)
        BY <4>0 DEF ListOf
      <4>2. l = ListOf(s, q)
        BY <2>2, Zenon
      <4> QED
        BY <4>1, <4>2
    <3> QED
      BY <2>2, <3>3, <3>4, <3>5
  <2>10. /\ \A o \in Shards : Behind(ListOf(o, q), n)' <=> Behind(ListOf(o, q)', n)
         /\ Covers(matched[n.first], q)' <=> Covers(matched'[n.first], q)
    BY DEF Behind, Covers
  <2>11. P(n)'
    BY <2>4, <2>7, <2>8, <2>9, <2>10
  <2>12. marks' = marks \cup {n}
    BY <2>1, <2>2, <2>3
  <2>13. ASSUME NEW m \in marks'
         PROVE  P(m)'
    <3>1. CASE m \in marks
      BY <1>1, <3>1
    <3>2. CASE m = n
      BY <2>11, <3>2
    <3> QED
      BY <2>12, <3>1, <3>2
  <2> QED
    BY <2>13 DEF MarkInv
<1>3. CASE UNCHANGED marks
  BY <1>1, <1>3 DEF MarkInv
<1> QED
  BY <1>2, <1>3, MarksGrow

(* A search that comes upon events of an earlier mark has not come past    *)
(* the event that carries it.                                              *)
LEMMA TriggersStep ==
  ASSUME IndInv, IndInv', MarkInv, TriggersApart, NEW s \in Shards, Step(s)
  PROVE  TriggersApart'
<1>0. /\ TypeOK /\ PcInv /\ OwnInv /\ NodeInv /\ NodesOwned /\ FoundInv
      /\ Level \in [Composite -> Nat] /\ Kind \in [Composite -> {"sid", "group", "event"}]
  BY CorrelationAssumption DEF IndInv
<1>1. SUFFICES ASSUME NEW o \in Shards, pc'[o] = "mark", ~Overwritten(Current(o)'),
                      NEW m \in marks', SameList(m.rule, Current(o)'),
                      Level[m.rule] >= Level[Current(o)'], m.set \cap found'[o].set # {}
               PROVE  \E q : q = Current(o)' /\ m.first \notin Range(ListOf(o, q)')
  BY DEF TriggersApart, MarkGone, CountedBefore, ListOf, Overwritten, SameList
<1>2. CASE o = s
  <2> DEFINE r == Current(s)
             l == ListOf(s, r)
  <2>1. Searched(s) /\ SearchDone(s) /\ r' = r /\ r \in Composite
        /\ \A q \in Composite : ListOf(s, q)' = ListOf(s, q)
    BY <1>1, <1>2, NewMark DEF Searched
  <2>2. m \in marks
    BY <2>1 DEF Searched
  <2>3. /\ found'[s].set \subseteq Range(l)
        /\ \A i, j \in 1 .. Len(l) : l[i] \in found'[s].set /\ matched[l[j]] >= Level[r] => j < i
    BY <2>1 DEF SearchDone
  <2>4. /\ m.rule \in Composite /\ m.first \in Events /\ matched[m.first] \in Nat
        /\ Covers(matched[m.first], m.rule) /\ Behind(ListOf(s, m.rule), m)
    BY <1>0, <2>2 DEF MarkInv, TypeOK, Marks
  <2>5. l \in Seq(Events)
    BY <1>0, <2>1, AnyList
  <2>6. PICK q \in Composite : q = r /\ q = Current(o)' /\ ListOf(s, q)' = l
    BY <1>2, <2>1
  <2>7. /\ SameList(m.rule, q) /\ Level[m.rule] >= Level[q]
        /\ \A c \in Composite : OtherLock(c, q) => Level[c] >= Level[q]
    BY <1>0, <1>1, <2>6 DEF Overwritten
  <2>8. ListOf(s, m.rule) = l
    <3>1. ListOf(s, m.rule) = ListOf(s, q)
      <4>1. Kind[m.rule] = Kind[q] /\ Kind[q] \in {"sid", "group", "event"}
        BY <1>0, <2>7 DEF SameList
      <4>2. CASE Kind[q] = "sid"
        <5>1. PICK b \in SidLists : Watched[q] = {b} /\ ListOf(s, q) = sidlist[b]
          BY <4>2, SharedList
        <5>2. PICK c \in SidLists : Watched[m.rule] = {c} /\ ListOf(s, m.rule) = sidlist[c]
          BY <2>4, <4>1, <4>2, SharedList
        <5>3. b = c
          BY <2>7, <4>1, <4>2, <5>1, <5>2 DEF SameList
        <5> QED
          BY <5>1, <5>2, <5>3
      <4>3. CASE Kind[q] = "group"
        BY <2>7, <4>1, <4>3 DEF SameList
      <4>4. CASE Kind[q] = "event"
        BY <4>1, <4>4 DEF ListOf
      <4> QED
        BY <4>1, <4>2, <4>3, <4>4
    <3> QED
      BY <2>6, <3>1
  <2>9. Behind(l, m) /\ matched[m.first] >= Level[r]
    <3>1. \A c \in Composite : OtherLock(c, m.rule) => Level[c] >= Level[q]
      BY <2>7 DEF SameList, OtherLock
    <3>2. matched[m.first] >= Level[q]
      <4>1. CASE matched[m.first] >= Level[m.rule]
        BY <1>0, <2>4, <2>7, <4>1
      <4>2. ASSUME NEW c \in Composite, OtherLock(c, m.rule), matched[m.first] >= Level[c]
            PROVE  matched[m.first] >= Level[q]
        BY <1>0, <2>4, <3>1, <4>2
      <4> QED
        BY <2>4, <4>1, <4>2 DEF Covers
    <3> QED
      BY <2>4, <2>6, <2>8, <3>2
  <2> HIDE DEF r, l
  <2>10. /\ Len(l) \in Nat /\ DOMAIN l = 1 .. Len(l)
         /\ \A z : z \in Range(l) <=> \E x \in 1 .. Len(l) : l[x] = z
    BY <2>5, InRange
  <2>11. m.first \notin Range(l)
    <3> SUFFICES ASSUME NEW j \in 1 .. Len(l), m.first = l[j] PROVE FALSE
      BY <2>10
    <3>1. PICK i \in 1 .. Len(l) : l[i] \in m.set /\ l[i] \in found'[s].set
      BY <1>1, <1>2, <2>3, <2>10
    <3>2. i <= j
      BY <2>9, <2>10, <3>1 DEF Behind
    <3>3. j < i
      BY <2>3, <2>9, <3>1
    <3> QED
      BY <2>10, <3>2, <3>3
  <2> QED
    BY <1>2, <2>6, <2>11
<1>3. CASE o # s
  <2>1. pc[o] = "mark" /\ Current(o)' = Current(o) /\ found'[o] = found[o]
    BY <1>1, <1>3, OldMark
  <2>2. PICK q \in Composite : q = Current(o)
    BY <1>0, <2>1, CurrentRule
  <2>3. ListOf(o, q)' = ListOf(o, q)
    BY <1>3, <2>1, <2>2, ListKept
  <2>4. m \in marks
    <3>1. ASSUME Marked(s), m \notin marks
          PROVE  FALSE
      <4>1. pc[s] = "mark" /\ Current(s) \in Composite /\ m.rule = Current(s) /\ m.set = found[s].set
        BY <3>1 DEF Marked
      <4>2. SameList(Current(s), q)
        BY <1>1, <2>1, <2>2, <4>1
      <4>3. Kind[q] = "event" /\ Kind[Current(s)] = "event"
        BY <1>3, <2>1, <2>2, <4>1, <4>2 DEF IndInv, LockInv, SameList
      <4>4. found[s].set \subseteq Kept(s) /\ found[o].set \subseteq Kept(o)
        BY <1>0, <2>1, <2>2, <4>1, <4>3 DEF FoundInv, ListOf, Kept
      <4>5. \A e \in Kept(s) : e \notin Kept(o)
        BY <1>0, <1>3, NotAnothers
      <4> QED
        BY <1>1, <2>1, <4>1, <4>4, <4>5
    <3>2. CASE marks' = marks
      BY <3>2
    <3> QED
      BY <3>1, <3>2, MarksGrow
  <2>5. m \in CountedBefore(o) /\ ~Overwritten(Current(o))
    BY <1>1, <2>1, <2>4 DEF CountedBefore
  <2>6. m.first \notin Range(ListOf(o, q))
    BY <2>1, <2>2, <2>5 DEF TriggersApart, MarkGone
  <2> QED
    BY <2>1, <2>2, <2>3, <2>6
<1> QED
  BY <1>2, <1>3

LEMMA MarksInvariance == Spec => []MarksInv
<1>1. Init => MarksInv
  <2> SUFFICES ASSUME Init PROVE MarksInv
    OBVIOUS
  <2>1. UnmarkedInv
    <3>1. \A s \in Shards : Range(Feed[s]) \subseteq Events
      BY InRange, CorrelationAssumption
    <3> QED
      BY <3>1 DEF Init, UnmarkedInv
  <2>2. OverInv /\ MarkInv /\ TriggersApart
    BY DEF Init, OverInv, MarkInv, TriggersApart
  <2> QED
    BY <2>1, <2>2 DEF MarksInv
<1>2. IndInv /\ IndInv' /\ MarksInv /\ [Next]_vars => MarksInv'
  <2>1. ASSUME IndInv, IndInv', MarksInv, NEW s \in Shards, Step(s)
        PROVE  MarksInv'
    <3>1. UnmarkedInv'
      BY <2>1, UnmarkedStep DEF MarksInv
    <3>2. MarkInv'
      BY <2>1, MarkStep DEF MarksInv
    <3>3. TriggersApart'
      BY <2>1, TriggersStep DEF MarksInv
    <3>4. OverInv'
      BY <2>1, OverStep DEF MarksInv
    <3> QED
      BY <3>1, <3>2, <3>3, <3>4 DEF MarksInv
  <2>2. ASSUME MarksInv, UNCHANGED vars
        PROVE  MarksInv'
    <3> USE <2>2 DEF MarksInv, vars, thread, shared
    <3>1. UnmarkedInv'
      BY DEF UnmarkedInv
    <3>2. MarkInv'
      BY DEF MarkInv, Waiting, Behind, ListOf, Covers
    <3>3. TriggersApart'
      BY DEF TriggersApart, MarkGone, CountedBefore, Overwritten, ListOf, Current
    <3>4. OverInv'
      BY DEF OverInv, Covers, Current
    <3> QED
      BY <3>1, <3>2, <3>3, <3>4
  <2> QED
    BY <2>1, <2>2 DEF Next, Step
<1> QED
  BY <1>1, <1>2, Invariance, PTL DEF Spec

(* For any levels: an event is counted again for a rule of the same or of  *)
(* a lower level on the same list only after the event that carried the    *)
(* mark has been evicted, unless a rule of a lower level than the one that *)
(* counts searches under the other lock.                                   *)
THEOREM EventsCountedOnce == Spec => []TriggersApart
<1>1. MarksInv => TriggersApart
  BY DEF MarksInv
<1> QED
  BY <1>1, MarksInvariance, PTL

(* With composite rules by sid and by group only, as in the rules that     *)
(* come with the program, the promise of eventinfo.c holds as it stands.   *)
THEOREM TriggersAvoidedOnSharedLists ==
  ASSUME \A r \in Composite : Kind[r] # "event"
  PROVE  Spec => []TriggersAvoided
<1>1. IndInv /\ MarksInv => TriggersAvoided
  <2> SUFFICES ASSUME IndInv, TriggersApart, NEW s \in Shards, pc[s] = "mark"
               PROVE  MarkGone(s)
    BY DEF MarksInv, TriggersAvoided
  <2>1. Current(s) \in Composite
    BY CurrentRule DEF IndInv
  <2>2. ~Overwritten(Current(s))
    BY <2>1 DEF Overwritten, OtherLock
  <2> QED
    BY <2>2 DEF TriggersApart
<1> QED
  BY <1>1, Invariance, MarksInvariance, PTL
=============================================================================
