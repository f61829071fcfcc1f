--------------------------- MODULE OsQueueProofs ---------------------------
(***************************************************************************)
(* Proofs about the message queue (OsQueue) for every number of threads,   *)
(* every set of items and every ring size.                                 *)
(***************************************************************************)
EXTENDS OsQueue, FiniteSetTheorems, SequenceTheorems, TLAPS

-----------------------------------------------------------------------------
(* Arithmetic of the ring: an index moves to the next slot, or wraps.      *)

LEMMA SizeIsNat == Size \in Nat /\ Size >= 2
  BY QueueAssumption

LEMMA Wrap ==
  ASSUME NEW i \in Slots
  PROVE  /\ i + 1 < Size => (i + 1) % Size = i + 1
         /\ i + 1 = Size => (i + 1) % Size = 0
         /\ (i + 1) % Size \in Slots
  BY SizeIsNat DEF Slots

LEMMA Distance ==
  ASSUME NEW b \in Slots, NEW e \in Slots
  PROVE  /\ e <= b => (b + Size - e) % Size = b - e
         /\ b < e => (b + Size - e) % Size = b + Size - e
  BY SizeIsNat DEF Slots

-----------------------------------------------------------------------------
(* The case split every proof below shares: what one step does to one      *)
(* thread, whichever entry point it came through.                          *)

Enqueue(p, x) == /\ ~shutdown
                 /\ os_queue_push(x)
                 /\ Signal(p, Consumers)
                 /\ UNCHANGED <<shutdown, call>>
PushSleeps(p, x, m) == /\ ~shutdown /\ full
                       /\ Sleep(p, [item |-> x, mode |-> m])
                       /\ UNCHANGED <<ring, shutdown, fate>>
PushFails(p, x) == /\ shutdown \/ full \/ st[p] = "asleep"
                   /\ Refuse(p, x)
Dequeue(c) == /\ os_queue_pop
              /\ Signal(c, Producers)
              /\ UNCHANGED <<shutdown, call>>
PopSleeps(c, m) == /\ empty /\ ~shutdown
                   /\ Sleep(c, [item |-> Nil, mode |-> m])
                   /\ UNCHANGED <<ring, shutdown, fate>>
PopFails(c) == /\ (empty /\ shutdown) \/ st[c] = "asleep"
               /\ Return(c)
               /\ UNCHANGED <<ring, shutdown, call, fate>>

(* Thread p may push x: it starts a call with it, or is blocked with it.   *)
Offers(p, x) == \/ x \in Items /\ st[p] = "idle" /\ Offerable(x)
                \/ st[p] # "idle" /\ x = call[p].item

LEMMA StepCases ==
  ASSUME TypeOK, Next
  PROVE  \/ \E p \in Producers, x \in Items \cup {Nil} :
              Offers(p, x) /\ (Enqueue(p, x) \/ PushFails(p, x))
         \/ \E p \in Producers, x \in Items \cup {Nil}, m \in Modes :
              Offers(p, x) /\ PushSleeps(p, x, m)
         \/ \E c \in Consumers : Dequeue(c) \/ PopFails(c)
         \/ \E c \in Consumers, m \in Modes : PopSleeps(c, m)
         \/ os_queue_shutdown
         \/ os_queue_free_data
<1> DEFINE Blocked(t) == call[t].item \in Items \cup {Nil} /\ call[t].mode \in Modes
<1>1. \A t \in Threads : Blocked(t)
  BY DEF TypeOK
<1>2. ASSUME NEW p \in Producers, NEW x \in Items \cup {Nil}, NEW m \in Modes,
             PushAttempt(p, x, m)
      PROVE  Enqueue(p, x) \/ PushFails(p, x) \/ PushSleeps(p, x, m)
  BY <1>2 DEF PushAttempt, Enqueue, PushFails, PushSleeps
<1>3. ASSUME NEW c \in Consumers, NEW m \in Modes, PopAttempt(c, m)
      PROVE  Dequeue(c) \/ PopFails(c) \/ PopSleeps(c, m)
  BY <1>3 DEF PopAttempt, Dequeue, PopFails, PopSleeps
<1>4. CASE \E p \in Producers :
             Push(p) \/ ProducerResumes(p) \/ ProducerSpurious(p) \/ ProducerTimeout(p)
  <2>1. PICK p \in Producers :
          Push(p) \/ ProducerResumes(p) \/ ProducerSpurious(p) \/ ProducerTimeout(p)
    BY <1>4
  <2>2. Blocked(p)
    BY <1>1 DEF Threads
  <2>3. CASE ProducerTimeout(p)
    BY <2>2, <2>3 DEF ProducerTimeout, PushFails, Offers
  <2>4. CASE ~ProducerTimeout(p)
    <3>1. \E x \in Items \cup {Nil}, m \in Modes :
            Offers(p, x) /\ PushAttempt(p, x, m)
      BY <2>1, <2>2, <2>4 DEF Push, ProducerResumes, ProducerSpurious, Modes, Offers,
         os_queue_push_ex, os_queue_push_ex_block, os_queue_push_ex_timedwait
    <3> QED  BY <3>1, <1>2
  <2> QED  BY <2>3, <2>4
<1>5. CASE \E c \in Consumers :
             \/ os_queue_pop_ex(c) \/ os_queue_pop_ex_timedwait(c)
             \/ ConsumerResumes(c) \/ ConsumerSpurious(c) \/ ConsumerTimeout(c)
  <2>1. PICK c \in Consumers :
             \/ os_queue_pop_ex(c) \/ os_queue_pop_ex_timedwait(c)
             \/ ConsumerResumes(c) \/ ConsumerSpurious(c) \/ ConsumerTimeout(c)
    BY <1>5
  <2>2. Blocked(c)
    BY <1>1 DEF Threads
  <2>3. CASE ConsumerTimeout(c)
    BY <2>3 DEF ConsumerTimeout, PopFails
  <2>4. CASE ~ConsumerTimeout(c)
    <3>1. \E m \in Modes : PopAttempt(c, m)
      BY <2>1, <2>2, <2>4 DEF ConsumerResumes, ConsumerSpurious, Modes,
         os_queue_pop_ex, os_queue_pop_ex_timedwait
    <3> QED  BY <3>1, <1>3
  <2> QED  BY <2>3, <2>4
<1> QED
  BY <1>4, <1>5 DEF Next

-----------------------------------------------------------------------------
(* The ring: types, and the count as the distance between the indices.     *)

RingShape == /\ end <= begin => elements = begin - end
             /\ begin < end => elements = begin + Size - end
RingInv == TypeOK /\ RingShape

LEMMA SignalType ==
  ASSUME TypeOK, NEW t \in Threads, NEW T \in SUBSET Threads, Signal(t, T)
  PROVE  st' \in [Threads -> {"idle", "asleep", "signalled"}]
  BY DEF TypeOK, Signal, Asleep

LEMMA PushRing ==
  ASSUME RingInv, NEW x \in Items \cup {Nil}, os_queue_push(x)
  PROVE  /\ data' \in [Slots -> Items \cup {Nil}]
         /\ begin' \in Slots /\ end' \in Slots /\ elements' \in 0 .. (Size - 1)
         /\ fate' \in [Items -> Fifo!Fates]
         /\ RingShape'
         /\ elements' = elements + 1 /\ elements < Size - 1
<1>1. begin \in Slots /\ end \in Slots /\ elements \in 0 .. (Size - 1)
  BY DEF RingInv, TypeOK
<1>2. elements < Size - 1
  <2>1. CASE begin + 1 < Size
    BY <1>1, <2>1, Wrap, SizeIsNat DEF RingInv, RingShape, os_queue_push, full, Slots
  <2>2. CASE begin + 1 = Size
    BY <1>1, <2>2, Wrap, SizeIsNat DEF RingInv, RingShape, os_queue_push, full, Slots
  <2> QED  BY <1>1, <2>1, <2>2, SizeIsNat DEF Slots
<1>3. RingShape'
  <2>1. CASE begin + 1 < Size
    <3>1. /\ begin' = begin + 1 /\ end' = end /\ end # begin + 1
          /\ elements' = elements + 1
      BY <1>1, <2>1, Wrap DEF os_queue_push, full
    <3>2. begin \in Int /\ end \in Int /\ elements \in Int
      BY <1>1, SizeIsNat DEF Slots
    <3> QED  BY <3>1, <3>2, SizeIsNat DEF RingInv, RingShape
  <2>2. CASE begin + 1 = Size
    <3>1. begin' = 0 /\ end' = end /\ end # 0 /\ elements' = elements + 1
      BY <1>1, <2>2, Wrap DEF os_queue_push, full
    <3>2. elements = begin - end
      BY <1>1, <2>2, SizeIsNat DEF RingInv, RingShape, Slots
    <3> QED  BY <1>1, <2>2, <3>1, <3>2, SizeIsNat DEF RingShape, Slots
  <2> QED  BY <1>1, <2>1, <2>2, SizeIsNat DEF Slots
<1>4. begin' \in Slots /\ end' \in Slots /\ elements' \in 0 .. (Size - 1)
  BY <1>1, <1>2, Wrap, SizeIsNat DEF os_queue_push
<1>5. data' \in [Slots -> Items \cup {Nil}] /\ fate' \in [Items -> Fifo!Fates]
  BY <1>1 DEF RingInv, TypeOK, os_queue_push, Fifo!Fates
<1> QED  BY <1>2, <1>3, <1>4, <1>5 DEF os_queue_push

LEMMA PopRing ==
  ASSUME RingInv, os_queue_pop
  PROVE  /\ data' \in [Slots -> Items \cup {Nil}]
         /\ begin' \in Slots /\ end' \in Slots /\ elements' \in 0 .. (Size - 1)
         /\ fate' \in [Items -> Fifo!Fates]
         /\ RingShape'
         /\ elements' = elements - 1 /\ elements > 0
<1>1. begin \in Slots /\ end \in Slots /\ elements \in 0 .. (Size - 1)
  BY DEF RingInv, TypeOK
<1>2. elements > 0
  BY <1>1, SizeIsNat DEF RingInv, RingShape, os_queue_pop, empty, Slots
<1>3. RingShape'
  <2>1. CASE end + 1 < Size
    BY <1>1, <2>1, Wrap, SizeIsNat DEF RingInv, RingShape, os_queue_pop, empty, Slots
  <2>2. CASE end + 1 = Size
    BY <1>1, <2>2, Wrap, SizeIsNat DEF RingInv, RingShape, os_queue_pop, empty, Slots
  <2> QED  BY <1>1, <2>1, <2>2, SizeIsNat DEF Slots
<1>4. begin' \in Slots /\ end' \in Slots /\ elements' \in 0 .. (Size - 1)
  BY <1>1, <1>2, Wrap, SizeIsNat DEF os_queue_pop
<1>5. data' \in [Slots -> Items \cup {Nil}] /\ fate' \in [Items -> Fifo!Fates]
  BY DEF RingInv, TypeOK, os_queue_pop, Fifo!Fates
<1> QED  BY <1>2, <1>3, <1>4, <1>5 DEF os_queue_pop

LEMMA RingInvInit == Init => RingInv
<1> SUFFICES ASSUME Init PROVE RingInv
  OBVIOUS
<1>1. begin \in Slots /\ end \in Slots /\ elements \in 0 .. (Size - 1) /\ RingShape
  BY SizeIsNat DEF Init, RingShape, Slots
<1>2. data \in [Slots -> Items \cup {Nil}] /\ shutdown \in BOOLEAN
  BY DEF Init
<1>3. call \in [Threads -> [item : Items \cup {Nil}, mode : Modes]]
  BY DEF Init, Modes
<1>4. /\ st \in [Threads -> {"idle", "asleep", "signalled"}]
      /\ fate \in [Items -> Fifo!Fates]
  BY DEF Init, Fifo!Fates
<1> QED  BY <1>1, <1>2, <1>3, <1>4 DEF RingInv, TypeOK

LEMMA RingInvNext ==
  ASSUME RingInv, [Next]_vars
  PROVE  RingInv'
<1> TypeOK
  BY DEF RingInv
<1>1. ASSUME NEW p \in Producers, NEW x \in Items \cup {Nil}, Enqueue(p, x)
      PROVE  RingInv'
  <2>1. st' \in [Threads -> {"idle", "asleep", "signalled"}]
    BY <1>1, SignalType DEF Enqueue, Threads
  <2> QED  BY <1>1, <2>1, PushRing DEF RingInv, TypeOK, Enqueue
<1>2. ASSUME NEW p \in Producers, NEW x \in Items \cup {Nil}, PushFails(p, x)
      PROVE  RingInv'
  BY <1>2 DEF RingInv, TypeOK, RingShape, PushFails, Refuse, Return, ring, Fifo!Fates
<1>3. ASSUME NEW p \in Producers, NEW x \in Items \cup {Nil}, NEW m \in Modes,
             PushSleeps(p, x, m)
      PROVE  RingInv'
  BY <1>3 DEF RingInv, TypeOK, RingShape, PushSleeps, Sleep, ring
<1>4. ASSUME NEW c \in Consumers, Dequeue(c)
      PROVE  RingInv'
  <2>1. st' \in [Threads -> {"idle", "asleep", "signalled"}]
    BY <1>4, SignalType DEF Dequeue, Threads
  <2> QED  BY <1>4, <2>1, PopRing DEF RingInv, TypeOK, Dequeue
<1>5. ASSUME NEW c \in Consumers, PopFails(c)
      PROVE  RingInv'
  BY <1>5 DEF RingInv, TypeOK, RingShape, PopFails, Return, ring
<1>6. ASSUME NEW c \in Consumers, NEW m \in Modes, PopSleeps(c, m)
      PROVE  RingInv'
  BY <1>6 DEF RingInv, TypeOK, RingShape, PopSleeps, Sleep, ring
<1>7. CASE os_queue_shutdown
  BY <1>7 DEF RingInv, TypeOK, RingShape, os_queue_shutdown, ring
<1>8. CASE os_queue_free_data
  BY <1>8, SizeIsNat DEF RingInv, TypeOK, RingShape, os_queue_free_data, Slots, Fifo!Fates
<1>9. CASE UNCHANGED vars
  BY <1>9 DEF RingInv, TypeOK, RingShape, vars
<1> QED
  BY <1>1, <1>2, <1>3, <1>4, <1>5, <1>6, <1>7, <1>8, <1>9, StepCases

(* The types of the queue's state hold in every reachable state: in        *)
(* particular both indices of the ring stay inside the array.              *)
THEOREM TypeCorrect == Spec => []TypeOK
<1>1. Spec => []RingInv
  BY RingInvInit, RingInvNext, PTL DEF Spec
<1>2. RingInv => TypeOK
  BY DEF RingInv
<1> QED  BY <1>1, <1>2, PTL

(* The count read by the metrics and by the FTS writer is the number of    *)
(* items between the two indices, whatever was pushed, popped and freed.   *)
THEOREM CountMatchesRing == Spec => []ElementsMatchRing
<1>1. Spec => []RingInv
  BY RingInvInit, RingInvNext, PTL DEF Spec
<1>2. RingInv => ElementsMatchRing
  <2> SUFFICES ASSUME RingInv PROVE ElementsMatchRing
    OBVIOUS
  <2>1. begin \in Slots /\ end \in Slots
    BY DEF RingInv, TypeOK
  <2>2. begin \in Int /\ end \in Int
    BY <2>1, SizeIsNat DEF Slots
  <2>3. CASE end <= begin
    BY <2>1, <2>3, Distance DEF RingInv, RingShape, ElementsMatchRing
  <2>4. CASE begin < end
    BY <2>1, <2>4, Distance DEF RingInv, RingShape, ElementsMatchRing
  <2> QED  BY <2>2, <2>3, <2>4
<1> QED  BY <1>1, <1>2, PTL

-----------------------------------------------------------------------------
(* Wakeups.  The three invariants are inductive together: a sleeper exists *)
(* only before the shutdown, and the woken threads of its group cover what *)
(* it is waiting for.                                                      *)

WakeInv == /\ RingInv
           /\ NoSleepAfterShutdown
           /\ ConsumersNotMissed
           /\ ProducersNotMissed

LEMMA GroupsFinite ==
  /\ IsFiniteSet(Producers) /\ Producers \subseteq Threads
  /\ IsFiniteSet(Consumers) /\ Consumers \subseteq Threads
  /\ Producers \cap Consumers = {}
  BY QueueAssumption DEF Threads

LEMMA SignalledFinite ==
  ASSUME NEW T, IsFiniteSet(T)
  PROVE  /\ IsFiniteSet(Signalled(T)) /\ Cardinality(Signalled(T)) \in Nat
         /\ IsFiniteSet(Signalled(T)') /\ Cardinality(Signalled(T)') \in Nat
<1>1. Signalled(T) \subseteq T /\ Signalled(T)' \subseteq T
  BY DEF Signalled
<1> QED  BY <1>1, FS_Subset, FS_CardinalityType

(* A thread that returns leaves at most one woken thread fewer in its own  *)
(* group, and nobody of that group falls asleep.                           *)
LEMMA Departs ==
  ASSUME TypeOK, NEW T \in SUBSET Threads, IsFiniteSet(T),
         NEW U \in SUBSET Threads, T \cap U = {}, NEW t \in T, Signal(t, U)
  PROVE  /\ Asleep(T)' \subseteq Asleep(T)
         /\ Cardinality(Signalled(T)') >= Cardinality(Signalled(T)) - 1
         /\ Cardinality(Signalled(T)') \in Nat
         /\ Cardinality(Signalled(T)) \in Nat
<1>1. \A v \in T \ {t} : st'[v] = st[v]
  BY DEF TypeOK, Signal, Asleep
<1>2. st'[t] = "idle"
  BY DEF TypeOK, Signal, Asleep
<1>3. Asleep(T)' \subseteq Asleep(T)
  BY <1>1, <1>2 DEF Asleep
<1>4. Signalled(T)' = Signalled(T) \ {t}
  BY <1>1, <1>2 DEF Signalled
<1>5. /\ IsFiniteSet(Signalled(T)) /\ Cardinality(Signalled(T)) \in Nat
      /\ Cardinality(Signalled(T)') \in Nat
  BY SignalledFinite
<1>6. Cardinality(Signalled(T) \ {t}) >= Cardinality(Signalled(T)) - 1
  <2>1. CASE t \in Signalled(T)
    <3>1. Cardinality(Signalled(T) \ {t}) = Cardinality(Signalled(T)) - 1
      BY <1>5, <2>1, FS_RemoveElement
    <3> QED  BY <3>1, <1>5
  <2>2. CASE t \notin Signalled(T)
    <3>1. Signalled(T) \ {t} = Signalled(T)
      BY <2>2
    <3> QED  BY <3>1, <1>5
  <2> QED  BY <2>1, <2>2
<1> QED  BY <1>3, <1>4, <1>5, <1>6

(* A signal to a group in which somebody still sleeps afterwards woke one  *)
(* thread of that group.                                                   *)
LEMMA Arrives ==
  ASSUME TypeOK, NEW T \in SUBSET Threads, IsFiniteSet(T),
         NEW t \in Threads \ T, Signal(t, T), Asleep(T)' # {}
  PROVE  /\ Asleep(T) # {}
         /\ Cardinality(Signalled(T)') = Cardinality(Signalled(T)) + 1
         /\ Cardinality(Signalled(T)) \in Nat
<1>1. Asleep(T) # {}
  BY DEF TypeOK, Signal, Asleep
<1>2. PICK w \in Asleep(T) : st' = [st EXCEPT ![t] = "idle", ![w] = "signalled"]
  BY <1>1 DEF Signal
<1>3. w \in T /\ st[w] = "asleep" /\ w # t
  BY <1>2 DEF Asleep
<1>4. Signalled(T)' = Signalled(T) \cup {w} /\ w \notin Signalled(T)
  BY <1>2, <1>3 DEF TypeOK, Signalled
<1>5. IsFiniteSet(Signalled(T)) /\ Cardinality(Signalled(T)) \in Nat
  BY SignalledFinite
<1> QED  BY <1>1, <1>4, <1>5, FS_AddElement

(* One thread of another group changes: this group keeps its sleepers and  *)
(* its woken threads.                                                      *)
LEMMA Bystanders ==
  ASSUME TypeOK, NEW T \in SUBSET Threads, NEW t \in Threads \ T, NEW s,
         st' = [st EXCEPT ![t] = s]
  PROVE  Asleep(T)' = Asleep(T) /\ Signalled(T)' = Signalled(T)
<1>1. \A v \in T : st'[v] = st[v]
  BY DEF TypeOK
<1> QED  BY <1>1 DEF Asleep, Signalled

LEMMA FullMeansNoRoom ==
  ASSUME RingInv
  PROVE  /\ full => elements = Size - 1
         /\ empty => elements = 0
         /\ elements \in Nat /\ Size - 1 - elements \in Nat
<1>1. begin \in Slots /\ end \in Slots /\ elements \in 0 .. (Size - 1)
  BY DEF RingInv, TypeOK
<1>2. full => elements = Size - 1
  <2>1. CASE begin + 1 < Size
    <3>1. full => end = begin + 1
      BY <1>1, <2>1, Wrap DEF full
    <3>2. begin \in Int /\ end \in Int /\ elements \in Int
      BY <1>1, SizeIsNat DEF Slots
    <3> QED  BY <3>1, <3>2, SizeIsNat DEF RingInv, RingShape
  <2>2. CASE begin + 1 = Size
    <3>1. full => end = 0
      BY <1>1, <2>2, Wrap DEF full
    <3>2. begin \in Int /\ end \in Int /\ elements \in Int
      BY <1>1, SizeIsNat DEF Slots
    <3> QED  BY <1>1, <2>2, <3>1, <3>2, SizeIsNat DEF RingInv, RingShape, Slots
  <2> QED  BY <1>1, <2>1, <2>2, SizeIsNat DEF Slots
<1>3. empty => elements = 0
  <2>1. begin \in Int /\ end \in Int
    BY <1>1, SizeIsNat DEF Slots
  <2> QED  BY <2>1 DEF RingInv, RingShape, empty
<1> QED  BY <1>1, <1>2, <1>3, SizeIsNat

LEMMA WakeInvInit == Init => WakeInv
<1> SUFFICES ASSUME Init PROVE WakeInv
  OBVIOUS
<1>1. RingInv
  BY RingInvInit
<1>2. Asleep(Producers) = {} /\ Asleep(Consumers) = {}
  BY GroupsFinite DEF Init, Asleep
<1>3. NoSleepAfterShutdown
  BY DEF Init, NoSleepAfterShutdown
<1> QED  BY <1>1, <1>2, <1>3 DEF WakeInv, ConsumersNotMissed, ProducersNotMissed

LEMMA WakeInvNext ==
  ASSUME WakeInv, [Next]_vars
  PROVE  WakeInv'
<1> USE GroupsFinite
<1> RingInv /\ TypeOK
  BY DEF WakeInv, RingInv
<1>0. RingInv'
  BY RingInvNext
<1> DEFINE SC == Cardinality(Signalled(Consumers))
           SP == Cardinality(Signalled(Producers))
<1>a. SC \in Nat /\ SC' \in Nat /\ SP \in Nat /\ SP' \in Nat
  BY SignalledFinite
<1>b. elements \in Nat /\ Size - 1 - elements \in Nat /\ Size - 1 \in Nat
  BY FullMeansNoRoom, SizeIsNat
<1> DEFINE Goal == /\ NoSleepAfterShutdown'
                   /\ ConsumersNotMissed'
                   /\ ProducersNotMissed'
<1>1. ASSUME NEW p \in Producers, NEW x \in Items \cup {Nil}, Enqueue(p, x)
      PROVE  Goal
  <2>1. elements' = elements + 1 /\ shutdown' = FALSE /\ p \in Threads
    BY <1>1, PushRing DEF Enqueue, WakeInv, RingInv, TypeOK
  <2>2. Asleep(Producers)' \subseteq Asleep(Producers) /\ SP' >= SP - 1
    BY <1>1, Departs DEF Enqueue
  <2>3. Asleep(Consumers)' # {} => Asleep(Consumers) # {} /\ SC' = SC + 1
    BY <1>1, <2>1, Arrives DEF Enqueue
  <2>4. ConsumersNotMissed'
    BY <2>1, <2>3, <1>a, <1>b DEF WakeInv, ConsumersNotMissed
  <2>5. ProducersNotMissed'
    BY <2>1, <2>2, <1>a, <1>b, SizeIsNat DEF WakeInv, ProducersNotMissed
  <2> QED  BY <2>1, <2>4, <2>5 DEF NoSleepAfterShutdown
<1>2. ASSUME NEW p \in Producers, NEW x \in Items \cup {Nil}, PushFails(p, x)
      PROVE  Goal
  <2>1. /\ st' = [st EXCEPT ![p] = "idle"]
        /\ elements' = elements /\ shutdown' = shutdown
    BY <1>2 DEF PushFails, Refuse, Return, ring
  <2>2. Asleep(Consumers)' = Asleep(Consumers) /\ SC' = SC
    BY <2>1, Bystanders
  <2>3. Asleep(Producers)' \subseteq Asleep(Producers)
    BY <2>1 DEF TypeOK, Asleep
  <2>4. shutdown => Asleep(Threads)' = {}
    BY <2>1 DEF WakeInv, NoSleepAfterShutdown, TypeOK, Asleep
  <2>5. Asleep(Producers)' # {} => SP' >= (Size - 1) - elements
    <3>1. CASE shutdown
      BY <2>4, <3>1 DEF Asleep, Threads
    <3>2. CASE full
      BY <3>2, FullMeansNoRoom, <1>a, SizeIsNat
    <3>3. CASE st[p] = "asleep"
      <4>1. Signalled(Producers)' = Signalled(Producers)
        BY <2>1, <3>3 DEF TypeOK, Signalled
      <4> QED  BY <4>1, <2>3 DEF WakeInv, ProducersNotMissed
    <3> QED  BY <1>2, <3>1, <3>2, <3>3 DEF PushFails
  <2> QED  BY <2>1, <2>2, <2>4, <2>5
           DEF WakeInv, ConsumersNotMissed, ProducersNotMissed, NoSleepAfterShutdown
<1>3. ASSUME NEW p \in Producers, NEW x \in Items \cup {Nil}, NEW m \in Modes,
             PushSleeps(p, x, m)
      PROVE  Goal
  <2>1. /\ st' = [st EXCEPT ![p] = "asleep"] /\ full
        /\ elements' = elements /\ shutdown' = FALSE
    BY <1>3 DEF PushSleeps, Sleep, ring, WakeInv, RingInv, TypeOK
  <2>2. Asleep(Consumers)' = Asleep(Consumers) /\ SC' = SC
    BY <2>1, Bystanders
  <2>3. SP' >= (Size - 1) - elements'
    BY <2>1, FullMeansNoRoom, <1>a, SizeIsNat
  <2> QED  BY <2>1, <2>2, <2>3
           DEF WakeInv, ConsumersNotMissed, ProducersNotMissed, NoSleepAfterShutdown
<1>4. ASSUME NEW c \in Consumers, Dequeue(c)
      PROVE  Goal
  <2>1. elements' = elements - 1 /\ elements > 0 /\ shutdown' = shutdown
        /\ c \in Threads \ Producers
    BY <1>4, PopRing DEF Dequeue
  <2>2. Asleep(Consumers)' \subseteq Asleep(Consumers) /\ SC' >= SC - 1
    BY <1>4, Departs DEF Dequeue
  <2>3. Asleep(Producers)' # {} => Asleep(Producers) # {} /\ SP' = SP + 1
    BY <1>4, <2>1, Arrives DEF Dequeue
  <2>4. ConsumersNotMissed'
    BY <2>1, <2>2, <1>a, <1>b DEF WakeInv, ConsumersNotMissed
  <2>5. ProducersNotMissed'
    BY <2>1, <2>3, <1>a, <1>b, SizeIsNat DEF WakeInv, ProducersNotMissed
  <2>6. NoSleepAfterShutdown'
    BY <1>4, <2>1 DEF Dequeue, Signal, WakeInv, NoSleepAfterShutdown, TypeOK, Asleep, Threads
  <2> QED  BY <2>4, <2>5, <2>6
<1>5. ASSUME NEW c \in Consumers, PopFails(c)
      PROVE  Goal
  <2>1. /\ st' = [st EXCEPT ![c] = "idle"]
        /\ elements' = elements /\ shutdown' = shutdown
    BY <1>5 DEF PopFails, Return, ring
  <2>2. Asleep(Producers)' = Asleep(Producers) /\ SP' = SP
    BY <2>1, Bystanders
  <2>3. Asleep(Consumers)' \subseteq Asleep(Consumers)
    BY <2>1 DEF TypeOK, Asleep
  <2>4. shutdown => Asleep(Threads)' = {}
    BY <2>1 DEF WakeInv, NoSleepAfterShutdown, TypeOK, Asleep
  <2>5. Asleep(Consumers)' # {} => SC' >= elements
    <3>1. CASE shutdown
      BY <2>4, <3>1 DEF Asleep, Threads
    <3>2. CASE st[c] = "asleep"
      <4>1. Signalled(Consumers)' = Signalled(Consumers)
        BY <2>1, <3>2 DEF TypeOK, Signalled
      <4> QED  BY <4>1, <2>3 DEF WakeInv, ConsumersNotMissed
    <3> QED  BY <1>5, <3>1, <3>2 DEF PopFails
  <2> QED  BY <2>1, <2>2, <2>4, <2>5
           DEF WakeInv, ConsumersNotMissed, ProducersNotMissed, NoSleepAfterShutdown
<1>6. ASSUME NEW c \in Consumers, NEW m \in Modes, PopSleeps(c, m)
      PROVE  Goal
  <2>1. /\ st' = [st EXCEPT ![c] = "asleep"] /\ empty
        /\ elements' = elements /\ shutdown' = FALSE
    BY <1>6 DEF PopSleeps, Sleep, ring, WakeInv, RingInv, TypeOK
  <2>2. Asleep(Producers)' = Asleep(Producers) /\ SP' = SP
    BY <2>1, Bystanders
  <2>3. SC' >= elements'
    BY <2>1, FullMeansNoRoom, <1>a
  <2> QED  BY <2>1, <2>2, <2>3
           DEF WakeInv, ConsumersNotMissed, ProducersNotMissed, NoSleepAfterShutdown
<1>7. ASSUME os_queue_shutdown PROVE Goal
  <2>1. Asleep(Threads)' = {}
    BY <1>7 DEF os_queue_shutdown, Asleep
  <2> QED  BY <2>1 DEF Asleep, Threads, ConsumersNotMissed, ProducersNotMissed,
                       NoSleepAfterShutdown
<1>8. ASSUME os_queue_free_data PROVE Goal
  <2>1. Asleep(Threads)' = {}
    BY <1>8 DEF os_queue_free_data, Asleep, WakeInv, NoSleepAfterShutdown
  <2> QED  BY <2>1 DEF Asleep, Threads, ConsumersNotMissed, ProducersNotMissed,
                       NoSleepAfterShutdown
<1>9. ASSUME UNCHANGED vars PROVE Goal
  BY <1>9 DEF WakeInv, vars, NoSleepAfterShutdown, ConsumersNotMissed,
              ProducersNotMissed, Asleep, Signalled
<1>10. Goal
  BY <1>1, <1>2, <1>3, <1>4, <1>5, <1>6, <1>7, <1>8, <1>9, StepCases
<1> QED  BY <1>0, <1>10 DEF WakeInv

LEMMA WakeInvAlways == Spec => []WakeInv
  BY WakeInvInit, WakeInvNext, PTL DEF Spec

(* No thread of any number sleeps on a queue that was shut down: both      *)
(* broadcasts of os_queue_shutdown reach everybody and the loops of the    *)
(* three blocking calls test the flag before they wait again.              *)
THEOREM NobodySleepsAfterShutdown == Spec => []NoSleepAfterShutdown
  BY WakeInvAlways, PTL DEF WakeInv

(* One os_cond_signal per push is enough for any number of consumers that  *)
(* mix blocking and timed pops.                                            *)
THEOREM NoConsumerMissesAPush == Spec => []ConsumersNotMissed
  BY WakeInvAlways, PTL DEF WakeInv

(* One os_cond_signal per pop is enough for any number of producers that   *)
(* mix blocking and timed pushes on one condition variable.                *)
THEOREM NoProducerMissesAPop == Spec => []ProducersNotMissed
  BY WakeInvAlways, PTL DEF WakeInv

-----------------------------------------------------------------------------
(* Refinement: the ring read from `end' onwards is the queue of            *)
(* BoundedFifo, and every step of a thread is one of its steps or none.    *)

Contents == Items \cup {Nil}
QueueOf(d, e, n) == [i \in 1 .. n |-> d[(e + (i - 1)) % Size]]

LEMMA RingSlot ==
  ASSUME NEW e \in Slots, NEW i \in 1 .. Size
  PROVE  /\ e + (i - 1) < Size => (e + (i - 1)) % Size = e + (i - 1)
         /\ e + (i - 1) >= Size => (e + (i - 1)) % Size = e + (i - 1) - Size
         /\ (e + (i - 1)) % Size \in Slots
<1>1. e \in Int /\ i \in Int /\ 0 <= e /\ e < Size /\ 1 <= i /\ i <= Size
  BY SizeIsNat DEF Slots
<1>2. CASE e + (i - 1) < Size
  BY <1>1, <1>2, SizeIsNat DEF Slots
<1>3. CASE e + (i - 1) >= Size
  BY <1>1, <1>3, SizeIsNat DEF Slots
<1> QED  BY <1>1, <1>2, <1>3, SizeIsNat

LEMMA QueueType ==
  ASSUME NEW d \in [Slots -> Contents], NEW e \in Slots, NEW n \in 0 .. (Size - 1)
  PROVE  /\ QueueOf(d, e, n) \in Seq(Contents) /\ Len(QueueOf(d, e, n)) = n
         /\ \A i \in 1 .. n : QueueOf(d, e, n)[i] = d[(e + (i - 1)) % Size]
<1>1. \A i \in 1 .. n : d[(e + (i - 1)) % Size] \in Contents
  BY RingSlot, SizeIsNat
<1>2. QueueOf(d, e, n) \in [1 .. n -> Contents]
  BY <1>1 DEF QueueOf
<1>3. n \in Nat
  BY SizeIsNat
<1>4. QueueOf(d, e, n) \in Seq(Contents) /\ Len(QueueOf(d, e, n)) = n
  BY <1>2, <1>3
<1> QED  BY <1>4 DEF QueueOf

(* Writing the slot after the last one appends.                            *)
LEMMA PushAppends ==
  ASSUME NEW d \in [Slots -> Contents], NEW e \in Slots,
         NEW n \in 0 .. (Size - 1), n + 1 <= Size - 1, NEW x \in Contents
  PROVE  QueueOf([d EXCEPT ![(e + n) % Size] = x], e, n + 1)
           = Append(QueueOf(d, e, n), x)
<1> DEFINE b == (e + n) % Size
           d2 == [d EXCEPT ![b] = x]
           old == QueueOf(d, e, n)
           new == QueueOf(d2, e, n + 1)
<1>0. n \in Nat /\ n + 1 \in 0 .. (Size - 1) /\ n + 1 \in 1 .. Size
  BY SizeIsNat
<1>1. b \in Slots /\ b = (e + ((n + 1) - 1)) % Size
  BY <1>0, RingSlot
<1>2. d2 \in [Slots -> Contents]
  BY <1>1
<1>3. /\ new \in Seq(Contents) /\ Len(new) = n + 1
      /\ \A i \in 1 .. n + 1 : new[i] = d2[(e + (i - 1)) % Size]
  <2> HIDE DEF d2
  <2> QED  BY <1>0, <1>2, QueueType
<1>4. /\ old \in Seq(Contents) /\ Len(old) = n
      /\ \A i \in 1 .. n : old[i] = d[(e + (i - 1)) % Size]
  BY QueueType
<1>5. \A i \in 1 .. n : (e + (i - 1)) % Size # b /\ (e + (i - 1)) % Size \in Slots
  <2> SUFFICES ASSUME NEW i \in 1 .. n
               PROVE  (e + (i - 1)) % Size # b /\ (e + (i - 1)) % Size \in Slots
    OBVIOUS
  <2>1. i \in 1 .. Size /\ i \in Int /\ 1 <= i /\ i <= n
    BY <1>0, SizeIsNat
  <2>2. e \in Int /\ 0 <= e /\ e < Size
    BY SizeIsNat DEF Slots
  <2>3. (e + (i - 1)) % Size = IF e + (i - 1) < Size THEN e + (i - 1) ELSE e + (i - 1) - Size
    BY <2>1, <2>2, RingSlot, SizeIsNat
  <2>4. b = IF e + n < Size THEN e + n ELSE e + n - Size
    <3>1. (e + ((n + 1) - 1)) % Size
            = IF e + ((n + 1) - 1) < Size THEN e + ((n + 1) - 1) ELSE e + ((n + 1) - 1) - Size
      BY <1>0, <2>2, RingSlot, SizeIsNat
    <3> QED  BY <3>1, <1>0, <1>1, <2>2, SizeIsNat
  <2>5. (e + (i - 1)) % Size # b
    <3> HIDE DEF b
    <3> QED  BY <1>0, <2>1, <2>2, <2>3, <2>4, SizeIsNat
  <2> QED  BY <2>1, <2>5, RingSlot
<1>6. \A i \in 1 .. n : new[i] = old[i]
  <2> HIDE DEF b, new, old
  <2> QED  BY <1>0, <1>1, <1>3, <1>4, <1>5, SizeIsNat
<1>7. new[n + 1] = x
  <2>1. new[n + 1] = d2[(e + ((n + 1) - 1)) % Size]
    <3> HIDE DEF new, d2
    <3>1. n + 1 \in 1 .. n + 1
      BY <1>0
    <3> QED  BY <1>3, <3>1
  <2> QED  BY <2>1, <1>1
<1> HIDE DEF new, old
<1>8. /\ Append(old, x) \in Seq(Contents) /\ Len(Append(old, x)) = n + 1
      /\ \A i \in 1 .. n : Append(old, x)[i] = old[i]
      /\ Append(old, x)[n + 1] = x
  BY <1>4, AppendProperties
<1>9. \A i \in 1 .. n + 1 : new[i] = Append(old, x)[i]
  BY <1>0, <1>6, <1>7, <1>8
<1>10. new = Append(old, x)
  BY <1>3, <1>8, <1>9, SeqEqual
<1> QED  BY <1>10 DEF new, old

(* Moving the read index to the next slot removes the oldest item.         *)
LEMMA PopTakesHead ==
  ASSUME NEW d \in [Slots -> Contents], NEW e \in Slots,
         NEW n \in 1 .. (Size - 1)
  PROVE  /\ QueueOf(d, e, n) # <<>>
         /\ Head(QueueOf(d, e, n)) = d[e]
         /\ QueueOf(d, (e + 1) % Size, n - 1) = Tail(QueueOf(d, e, n))
<1> DEFINE old == QueueOf(d, e, n)
           new == QueueOf(d, (e + 1) % Size, n - 1)
<1>0. n \in 0 .. (Size - 1) /\ n - 1 \in 0 .. (Size - 1) /\ n \in Nat /\ n > 0
      /\ e \in Int /\ 0 <= e /\ e < Size /\ (e + 1) % Size \in Slots
  BY Wrap, SizeIsNat DEF Slots
<1>1. /\ old \in Seq(Contents) /\ Len(old) = n
      /\ \A i \in 1 .. n : old[i] = d[(e + (i - 1)) % Size]
  BY <1>0, QueueType
<1>2. /\ new \in Seq(Contents) /\ Len(new) = n - 1
      /\ \A i \in 1 .. n - 1 : new[i] = d[(((e + 1) % Size) + (i - 1)) % Size]
  BY <1>0, QueueType
<1> HIDE DEF new, old
<1>3. old # <<>> /\ Tail(old) \in Seq(Contents) /\ Len(Tail(old)) = n - 1
      /\ \A i \in 1 .. n - 1 : Tail(old)[i] = old[i + 1]
  BY <1>0, <1>1, HeadTailProperties, EmptySeq
<1>4. Head(old) = d[e]
  <2>1. Head(old) = old[1] /\ old[1] = d[(e + (1 - 1)) % Size]
    BY <1>0, <1>1, <1>3, SizeIsNat
  <2>2. (e + (1 - 1)) % Size = e
    BY <1>0, RingSlot, SizeIsNat
  <2> QED  BY <2>1, <2>2
<1>5. \A i \in 1 .. n - 1 : (((e + 1) % Size) + (i - 1)) % Size = (e + ((i + 1) - 1)) % Size
  <2> SUFFICES ASSUME NEW i \in 1 .. n - 1
               PROVE (((e + 1) % Size) + (i - 1)) % Size = (e + ((i + 1) - 1)) % Size
    OBVIOUS
  <2>1. i \in Int /\ 1 <= i /\ i + 1 <= n /\ i \in 1 .. Size /\ i + 1 \in 1 .. Size
    BY <1>0, SizeIsNat
  <2>2. (e + ((i + 1) - 1)) % Size = IF e + i < Size THEN e + i ELSE e + i - Size
    <3>1. (e + ((i + 1) - 1)) % Size
            = IF e + ((i + 1) - 1) < Size THEN e + ((i + 1) - 1) ELSE e + ((i + 1) - 1) - Size
      BY <1>0, <2>1, RingSlot, SizeIsNat
    <3> QED  BY <3>1, <1>0, <2>1, SizeIsNat
  <2>3. (e + 1) % Size = IF e + 1 < Size THEN e + 1 ELSE 0
    BY <1>0, Wrap, SizeIsNat
  <2> DEFINE f == (e + 1) % Size
  <2>4. f \in Slots /\ f \in Int
    BY <1>0, SizeIsNat DEF Slots
  <2> HIDE DEF f
  <2>5. (f + (i - 1)) % Size = IF f + (i - 1) < Size THEN f + (i - 1) ELSE f + (i - 1) - Size
    <3>1. /\ f + (i - 1) < Size => (f + (i - 1)) % Size = f + (i - 1)
          /\ f + (i - 1) >= Size => (f + (i - 1)) % Size = f + (i - 1) - Size
      BY <2>1, <2>4, RingSlot
    <3>2. f + (i - 1) < Size \/ f + (i - 1) >= Size
      BY <2>1, <2>4, SizeIsNat
    <3> QED  BY <2>1, <2>4, <3>1, <3>2, SizeIsNat
  <2>6. f = IF e + 1 < Size THEN e + 1 ELSE 0
    BY <2>3 DEF f
  <2>7. (f + (i - 1)) % Size = (e + ((i + 1) - 1)) % Size
    BY <1>0, <2>1, <2>2, <2>4, <2>5, <2>6, SizeIsNat
  <2> QED  BY <2>7 DEF f
<1>6. \A i \in 1 .. n - 1 : new[i] = Tail(old)[i]
  <2> SUFFICES ASSUME NEW i \in 1 .. n - 1 PROVE new[i] = Tail(old)[i]
    OBVIOUS
  <2>1. i + 1 \in 1 .. n
    BY <1>0
  <2>2. old[i + 1] = d[(e + ((i + 1) - 1)) % Size]
    BY <2>1, <1>1
  <2> QED  BY <2>2, <1>2, <1>3, <1>5
<1>7. new = Tail(old)
  BY <1>2, <1>3, <1>6, SeqEqual
<1> QED  BY <1>3, <1>4, <1>7 DEF new, old

-----------------------------------------------------------------------------
(* Ownership: nothing in the ring still belongs to a caller, a blocked     *)
(* pusher still owns its item, and no two are blocked with the same one.   *)

Queued == QueueOf(data, end, elements)
OwnInv ==
    /\ \A i \in 1 .. elements : Queued[i] \in Items /\ fate[Queued[i]] # "caller"
    /\ \A p \in Producers : st[p] # "idle" =>
          call[p].item \in Items /\ fate[call[p].item] = "caller"
    /\ \A p, q \in Producers :
          p # q /\ st[p] # "idle" /\ st[q] # "idle" => call[p].item # call[q].item
FifoInv == RingInv /\ OwnInv

LEMMA OffersOwned ==
  ASSUME OwnInv, NEW p \in Producers, NEW x, Offers(p, x)
  PROVE  /\ x \in Items /\ fate[x] = "caller"
         /\ \A q \in Producers : q # p /\ st[q] # "idle" => call[q].item # x
  BY DEF OwnInv, Offers, Offerable

LEMMA WriteIndex ==
  ASSUME RingInv
  PROVE  begin = (end + elements) % Size
<1>1. begin \in Slots /\ end \in Slots /\ elements \in 0 .. (Size - 1)
  BY DEF RingInv, TypeOK
<1>2. begin \in Int /\ end \in Int /\ elements \in Int /\ elements + 1 \in 1 .. Size
  BY <1>1, SizeIsNat DEF Slots
<1>3. /\ end + ((elements + 1) - 1) < Size
           => (end + ((elements + 1) - 1)) % Size = end + ((elements + 1) - 1)
      /\ end + ((elements + 1) - 1) >= Size
           => (end + ((elements + 1) - 1)) % Size = end + ((elements + 1) - 1) - Size
  BY <1>1, <1>2, RingSlot
<1>4. end + ((elements + 1) - 1) = end + elements
  BY <1>2
<1>5. begin = IF end + elements < Size THEN end + elements ELSE end + elements - Size
  BY <1>1, <1>2, SizeIsNat DEF RingInv, RingShape, Slots
<1> QED  BY <1>2, <1>3, <1>4, <1>5, SizeIsNat

LEMMA EnqueueAppends ==
  ASSUME RingInv, NEW x \in Contents, os_queue_push(x)
  PROVE  /\ Queued' = Append(Queued, x) /\ Len(Queued) < Size - 1
         /\ Queued \in Seq(Contents) /\ Len(Queued) = elements
<1>1. /\ data \in [Slots -> Contents] /\ end \in Slots /\ elements \in 0 .. (Size - 1)
  BY DEF RingInv, TypeOK, Contents
<1>2. elements' = elements + 1 /\ elements < Size - 1 /\ elements + 1 <= Size - 1
  BY <1>1, PushRing, SizeIsNat DEF Contents
<1>3. QueueOf([data EXCEPT ![(end + elements) % Size] = x], end, elements + 1)
        = Append(QueueOf(data, end, elements), x)
  BY <1>1, <1>2, PushAppends
<1>4. data' = [data EXCEPT ![(end + elements) % Size] = x] /\ end' = end
  BY WriteIndex DEF os_queue_push
<1>5. Queued' = Append(Queued, x)
  BY <1>2, <1>3, <1>4 DEF Queued
<1>6. Queued \in Seq(Contents) /\ Len(Queued) = elements
  BY <1>1, QueueType DEF Queued
<1> QED  BY <1>1, <1>2, <1>5, <1>6

LEMMA DequeueTakesHead ==
  ASSUME RingInv, os_queue_pop
  PROVE  /\ Queued # <<>> /\ Head(Queued) = data[end]
         /\ Queued' = Tail(Queued)
         /\ Queued \in Seq(Contents) /\ Len(Queued) = elements
<1>1. /\ data \in [Slots -> Contents] /\ end \in Slots /\ elements \in 0 .. (Size - 1)
  BY DEF RingInv, TypeOK, Contents
<1>2. elements' = elements - 1 /\ elements \in 1 .. (Size - 1)
  BY <1>1, PopRing, SizeIsNat
<1>3. /\ QueueOf(data, end, elements) # <<>>
      /\ Head(QueueOf(data, end, elements)) = data[end]
      /\ QueueOf(data, (end + 1) % Size, elements - 1) = Tail(QueueOf(data, end, elements))
  BY <1>1, <1>2, PopTakesHead
<1>4. data' = data /\ end' = (end + 1) % Size
  BY DEF os_queue_pop
<1>5. Queued' = Tail(Queued)
  BY <1>2, <1>3, <1>4 DEF Queued
<1>6. Queued \in Seq(Contents) /\ Len(Queued) = elements
  BY <1>1, QueueType DEF Queued
<1> QED  BY <1>3, <1>5, <1>6 DEF Queued

LEMMA FifoInvInit == Init => FifoInv
<1> SUFFICES ASSUME Init PROVE FifoInv
  OBVIOUS
<1>1. RingInv
  BY RingInvInit
<1>2. \A p \in Producers : st[p] = "idle"
  BY DEF Init, Threads
<1> QED  BY <1>1, <1>2 DEF FifoInv, OwnInv, Init

LEMMA FifoInvNext ==
  ASSUME FifoInv, [Next]_vars
  PROVE  FifoInv'
<1> USE GroupsFinite
<1> RingInv /\ TypeOK /\ OwnInv
  BY DEF FifoInv, RingInv
<1>0. RingInv'
  BY RingInvNext
<1>1. ASSUME NEW p \in Producers, NEW x \in Items \cup {Nil}, Offers(p, x), Enqueue(p, x)
      PROVE  OwnInv'
  <2>1. /\ x \in Items /\ fate[x] = "caller"
        /\ \A q \in Producers : q # p /\ st[q] # "idle" => call[q].item # x
    BY <1>1, OffersOwned
  <2>2. /\ Queued' = Append(Queued, x) /\ elements' = elements + 1 /\ elements \in Nat
        /\ Queued \in Seq(Contents) /\ Len(Queued) = elements
    BY <1>1, EnqueueAppends, PushRing DEF Enqueue, Contents, RingInv, TypeOK
  <2>3. fate' = [fate EXCEPT ![x] = "queued"] /\ call' = call
    BY <1>1 DEF Enqueue, os_queue_push
  <2>4. \A q \in Producers : st'[q] # "idle" => q # p /\ st[q] # "idle"
    BY <1>1 DEF Enqueue, Signal, Asleep, TypeOK, Threads
  <2>5. \A i \in 1 .. elements' : Queued'[i] \in Items /\ fate'[Queued'[i]] # "caller"
    <3> SUFFICES ASSUME NEW i \in 1 .. elements'
                 PROVE  Queued'[i] \in Items /\ fate'[Queued'[i]] # "caller"
      OBVIOUS
    <3>1. CASE i = elements + 1
      <4>1. Queued'[i] = x
        BY <2>1, <2>2, <3>1, AppendProperties DEF Contents
      <4> QED  BY <4>1, <2>1, <2>3 DEF TypeOK
    <3>2. CASE i # elements + 1
      <4>1. i \in 1 .. elements
        BY <2>2, <3>2
      <4>2. Queued'[i] = Queued[i]
        BY <2>1, <2>2, <4>1, AppendProperties DEF Contents
      <4> QED  BY <4>1, <4>2, <2>3 DEF TypeOK, OwnInv
    <3> QED  BY <3>1, <3>2
  <2>6. \A q \in Producers : st'[q] # "idle" =>
          call'[q].item \in Items /\ fate'[call'[q].item] = "caller"
    BY <2>1, <2>3, <2>4 DEF OwnInv, TypeOK
  <2>7. \A q, r \in Producers :
          q # r /\ st'[q] # "idle" /\ st'[r] # "idle" => call'[q].item # call'[r].item
    BY <2>3, <2>4 DEF OwnInv
  <2> QED  BY <2>5, <2>6, <2>7 DEF OwnInv
<1>2. ASSUME NEW p \in Producers, NEW x \in Items \cup {Nil}, Offers(p, x), PushFails(p, x)
      PROVE  OwnInv'
  <2>1. /\ x \in Items /\ fate[x] = "caller"
        /\ \A q \in Producers : q # p /\ st[q] # "idle" => call[q].item # x
    BY <1>2, OffersOwned
  <2>2. /\ fate' = [fate EXCEPT ![x] = "refused"] /\ call' = call
        /\ st' = [st EXCEPT ![p] = "idle"]
        /\ elements' = elements /\ Queued' = Queued
    BY <1>2 DEF PushFails, Refuse, Return, ring, Queued
  <2>3. \A q \in Producers : st'[q] # "idle" => q # p /\ st[q] # "idle"
    BY <2>2 DEF TypeOK, Threads
  <2> QED  BY <2>1, <2>2, <2>3 DEF OwnInv, TypeOK
<1>3. ASSUME NEW p \in Producers, NEW x \in Items \cup {Nil}, NEW m \in Modes,
             Offers(p, x), PushSleeps(p, x, m)
      PROVE  OwnInv'
  <2>1. /\ x \in Items /\ fate[x] = "caller"
        /\ \A q \in Producers : q # p /\ st[q] # "idle" => call[q].item # x
    BY <1>3, OffersOwned
  <2>2. /\ fate' = fate /\ call' = [call EXCEPT ![p] = [item |-> x, mode |-> m]]
        /\ st' = [st EXCEPT ![p] = "asleep"]
        /\ elements' = elements /\ Queued' = Queued
    BY <1>3 DEF PushSleeps, Sleep, ring, Queued
  <2>3. /\ \A q \in Producers \ {p} : st'[q] = st[q] /\ call'[q].item = call[q].item
        /\ call'[p].item = x
    BY <2>2 DEF TypeOK, Threads
  <2> QED  BY <2>1, <2>2, <2>3 DEF OwnInv
<1>4. ASSUME NEW c \in Consumers, Dequeue(c)
      PROVE  OwnInv'
  <2>1. /\ Queued # <<>> /\ Head(Queued) = data[end] /\ Queued' = Tail(Queued)
        /\ Queued \in Seq(Contents) /\ Len(Queued) = elements
        /\ elements' = elements - 1 /\ elements \in Nat /\ elements > 0
    BY <1>4, DequeueTakesHead, PopRing DEF Dequeue, RingInv, TypeOK
  <2>2. data[end] \in Items /\ fate[data[end]] # "caller"
    <3>1. Head(Queued) = Queued[1]
      BY <2>1
    <3> QED  BY <3>1, <2>1 DEF OwnInv
  <2>3. fate' = [fate EXCEPT ![data[end]] = "popped"] /\ call' = call
    BY <1>4 DEF Dequeue, os_queue_pop
  <2>4. \A x \in Items : fate'[x] = "caller" <=> fate[x] = "caller"
    BY <2>2, <2>3 DEF TypeOK
  <2>5. \A q \in Producers : st'[q] # "idle" => st[q] # "idle"
    BY <1>4 DEF Dequeue, Signal, Asleep, TypeOK, Threads
  <2>6. \A i \in 1 .. elements' : Queued'[i] \in Items /\ fate'[Queued'[i]] # "caller"
    <3> SUFFICES ASSUME NEW i \in 1 .. elements'
                 PROVE  Queued'[i] \in Items /\ fate'[Queued'[i]] # "caller"
      OBVIOUS
    <3>1. i + 1 \in 1 .. elements
      BY <2>1
    <3>2. Queued'[i] = Queued[i + 1]
      BY <2>1, HeadTailProperties
    <3> QED  BY <3>1, <3>2, <2>4 DEF OwnInv
  <2> QED  BY <2>3, <2>4, <2>5, <2>6 DEF OwnInv
<1>5. ASSUME NEW c \in Consumers, PopFails(c)
      PROVE  OwnInv'
  BY <1>5 DEF PopFails, Return, ring, Queued, OwnInv, TypeOK, Threads
<1>6. ASSUME NEW c \in Consumers, NEW m \in Modes, PopSleeps(c, m)
      PROVE  OwnInv'
  BY <1>6 DEF PopSleeps, Sleep, ring, Queued, OwnInv, TypeOK, Threads
<1>7. ASSUME os_queue_shutdown PROVE OwnInv'
  BY <1>7 DEF os_queue_shutdown, ring, Queued, OwnInv, TypeOK, Threads
<1>8. ASSUME os_queue_free_data PROVE OwnInv'
  BY <1>8 DEF os_queue_free_data, OwnInv, TypeOK
<1>9. ASSUME UNCHANGED vars PROVE OwnInv'
  BY <1>9 DEF vars, Queued, OwnInv
<1>10. OwnInv'
  BY <1>1, <1>2, <1>3, <1>4, <1>5, <1>6, <1>7, <1>8, <1>9, StepCases
<1> QED  BY <1>0, <1>10 DEF FifoInv

LEMMA RefinesInit == Init => Fifo!Init
<1> SUFFICES ASSUME Init PROVE Fifo!Init
  OBVIOUS
<1>1. [i \in 1 .. elements |-> data[(end + (i - 1)) % Size]] = <<>>
  BY SizeIsNat DEF Init
<1> QED  BY <1>1 DEF Init, Fifo!Init

LEMMA RefinesNext ==
  ASSUME FifoInv, [Next]_vars
  PROVE  [Fifo!Next]_(Fifo!vars)
<1> RingInv /\ TypeOK /\ OwnInv
  BY DEF FifoInv, RingInv
<1>1. ASSUME NEW p \in Producers, NEW x \in Items \cup {Nil}, Offers(p, x), Enqueue(p, x)
      PROVE  x \in Items /\ Fifo!Accept(x)
  <2>1. x \in Items /\ fate[x] = "caller"
    BY <1>1, OffersOwned
  <2>2. Queued' = Append(Queued, x) /\ Len(Queued) < Size - 1
    BY <1>1, EnqueueAppends DEF Enqueue, Contents
  <2> QED  BY <1>1, <2>1, <2>2 DEF Fifo!Accept, Enqueue, os_queue_push, Queued, QueueOf
<1>2. ASSUME NEW p \in Producers, NEW x \in Items \cup {Nil}, Offers(p, x), PushFails(p, x)
      PROVE  x \in Items /\ Fifo!Refuse(x)
  BY <1>2, OffersOwned DEF PushFails, Refuse, ring, Fifo!Refuse
<1>3. ASSUME NEW p \in Producers, NEW x \in Items \cup {Nil}, NEW m \in Modes,
             PushSleeps(p, x, m)
      PROVE  UNCHANGED Fifo!vars
  BY <1>3 DEF PushSleeps, ring, Fifo!vars
<1>4. ASSUME NEW c \in Consumers, Dequeue(c)
      PROVE  Fifo!Deliver
  <2>1. Queued # <<>> /\ Head(Queued) = data[end] /\ Queued' = Tail(Queued)
    BY <1>4, DequeueTakesHead DEF Dequeue
  <2> QED  BY <1>4, <2>1 DEF Fifo!Deliver, Dequeue, os_queue_pop, Queued, QueueOf
<1>5. ASSUME NEW c \in Consumers, PopFails(c)
      PROVE  UNCHANGED Fifo!vars
  BY <1>5 DEF PopFails, ring, Fifo!vars
<1>6. ASSUME NEW c \in Consumers, NEW m \in Modes, PopSleeps(c, m)
      PROVE  UNCHANGED Fifo!vars
  BY <1>6 DEF PopSleeps, ring, Fifo!vars
<1>7. ASSUME os_queue_shutdown PROVE Fifo!Close
  BY <1>7 DEF os_queue_shutdown, ring, Fifo!Close, TypeOK
<1>8. ASSUME os_queue_free_data PROVE Fifo!Discard
  <2>1. elements \in Nat /\ elements > 0
    <3>1. begin \in Int /\ end \in Int /\ elements \in Nat
      BY SizeIsNat DEF TypeOK, Slots
    <3> QED  BY <1>8, <3>1, SizeIsNat DEF os_queue_free_data, empty, RingInv, RingShape, TypeOK, Slots
  <2>2. Queued # <<>>
    <3>1. /\ data \in [Slots -> Contents] /\ end \in Slots /\ elements \in 0 .. (Size - 1)
      BY DEF TypeOK, Contents
    <3>2. Queued \in Seq(Contents) /\ Len(Queued) = elements
      BY <3>1, QueueType DEF Queued
    <3> QED  BY <2>1, <3>2, EmptySeq
  <2>3. Queued' = <<>>
    BY <1>8 DEF os_queue_free_data, Queued, QueueOf
  <2> QED  BY <1>8, <2>2, <2>3 DEF Fifo!Discard, os_queue_free_data, Queued, QueueOf
<1>9. ASSUME UNCHANGED vars PROVE UNCHANGED Fifo!vars
  BY <1>9 DEF vars, Fifo!vars
<1> QED
  BY <1>1, <1>2, <1>3, <1>4, <1>5, <1>6, <1>7, <1>8, <1>9, StepCases DEF Fifo!Next

(* The ring with its mutex and its two condition variables is a bounded    *)
(* FIFO that hands every item to exactly one owner, accepts nothing after  *)
(* the shutdown and never more than Size - 1 items.                        *)
THEOREM QueueImplementsFifo == Spec => ImplementsFifo
<1>1. Spec => []FifoInv
  BY FifoInvInit, FifoInvNext, PTL DEF Spec
<1> QED
  BY <1>1, RefinesInit, RefinesNext, PTL DEF Spec, ImplementsFifo, Fifo!Spec
=============================================================================
