------------------------------ MODULE OsQueue ------------------------------
(***************************************************************************)
(* The bounded multi-producer multi-consumer queue every stage of the      *)
(* analysisd pipeline is built on (shared/queue_op.c): a ring of pointers  *)
(* under one mutex, with a condition variable for consumers (`available')  *)
(* and one for producers (`available_not_empty').                          *)
(*                                                                         *)
(* Everything a call does while it holds the mutex is one action.  A       *)
(* thread that waits on a condition variable is "asleep" until a signal    *)
(* picks it ("signalled"); it then has to take the mutex again, so another *)
(* thread may run in between and find the queue first.  POSIX also lets a  *)
(* waiter wake up for no reason, and a timed waiter give up.               *)
(***************************************************************************)
EXTENDS Naturals, Sequences, FiniteSets

CONSTANTS Producers,   \* threads that push
          Consumers,   \* threads that pop
          Items,       \* pointers that may be pushed, each at most once
          Size,        \* queue->size: slots of the ring
          Nil          \* content of a slot that was never written

ASSUME QueueAssumption ==
    /\ Size \in Nat \ {0, 1}                    \* os_queue_init refuses < 2
    /\ IsFiniteSet(Producers) /\ IsFiniteSet(Consumers)
    /\ Producers \cap Consumers = {}
    /\ Nil \notin Items                         \* data != NULL

VARIABLES data, begin, end, elements, shutdown,
          st,       \* st[t]: where thread t is
          call,     \* call[t]: the arguments of the call t is blocked in
          fate      \* who owns each item (see BoundedFifo)

ring == <<data, begin, end, elements>>
vars == <<data, begin, end, elements, shutdown, st, call, fate>>

Threads == Producers \cup Consumers
Slots == 0 .. (Size - 1)

Fifo == INSTANCE BoundedFifo WITH
          fifo <- [i \in 1 .. elements |-> data[(end + (i - 1)) % Size]],
          closed <- shutdown,
          Capacity <- Size - 1

-----------------------------------------------------------------------------
(* Helpers; the caller holds the mutex.                                    *)

full == (begin + 1) % Size = end
empty == begin = end

Asleep(T) == {t \in T : st[t] = "asleep"}
Signalled(T) == {t \in T : st[t] = "signalled"}

(* The statuses after thread t returned, or went to sleep with s, and one  *)
(* sleeper of T (if there is any) was signalled.                           *)
Signal(t, T) ==
    IF Asleep(T) = {}
    THEN st' = [st EXCEPT ![t] = "idle"]
    ELSE \E w \in Asleep(T) :
           st' = [st EXCEPT ![t] = "idle", ![w] = "signalled"]

Return(t) == st' = [st EXCEPT ![t] = "idle"]
Sleep(t, c) == /\ st' = [st EXCEPT ![t] = "asleep"]
               /\ call' = [call EXCEPT ![t] = c]

os_queue_push(x) == /\ ~full
                    /\ data' = [data EXCEPT ![begin] = x]
                    /\ begin' = (begin + 1) % Size
                    /\ elements' = elements + 1
                    /\ fate' = [fate EXCEPT ![x] = "queued"]
                    /\ UNCHANGED end

os_queue_pop == /\ ~empty
                /\ fate' = [fate EXCEPT ![data[end]] = "popped"]
                /\ end' = (end + 1) % Size
                /\ elements' = elements - 1
                /\ UNCHANGED <<data, begin>>

Refuse(p, x) == /\ fate' = [fate EXCEPT ![x] = "refused"]
                /\ Return(p)
                /\ UNCHANGED <<ring, shutdown, call>>

-----------------------------------------------------------------------------
(* Producers.  A push is one of "ex" (never waits), "block" (waits until   *)
(* there is room) and "timed" (waits at most until a deadline).            *)

Modes == {"ex", "block", "timed"}

(* Mutant: the wakeup goes to the wrong condition variable.                *)
PushWakesProducer(p, x, m) ==
    \/ shutdown /\ Refuse(p, x)
    \/ ~shutdown /\ full /\ m = "ex" /\ Refuse(p, x)
    \/ /\ ~shutdown /\ full /\ m # "ex"
       /\ Sleep(p, [item |-> x, mode |-> m])
       /\ UNCHANGED <<ring, shutdown, fate>>
    \/ /\ ~shutdown
       /\ os_queue_push(x)
       /\ Signal(p, Producers)
       /\ UNCHANGED <<shutdown, call>>

(* Mutant: a pusher that waited does not look at the shutdown flag again.  *)
PushIgnoresShutdown(p, x, m) ==
    \/ full /\ m = "ex" /\ Refuse(p, x)
    \/ /\ full /\ m # "ex"
       /\ Sleep(p, [item |-> x, mode |-> m])
       /\ UNCHANGED <<ring, shutdown, fate>>
    \/ /\ os_queue_push(x)
       /\ Signal(p, Consumers)
       /\ UNCHANGED <<shutdown, call>>

PushAttempt(p, x, m) ==
    \/ shutdown /\ Refuse(p, x)
    \/ ~shutdown /\ full /\ m = "ex" /\ Refuse(p, x)
    \/ /\ ~shutdown /\ full /\ m # "ex"
       /\ Sleep(p, [item |-> x, mode |-> m])
       /\ UNCHANGED <<ring, shutdown, fate>>
    \/ /\ ~shutdown
       /\ os_queue_push(x)
       /\ Signal(p, Consumers)
       /\ UNCHANGED <<shutdown, call>>

(* The caller owns x and no other pusher is blocked with it.               *)
Offerable(x) == /\ fate[x] = "caller"
                /\ \A p \in Producers : st[p] # "idle" => call[p].item # x

os_queue_push_ex(p, x) ==
    st[p] = "idle" /\ Offerable(x) /\ PushAttempt(p, x, "ex")
os_queue_push_ex_block(p, x) ==
    st[p] = "idle" /\ Offerable(x) /\ PushAttempt(p, x, "block")
os_queue_push_ex_timedwait(p, x) ==
    st[p] = "idle" /\ Offerable(x) /\ PushAttempt(p, x, "timed")

ProducerResumes(p) == /\ st[p] = "signalled"
                      /\ PushAttempt(p, call[p].item, call[p].mode)

ProducerSpurious(p) == /\ st[p] = "asleep"
                       /\ PushAttempt(p, call[p].item, call[p].mode)

ProducerTimeout(p) == /\ st[p] = "asleep"
                      /\ call[p].mode = "timed"
                      /\ Refuse(p, call[p].item)

-----------------------------------------------------------------------------
(* Consumers.  A pop looks at the ring before it looks at the shutdown     *)
(* flag: what was queued before the shutdown is still delivered.           *)

(* Mutant: a pop wakes no producer.                                        *)
PopWakesNobody(c, m) ==
    \/ /\ os_queue_pop
       /\ Return(c)
       /\ UNCHANGED <<shutdown, call>>
    \/ /\ empty /\ shutdown
       /\ Return(c)
       /\ UNCHANGED <<ring, shutdown, call, fate>>
    \/ /\ empty /\ ~shutdown
       /\ Sleep(c, [item |-> Nil, mode |-> m])
       /\ UNCHANGED <<ring, shutdown, fate>>

PopAttempt(c, m) ==
    \/ /\ os_queue_pop
       /\ Signal(c, Producers)
       /\ UNCHANGED <<shutdown, call>>
    \/ /\ empty /\ shutdown
       /\ Return(c)
       /\ UNCHANGED <<ring, shutdown, call, fate>>
    \/ /\ empty /\ ~shutdown
       /\ Sleep(c, [item |-> Nil, mode |-> m])
       /\ UNCHANGED <<ring, shutdown, fate>>

os_queue_pop_ex(c) == st[c] = "idle" /\ PopAttempt(c, "block")
os_queue_pop_ex_timedwait(c) == st[c] = "idle" /\ PopAttempt(c, "timed")

ConsumerResumes(c) == st[c] = "signalled" /\ PopAttempt(c, call[c].mode)
ConsumerSpurious(c) == st[c] = "asleep" /\ PopAttempt(c, call[c].mode)

ConsumerTimeout(c) == /\ st[c] = "asleep"
                      /\ call[c].mode = "timed"
                      /\ Return(c)
                      /\ UNCHANGED <<ring, shutdown, call, fate>>

-----------------------------------------------------------------------------
(* The owner of the queue.                                                 *)

(* Mutant: only the consumers' condition variable is broadcast.            *)
ShutdownWakesConsumers ==
    /\ ~shutdown
    /\ shutdown' = TRUE
    /\ st' = [t \in Threads |->
                IF t \in Asleep(Consumers) THEN "signalled" ELSE st[t]]
    /\ UNCHANGED <<ring, call, fate>>

os_queue_shutdown ==
    /\ ~shutdown
    /\ shutdown' = TRUE
    /\ st' = [t \in Threads |->
                IF st[t] = "asleep" THEN "signalled" ELSE st[t]]
    /\ UNCHANGED <<ring, call, fate>>

(* Empties the queue under one hold of the mutex; signals nobody.  Its     *)
(* only callers (analysisd_drain_queues) run it after os_queue_shutdown.   *)
os_queue_free_data ==
    /\ shutdown /\ ~empty
    /\ end' = begin
    /\ elements' = 0
    /\ fate' = [x \in Items |-> IF fate[x] = "queued" THEN "freed" ELSE fate[x]]
    /\ UNCHANGED <<data, begin, shutdown, st, call>>

-----------------------------------------------------------------------------
Init == /\ data = [i \in Slots |-> Nil]
        /\ begin = 0 /\ end = 0 /\ elements = 0
        /\ shutdown = FALSE
        /\ st = [t \in Threads |-> "idle"]
        /\ call = [t \in Threads |-> [item |-> Nil, mode |-> "block"]]
        /\ fate = [x \in Items |-> "caller"]

Push(p) == \E x \in Items : \/ os_queue_push_ex(p, x)
                            \/ os_queue_push_ex_block(p, x)
                            \/ os_queue_push_ex_timedwait(p, x)

Next == \/ \E p \in Producers : \/ Push(p)
                                \/ ProducerResumes(p)
                                \/ ProducerSpurious(p)
                                \/ ProducerTimeout(p)
        \/ \E c \in Consumers : \/ os_queue_pop_ex(c)
                                \/ os_queue_pop_ex_timedwait(c)
                                \/ ConsumerResumes(c)
                                \/ ConsumerSpurious(c)
                                \/ ConsumerTimeout(c)
        \/ os_queue_shutdown
        \/ os_queue_free_data

Spec == Init /\ [][Next]_vars

(* A signalled thread gets the mutex eventually (the critical sections are *)
(* short and finite), and consumers call pop again and again, as the       *)
(* worker loops of analysisd do.  Nothing forces a spurious wakeup, a      *)
(* push, a shutdown or a timeout.                                          *)
FairSpec == /\ Spec
            /\ \A p \in Producers : WF_vars(ProducerResumes(p))
            /\ \A c \in Consumers : WF_vars(ConsumerResumes(c))
            /\ \A c \in Consumers : WF_vars(os_queue_pop_ex(c))

-----------------------------------------------------------------------------
TypeOK ==
    /\ data \in [Slots -> Items \cup {Nil}]
    /\ begin \in Slots /\ end \in Slots /\ elements \in 0 .. (Size - 1)
    /\ shutdown \in BOOLEAN
    /\ st \in [Threads -> {"idle", "asleep", "signalled"}]
    /\ call \in [Threads -> [item : Items \cup {Nil}, mode : Modes]]
    /\ fate \in [Items -> Fifo!Fates]

-----------------------------------------------------------------------------
(* The count kept beside the ring (read by the metrics and by the FTS      *)
(* writer to decide a flush) always agrees with the two indices.           *)
ElementsMatchRing == elements = (begin + Size - end) % Size

(* No lost wakeup: while a consumer sleeps, at least as many woken         *)
(* consumers are on their way to the mutex as there are queued items.      *)
ConsumersNotMissed ==
    Asleep(Consumers) # {} => Cardinality(Signalled(Consumers)) >= elements

(* The same for producers and free slots, for the blocking and timed       *)
(* pushes that share one condition variable.                               *)
ProducersNotMissed ==
    Asleep(Producers) # {} =>
        Cardinality(Signalled(Producers)) >= (Size - 1) - elements

(* os_queue_shutdown wakes everybody and nobody goes back to sleep.        *)
NoSleepAfterShutdown == shutdown => Asleep(Threads) = {}

(* A queued item is delivered in order, nothing is accepted after the      *)
(* shutdown or beyond the capacity, and each item has one owner: the queue *)
(* implements BoundedFifo.                                                 *)
ImplementsFifo == Fifo!Spec

(* No item is stranded: while consumers keep calling pop, what was queued  *)
(* reaches one of them (or is freed by the owner after the shutdown).      *)
QueuedIsDelivered ==
    \A x \in Items : fate[x] = "queued" ~> fate[x] \in {"popped", "freed"}

(* After os_queue_shutdown every blocked call returns.                     *)
ShutdownReleasesCallers ==
    \A t \in Threads : (shutdown /\ st[t] # "idle") ~> (st[t] = "idle")
=============================================================================
