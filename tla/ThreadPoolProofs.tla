-------------------------- MODULE ThreadPoolProofs --------------------------
(***************************************************************************)
(* The safety of the worker pool for any number of workers, connections    *)
(* and any limit.                                                          *)
(***************************************************************************)
EXTENDS ThreadPool, FiniteSetTheorems, TLAPS

(* A worker that is about to look at the queue.                            *)
Looking(w) == st[w] \in {"top", "signalled", "asleep"}

(* The steps of the pool, one disjunct for each way the counters change.   *)
LEMMA StepCases ==
  ASSUME [Next]_vars
  PROVE  \/ \E w \in Workers : Looking(w) /\ (Exit(w) \/ Dequeue(w))
         \/ \E w \in Workers : st[w] \in {"top", "signalled"} /\ Wait(w)
         \/ \E w \in Workers : \/ Finish(w) \/ HandlerEnds(w)
                               \/ HandlerReadTimeout(w) \/ CreateWorker(w)
         \/ \E x \in Tasks : fate[x] = "new" /\ (SubmitRefused(x) \/ SubmitAccepted(x))
         \/ CreateFails \/ thread_pool_destroy
         \/ thread_pool_wait_idle \/ WaitIdleTimeout \/ WaitIdleSpurious \/ Join
         \/ FlushTake \/ FlushDrop \/ FlushDone
         \/ UNCHANGED vars
<1>1. ASSUME NEW w \in Workers, WorkerLoop(w)
      PROVE  \/ Looking(w) /\ (Exit(w) \/ Dequeue(w))
             \/ st[w] \in {"top", "signalled"} /\ Wait(w)
  BY <1>1 DEF WorkerLoop, Looking
<1>2. ASSUME NEW w \in Workers, WorkerSpurious(w)
      PROVE  Looking(w) /\ (Exit(w) \/ Dequeue(w))
  BY <1>2 DEF WorkerSpurious, Looking
<1>3. ASSUME NEW x \in Tasks, thread_pool_submit(x)
      PROVE  fate[x] = "new" /\ (SubmitRefused(x) \/ SubmitAccepted(x))
  BY <1>3 DEF thread_pool_submit
<1> QED  BY <1>1, <1>2, <1>3 DEF Next

-----------------------------------------------------------------------------
(* Counters.  TypeOK is not inductive without CountersExact: the counters  *)
(* are natural numbers only because every decrement has something to       *)
(* count down.                                                             *)
CountInv == /\ TypeOK
            /\ CountersExact
            /\ WithinCapacity
            /\ ClaimsBacked
            /\ IdleWaiterNotMissed

LEMMA BusyFinite ==
  /\ IsFiniteSet(Busy) /\ Cardinality(Busy) \in Nat
  /\ IsFiniteSet(Busy') /\ Cardinality(Busy') \in Nat
<1>1. Busy \subseteq Workers /\ Busy' \subseteq Workers
  BY DEF Busy
<1> QED  BY <1>1, PoolAssumption, FS_Subset, FS_CardinalityType

LEMMA BusyJoins ==
  ASSUME TypeOK, NEW w \in Workers, Looking(w), st' = [st EXCEPT ![w] = "running"]
  PROVE  Cardinality(Busy') = Cardinality(Busy) + 1
<1>1. Busy' = Busy \cup {w} /\ w \notin Busy
  BY DEF TypeOK, Busy, Looking
<1> QED  BY <1>1, BusyFinite, FS_AddElement

LEMMA BusyLeaves ==
  ASSUME TypeOK, NEW w \in Workers, st[w] = "ending", st' = [st EXCEPT ![w] = "top"]
  PROVE  Cardinality(Busy') = Cardinality(Busy) - 1
<1>1. Busy' = Busy \ {w} /\ w \in Busy
  BY DEF TypeOK, Busy
<1> QED  BY <1>1, BusyFinite, FS_RemoveElement

(* Taking the head of the list, by a worker or by the flush.               *)
LEMMA HeadTaken ==
  ASSUME TypeOK, CountersExact, ClaimsBacked, queue # <<>>,
         queue' = Tail(queue), pending' = pending - 1, RetireClaim
  PROVE  /\ queue' \in Seq(Tasks) /\ Head(queue) \in Tasks
         /\ pending > 0 /\ pending' \in Nat /\ pending' = Len(queue')
         /\ idle_drop_claims' \in Nat /\ idle_drop_claims' <= pending'
  BY DEF TypeOK, CountersExact, ClaimsBacked, RetireClaim

LEMMA CountInvInit == Init => CountInv
<1> SUFFICES ASSUME Init PROVE CountInv
  OBVIOUS
<1>1. TypeOK
  <2>0. shutdown \in BOOLEAN
    BY Zenon DEF Init
  <2>1. queue \in Seq(Tasks)
    BY DEF Init
  <2>2. fate \in [Tasks -> Fates]
    BY DEF Init, Fates
  <2> QED  BY <2>0, <2>1, <2>2 DEF Init, TypeOK
<1>2. Busy = {}
  BY DEF Init, Busy
<1>3. Cardinality(Busy) = 0
  BY <1>2, FS_EmptySet
<1> QED  BY <1>1, <1>3, PoolAssumption
         DEF Init, CountInv, CountersExact, WithinCapacity, ClaimsBacked, IdleWaiterNotMissed

LEMMA CountInvNext ==
  ASSUME CountInv, [Next]_vars
  PROVE  CountInv'
<1> TypeOK /\ CountersExact /\ WithinCapacity /\ ClaimsBacked /\ IdleWaiterNotMissed
  BY DEF CountInv
<1> USE DEF CountersExact, WithinCapacity, ClaimsBacked, IdleWaiterNotMissed
<1> USE PoolAssumption
<1>1. ASSUME NEW w \in Workers, Looking(w), Exit(w) PROVE CountInv'
  <2>1. Busy' = Busy
    BY <1>1 DEF Exit, Busy, Looking, TypeOK, pool
  <2>2. TypeOK'
    BY <1>1 DEF Exit, TypeOK, pool
  <2> QED  BY <1>1, <2>1, <2>2 DEF Exit, CountInv, pool
<1>2. ASSUME NEW w \in Workers, Looking(w), Dequeue(w) PROVE CountInv'
  <2>1. /\ queue' \in Seq(Tasks) /\ Head(queue) \in Tasks
        /\ pending > 0 /\ pending' \in Nat /\ pending' = Len(queue')
        /\ idle_drop_claims' \in Nat /\ idle_drop_claims' <= pending'
    BY <1>2, HeadTaken DEF Dequeue
  <2>2. active_workers' = Cardinality(Busy')
    BY <1>2, BusyJoins DEF Dequeue
  <2>3. TypeOK'
    BY <1>2, <2>1 DEF Dequeue, TypeOK, Fates
  <2> QED  BY <1>2, <2>1, <2>2, <2>3 DEF Dequeue, CountInv, TypeOK
<1>3. ASSUME NEW w \in Workers, st[w] \in {"top", "signalled"}, Wait(w) PROVE CountInv'
  <2>1. Busy' = Busy
    BY <1>3 DEF Wait, Busy, TypeOK
  <2>2. TypeOK'
    BY <1>3 DEF Wait, TypeOK, pool
  <2> QED  BY <1>3, <2>1, <2>2 DEF Wait, CountInv, pool
<1>4. ASSUME NEW w \in Workers, Finish(w) PROVE CountInv'
  <2>1. Cardinality(Busy') = Cardinality(Busy) - 1
    BY <1>4, BusyLeaves DEF Finish
  <2>2. active_workers' = Cardinality(Busy') /\ active_workers' \in Nat
    BY <1>4, <2>1, BusyFinite DEF Finish
  <2>3. TypeOK'
    BY <1>4, <2>2 DEF Finish, TypeOK, Fates
  <2> QED  BY <1>4, <2>2, <2>3 DEF Finish, CountInv, TypeOK
<1>5. ASSUME NEW w \in Workers, HandlerEnds(w) PROVE CountInv'
  <2>1. Busy' = Busy
    BY <1>5 DEF HandlerEnds, Busy, TypeOK
  <2>2. TypeOK'
    BY <1>5 DEF HandlerEnds, TypeOK, pool
  <2> QED  BY <1>5, <2>1, <2>2 DEF HandlerEnds, CountInv, pool
<1>6. ASSUME NEW w \in Workers, HandlerReadTimeout(w) PROVE CountInv'
  <2>1. Busy' = Busy
    BY <1>6 DEF HandlerReadTimeout, Busy, TypeOK
  <2>2. TypeOK'
    BY <1>6 DEF HandlerReadTimeout, TypeOK
  <2> QED  BY <1>6, <2>1, <2>2 DEF HandlerReadTimeout, CountInv, TypeOK
<1>7. ASSUME NEW w \in Workers, CreateWorker(w) PROVE CountInv'
  <2>1. Busy' = Busy
    BY <1>7 DEF CreateWorker, Busy, TypeOK
  <2>2. TypeOK'
    BY <1>7 DEF CreateWorker, TypeOK, pool
  <2> QED  BY <1>7, <2>1, <2>2 DEF CreateWorker, CountInv, pool
<1>8. ASSUME NEW x \in Tasks, SubmitRefused(x) PROVE CountInv'
  <2>1. Busy' = Busy
    BY <1>8 DEF SubmitRefused, Busy
  <2>2. TypeOK'
    BY <1>8 DEF SubmitRefused, TypeOK, pool, Fates
  <2> QED  BY <1>8, <2>1, <2>2 DEF SubmitRefused, CountInv, pool
<1>9. ASSUME NEW x \in Tasks, SubmitAccepted(x) PROVE CountInv'
  <2>1. Busy' = Busy
    BY <1>9 DEF SubmitAccepted, Busy, TypeOK, Asleep
  <2>2. queue' \in Seq(Tasks) /\ Len(queue') = Len(queue) + 1
    BY <1>9 DEF SubmitAccepted, TypeOK
  <2>3. TypeOK'
    BY <1>9, <2>2 DEF SubmitAccepted, TypeOK, Fates, Asleep
  <2>4. WithinCapacity'
    BY <1>9 DEF SubmitAccepted, AtCapacity, TypeOK
  <2> QED  BY <1>9, <2>1, <2>2, <2>3, <2>4 DEF SubmitAccepted, CountInv, TypeOK
<1>10. ASSUME CreateFails \/ thread_pool_destroy PROVE CountInv'
  <2>1. Busy' = Busy
    BY <1>10 DEF CreateFails, thread_pool_destroy, Broadcast, Busy, TypeOK
  <2>2. TypeOK'
    BY <1>10 DEF CreateFails, thread_pool_destroy, Broadcast, TypeOK
  <2>3. /\ UNCHANGED <<queue, pending, active_workers, idle_drop_claims>>
        /\ owner' \in {"aborting", "joining"}
    BY <1>10 DEF CreateFails, thread_pool_destroy
  <2> QED  BY <2>1, <2>2, <2>3 DEF CountInv
<1>11. ASSUME thread_pool_wait_idle \/ WaitIdleTimeout \/ WaitIdleSpurious \/ Join
       PROVE  CountInv'
  <2>1. Busy' = Busy
    BY <1>11 DEF thread_pool_wait_idle, WaitIdleTimeout, WaitIdleSpurious, Join, Busy
  <2>2. TypeOK'
    BY <1>11 DEF thread_pool_wait_idle, WaitIdleTimeout, WaitIdleSpurious, Join, TypeOK, pool
  <2>3. UNCHANGED <<queue, pending, active_workers, idle_drop_claims>>
    BY <1>11 DEF thread_pool_wait_idle, WaitIdleTimeout, WaitIdleSpurious, Join, pool
  <2>4. owner' = "wait_idle" => active_workers > 0 \/ pending > 0
    BY <1>11 DEF thread_pool_wait_idle, WaitIdleTimeout, WaitIdleSpurious, Join
  <2> QED  BY <2>1, <2>2, <2>3, <2>4 DEF CountInv, TypeOK
<1>12. ASSUME FlushTake PROVE CountInv'
  <2>1. /\ queue' \in Seq(Tasks) /\ Head(queue) \in Tasks
        /\ pending > 0 /\ pending' \in Nat /\ pending' = Len(queue')
        /\ idle_drop_claims' \in Nat /\ idle_drop_claims' <= pending'
    BY <1>12, HeadTaken DEF FlushTake
  <2>2. Busy' = Busy
    BY <1>12 DEF FlushTake, Busy
  <2>3. TypeOK'
    BY <1>12, <2>1 DEF FlushTake, TypeOK, Fates
  <2> QED  BY <1>12, <2>1, <2>2, <2>3 DEF FlushTake, CountInv, TypeOK
<1>13. ASSUME FlushDone PROVE CountInv'
  <2>1. Busy' = Busy
    BY <1>13 DEF FlushDone, Busy
  <2>2. TypeOK'
    BY <1>13 DEF FlushDone, TypeOK
  <2> QED  BY <1>13, <2>1, <2>2 DEF FlushDone, CountInv, TypeOK
<1>14. ASSUME FlushDrop PROVE CountInv'
  <2>1. Busy' = Busy
    BY <1>14 DEF FlushDrop, Busy
  <2>2. TypeOK'
    BY <1>14 DEF FlushDrop, TypeOK, Fates, pool
  <2> QED  BY <1>14, <2>1, <2>2 DEF FlushDrop, CountInv, pool
<1>15. ASSUME UNCHANGED vars PROVE CountInv'
  BY <1>15 DEF vars, pool, CountInv, TypeOK, Busy
<1> QED  BY StepCases, <1>1, <1>2, <1>3, <1>4, <1>5, <1>6, <1>7, <1>8, <1>9, <1>10,
            <1>11, <1>12, <1>13, <1>14, <1>15

LEMMA CountInvAlways == Spec => []CountInv
  BY CountInvInit, CountInvNext, PTL DEF Spec

(* The variables keep their types: no counter of the pool is ever counted  *)
(* below zero, in whatever order workers, listener and owner get the       *)
(* mutex.                                                                  *)
THEOREM PoolTypeCorrect == Spec => []TypeOK
  BY CountInvAlways, PTL DEF CountInv

(* What thread_pool_active and thread_pool_wait_idle read is what there    *)
(* is, also in the middle of the final flush.                              *)
THEOREM PoolCountersExact == Spec => []CountersExact
  BY CountInvAlways, PTL DEF CountInv

(* max_tasks bounds queued and running tasks together.                     *)
THEOREM PoolWithinCapacity == Spec => []WithinCapacity
  BY CountInvAlways, PTL DEF CountInv

(* thread_pool_should_drop_idle gives away no more quiet connections than  *)
(* clients are waiting.                                                    *)
THEOREM PoolClaimsBacked == Spec => []ClaimsBacked
  BY CountInvAlways, PTL DEF CountInv

(* Who waits in thread_pool_wait_idle has not missed the last broadcast.   *)
THEOREM PoolIdleWaiterNotMissed == Spec => []IdleWaiterNotMissed
  BY CountInvAlways, PTL DEF CountInv

-----------------------------------------------------------------------------
(* Wakeups.  WorkersNotMissed needs to know that nobody sleeps through a   *)
(* shutdown: there a woken worker leaves without taking its task.          *)
AwakeAfterShutdown == shutdown => Asleep = {}
WakeInv == TypeOK /\ AwakeAfterShutdown /\ WorkersNotMissed

LEMMA SignalledFinite ==
  /\ IsFiniteSet(Signalled) /\ Cardinality(Signalled) \in Nat
  /\ IsFiniteSet(Signalled') /\ Cardinality(Signalled') \in Nat
<1>1. Signalled \subseteq Workers /\ Signalled' \subseteq Workers
  BY DEF Signalled
<1> QED  BY <1>1, PoolAssumption, FS_Subset, FS_CardinalityType

(* A worker that takes a task was at worst one of the woken ones.          *)
LEMMA TakerLeaves ==
  ASSUME TypeOK, NEW w \in Workers, st' = [st EXCEPT ![w] = "running"]
  PROVE  /\ Asleep' \subseteq Asleep
         /\ Cardinality(Signalled') >= Cardinality(Signalled) - 1
<1>1. Asleep' \subseteq Asleep
  BY DEF TypeOK, Asleep
<1>2. Signalled' = Signalled \ {w}
  BY DEF TypeOK, Signalled
<1> QED  BY <1>1, <1>2, SignalledFinite, FS_RemoveElement

LEMMA OneIsWoken ==
  ASSUME TypeOK, NEW w \in Asleep, st' = [st EXCEPT ![w] = "signalled"]
  PROVE  Cardinality(Signalled') = Cardinality(Signalled) + 1
<1>1. Signalled' = Signalled \cup {w} /\ w \notin Signalled
  BY DEF TypeOK, Signalled, Asleep
<1> QED  BY <1>1, SignalledFinite, FS_AddElement

(* A step that touches no sleeping or woken worker, and does not add a     *)
(* task.                                                                   *)
LEMMA NobodyWoken ==
  ASSUME WakeInv, TypeOK', Asleep' = Asleep, Signalled' = Signalled,
         shutdown' = shutdown, Len(queue') <= Len(queue)
  PROVE  WakeInv'
<1>1. Len(queue) \in Nat /\ Len(queue') \in Nat
  BY DEF WakeInv, TypeOK
<1> QED  BY <1>1, SignalledFinite DEF WakeInv, AwakeAfterShutdown, WorkersNotMissed

LEMMA WakeInvNext ==
  ASSUME WakeInv, TypeOK', [Next]_vars
  PROVE  WakeInv'
<1> TypeOK /\ AwakeAfterShutdown /\ WorkersNotMissed
  BY DEF WakeInv
<1>0. /\ Len(queue) \in Nat /\ Len(queue') \in Nat
      /\ Cardinality(Signalled) \in Nat /\ Cardinality(Signalled') \in Nat
  BY SignalledFinite DEF TypeOK
<1>1. ASSUME NEW w \in Workers, Looking(w), Exit(w) PROVE WakeInv'
  <2>1. Asleep' = {}
    BY <1>1 DEF Exit, Asleep, AwakeAfterShutdown, TypeOK
  <2> QED  BY <2>1 DEF WakeInv, AwakeAfterShutdown, WorkersNotMissed
<1>2. ASSUME NEW w \in Workers, Looking(w), Dequeue(w) PROVE WakeInv'
  <2>1. /\ Asleep' \subseteq Asleep
        /\ Cardinality(Signalled') >= Cardinality(Signalled) - 1
    BY <1>2, TakerLeaves DEF Dequeue
  <2>2. Len(queue') = Len(queue) - 1 /\ ~shutdown'
    BY <1>2 DEF Dequeue, TypeOK
  <2> QED  BY <1>0, <2>1, <2>2 DEF WakeInv, AwakeAfterShutdown, WorkersNotMissed
<1>3. ASSUME NEW w \in Workers, Wait(w) PROVE WakeInv'
  <2>1. Len(queue') = 0 /\ ~shutdown'
    BY <1>3 DEF Wait, pool
  <2> QED  BY <1>0, <2>1 DEF WakeInv, AwakeAfterShutdown, WorkersNotMissed
<1>4. ASSUME NEW w \in Workers,
             Finish(w) \/ HandlerEnds(w) \/ HandlerReadTimeout(w) \/ CreateWorker(w)
      PROVE  WakeInv'
  <2>1. Asleep' = Asleep /\ Signalled' = Signalled
    BY <1>4 DEF Finish, HandlerEnds, HandlerReadTimeout, CreateWorker, Asleep, Signalled, TypeOK
  <2>2. shutdown' = shutdown /\ queue' = queue
    BY <1>4 DEF Finish, HandlerEnds, HandlerReadTimeout, CreateWorker, pool
  <2> QED  BY <1>0, <2>1, <2>2, NobodyWoken
<1>5. ASSUME NEW x \in Tasks, SubmitRefused(x) PROVE WakeInv'
  <2>1. Asleep' = Asleep /\ Signalled' = Signalled /\ shutdown' = shutdown /\ queue' = queue
    BY <1>5 DEF SubmitRefused, pool, Asleep, Signalled
  <2> QED  BY <1>0, <2>1, NobodyWoken
<1>6. ASSUME NEW x \in Tasks, SubmitAccepted(x) PROVE WakeInv'
  <2>1. Len(queue') = Len(queue) + 1 /\ ~shutdown'
    BY <1>6 DEF SubmitAccepted, TypeOK
  <2>2. CASE Asleep = {}
    <3>1. Asleep' = {}
      BY <1>6, <2>2 DEF SubmitAccepted, Asleep
    <3> QED  BY <3>1 DEF WakeInv, AwakeAfterShutdown, WorkersNotMissed
  <2>3. CASE Asleep # {}
    <3>1. PICK w \in Asleep : st' = [st EXCEPT ![w] = "signalled"]
      BY <1>6, <2>3 DEF SubmitAccepted
    <3>2. Cardinality(Signalled') = Cardinality(Signalled) + 1
      BY <3>1, OneIsWoken
    <3> QED  BY <1>0, <2>1, <2>3, <3>2 DEF WakeInv, AwakeAfterShutdown, WorkersNotMissed
  <2> QED  BY <2>2, <2>3
<1>7. ASSUME CreateFails \/ thread_pool_destroy PROVE WakeInv'
  <2>1. Asleep' = {}
    BY <1>7 DEF CreateFails, thread_pool_destroy, Broadcast, Asleep, TypeOK
  <2> QED  BY <2>1 DEF WakeInv, AwakeAfterShutdown, WorkersNotMissed
<1>8. ASSUME thread_pool_wait_idle \/ WaitIdleTimeout \/ WaitIdleSpurious \/ Join
             \/ FlushTake \/ FlushDrop \/ FlushDone \/ UNCHANGED vars
      PROVE  WakeInv'
  <2>1. UNCHANGED <<st, shutdown>>
    BY <1>8 DEF thread_pool_wait_idle, WaitIdleTimeout, WaitIdleSpurious, Join,
                FlushTake, FlushDrop, FlushDone, vars, pool
  <2>2. Len(queue') <= Len(queue)
    <3>1. queue' = queue \/ (queue # <<>> /\ queue' = Tail(queue))
      BY <1>8 DEF thread_pool_wait_idle, WaitIdleTimeout, WaitIdleSpurious, Join,
                  FlushTake, FlushDrop, FlushDone, vars, pool
    <3> QED  BY <1>0, <3>1 DEF TypeOK
  <2>3. Asleep' = Asleep /\ Signalled' = Signalled
    BY <2>1 DEF Asleep, Signalled
  <2> QED  BY <2>1, <2>2, <2>3, NobodyWoken
<1> QED  BY StepCases, <1>1, <1>2, <1>3, <1>4, <1>5, <1>6, <1>7, <1>8

(* One pthread_cond_signal per submit is enough, for any number of workers *)
(* and although a finishing worker may take the task of a woken one.       *)
THEOREM PoolWorkersNotMissed == Spec => []WorkersNotMissed
<1>1. Init => WakeInv
  <2> SUFFICES ASSUME Init PROVE WakeInv
    OBVIOUS
  <2>1. Asleep = {}
    BY DEF Init, Asleep
  <2> QED  BY <2>1, CountInvInit DEF WakeInv, CountInv, AwakeAfterShutdown, WorkersNotMissed
<1>2. WakeInv /\ CountInv' /\ [Next]_vars => WakeInv'
  BY WakeInvNext DEF CountInv
<1>3. WakeInv => WorkersNotMissed
  BY DEF WakeInv
<1> QED  BY <1>1, <1>2, <1>3, CountInvAlways, PTL DEF Spec

(* "On shutdown, stop dequeuing; in-flight tasks still run to completion": *)
(* no step after the shutdown flag is set starts a handler.                *)
THEOREM PoolNoStartAfterShutdown == Spec => NoStartAfterShutdown
<1> DEFINE Quiet == shutdown => \A x \in Tasks : fate'[x] = "running" => fate[x] = "running"
<1>1. ASSUME TypeOK, [Next]_vars PROVE Quiet
  <2> SUFFICES ASSUME shutdown, NEW x \in Tasks, fate'[x] = "running"
               PROVE  fate[x] = "running"
    OBVIOUS
  <2>1. \/ fate' = fate
        \/ \E y, s : s # "running" /\ fate' = [fate EXCEPT ![y] = s]
    BY <1>1, StepCases
       DEF Exit, Dequeue, Wait, Finish, HandlerEnds, HandlerReadTimeout, CreateWorker,
           SubmitRefused, SubmitAccepted, CreateFails, thread_pool_destroy,
           thread_pool_wait_idle, WaitIdleTimeout, WaitIdleSpurious, Join, FlushTake,
           FlushDrop, FlushDone, vars
  <2> QED  BY <1>1, <2>1 DEF TypeOK
<1>2. TypeOK /\ [Next]_vars => [Quiet]_vars
  BY <1>1
<1> QED  BY <1>2, PoolTypeCorrect, PTL DEF Spec, NoStartAfterShutdown

-----------------------------------------------------------------------------
(* Ownership of the tasks.  OneHandler is kept by a dequeue only because   *)
(* the list holds no task twice and a worker that looks for a task has     *)
(* none.                                                                   *)
Listed(x) == \E i \in 1 .. Len(queue) : queue[i] = x
NoneTwice == \A i, j \in 1 .. Len(queue) : queue[i] = queue[j] => i = j
InHand == owner # "dropping" => victim = NoTask
Employed == \A w \in Workers : task[w] # NoTask => w \in Busy
HandlerInv == TypeOK /\ OneHandler /\ NoneTwice /\ Employed /\ InHand

(* What leaves the head of a list without repetitions is not on it any     *)
(* more, and the others stay.                                              *)
LEMMA HeadGone ==
  ASSUME TypeOK, NoneTwice, queue # <<>>, queue' = Tail(queue)
  PROVE  /\ NoneTwice' /\ Head(queue) \in Tasks /\ Listed(Head(queue))
         /\ \A x \in Tasks : Listed(x)' <=> Listed(x) /\ x # Head(queue)
<1>1. /\ Len(queue) \in Nat /\ Len(queue) >= 1 /\ Len(queue') = Len(queue) - 1
      /\ Head(queue) = queue[1] /\ Head(queue) \in Tasks
      /\ \A i \in 1 .. Len(queue') : queue'[i] = queue[i + 1]
  BY DEF TypeOK
<1>2. NoneTwice'
  <2> SUFFICES ASSUME NEW i \in 1 .. Len(queue'), NEW j \in 1 .. Len(queue'),
                      queue'[i] = queue'[j]
               PROVE  i = j
    BY DEF NoneTwice
  <2>1. queue[i + 1] = queue[j + 1] /\ i + 1 \in 1 .. Len(queue) /\ j + 1 \in 1 .. Len(queue)
    BY <1>1
  <2>2. i + 1 = j + 1
    BY <2>1 DEF NoneTwice
  <2> QED  BY <2>2
<1>3. Listed(Head(queue))
  BY <1>1 DEF Listed
<1>4. ASSUME NEW x \in Tasks, x = Head(queue) PROVE ~Listed(x)'
  <2> SUFFICES ASSUME NEW i \in 1 .. Len(queue'), queue'[i] = x PROVE FALSE
    BY DEF Listed
  <2>1. queue[i + 1] = queue[1] /\ i + 1 \in 1 .. Len(queue) /\ 1 \in 1 .. Len(queue)
    BY <1>1, <1>4
  <2>2. i + 1 = 1
    BY <2>1 DEF NoneTwice
  <2> QED  BY <2>2
<1>5. ASSUME NEW x \in Tasks, x # Head(queue) PROVE Listed(x)' <=> Listed(x)
  <2>1. ASSUME Listed(x) PROVE Listed(x)'
    <3>1. PICK i \in 1 .. Len(queue) : queue[i] = x
      BY <2>1 DEF Listed
    <3>2. i # 1 /\ i - 1 \in 1 .. Len(queue') /\ (i - 1) + 1 = i
      BY <1>1, <1>5, <3>1
    <3>3. queue'[i - 1] = queue[(i - 1) + 1]
      BY <1>1, <3>2
    <3>4. queue'[i - 1] = x
      BY <3>1, <3>2, <3>3
    <3> QED  BY <3>2, <3>4 DEF Listed
  <2>2. ASSUME Listed(x)' PROVE Listed(x)
    <3>1. PICK i \in 1 .. Len(queue') : queue'[i] = x
      BY <2>2 DEF Listed
    <3>2. i + 1 \in 1 .. Len(queue) /\ queue[i + 1] = x
      BY <1>1, <3>1
    <3> QED  BY <3>2 DEF Listed
  <2> QED  BY <2>1, <2>2
<1> QED  BY <1>1, <1>2, <1>3, <1>4, <1>5

(* OneHandler in terms of Listed.                                          *)
LEMMA HandlerFacts ==
  ASSUME OneHandler, NEW x \in Tasks
  PROVE  /\ fate[x] = "running" <=> (\E w \in Workers : task[w] = x)
         /\ fate[x] = "queued" <=> Listed(x)
         /\ fate[x] = "dropping" <=> victim = x
         /\ \A v, w \in Workers : task[v] = x /\ task[w] = x => v = w
  BY DEF OneHandler, Listed

(* A step that moves no task.                                              *)
LEMMA NoTaskMoves ==
  ASSUME HandlerInv, TypeOK', UNCHANGED <<queue, task, victim, fate>>,
         Busy \subseteq Busy', owner = "dropping" => owner' = "dropping"
  PROVE  HandlerInv'
<1>1. OneHandler'
  BY DEF HandlerInv, OneHandler
<1> QED  BY <1>1 DEF HandlerInv, NoneTwice, Employed, InHand

LEMMA HandlerInvNext ==
  ASSUME HandlerInv, TypeOK', [Next]_vars
  PROVE  HandlerInv'
<1> TypeOK /\ OneHandler /\ NoneTwice /\ Employed /\ InHand
  BY DEF HandlerInv
<1> USE PoolAssumption
<1>0. \A x \in Tasks :
        /\ fate[x] = "running" <=> (\E w \in Workers : task[w] = x)
        /\ fate[x] = "queued" <=> Listed(x)
        /\ fate[x] = "dropping" <=> victim = x
        /\ \A v, w \in Workers : task[v] = x /\ task[w] = x => v = w
  BY HandlerFacts
<1>1. ASSUME NEW w \in Workers, Looking(w), Exit(w) PROVE HandlerInv'
  <2>1. Busy' = Busy
    BY <1>1 DEF Exit, Busy, Looking, TypeOK
  <2> QED  BY <1>1, <2>1, NoTaskMoves DEF Exit, pool
<1>2. ASSUME NEW w \in Workers, Looking(w), Dequeue(w) PROVE HandlerInv'
  <2> DEFINE h == Head(queue)
  <2>1. /\ NoneTwice' /\ h \in Tasks /\ Listed(h)
        /\ \A x \in Tasks : Listed(x)' <=> Listed(x) /\ x # h
    BY <1>2, HeadGone DEF Dequeue
  <2>2. task[w] = NoTask /\ fate[h] = "queued"
    BY <1>0, <1>2, <2>1 DEF Employed, Looking, Busy
  <2>3. \A v \in Workers : task[v] # h
    BY <1>0, <2>1, <2>2
  <2>4. /\ task' = [task EXCEPT ![w] = h] /\ fate' = [fate EXCEPT ![h] = "running"]
        /\ st' = [st EXCEPT ![w] = "running"] /\ UNCHANGED <<owner, victim>>
    BY <1>2 DEF Dequeue
  <2> HIDE DEF h
  <2>5. ASSUME NEW x \in Tasks
        PROVE  /\ fate'[x] = "running" <=> (\E v \in Workers : task'[v] = x)
               /\ fate'[x] = "queued" <=> Listed(x)'
               /\ fate'[x] = "dropping" <=> victim' = x
               /\ \A u, v \in Workers : task'[u] = x /\ task'[v] = x => u = v
    BY <1>0, <2>1, <2>2, <2>3, <2>4 DEF TypeOK
  <2>6. OneHandler'
    BY <2>1, <2>5 DEF OneHandler, Listed, NoneTwice
  <2>7. Employed'
    BY <2>4 DEF Employed, Busy, TypeOK
  <2>8. InHand'
    BY <2>4 DEF InHand
  <2> QED  BY <2>1, <2>6, <2>7, <2>8 DEF HandlerInv
<1>3. ASSUME NEW w \in Workers, Wait(w), st[w] \in {"top", "signalled"} PROVE HandlerInv'
  <2>1. Busy' = Busy
    BY <1>3 DEF Wait, Busy, TypeOK
  <2> QED  BY <1>3, <2>1, NoTaskMoves DEF Wait, pool
<1>4. ASSUME NEW w \in Workers, Finish(w) PROVE HandlerInv'
  <2>1. /\ fate' = [fate EXCEPT ![task[w]] = "done"]
        /\ task' = [task EXCEPT ![w] = NoTask]
        /\ st' = [st EXCEPT ![w] = "top"] /\ queue' = queue
        /\ victim' = victim /\ (owner = "dropping" => owner' = "dropping")
    BY <1>4 DEF Finish
  <2>2. ASSUME NEW x \in Tasks
        PROVE  /\ fate'[x] = "running" <=> (\E v \in Workers : task'[v] = x)
               /\ fate'[x] = "queued" <=> Listed(x)'
               /\ fate'[x] = "dropping" <=> victim' = x
               /\ \A u, v \in Workers : task'[u] = x /\ task'[v] = x => u = v
    <3>1. Listed(x)' <=> Listed(x)
      BY <2>1 DEF Listed
    <3>2. CASE task[w] = x
      BY <1>0, <2>1, <3>1, <3>2 DEF TypeOK
    <3>3. CASE task[w] # x
      BY <1>0, <2>1, <3>1, <3>3 DEF TypeOK
    <3> QED  BY <3>2, <3>3
  <2>3. OneHandler'
    BY <2>1, <2>2 DEF OneHandler, Listed, NoneTwice
  <2>4. Employed'
    BY <2>1 DEF Employed, Busy, TypeOK
  <2> QED  BY <2>1, <2>3, <2>4 DEF HandlerInv, NoneTwice, InHand
<1>5. ASSUME NEW w \in Workers, HandlerEnds(w) \/ HandlerReadTimeout(w) \/ CreateWorker(w)
      PROVE  HandlerInv'
  <2>1. Busy' = Busy
    BY <1>5 DEF HandlerEnds, HandlerReadTimeout, CreateWorker, Busy, TypeOK
  <2>2. UNCHANGED <<queue, task, victim, fate>> /\ (owner = "dropping" => owner' = "dropping")
    BY <1>5 DEF HandlerEnds, HandlerReadTimeout, CreateWorker, pool
  <2> QED  BY <2>1, <2>2, NoTaskMoves
<1>6. ASSUME NEW x \in Tasks, fate[x] = "new", SubmitRefused(x) PROVE HandlerInv'
  <2>1. /\ fate' = [fate EXCEPT ![x] = "refused"]
        /\ task' = task /\ st' = st /\ queue' = queue /\ UNCHANGED <<owner, victim>>
    BY <1>6 DEF SubmitRefused, pool
  <2>2. OneHandler'
    BY <1>6, <2>1 DEF OneHandler, TypeOK
  <2> QED  BY <2>1, <2>2 DEF HandlerInv, NoneTwice, Employed, InHand, Busy
<1>7. ASSUME NEW x \in Tasks, fate[x] = "new", SubmitAccepted(x) PROVE HandlerInv'
  <2>1. /\ fate' = [fate EXCEPT ![x] = "queued"]
        /\ task' = task /\ queue' = Append(queue, x) /\ UNCHANGED <<owner, victim>>
    BY <1>7 DEF SubmitAccepted
  <2>2. Busy' = Busy
    BY <1>7 DEF SubmitAccepted, Busy, TypeOK, Asleep
  <2>3. /\ Len(queue) \in Nat /\ Len(queue') = Len(queue) + 1
        /\ queue'[Len(queue) + 1] = x
        /\ \A i \in 1 .. Len(queue) : queue'[i] = queue[i]
    BY <2>1 DEF TypeOK
  <2>4. ~Listed(x)
    BY <1>0, <1>7
  <2>5. NoneTwice'
    <3> SUFFICES ASSUME NEW i \in 1 .. Len(queue'), NEW j \in 1 .. Len(queue'),
                        queue'[i] = queue'[j]
                 PROVE  i = j
      BY DEF NoneTwice
    <3> QED  BY <2>3, <2>4 DEF NoneTwice, Listed
  <2>6. \A y \in Tasks : Listed(y)' <=> Listed(y) \/ y = x
    <3>1. ASSUME NEW y \in Tasks, Listed(y)' PROVE Listed(y) \/ y = x
      BY <2>3, <3>1 DEF Listed
    <3>2. ASSUME NEW y \in Tasks, Listed(y) PROVE Listed(y)'
      <4>1. PICK i \in 1 .. Len(queue) : queue[i] = y
        BY <3>2 DEF Listed
      <4>2. i \in 1 .. Len(queue') /\ queue'[i] = y
        BY <2>3, <4>1
      <4> QED  BY <4>2 DEF Listed
    <3>3. Listed(x)'
      <4>1. Len(queue) + 1 \in 1 .. Len(queue')
        BY <2>3
      <4> QED  BY <2>3, <4>1 DEF Listed
    <3> QED  BY <3>1, <3>2, <3>3
  <2>7. ASSUME NEW y \in Tasks
        PROVE  /\ fate'[y] = "running" <=> (\E v \in Workers : task'[v] = y)
               /\ fate'[y] = "queued" <=> Listed(y)'
               /\ fate'[y] = "dropping" <=> victim' = y
               /\ \A u, v \in Workers : task'[u] = y /\ task'[v] = y => u = v
    BY <1>0, <1>7, <2>1, <2>6 DEF TypeOK
  <2>8. OneHandler'
    BY <2>5, <2>7 DEF OneHandler, Listed, NoneTwice
  <2> QED  BY <2>1, <2>2, <2>5, <2>8 DEF HandlerInv, Employed, InHand
<1>8. ASSUME CreateFails \/ thread_pool_destroy PROVE HandlerInv'
  <2>1. Busy' = Busy
    BY <1>8 DEF CreateFails, thread_pool_destroy, Broadcast, Busy, TypeOK
  <2> QED  BY <1>8, <2>1, NoTaskMoves DEF CreateFails, thread_pool_destroy
<1>9. ASSUME FlushTake PROVE HandlerInv'
  <2> DEFINE h == Head(queue)
  <2>1. /\ NoneTwice' /\ h \in Tasks /\ Listed(h)
        /\ \A x \in Tasks : Listed(x)' <=> Listed(x) /\ x # h
    BY <1>9, HeadGone DEF FlushTake
  <2>2. /\ fate' = [fate EXCEPT ![h] = "dropping"] /\ task' = task /\ st' = st
        /\ victim = NoTask /\ victim' = h /\ owner' = "dropping"
    BY <1>9 DEF FlushTake, InHand
  <2> HIDE DEF h
  <2>3. ASSUME NEW x \in Tasks
        PROVE  /\ fate'[x] = "running" <=> (\E v \in Workers : task'[v] = x)
               /\ fate'[x] = "queued" <=> Listed(x)'
               /\ fate'[x] = "dropping" <=> victim' = x
               /\ \A u, v \in Workers : task'[u] = x /\ task'[v] = x => u = v
    BY <1>0, <2>1, <2>2 DEF TypeOK
  <2>4. OneHandler'
    BY <2>1, <2>3 DEF OneHandler, Listed, NoneTwice
  <2> QED  BY <2>1, <2>2, <2>4 DEF HandlerInv, Employed, InHand, Busy
<1>10. ASSUME FlushDrop PROVE HandlerInv'
  <2>1. /\ fate' = [fate EXCEPT ![victim] = "dropped"] /\ task' = task /\ st' = st
        /\ victim' = NoTask /\ queue' = queue
    BY <1>10 DEF FlushDrop, pool
  <2>2. ASSUME NEW x \in Tasks
        PROVE  /\ fate'[x] = "running" <=> (\E v \in Workers : task'[v] = x)
               /\ fate'[x] = "queued" <=> Listed(x)'
               /\ fate'[x] = "dropping" <=> victim' = x
    <3>1. Listed(x)' <=> Listed(x)
      BY <2>1 DEF Listed
    <3> QED  BY <1>0, <2>1, <3>1 DEF TypeOK
  <2>3. OneHandler'
    BY <2>1, <2>2 DEF OneHandler, Listed
  <2> QED  BY <2>1, <2>3 DEF HandlerInv, NoneTwice, Employed, InHand, Busy
<1>11. ASSUME thread_pool_wait_idle \/ WaitIdleTimeout \/ WaitIdleSpurious \/ Join
              \/ FlushDone \/ UNCHANGED vars
       PROVE  HandlerInv'
  <2>1. UNCHANGED <<queue, task, victim, fate, st>> /\ (owner = "dropping" => owner' = "dropping")
    BY <1>11 DEF thread_pool_wait_idle, WaitIdleTimeout, WaitIdleSpurious, Join, FlushDone,
                 vars, pool
  <2>2. Busy' = Busy
    BY <2>1 DEF Busy
  <2> QED  BY <2>1, <2>2, NoTaskMoves
<1> QED  BY StepCases, <1>1, <1>2, <1>3, <1>4, <1>5, <1>6, <1>7, <1>8, <1>9, <1>10, <1>11

(* A connection is queued once, with one worker, in the hands of the final *)
(* flush or done with, whatever the workers and the flush take from the    *)
(* list and the listener submits while the flush closes a connection       *)
(* without the mutex.                                                      *)
THEOREM PoolOneHandler == Spec => []OneHandler
<1>1. Init => HandlerInv
  <2> SUFFICES ASSUME Init PROVE HandlerInv
    OBVIOUS
  <2>1. OneHandler /\ NoneTwice /\ Employed
    BY PoolAssumption DEF Init, OneHandler, NoneTwice, Employed
  <2> QED  BY <2>1, CountInvInit DEF HandlerInv, CountInv, Init, InHand
<1>2. HandlerInv /\ CountInv' /\ [Next]_vars => HandlerInv'
  BY HandlerInvNext DEF CountInv
<1>3. HandlerInv => OneHandler
  BY DEF HandlerInv
<1> QED  BY <1>1, <1>2, <1>3, CountInvAlways, PTL DEF Spec
=============================================================================
