----------------------------- MODULE ThreadPool -----------------------------
(***************************************************************************)
(* The worker pool of remoted's syslog TCP listeners and of authd          *)
(* (shared/thread_pool.c) with its users: a listener thread that submits   *)
(* accepted connections, handlers that run on the workers, and the main    *)
(* thread that creates the pool and takes it down.                         *)
(*                                                                         *)
(* Everything done under one hold of pool->mu is one action.  A handler    *)
(* runs outside the mutex; a quiet syslog client whose read times out asks *)
(* thread_pool_should_drop_idle whether to give its worker to a waiter.    *)
(***************************************************************************)
EXTENDS Naturals, Sequences, FiniteSets

CONSTANTS Workers,     \* threads the pool may start (max_workers of them)
          Tasks,       \* connections that may be submitted, each once
          MaxTasks,    \* max_tasks; 0 means no limit
          NoTask

ASSUME PoolAssumption ==
    /\ IsFiniteSet(Workers) /\ Workers # {}      \* max_workers >= 1
    /\ IsFiniteSet(Tasks)
    /\ MaxTasks \in Nat
    /\ NoTask \notin Tasks

VARIABLES queue,       \* head .. tail
          pending, active_workers, idle_drop_claims, shutdown,
          st,          \* st[w]: where worker w is
          task,        \* task[w]: the task w runs
          owner,       \* where the thread that owns the pool is
          victim,      \* the task the final flush has in hand
          fate         \* fate[x]: what became of task x

pool == <<queue, pending, active_workers, idle_drop_claims, shutdown>>
vars == <<pool, st, task, owner, victim, fate>>

Fates == {"new", "queued", "running", "done",
          "dropping", "dropped", "refused"}

Asleep == {w \in Workers : st[w] = "asleep"}
Signalled == {w \in Workers : st[w] = "signalled"}
Busy == {w \in Workers : st[w] \in {"running", "ending"}}

RetireClaim == idle_drop_claims' =
                 IF idle_drop_claims > 0 THEN idle_drop_claims - 1 ELSE 0

-----------------------------------------------------------------------------
(* thread_pool_worker.                                                     *)

(* The head of the loop, with the mutex held: leave, wait or take a task.  *)
Exit(w) == /\ shutdown
           /\ st' = [st EXCEPT ![w] = "exited"]
           /\ UNCHANGED <<pool, task, owner, fate, victim>>

Wait(w) == /\ ~shutdown /\ queue = <<>>
           /\ st' = [st EXCEPT ![w] = "asleep"]
           /\ UNCHANGED <<pool, task, owner, fate, victim>>

(* Mutant: a dequeue does not retire the claim made for the waiter.        *)
DequeueKeepsClaim(w) ==
    /\ ~shutdown /\ queue # <<>>
    /\ queue' = Tail(queue)
    /\ pending' = pending - 1
    /\ active_workers' = active_workers + 1
    /\ st' = [st EXCEPT ![w] = "running"]
    /\ task' = [task EXCEPT ![w] = Head(queue)]
    /\ fate' = [fate EXCEPT ![Head(queue)] = "running"]
    /\ UNCHANGED <<idle_drop_claims, shutdown, owner, victim>>

Dequeue(w) ==
    /\ ~shutdown /\ queue # <<>>
    /\ queue' = Tail(queue)
    /\ pending' = pending - 1
    /\ RetireClaim
    /\ active_workers' = active_workers + 1
    /\ st' = [st EXCEPT ![w] = "running"]
    /\ task' = [task EXCEPT ![w] = Head(queue)]
    /\ fate' = [fate EXCEPT ![Head(queue)] = "running"]
    /\ UNCHANGED <<shutdown, owner, victim>>

WorkerLoop(w) == /\ st[w] \in {"top", "signalled"}
                 /\ Exit(w) \/ Wait(w) \/ Dequeue(w)
WorkerSpurious(w) == /\ st[w] = "asleep"
                     /\ Exit(w) \/ Dequeue(w)

(* Mutant: the count goes down, but the waiter for an idle pool sleeps on. *)
FinishSilently(w) ==
    /\ st[w] = "ending"
    /\ active_workers' = active_workers - 1
    /\ st' = [st EXCEPT ![w] = "top"]
    /\ fate' = [fate EXCEPT ![task[w]] = "done"]
    /\ task' = [task EXCEPT ![w] = NoTask]
    /\ UNCHANGED <<queue, pending, idle_drop_claims, shutdown, owner, victim>>

(* The handler returned: account for it and announce an idle pool.         *)
Finish(w) ==
    /\ st[w] = "ending"
    /\ active_workers' = active_workers - 1
    /\ st' = [st EXCEPT ![w] = "top"]
    /\ fate' = [fate EXCEPT ![task[w]] = "done"]
    /\ task' = [task EXCEPT ![w] = NoTask]
    /\ owner' = IF owner = "wait_idle" /\ active_workers' = 0 /\ pending = 0
                THEN "woken" ELSE owner
    /\ UNCHANGED <<queue, pending, idle_drop_claims, shutdown, victim>>

-----------------------------------------------------------------------------
(* What the handlers do that matters to the pool.                          *)

(* The peer closed, the enrollment is done, or the daemon shuts down.      *)
HandlerEnds(w) == /\ st[w] = "running"
                  /\ st' = [st EXCEPT ![w] = "ending"]
                  /\ UNCHANGED <<pool, task, owner, fate, victim>>

(* A read timed out and thread_pool_should_drop_idle said yes.  (When it   *)
(* says no the handler reads on: nothing changes.)                         *)
HandlerReadTimeout(w) == /\ st[w] = "running"
                         /\ pending > idle_drop_claims
                         /\ idle_drop_claims' = idle_drop_claims + 1
                         /\ st' = [st EXCEPT ![w] = "ending"]
                         /\ UNCHANGED <<queue, pending, active_workers,
                                        shutdown, task, owner, fate, victim>>

-----------------------------------------------------------------------------
(* thread_pool_submit, from the listener.                                  *)

AtCapacity == MaxTasks > 0 /\ active_workers + pending >= MaxTasks

SubmitRefused(x) == /\ shutdown \/ AtCapacity
                    /\ fate' = [fate EXCEPT ![x] = "refused"]
                    /\ UNCHANGED <<pool, st, task, owner, victim>>

(* Mutant: work_cond is signalled only when the queue was empty.           *)
SubmitSignalsFirst(x) ==
    /\ ~shutdown /\ ~AtCapacity
    /\ queue' = Append(queue, x)
    /\ pending' = pending + 1
    /\ fate' = [fate EXCEPT ![x] = "queued"]
    /\ IF Asleep = {} \/ queue # <<>> THEN UNCHANGED st
       ELSE \E w \in Asleep : st' = [st EXCEPT ![w] = "signalled"]
    /\ UNCHANGED <<active_workers, idle_drop_claims, shutdown, task, owner,
                   victim>>

SubmitAccepted(x) ==
    /\ ~shutdown /\ ~AtCapacity
    /\ queue' = Append(queue, x)
    /\ pending' = pending + 1
    /\ fate' = [fate EXCEPT ![x] = "queued"]
    /\ IF Asleep = {} THEN UNCHANGED st
       ELSE \E w \in Asleep : st' = [st EXCEPT ![w] = "signalled"]
    /\ UNCHANGED <<active_workers, idle_drop_claims, shutdown, task, owner,
                   victim>>

(* The listener got the pool, so every worker was created.                 *)
thread_pool_submit(x) == /\ fate[x] = "new"
                         /\ owner # "freed"
                         /\ \A w \in Workers : st[w] # "unborn"
                         /\ SubmitRefused(x) \/ SubmitAccepted(x)

-----------------------------------------------------------------------------
(* The owner: creation, wait for an idle pool, destruction.                *)

CreateWorker(w) == /\ owner = "creating"
                   /\ st[w] = "unborn"
                   /\ st' = [st EXCEPT ![w] = "top"]
                   /\ owner' = IF \A v \in Workers \ {w} : st[v] # "unborn"
                               THEN "serving" ELSE owner
                   /\ UNCHANGED <<pool, task, fate, victim>>

Broadcast == st' = [w \in Workers |->
                      IF st[w] = "asleep" THEN "signalled" ELSE st[w]]

(* pthread_create failed: the workers started so far are taken down.       *)
CreateFails == /\ owner = "creating"
               /\ shutdown' = TRUE
               /\ Broadcast
               /\ owner' = "aborting"
               /\ UNCHANGED <<queue, pending, active_workers, idle_drop_claims,
                              task, fate, victim>>

thread_pool_wait_idle ==
    /\ owner \in {"serving", "woken"}
    /\ owner' = IF active_workers > 0 \/ pending > 0 THEN "wait_idle" ELSE "waited"
    /\ UNCHANGED <<pool, st, task, fate, victim>>

(* The deadline passed, or the wait ended for no reason.                   *)
WaitIdleTimeout == /\ owner = "wait_idle"
                   /\ owner' = "waited"
                   /\ UNCHANGED <<pool, st, task, fate, victim>>
WaitIdleSpurious == /\ owner = "wait_idle"
                    /\ owner' = "woken"
                    /\ UNCHANGED <<pool, st, task, fate, victim>>

(* Mutant: the flag is set and only one worker hears about it.             *)
DestroySignalsOne ==
    /\ owner \in {"serving", "waited"}
    /\ shutdown' = TRUE
    /\ IF Asleep = {} THEN UNCHANGED st
       ELSE \E w \in Asleep : st' = [st EXCEPT ![w] = "signalled"]
    /\ owner' = "joining"
    /\ UNCHANGED <<queue, pending, active_workers, idle_drop_claims,
                   task, fate, victim>>

(* thread_pool_destroy; remoted calls it without waiting when its poll saw *)
(* no active task, on a second signal, or when its time is up.             *)
thread_pool_destroy ==
    /\ owner \in {"serving", "waited"}
    /\ shutdown' = TRUE
    /\ Broadcast
    /\ owner' = "joining"
    /\ UNCHANGED <<queue, pending, active_workers, idle_drop_claims,
                   task, fate, victim>>

Join == /\ owner \in {"joining", "aborting"}
        /\ \A w \in Workers : st[w] \in {"exited", "unborn"}
        /\ owner' = "flushing"
        /\ UNCHANGED <<pool, st, task, fate, victim>>

(* Mutant: the head is dropped first and taken off the list afterwards.    *)
FlushTakeLater == /\ owner = "flushing" /\ queue # <<>>
                  /\ pending' = pending - 1
                  /\ RetireClaim
                  /\ victim' = Head(queue)
                  /\ fate' = [fate EXCEPT ![Head(queue)] = "dropping"]
                  /\ owner' = "dropping"
                  /\ UNCHANGED <<queue, active_workers, shutdown, st, task>>

(* thread_pool_flush_pending: the head is taken off under the mutex, which *)
(* is given up while drop_fn closes the connection.                        *)
FlushTake == /\ owner = "flushing" /\ queue # <<>>
             /\ queue' = Tail(queue)
             /\ pending' = pending - 1
             /\ RetireClaim
             /\ victim' = Head(queue)
             /\ fate' = [fate EXCEPT ![Head(queue)] = "dropping"]
             /\ owner' = "dropping"
             /\ UNCHANGED <<active_workers, shutdown, st, task>>

FlushDrop == /\ owner = "dropping"
             /\ fate' = [fate EXCEPT ![victim] = "dropped"]
             /\ victim' = NoTask
             /\ owner' = "flushing"
             /\ UNCHANGED <<pool, st, task>>

FlushDone == /\ owner = "flushing" /\ queue = <<>>
             /\ idle_drop_claims' = 0
             /\ owner' = "freed"
             /\ UNCHANGED <<queue, pending, active_workers, shutdown, st, task,
                            victim, fate>>

-----------------------------------------------------------------------------
Init == /\ queue = <<>>
        /\ pending = 0 /\ active_workers = 0 /\ idle_drop_claims = 0
        /\ shutdown = FALSE
        /\ st = [w \in Workers |-> "unborn"]
        /\ task = [w \in Workers |-> NoTask]
        /\ owner = "creating"
        /\ victim = NoTask
        /\ fate = [x \in Tasks |-> "new"]

Next == \/ \E w \in Workers : \/ WorkerLoop(w)
                              \/ WorkerSpurious(w)
                              \/ Finish(w)
                              \/ HandlerEnds(w)
                              \/ HandlerReadTimeout(w)
                              \/ CreateWorker(w)
        \/ \E x \in Tasks : thread_pool_submit(x)
        \/ CreateFails
        \/ thread_pool_wait_idle
        \/ WaitIdleTimeout
        \/ WaitIdleSpurious
        \/ thread_pool_destroy
        \/ Join
        \/ FlushTake
        \/ FlushDrop
        \/ FlushDone

Spec == Init /\ [][Next]_vars

(* Workers get the mutex and the processor; a quiet client's read times    *)
(* out again and again; once a daemon shuts down its handlers return (the  *)
(* syslog worker tests remoted_shutting_down after every read, and every   *)
(* read is bounded by SO_RCVTIMEO; an enrollment has deadlines of its      *)
(* own).  Peers need not close and the owner need not shut down.           *)
FairSpec ==
    /\ Spec
    /\ \A w \in Workers : /\ WF_vars(WorkerLoop(w))
                          /\ WF_vars(Finish(w))
                          /\ WF_vars(HandlerReadTimeout(w))
                          /\ WF_vars(shutdown /\ HandlerEnds(w))
    /\ WF_vars(Join)
    /\ WF_vars(FlushTake) /\ WF_vars(FlushDrop) /\ WF_vars(FlushDone)

-----------------------------------------------------------------------------
TypeOK ==
    /\ queue \in Seq(Tasks)
    /\ pending \in Nat /\ active_workers \in Nat /\ idle_drop_claims \in Nat
    /\ shutdown \in BOOLEAN
    /\ st \in [Workers -> {"unborn", "top", "asleep", "signalled",
                           "running", "ending", "exited"}]
    /\ task \in [Workers -> Tasks \cup {NoTask}]
    /\ owner \in {"creating", "aborting", "serving", "wait_idle", "woken",
                  "waited", "joining", "flushing", "dropping", "freed"}
    /\ victim \in Tasks \cup {NoTask}
    /\ fate \in [Tasks -> Fates]

(* The counters the daemons read to decide that a shutdown is complete     *)
(* (thread_pool_active, thread_pool_wait_idle) are exact whenever nobody   *)
(* holds the mutex, also between two dropped tasks of the final flush.     *)
CountersExact == /\ pending = Len(queue)
                 /\ active_workers = Cardinality(Busy)

(* max_tasks bounds the queued and the running tasks together.             *)
WithinCapacity == MaxTasks > 0 => active_workers + pending <= MaxTasks

(* One signal per submit is enough: while a worker sleeps, the woken ones  *)
(* cover the queued tasks, even when a finishing worker takes one of them. *)
WorkersNotMissed == Asleep # {} => Cardinality(Signalled) >= Len(queue)

(* Whoever waits for an idle pool has something to wait for: the broadcast *)
(* of the last task to finish is not missed.                               *)
IdleWaiterNotMissed == owner = "wait_idle" => active_workers + pending > 0

(* A claim to close a quiet connection is always backed by a client that   *)
(* is still queued ("at most one claim per current waiter"), although it   *)
(* is made, acted upon and retired by different threads: a wave of read    *)
(* timeouts closes no more connections than there are clients waiting.     *)
ClaimsBacked == idle_drop_claims <= pending

(* A connection is in one place: on the list once, in the hands of one     *)
(* worker, in those of the final flush, which closes it without the mutex  *)
(* while the listener may still submit, or done with.                      *)
OneHandler ==
    \A x \in Tasks :
      /\ fate[x] = "running" <=> (\E w \in Workers : task[w] = x)
      /\ fate[x] = "queued" <=> (\E i \in 1 .. Len(queue) : queue[i] = x)
      /\ fate[x] = "dropping" <=> victim = x
      /\ \A v, w \in Workers : task[v] = x /\ task[w] = x => v = w
      /\ \A i, j \in 1 .. Len(queue) : queue[i] = x /\ queue[j] = x => i = j

(* "On shutdown, stop dequeuing; in-flight tasks still run to completion": *)
(* no handler starts after the shutdown flag is set.                       *)
NoStartAfterShutdown ==
    [][shutdown => \A x \in Tasks : fate'[x] = "running" => fate[x] = "running"]_vars

(* A queued client is served, or dropped by the shutdown, provided the     *)
(* others are quiet: their read timeouts free a worker for it.             *)
WaiterServed == \A x \in Tasks : (fate[x] = "queued") ~> (fate[x] # "queued")

(* thread_pool_destroy returns: every worker sees the flag and is joined,  *)
(* also when creation failed half way.                                     *)
DestroyReturns == (owner \in {"joining", "aborting"}) ~> (owner = "freed")
=============================================================================
