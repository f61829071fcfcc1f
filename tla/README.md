# TLA+ models of OSSEC HIDS

OSSEC is a host intrusion detection system: agents read logs and check files,
send what they find over an authenticated UDP channel to a manager, and the
manager decodes it, matches rules, writes alerts and starts active responses.
This directory models the concurrent and fault-exposed core of it and checks it
with TLC and TLAPS. Paths below are relative to the repository root.

`PROJECT.json` lists the components, the runs, one mutant per checked property,
the source lines each definition models (`map`), the hazards that the properties
are for, the findings and the theorems.

## 1. Inventory

| Component | State it keeps | Operations | Interacts with | What is hard | What makes it correct |
|---|---|---|---|---|---|
| Message queue, `src/shared/queue_op.c` | ring, two indices, count, shutdown flag, mutex, two condition variables | push (immediate, blocking, timed), pop (blocking, timed), shutdown, free data | all stages of analysisd | lost wakeups, one `cond_signal` per operation, spurious wakeups, timeout racing a signal, shutdown with sleepers | bounded FIFO, one owner per item, nobody sleeps in front of work or after the shutdown |
| Thread pool, `src/shared/thread_pool.c` | task list, `pending`, `active_workers`, `idle_drop_claims`, shutdown flag | create, submit, worker loop, drop-idle claim, wait idle, destroy, flush | remoted syslog TCP, authd | creation that fails half way, claims made and retired by different threads, a flush that gives the mutex up with a task in hand | exact counters, capacity, one place for every task, no task starts after the shutdown, destroy returns |
| analysisd pipeline, `src/analysisd/pipeline.c` | queues between stages, threads, event list per shard, counters | receive, demux, decode, match, write; staged shutdown | remoted and agents (datagrams), log files, execd | five kinds of threads passing ownership of buffers, deep copies for writers, eviction of events, queues that are full, shutdown at any moment | one owner for every buffer, no use after free, counters that add up, a shutdown that ends |
| Secure channel, `src/os_crypto/shared/msgs.c`, `keys.c`; remoted listener and shutdown | sender counter and file, receive counter and file (rids) per agent, inodes | number and send, check and accept, flush, reload keys, store at shutdown | agents, `client.keys`, administrator | lost, duplicated, reordered datagrams; crashes; files removed or replaced; flush that is shared by the agents | no message accepted twice, no number used twice, no agent locked out |
| Shared configuration: remoted manager `src/remoted/manager.c`, agent `src/client-agent/` | `_msg`, `_keep_alive`, `_changed`, `modified_agentid` by key slot; merged.mg on both sides | save a control message, sweep, look the agent up again, send in parts, receive, unpack, reload keys | secure listener, `client.keys`, agents | hand-over between threads, slots renumbered by a reload, lost parts, two transfers of one agent | a report wakes the manager; a partial file is never unpacked; every agent gets the current file |
| Agent daemon, servers and forwarding, `src/client-agent/` | server in use, last answer | connect, keep alive, forward | remoted, execd, local collectors | reconnection that consumes answers | collectors go on when a server answers |
| execd, `src/os_execd/` | list of pending undos, repeated offenders, children | run, undo at timeout, collect, undo at SIGTERM | analysisd, remoted, scripts | request during an undo, failed forks, signal handler on the same list | every response is undone, unless a shutdown could not, and never beside its repetition |
| maild, `src/os_maild/` | mail list, SMS queue, worker slots, hourly count | read, batch, send, requeue, end of the hour, drain | alert log, SMTP | slots taken before it is known if there is a thread, requeue, drain at SIGTERM | no slot lost, nothing sent twice or dropped silently, the drain ends when sending works |
| Correlation, `src/analysisd/eventinfo.c`, `eventinfo_list.c`, `rules.c`, `analysisd_stages.c` | event list per shard, lists of matches per rule, marks on events, last events and ignore time of a rule | match, put on the lists, search, mark, evict and free | shards, alert output | events owned by one thread and searched by the others, two ways to leave a list, events out of order | no search meets a freed event, no node is deleted twice, no event counted twice for a rule while its mark is there |
| Integrity database, `src/analysisd/decoders/syscheck.c`, `src/shared/fim_sum_op.c` | text file of an agent, index in memory, completion, change counter | look up, comment out, append, quiet update, new file | syscheck threads of the pipeline, agents | updates cut short or failed, placeholder hashes, several threads | the file with its index is one map; no change from a hash the file still holds is stored unseen |
| Maintenance mode, `src/shared/read-agents.c`, `src/util/agent_control.c` | marker file with a count and `pending_end`, a cache of two seconds | enable, disable, end, count, clear | integrity database, administrator | read and rewritten by two processes without a lock | the mode ends when the scan does |
| Rules, decoders, accumulator, FTS, statistics, `src/analysisd/` | rule tree, stores with expiry, current hour | match, expire, roll over | pipeline shards | events that arrive out of order at an hour's end | logs never roll back; stores expire |
| logcollector, monitord, syscheckd, rootcheck, csyslogd, dbd, agentlessd, authd, addagent | file positions, agent lists, file database | poll, scan, forward, enrol | files, sockets | rotation of files | mostly input and output |
| config, os_xml, os_regex, os_net, crypto primitives | none | parse, match, encrypt | all | - | pure functions |

## 2. Modules

| Module | Models | Uses |
|---|---|---|
| `BoundedFifo` | what a message queue promises | |
| `OsQueue` | `queue_op.c`, every entry point | refines `BoundedFifo` |
| `OsQueueProofs` | theorems about `OsQueue` | |
| `ThreadPool` | `thread_pool.c` with listener, handlers and owner | |
| `ThreadPoolProofs` | theorems about `ThreadPool` | |
| `AnalysisdPipeline` | the threads of `pipeline.c`, queues as `BoundedFifo` | |
| `AnalysisdPipelineProofs` | theorems about `AnalysisdPipeline` | |
| `SecMsg` | counters of the secure channel on both sides | |
| `SecMsgProofs` | theorems about `SecMsg` and, as an instance, `SharedConfig` | `Shared` |
| `SharedConfig` | how merged.mg reaches the agents: listener, manager thread, key reload, receiver | channel as `SecMsg` leaves it |
| `Execd` | main loop, list of undos, children, signal handler | |
| `ExecdProofs` | theorems about `Execd` | |
| `Maild` | `OS_Run`, worker threads, drain | |
| `MaildProofs` | theorems about `Maild` | |
| `Correlation` | shards that share the rules' lists of earlier matches | |
| `CorrelationProofs` | theorems about `Correlation` | |
| `FimSum` | sums, placeholder hashes, change marks | |
| `FimBaseline` | what the integrity database promises | `FimSum` |
| `SyscheckDb` | database file, index, threads, maintenance mode | refines `FimBaseline` |
| `SyscheckDbProofs` | theorems about `SyscheckDb` | |
| `MC...` | instances for TLC | |

**OsQueue.** Everything a thread does under one hold of the mutex is one action,
up to where it returns or sleeps. `st[t]` says whether `t` is outside, asleep on
its condition variable, or woken and on its way to the mutex; `cond_signal` wakes
an arbitrary sleeper. A sleeper may also wake for no reason (`...Spurious`) and
timed calls may give up. The refinement mapping reads `BoundedFifo`'s sequence
off the ring: the `elements` slots from `end` on. A slot is kept free, so a ring
of `Size` slots holds `Size - 1` items.

**ThreadPool.** One action per hold of `pool->mu`. The handler runs outside it:
it ends (`HandlerEnds`), or its read times out and it asks
`thread_pool_should_drop_idle` (`HandlerReadTimeout`). Creation starts workers one
by one and may fail after any of them. The final flush takes a task off the list
(`FlushTake`) and closes it without the mutex (`FlushDrop`); `victim` is the task in
between. `fate` is a history of each connection.

**AnalysisdPipeline.** A thread's `pc` says where it is between two queue calls,
`job` which datagram it works on, `hand` what it must dispose of. A datagram
turns into a text, an `Eventinfo` and deep copies for the writers; `born` and
`freed` are the heap. The queues are sequences with a capacity: the theorem
`QueueImplementsFifo` is what allows that. A blocking push is enabled when there
is room or the queue is closed. Rules are abstracted to whether they fire; every
branch of the rule engine that changes ownership is kept. Joining with the
30-second limit times out (`JoinTimeout`) exactly for a thread that can not move
by itself any more (`Stuck`): the assumption is that 30 seconds are enough for one
that can. A message that is no text or that no decoder wants is freed and counted nowhere
(`pipeline.c:777`, `:821`, `:862`), in the model as in the code: `rejected` is a history of
these messages, for what the counters do not tell. The test of the shutdown flag at the
head of a loop is merged with the end of the iteration before it. An eviction drops
the ten oldest events and those past the correlation window; `memory_size` is at
least 2048 (`src/analysisd/config.c:71`), so that it never meets the event just
added, which the model says of lists of any size.

**SecMsg.** An agent's `CreateSecMSG` numbers and stores before it sends. The
channel `net` is a set from which datagrams are never removed: every datagram may
be lost, delayed, repeated and overtaken. `file[a]` is the rids file with an inode
that is new after every removal, `fp[a]` the file that is open, `inode[a]` the one
the key entry remembers; the three can disagree and do. Encryption, compression
and checksums are left out, `verify_msg_id` is at its default 1. `stored`,
`accepted`, `lag` and `sent` are history; `used` counts the bounded events.

**SharedConfig.** The listener's `save_controlmsg` runs in two steps, since the mark
for the manager (`modified_agentid`) is set under another lock than the slot is
filled. The manager thread is `mgr`: asleep, sweeping, looking up the agent, reading
what is pending, sending part after part, each send under the key lock. A reload
renumbers `keys` while `_msg`, `_keep_alive` and `_changed` stay where they are.
`rcv[a]` is the agent: merged.mg as a sequence of parts, the file being received, the
announced sum, what was last unpacked. The channel is a lossy FIFO, because the replay
check of `SecMsg` turns reordering and repetition into loss. A checksum tells
whole files apart and differs for everything else.

**Execd.** `pc` is the place in the loop: collect children, start the undos that are
due, wait, deal with a request. Pids are reused as soon as they were collected. A fork
may fail, the loop then stores -1 as the code does. The signal handler takes
over at any place between two list operations and does not return. `owed` is a
history of the responses in force, `left` of those a shutdown leaves behind: those the
handler could not fork for, which it drops from the list without another try
(`execd.c:68`), and the one it found started without an entry. A prolonged response and
the table of times for repeated offenders are kept; the times themselves are "not yet" and "over".

**Maild.** The main loop with its `select`, the slot taken before the thread is created,
the batch and the SMS thread, the grouping of alerts with the same recipients, the
limit of the list, the hourly limit with its deferred reset, and the drain at SIGTERM.
`fate` and `smsfate` follow every alert. SMTP is one step that succeeds or fails, any
number of times, as does the creation of a thread. A mail that fails is given up, an SMS
that fails is put back; `Fresh` tells the threads apart that had the same SMS.

**Correlation.** One action per critical section: put an event on the lists
(`prev_matched_mutex`), search (the rule's mutex, the list mutex inside), mark, add to
the shard's list, evict, and the freeing of what was evicted. `live` is the heap.
What the rules look at is a parameter (`Alike`, `Watched`, `Frequency`,
`Timeframe`). `marks` is a history of the searches that succeeded. `LastMax` is the number
of logs `last_events` holds: a rule with a higher frequency shows only so many. The
instances of the runs have 2 for the 11 of `rules.h`, below a frequency that is reached.

**SyscheckDb.** The file is a sequence of rows, an update comments a row out and appends
one, in two steps. `index` holds position, sum and mark of each file's row; a position
behind the end of the file is possible after a write that failed. The process may end
between any two steps, with queued messages lost. Sums have three
parts: what the inode says, the attributes and ACL, which may be missing, and the hash, which
may be the placeholder. A missing part that appears, or one that goes, is no change
(`fim_sum_op.c:191`); only the hash is carried over a report without it. `FimBaseline`
is the promise: a map from files to sums whose reports are dealt with one at a time;
its variables are read off file and index. The marker of the maintenance mode is
read and written by `agent_control` and by the threads, each access one step. A write
of a row is all or nothing.

## 3. Runs

The runs spend their invariants on what takes several steps to go wrong. `TypeOK` of each
module, of `OsQueue` and `ThreadPool` the facts that are proved for every instance, and
`SenderFresh` of `SecMsg` (all in section 4) are stated but not repeated here.

| Run | Instance | Shows |
|---|---|---|
| `queue` | 3 pushers, 2 poppers, 3 items, one usable slot | no lost wakeup on either side, refinement of `BoundedFifo`, delivery, return of blocked calls |
| `pool` | 2 workers, 5 connections, limit 4 | wakeups, one handler; waiters are served, destroy returns |
| `pipeline` | a log event and a syscheck message, each with its decoder, or a log event at an hour's end, or 3 firewall events and a join that times out; every queue and list of size 1, archive, statistics and firewall log on | ownership, no use of freed events, counters of alerts and of the messages no decoder gave up, order of closing, no gridlock, no way back and no step in vain; a shutdown ends, datagrams leave without others to follow |
| `secmsg` | 2 agents, 3 messages each, a restart or crash of remoted, of an agent, a reload, a removed file | single acceptance, no lock-out, no replay of what a file covered |
| `sharedconfig` | 2 agents, one change of the files, one fault (lost datagram, restart, change of keys) | only whole files are unpacked; every agent with a key gets the current file |
| `sharedconfig_slot` | the same | expected to fail, see below |
| `execd` | 3 responses (one without timeout, one without address), 3 requests, 3 pids, one failed fork, one step of repeated offenders | what is in force is listed once, nothing starts beside a running undo, everything is undone but what a shutdown leaves behind |
| `maild` | 3 alerts of the three priorities, one with an SMS, 2 slots, list of 1, one mail an hour, threads and SMS that fail any number of times | slots exact, no alert twice or lost, drain complete, and finite once they no longer fail |
| `correlation` | 9 events in 2 shards, two composite rules of levels 7 and 5 on one list by sid, one by group and one by event of level 5, event lists of 2, rule lists of 3 | freed events are on no list, nodes are deleted once, marks (but for the rule of level 7, whose mark may be written over), context and ignore time hold |
| `correlation_levels` | 5 events in 2 shards, a rule by sid of level 5, one by event of level 3 | expected to fail, see below |
| `syscheckdb` | 2 threads, 2 files, 5 reports, a command, the end of a scan, a restart, a failed update | one live row, no unseen change of a hash the file holds, refinement of `FimBaseline` |
| `syscheckdb_maint` | the same without faults | expected to fail, see below |

The bounds are small because the interactions are: a lost wakeup needs two
waiters and one item, an overtaken signal a third thread; with queues of size one
every "full" branch is taken by the second message, and three firewall events are
what it takes to fill the writer's hands, its queue and the decoder's. Two
messages above the rollover of the local counter (`LocalMax = 2`) and a flush
after each message (`Flush = 1`) put every branch of `ReadSecMSG` between any two
faults; one fault of each kind is enough for each to precede and follow the others.
In `sharedconfig` one part suffices for a transfer that is short, doubled or mixed with
another. Three requests make execd prolong, repeat and overtake an undo; a list of one and
one mail an hour make maild evict and hold back with the second alert. In `correlation`
two shards evict while the other searches, and the third event of a rule overflows
its list. The reports of `syscheckdb` take a file with two changes behind it through a
report without hash and attributes, a third change, and a fourth that auto-ignore
suppresses, the other through new and deleted; only the checked writes may fail
(`Fails`), for the reason given in section 5. In `pipeline` the constraint `Traffic` cuts off
the behaviours in which more datagrams arrive; as none is forced to arrive, those that
remain are fair ones and the liveness properties mean what they say. In `maild` failures have no
bound; in `execd` `MaxFailures` is the assumption that forks do not fail for ever.
Symmetry is used for interchangeable agents and threads, in
safety runs only. `CHECK_DEADLOCK FALSE` appears where the system may stop: a pool that
was freed, a daemon that has exited, a channel or a feed that is used up.

**Fairness.** The kernel runs every thread that can run, and a thread that waits
for a mutex gets it: weak fairness of each thread's steps. Consumers of a queue
call pop again (their loops do). A quiet client's read times out again and again
(`SO_RCVTIMEO`), and after a shutdown handlers return, as the syslog worker tests
the flag after every read. In `SharedConfig` the manager thread and the listener run,
every agent keeps sending its keep-alive and gets through again and again (strong
fairness: datagrams may be lost, not all of them), and the manager re-reads the shared
files (it does so by the clock). In `Execd` the loop and the handler run, time passes and
scripts end (strong fairness: the chance to see it comes and goes with the loop's place).
In the pipeline the receiver is fair in what it does with a datagram it has, and in its
end, not in receiving one: `MessagesLeave` says that a message needs no later one to push it on.
In `Maild` the loop and the threads run (SMTP has timeouts) and hours pass; neither the
second signal nor the minute after which the drain is abandoned (`maild.c:578`) is assumed.
So `ShutdownEnds` has a condition, `<>[][~Failure]_vars`: from some time on threads can be
created and the server takes the SMS. While every SMS fails it is put back for ever
(`maild.c:482`) and only these two end the drain. Nothing is assumed of arrivals, peers,
spurious wakeups, shutdown requests, crashes or administrators. `SecMsg`, `Correlation`
and `SyscheckDb` are checked for safety alone.

### Where the code does not do what it says

Three runs are expected to fail; each checks one sentence of the repository.

* `sharedconfig_slot` (`SentToResolved`): the manager looks the agent's slot up again,
  "so a reload cannot send to a reshuffled slot", but gives the key lock up before it
  sends and between the sends: a reload in between sends the rest of the file to
  whoever has the slot then. The agents are not hurt by it (`UnpackedWhole`,
  `MergedArrives` hold).
* `syscheckdb_maint` (`EndClears`): the count of silent updates is read, raised and
  written with the whole marker. "-M end", or the end of the scan, in between is undone
  by the write, and maintenance stays on.
* `correlation_levels` (`TriggersAvoided`): "We avoid multiple triggers for the same rule
  or rules with a lower level" (`eventinfo.c:138`). Rules that search a shared list test and
  set an event's mark under `prev_matched_mutex`, those that search the shard's own list
  without it: such a rule, of a lower level, finds an event unmarked and writes over the
  higher mark the event was given meanwhile. The rule by sid then fires once more for the same
  events. The rules in `etc/rules` have no composite rule without `if_matched_sid` or
  `if_matched_group`, and with such rules alone the sentence is true
  (`TriggersAvoidedOnSharedLists`); with others it is true of every rule that has none of
  a lower level under the other lock (`TriggersApart`, in the run `correlation`).

## 4. Proofs

`OsQueueProofs` proves about `OsQueue`, for any finite disjoint sets of producers
and consumers, any items and any `Size >= 2` (`QueueAssumption`):

* `TypeCorrect`, `CountMatchesRing`: from the inductive invariant
  `RingInv == TypeOK /\ RingShape`. `ElementsMatchRing` alone is not inductive: the
  modulus hides whether an empty or a full ring is meant. `RingShape` says by cases
  on the order of the indices how `elements` follows from them, which the step
  lemmas `PushRing` and `PopRing` maintain by linear arithmetic.
* `NobodySleepsAfterShutdown`, `NoConsumerMissesAPush`, `NoProducerMissesAPop`: from
  `WakeInv`. The three facts depend on each other: a sleeper goes to sleep only when
  the ring is empty (full), a push adds an item and a woken consumer unless none is
  asleep, a woken consumer that leaves takes an item or goes back to sleep on an
  empty ring. `Departs`, `Arrives` and `Bystanders` are the three ways the number of
  woken threads changes.
* `QueueImplementsFifo`: `Spec => Fifo!Spec`, step simulation with `FifoInv`, which
  adds that what a blocked push holds is owned by nobody else. `PushAppends` and
  `PopTakesHead` relate the ring to the sequence.

`ThreadPoolProofs` proves about `ThreadPool`, for any finite sets of workers (at
least one) and connections and any limit, 0 for none (`PoolAssumption`). `StepCases`
sorts the steps once by how they change the counters. Then:

* `PoolTypeCorrect`, `PoolCountersExact`, `PoolWithinCapacity`, `PoolClaimsBacked`,
  `PoolIdleWaiterNotMissed`: their conjunction `CountInv` is inductive, none of the
  parts on its own. The counters are natural numbers only because they count
  something (`CountersExact`), a claim is retired only when `ClaimsBacked` tells that
  `pending` had room for it, and who waits for an idle pool is woken because the
  last worker reads exact counters. `BusyJoins` and `BusyLeaves` count the handlers.
* `PoolWorkersNotMissed`: from `WakeInv`, which adds `AwakeAfterShutdown`. A woken
  worker that meets the shutdown leaves without a task, so that the count of woken
  workers covers the queue only as long as nobody can be asleep then.
* `PoolNoStartAfterShutdown`: an action property; it needs the types alone.
* `PoolOneHandler`: from `HandlerInv`, which adds that the list has no repetitions
  (`NoneTwice`, or a dequeued task could still be on it), that only workers that run a
  handler hold a task (`Employed`), and the flush only between its two steps (`InHand`).

`SecMsgProofs` proves about `SecMsg`, for any agents, any roll-over and flush limits
and any number of restarts, reloads and removals (`SecMsgAssumption`: the limits are
positive, `None` and `NoMsg` are no counter and no message):

* `SecMsgTypeCorrect`, which has to bound what is sent: the global counter grows by at
  most one with every message (`SenderBounds`).
* `ReplayRejected`, `NumbersGrow`, `NeverLockedOut`: from one inductive invariant, since
  they lean on each other. `FilesInv` says that the file that has the name is the open one
  and never holds more than the key entry; `SenderInv` that an agent goes on from the
  last number it used; `AheadInv` that nothing under way, remembered or on disk is above
  the agent's counter; `OnceInv` that what was accepted is not above what is remembered.
  The lexicographic order of the counters is dealt with once, in `Order` and
  `AdvanceNewer`.
* `StoredStaysRejected`: an action property, from `FilesInv`: what a file held since it
  was created is below the counter the next datagram is compared with.

Its last section is about `SharedConfig`, which travels over that channel; `Shared` is its
instance for the same agents, with faults of its own, under `SharedConfigAssumption`:

* `UnpackedWholeAlways`: from `SharedInv`. A receiver is `Sane` when a file it has open was
  announced with the sum of a version and what it unpacked last is whole. `ReceiveSane` shows
  that every datagram remoted can send leaves it so, in any order: what is written
  to merged.mg may be anything, but what has the announced sum is the version (`SumFound`,
  checksums do not collide in the model). So it matters neither which parts get
  lost nor whose slot the manager thread sends to.
* `SharedTypeCorrect`: what the listener and the manager thread look up are slots of the
  arrays, whatever happens to client.keys and the keystore meanwhile. `TypeOK` is not inductive: an
  agent listed twice would make the keystore longer than the arrays, so `TypesInv` adds
  `Distinct`, which the edits of manage_agents keep (`RemovalKeepsDistinct`,
  `AdditionKeepsDistinct`) and from which `SlotsSuffice` follows by counting.

`ExecdProofs` proves about `Execd`, for any responses, any number of pids, requests,
failed forks and steps of repeated offenders (`ExecdAssumption`):

* `ExecdTypeCorrect`, `NothingForgotten`, `TimesAgree`: the invariant adds to them where
  the loop may be with which entry and which request (`LoopInv`) and that what is owed is
  listed or about to be (`OwedInv`).
* `NothingBesideAnUndo`: from `DeleteInv`: every running undo has the entry that waits for
  its pid, and no two entries wait for the same one, so that the collection of one child
  never drops the entry of another. `RemoveAtProperties`, `RemoveAtKeeps` and
  `ReapRemoves` say what is left of the list.

`MaildProofs` proves about `Maild`, for any alerts, any limits of threads, list and mails
an hour, and any number of threads that cannot be created and SMS that fail
(`MaildAssumption`):

* `MaildTypeCorrect`, `SlotsAreExact`: the counter is the number of threads, and one more
  while the loop holds a slot.
* `NothingLostOrDoubled`: from `ListInv`, `SmsListInv`, `HeldInv`, `MailInv` and `SmsInv`,
  which say of each alert what its fate means: list and queue have no repetitions, no two
  mail threads have an alert in common, an SMS has one busy thread at most. A thread whose
  SMS failed stays until the loop collects it, beside the thread of the next attempt:
  the attempts tell them apart.
* `DrainComplete`: `DoneInv`, with the above.

`AnalysisdPipelineProofs` proves about `AnalysisdPipeline`, for any datagrams, threads, types,
shards, limits and configuration (`PipelineAssumption`; `NamesApart`: the names the model gives
to threads and queues tell them apart):

* `TypeCorrect`, `OneOwnerAlways`, `EventLive`, `ClosedLast`: from one inductive invariant,
  `IndInv`. `HandInv` says what a thread holds at each point of its loop, `QueueInv` what
  each queue carries, `OwnInv` that the live objects are spread over queues, hands and lists,
  each in one place, once. Every action moves, makes or frees objects, so its effect
  on `OwnInv` is one case of `Flow` (`FlowKeeps`: sent on, new, refused, popped, added to
  a list with an eviction, drained). That an object may be made at all, that is, was
  never made before, needs what has happened to its message: `BornInv` (the event
  replaces the text, a copy for the firewall log comes with the event) and `CopyInv` (no
  alert or archive copy exists before the event has reached its shard, and at each point
  of the matching none that is still to be made). `StageInv` is how far the shutdown is.
* `MessagesCounted`: what was received was dropped at a full queue, processed or given up by a
  decoder, or is on its way, and of what was given up no counter tells. From `IndInv` and
  `Solo`: a message that a thread works on, before the
  writers, is with no other thread and in no queue there. So one that leaves is counted
  once (`FlightDrop`), one that is handed on stays in flight (`FlightPut`, `FlightPop`).
* `NobodyWaitsForever`: from `IndInv` and `CloseInv`. `NoGridlock` is not inductive, it speaks of
  states where all threads wait. A full firewall queue has a writer that can go on, or has left
  in the shutdown: so a decoder that waits for room there is `Stuck`, and there is none before
  the shutdown. Then all threads are at the head of their loops, before empty queues and with
  empty hands (`HandInv`). After a request to stop, `CloseInv` says which queues the main
  thread has closed at each step: the threads its next join waits for have met their
  closed queue and left, or are stuck.
* `EverythingMovesOn`: an action property, from `IndInv`. A place has a `Depth`, `Located`
  and `PlaceInv` turn `Position` of an object into the depth of the one place it is
  at, and the `Flow` of each action says what it moves where. So one lemma, `FlowAhead`, deals
  with all objects at once; each action owes that it moves towards greater depth, and something
  at all (`Further`), or takes the thread along in its loop (`TurnsOn`).
* `AlertsCounted`: by `AlertsWhere` an alert is gone, queued for a writer or in a writer's
  hands; so it is enough that what is gone was counted (`AlertInv`). `ListInv` adds that event lists
  hold events only.

`NoGridlock` and `MovesOn` together are what can be proved here of `MessagesLeave` and `ShutdownEnds`: the
positions are bounded, so without new datagrams all steps of threads come to an end
(`MovesOn`), and where they have ended the pipeline is empty or the shutdown goes on
(`NoGridlock`; `Waits` lists the negated guards of a thread's steps). What is left is that
fairness makes a thread that can step do so, which TLC adds. `NobodyWaitsForever` rests on
`StagesStaffed`: there is a demultiplexer, and a decoder for each type. The configuration
sees to that, `analysisd_resolve_threads` gives each stage one thread at least
(`pipeline.c:177`); that the threads could be created is an assumption, the code does
not look at the results of `CreateThreadJoinable` (`pipeline.c:1383`).

`SyscheckDbProofs` proves about `SyscheckDb`, for any files, threads, messages, sums,
restarts, failed writes and commands (`SyscheckDbAssumption`: the database from before is
one this code has written, with at most one live row of a file):

* `SyscheckDbTypeCorrect`, `OneRowForAFile`: the invariant says that one thread has the lock
  (`LockInv`), that what it has decided fits the index until it is done (`JobInv`), and
  that a live row is the one the index has, and gone before the next is written
  (`RowsInv`).
* `HashChangesAreSeen`: an action property, from `KnownInv`: the last real hash is the one
  the database holds, through placeholders and through a rebuilt index. A restart that cuts an
  update short loses the row and with it the hash: the next report has nothing to
  be compared with.
* `DatabaseImplementsBaseline`: `Spec => Baseline!Spec` where `"new" \notin Fails`, by
  step simulation: a lookup begins a report, commenting out makes the file one a restart
  would forget, an append accepts or adds, a crash is a restart, the rest are stutters or the
  end of a report. The condition is the code's: it does not look at the result of writing
  the row of a new file (section 5), and only under it does an index entry point at a row of
  its own file (`PlaceInv`). The other three theorems need no such condition.
  `BuildIndex` and `DiskAgrees` relate the file to the index that is rebuilt from it.

`CorrelationProofs` proves about `Correlation`, for any shards, events, rules, frequencies,
time frames, levels and limits (`CorrelationAssumption`: no event is in two queues or twice in
one, a rule by sid watches one rule, the lists have room for an event and an eviction
removes one at least):

* `CorrelationTypeCorrect`, `ListedEventsLive`, `NodesDeletedOnce`, `ContextOfAlert`,
  `AlertsApart`: from one inductive invariant, `IndInv`. `OwnInv` says that an event is in one
  place of its own shard, and alive from there to the eviction; `NodeInv` and `GenInv` that it
  refers to nodes only between the insertion into the lists and the unlinking, with the
  rule it fired for. So the lists hold live events, and what is cut off at the limit of a
  list is not deleted again at the eviction. `LockInv` is what the mutexes give:
  two threads between search and marks are there for different rules, one of them at most
  on a shared list. From it follows that a list stays as it was searched until the marks
  (`FoundInv`), and `last_events` with it (`ContextInv`). `IgnoreInv`: no event
  the rule fired for is younger than its ignore time says.
* `EventsCountedOnce`: for any levels. From `MarksInv`, with the above: a mark sinks only to
  the level of a rule that searches under the other lock (`Covers`; `OverInv` says so of a
  search that has still to write), and the events it was made for stay behind the one that
  carries it, on every list, because lists grow at one end only and by events that
  were on none of the kind before (`UnmarkedInv`, `Waiting`, `ListSteps`).
* `TriggersAvoidedOnSharedLists`: the sentence of `eventinfo.c:138` itself, where no composite
  rule looks at the shard's own events, by the same invariant: nobody then is under the
  other lock.
* `AppendList`, `TailList`, `SplitList`, `RemoveList` and `PickedList` say of the list operations
  which events they leave, and that they keep the order; `Greatest` counts the newest.

The inductive invariants were checked with TLC on the runs' instances before they were
proved. For the proofs some models were made stricter or simpler to reason about, without a
change of behaviour: types are stated for every variable, an unordered constant (`None`,
`NoMsg`, `Deleted`) is assumed to differ from what it stands beside, and removal from
execd's list is written with `RemoveFirstMatch`, from client.keys with `RemoveAt`.

Only model-checked:

* all liveness (`AllUndone`, `ShutdownEnds`, `MessagesLeave`, `MergedArrives`, the delivery and
  the return of calls): TLAPS has no rule for it here, nor for `ENABLED`.

## 5. Not modelled

Formatting, parsing, matching of regular expressions, cryptography and plain input
and output (section 1, `PROJECT.json` with reasons): the greater part of the source by
lines. Failing system calls are modelled where the code goes on after them (thread
creation, fork, a full queue, a missing file, a full disk); where it ends the process
they are a crash. Windows code is left out.

Hazards that were met while modelling and that no property covers:

* Not kept by the code, and seen in the models:
  - the row of a *new* file is written without a look at the result
    (`decoders/syscheck.c:1187`). With `"new"` in `Fails` TLC refutes
    `ImplementsBaseline`: the index points behind the end of the file, and the next
    change comments out the row another file has written there.
  - a report without attributes is stored without them (`fim_sum_keep_hashes` carries the
    hashes only), so that the next ones have nothing to be compared with: a change of them in
    between is not reported.
  - two reports of a file may be dealt with in the wrong order, as the syscheck threads
    share a queue (`pipeline.c:810`); `ImplementsBaseline` is about the order in which
    they are dealt with.
  - `_keep_alive` keeps the name of the agent that had the slot before a reload
    (`manager.c:115`).
  - merged.mg is overwritten in place: if the closing datagram alone is lost, the sum is
    current and the file is never unpacked (`receiver.c:186`). `MergedArrives` is
    about the file.
  - a response whose undo the shutdown cannot fork for is dropped from the list and stays in
    force (`execd.c:68`); so does one whose script was started but has no entry yet when the
    signal comes (`execd.c:449`): `AllUndone` leaves both out (`left`). A "delete"
    may start while its "add" runs (`execd.c:67`).
  - only a worker that ends clears the deferred end of the hour (`maild.c:735`): when
    the last one ends while the loop holds a slot whose thread cannot be created, the
    deferred SMS stays. An alert that do_not_group holds back is forgotten at SIGTERM
    (`maild.c:762`), the exception `DrainedAtExit` makes.
  - alerts that are queued at SIGTERM are freed unwritten (`pipeline.c:634`).
  - a thread of the pipeline that cannot be created is only logged (`pipeline.c:1383`,
    `pthreads_op.c:176`): nobody then serves its queue. The model has all threads.
  - a rids file that was recreated is remembered as inode 0 and taken for a foreign
    one at the next check (`msgs.c:324`); `AcceptedOnce` leaves removed files out.
* Without a defined outcome: a listener that calls the pool after it was freed
  (`remoted.c:132`), a signal handler that meets a half-changed list (`execd.c:57`), a
  second SIGTERM that locks a mutex twice (`pipeline.c:1044`), a database that
  `syscheck_control -u` empties under analysisd's index (`read-agents.c:1070`).
* In code that is not modelled yet: answers of an old server during a reconnection
  (`notify.c:78`), events of the hour before after the rollover
  (`analysisd_stages.c:156`), the accumulator's purge, which its time
  condition never asks for (`accumulator.c:346`).

## 6. Plan

1. `AgentConn`: servers, handshake, keep-alive, the lock of the collectors.
2. `HourRollover`, `Accumulator`: events out of order; expiry.
3. The containers of `src/shared/` against reference definitions.
