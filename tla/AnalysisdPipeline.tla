------------------------- MODULE AnalysisdPipeline -------------------------
(***************************************************************************)
(* The multi-threaded event pipeline of analysisd (analysisd/pipeline.c)   *)
(* and the ownership of what travels through it: one receiver, demux       *)
(* workers, decoders per message type, one rule-matching thread per        *)
(* correlation shard, writers, and the main thread that shuts all of them  *)
(* down in stages.                                                         *)
(*                                                                         *)
(* The queues are the bounded FIFOs that OsQueue implements (BoundedFifo): *)
(* a blocked call is an action that is not enabled.  A timed push that may *)
(* soak and an immediate one differ only in how long they wait, so both    *)
(* are Push when there is room and Refused when there is none.             *)
(***************************************************************************)
EXTENDS Naturals, Sequences, FiniteSets, SequencesExt

CONSTANTS Msgs,            \* datagrams that may arrive, each once
          Types,           \* decode queues: event, syscheck, rootcheck, ...
          EventType,       \* the type of log events
          TypeOf,          \* TypeOf[m]: which decode queue m is routed to
          Shards,          \* rule-matching threads, one per shard
          ShardOf,         \* ShardOf[m]: the shard of m's location
          Demuxers,        \* input demux threads
          Decoders,        \* decode threads of all types
          DecoderType,     \* DecoderType[d]: the queue decoder d serves
          Matching,        \* messages that a rule may fire on
          Firewall,        \* messages that a firewall decoder matches
          Hourly,          \* messages at which Check_Hour may fire: none
                           \* without hourly statistics
          Capacity,        \* of every queue
          ListMax,         \* memory_size of the event lists
          Logfw, Logall,   \* configuration: firewall log, archive
          NoMsg

Recv == "recv"
Writers == {"alerts", "statistical", "archive", "firewall"}
Threads == {Recv} \cup Demuxers \cup Decoders \cup Shards \cup Writers
Queues == {"raw"} \cup Types \cup Shards \cup Writers

ASSUME PipelineAssumption ==
    /\ IsFiniteSet(Msgs) /\ NoMsg \notin Msgs
    /\ EventType \in Types
    /\ TypeOf \in [Msgs -> Types]
    /\ ShardOf \in [Msgs -> Shards]
    /\ DecoderType \in [Decoders -> Types]
    /\ Matching \subseteq Msgs /\ Firewall \subseteq Msgs /\ Hourly \subseteq Msgs
    /\ Capacity \in Nat \ {0}
    /\ ListMax \in Nat \ {0}
    /\ {Logfw, Logall} \subseteq BOOLEAN

(* The names given here to threads and queues tell them apart.             *)
ASSUME NamesApart ==
    /\ Recv \notin Demuxers \cup Decoders \cup Shards
    /\ Demuxers \cap (Decoders \cup Shards \cup Writers) = {}
    /\ Decoders \cap (Shards \cup Writers) = {}
    /\ "raw" \notin Types \cup Shards
    /\ Types \cap (Shards \cup Writers) = {}
    /\ Shards \cap Writers = {}

(* Every queue has a thread that pops from it: the configuration asks for  *)
(* one demux worker and one decoder of each type at least.                 *)
ASSUME StagesStaffed ==
    /\ Demuxers # {}
    /\ \A x \in Types : \E d \in Decoders : DecoderType[d] = x

(* What a datagram turns into: the received text, the live Eventinfo, and  *)
(* the deep copies made for the writers.                                   *)
Kinds == {"text", "event", "alert", "stat", "fw", "arch"}
Objects == Kinds \X Msgs
Text(m) == <<"text", m>>
Event(m) == <<"event", m>>

VARIABLES shutting_down,
          main,            \* stage of the main thread, see Stages
          join_failed,
          q,               \* q[x]: contents of queue x, oldest first
          down,            \* queues that os_queue_shutdown has closed
          pc,              \* pc[t]: where thread t is in its loop
          job,             \* job[t]: the datagram thread t works on
          hand,            \* hand[t]: the objects thread t has to dispose of
          list,            \* list[s]: the event list of shard s, oldest first
          arrived,         \* datagrams read from the socket
          born, freed,     \* objects allocated, and how often each was freed
          written,         \* objects that reached their log
          count,           \* the daemon's counters
          rejected         \* history: messages that a decoder gave up; the
                           \* daemon does not count them

flow == <<q, down>>
heap == <<list, born, freed>>
vars == <<shutting_down, main, join_failed, flow, pc, job, hand, heap,
          arrived, written, count, rejected>>

Counters == {"received", "dropped", "shard_dropped", "decoded", "processed",
             "alerts_written", "alerts_dropped",
             "archives_written", "archives_dropped", "firewall_written"}

(* The queue a thread pops from.                                           *)
Input(t) == CASE t \in Demuxers -> "raw"
              [] t \in Decoders -> DecoderType[t]
              [] OTHER -> t          \* shards and writers name their queue

Room(x) == x \notin down /\ Len(q[x]) < Capacity
Put(x, o) == q' = [q EXCEPT ![x] = Append(@, o)]
Inc(c) == count' = [count EXCEPT ![c] = @ + 1]
Inc2(c, d) == count' = [count EXCEPT ![c] = @ + 1, ![d] = @ + 1]
Goto(t, p) == pc' = [pc EXCEPT ![t] = p]
Holds(t, O) == hand' = [hand EXCEPT ![t] = O]
Free(O) == freed' = [o \in Objects |-> IF o \in O THEN freed[o] + 1 ELSE freed[o]]
Allocate(o) == born' = born \cup {o}

(* Back to the head of the loop: while (!analysisd_shutting_down).         *)
Top(t) == /\ Goto(t, IF shutting_down THEN "exited" ELSE "pop")
          /\ job' = [job EXCEPT ![t] = NoMsg]
          /\ hand' = [hand EXCEPT ![t] = {}]

(* The queues are destroyed at stage 8, and the process is gone.           *)
Alive == main < 8
control == <<shutting_down, main, join_failed>>

-----------------------------------------------------------------------------
(* os_queue_pop_ex returned an item ...                                    *)
Pop(t) ==
    /\ Alive /\ t # Recv /\ pc[t] = "pop"
    /\ q[Input(t)] # <<>>
    /\ LET o == Head(q[Input(t)]) IN
         /\ q' = [q EXCEPT ![Input(t)] = Tail(@)]
         /\ job' = [job EXCEPT ![t] = o[2]]
         /\ Holds(t, {o})
    /\ Goto(t, "work")
    /\ UNCHANGED <<control, down, heap, arrived, rejected, written, count>>

(* ... or NULL: the queue was shut down and is empty.                      *)
PopNull(t) ==
    /\ Alive /\ t # Recv /\ pc[t] = "pop"
    /\ q[Input(t)] = <<>> /\ Input(t) \in down
    /\ Goto(t, "exited")
    /\ UNCHANGED <<control, flow, job, hand, heap, arrived, rejected,
                   written, count>>

-----------------------------------------------------------------------------
(* analysisd_input_recv_thread: poll, then read one datagram; a last one   *)
(* may be read while the shutdown closes the descriptor.                   *)
Receive(m) ==
    /\ Alive /\ pc[Recv] = "pop" /\ m \notin arrived
    /\ arrived' = arrived \cup {m}
    /\ Allocate(Text(m))
    /\ job' = [job EXCEPT ![Recv] = m]
    /\ Holds(Recv, {Text(m)})
    /\ Inc("received")
    /\ Goto(Recv, "work")
    /\ UNCHANGED <<control, flow, list, freed, written, rejected>>

(* The descriptor is closed.  (A poll without a message changes nothing.)  *)
ReceiveClosed ==
    /\ Alive /\ pc[Recv] = "pop"
    /\ shutting_down
    /\ Top(Recv)
    /\ UNCHANGED <<control, flow, heap, arrived, rejected, written, count>>

(* Mutant: the buffer of a message that found no room is not freed.        *)
ForwardLeaks(t, x) ==
    /\ Alive /\ pc[t] = "work"
    /\ \/ /\ Room(x)
          /\ Put(x, Text(job[t]))
          /\ UNCHANGED <<freed, count>>
       \/ /\ ~Room(x)
          /\ Inc("dropped")
          /\ UNCHANGED <<q, freed>>
    /\ Top(t)
    /\ UNCHANGED <<control, down, list, born, arrived, rejected, written>>

(* Mutant: a message that found no room is not counted.                    *)
ForwardUncounted(t, x) ==
    /\ Alive /\ pc[t] = "work"
    /\ \/ /\ Room(x)
          /\ Put(x, Text(job[t]))
          /\ UNCHANGED <<freed, count>>
       \/ /\ ~Room(x)
          /\ Free({Text(job[t])})
          /\ UNCHANGED <<q, count>>
    /\ Top(t)
    /\ UNCHANGED <<control, down, list, born, arrived, rejected, written>>

(* Receiver and demux workers hand the text on, or free and count it.      *)
Forward(t, x) ==
    /\ Alive /\ pc[t] = "work"
    /\ \/ /\ Room(x)
          /\ Put(x, Text(job[t]))
          /\ UNCHANGED <<freed, count>>
       \/ /\ ~Room(x)
          /\ Free({Text(job[t])})
          /\ Inc("dropped")
          /\ UNCHANGED q
    /\ Top(t)
    /\ UNCHANGED <<control, down, list, born, arrived, rejected, written>>

PushRaw == Forward(Recv, "raw")
Demux(d) == Forward(d, TypeOf[job[d]])

-----------------------------------------------------------------------------
(* Decode workers: the text is released, the event takes its place.        *)

(* A firewall decoder matched the event, and logfw is on.                  *)
ToFirewallLog(d) == Logfw /\ DecoderType[d] = EventType /\ job[d] \in Firewall

(* OS_CleanMSG_ex or the decoder gave up on it, or it is an incomplete     *)
(* firewall event: nothing is passed on, and nothing is counted.           *)
DecodeRejects(d) ==
    /\ Alive /\ d \in Decoders /\ pc[d] = "work"
    /\ Allocate(Event(job[d]))
    /\ Free({Text(job[d]), Event(job[d])})
    /\ rejected' = rejected \cup {job[d]}
    /\ Top(d)
    /\ UNCHANGED <<control, flow, list, arrived, written, count>>

Decode(d) ==
    /\ Alive /\ d \in Decoders /\ pc[d] = "work" /\ ~ToFirewallLog(d)
    /\ Allocate(Event(job[d]))
    /\ Free({Text(job[d])})
    /\ Holds(d, {Event(job[d])})
    /\ Inc("decoded")
    /\ Goto(d, "push")
    /\ UNCHANGED <<control, flow, job, list, arrived, rejected, written>>

(* A firewall event is copied for the firewall log.                        *)
DecodeFirewall(d) ==
    /\ Alive /\ d \in Decoders /\ pc[d] = "work"
    /\ ToFirewallLog(d)
    /\ born' = born \cup {Event(job[d]), <<"fw", job[d]>>}
    /\ Free({Text(job[d])})
    /\ Holds(d, {Event(job[d]), <<"fw", job[d]>>})
    /\ Goto(d, "fw")
    /\ UNCHANGED <<control, flow, job, list, arrived, rejected, written,
                   count>>

(* os_queue_push_ex_block: waits for room; fails only on a closed queue,   *)
(* and then the decoder logs the live event itself.                        *)
FirewallPush(d) ==
    /\ Alive /\ pc[d] = "fw"
    /\ \/ /\ Room("firewall")
          /\ Put("firewall", <<"fw", job[d]>>)
          /\ UNCHANGED <<freed, written>>
       \/ /\ "firewall" \in down
          /\ Free({<<"fw", job[d]>>})
          /\ written' = written \cup {<<"fw", job[d]>>}
          /\ UNCHANGED q
    /\ Holds(d, {Event(job[d])})
    /\ Inc("decoded")
    /\ Goto(d, "push")
    /\ UNCHANGED <<control, down, job, list, born, arrived, rejected>>

(* analysisd_push_decoded: to the shard of the event's location.  A drop   *)
(* during shutdown is not counted.                                         *)
analysisd_push_decoded(d) ==
    /\ Alive /\ pc[d] = "push"
    /\ LET s == ShardOf[job[d]] IN
         \/ /\ Room(s)
            /\ Put(s, Event(job[d]))
            /\ UNCHANGED <<freed, count>>
         \/ /\ ~Room(s)
            /\ Free({Event(job[d])})
            /\ IF shutting_down THEN UNCHANGED count
               ELSE Inc2("shard_dropped", "dropped")
            /\ UNCHANGED q
    /\ Top(d)
    /\ UNCHANGED <<control, down, list, born, arrived, rejected, written>>

-----------------------------------------------------------------------------
(* Rule-matching threads: analysisd_analyze_event, then the release.       *)

(* What the rules make of the event is up to them: it ends there (flood    *)
(* window, no decoder); Check_Hour fires; a rule logs an alert, or fires   *)
(* without a log; or none does (no match, level 0, ignored).               *)

(* Mutant: an alert that is refused during shutdown is not counted.        *)
EnqueueUncounted(s, o, w) ==
    /\ Allocate(o)
    /\ \/ /\ Room(w)
          /\ Put(w, o)
          /\ UNCHANGED <<freed, written, count>>
       \/ /\ ~Room(w) /\ ~shutting_down
          /\ Free({o})
          /\ written' = written \cup {o}
          /\ Inc("alerts_written")
          /\ UNCHANGED q
       \/ /\ ~Room(w) /\ shutting_down
          /\ Free({o})
          /\ UNCHANGED <<q, written, count>>

(* analysisd_enqueue_alert and analysisd_enqueue_statistical with their    *)
(* callers: queue the copy; without room write it here, or, during the     *)
(* shutdown, hand it back to the caller, which drops it.                   *)
Enqueue(s, o, w) ==
    /\ Allocate(o)
    /\ \/ /\ Room(w)
          /\ Put(w, o)
          /\ UNCHANGED <<freed, written, count>>
       \/ /\ ~Room(w) /\ ~shutting_down
          /\ Free({o})
          /\ written' = written \cup {o}
          /\ Inc("alerts_written")
          /\ UNCHANGED q
       \/ /\ ~Room(w) /\ shutting_down
          /\ Free({o})
          /\ Inc("alerts_dropped")
          /\ UNCHANGED <<q, written>>

StatAlert(s) ==
    /\ Alive /\ s \in Shards /\ pc[s] = "work"
    /\ job[s] \in Hourly
    /\ Enqueue(s, <<"stat", job[s]>>, "statistical")
    /\ Goto(s, "checked")
    /\ UNCHANGED <<control, down, job, hand, list, arrived, rejected>>

RuleAlert(s) ==
    /\ Alive /\ s \in Shards /\ pc[s] \in {"work", "checked"}
    /\ job[s] \in Matching
    /\ Enqueue(s, <<"alert", job[s]>>, "alerts")
    /\ Goto(s, "logged")
    /\ UNCHANGED <<control, down, job, hand, list, arrived, rejected>>

(* Mutant: the eviction starts at the young end of the list.               *)
AddEventEvictsNewest(s) ==
    /\ Alive /\ s \in Shards /\ pc[s] \in {"work", "checked", "logged"}
    /\ job[s] \in Matching
    /\ LET l == Append(list[s], Event(job[s])) IN
         IF Len(l) <= ListMax
         THEN list' = [list EXCEPT ![s] = l] /\ UNCHANGED freed
         ELSE /\ list' = [list EXCEPT ![s] = Front(l)]
              /\ Free({Last(l)})
    /\ Holds(s, {})
    /\ Goto(s, "kept")
    /\ UNCHANGED <<control, flow, job, born, arrived, rejected, written,
                   count>>

(* OS_AddEvent: the shard's list owns the event from now on.  Over         *)
(* memory_size the oldest go, ten and those past the correlation window;   *)
(* the list is far longer than ten, so never the event just added.         *)
OS_AddEvent(s) ==
    /\ Alive /\ s \in Shards /\ pc[s] \in {"work", "checked", "logged"}
    /\ job[s] \in Matching
    /\ LET l == Append(list[s], Event(job[s])) IN
         IF Len(l) <= ListMax
         THEN list' = [list EXCEPT ![s] = l] /\ UNCHANGED freed
         ELSE \E k \in 1 .. (Len(l) - 1) :
                /\ list' = [list EXCEPT ![s] = SubSeq(l, k + 1, Len(l))]
                /\ Free(ToSet(SubSeq(l, 1, k)))
    /\ Holds(s, {})
    /\ Goto(s, "kept")
    /\ UNCHANGED <<control, flow, job, born, arrived, rejected, written,
                   count>>

(* Mutant: the thread keeps the event it has handed over.                  *)
ArchiveLiveKept(s) ==
    /\ Alive /\ s \in Shards /\ pc[s] \in {"work", "checked"} /\ Logall
    /\ \/ /\ Room("archive")
          /\ Put("archive", Event(job[s]))
          /\ UNCHANGED count
       \/ /\ ~Room("archive")
          /\ Inc("archives_dropped")
          /\ UNCHANGED q
    /\ Goto(s, "archived")
    /\ UNCHANGED <<control, down, job, hand, heap, arrived, rejected,
                   written>>

(* logall: an event that the list does not own is itself handed to the     *)
(* archive writer, one that it owns is copied.                             *)
ArchiveLive(s) ==
    /\ Alive /\ s \in Shards /\ pc[s] \in {"work", "checked"} /\ Logall
    /\ \/ /\ Room("archive")
          /\ Put("archive", Event(job[s]))
          /\ Holds(s, {})
          /\ UNCHANGED count
       \/ /\ ~Room("archive")
          /\ Inc("archives_dropped")
          /\ UNCHANGED <<q, hand>>
    /\ Goto(s, "archived")
    /\ UNCHANGED <<control, down, job, heap, arrived, rejected, written>>

ArchiveCopy(s) ==
    /\ Alive /\ s \in Shards /\ pc[s] = "kept" /\ Logall
    /\ LET o == <<"arch", job[s]>> IN
         /\ Allocate(o)
         /\ \/ /\ Room("archive")
               /\ Put("archive", o)
               /\ UNCHANGED <<freed, count>>
            \/ /\ ~Room("archive")
               /\ Free({o})
               /\ Inc("archives_dropped")
               /\ UNCHANGED q
    /\ Goto(s, "archived")
    /\ UNCHANGED <<control, down, job, hand, list, arrived, rejected,
                   written>>

(* processed_events, then analysisd_finish_event unless it was handed on.  *)
Finish(s) ==
    /\ Alive /\ s \in Shards
    /\ pc[s] \in {"work", "archived"} \cup (IF Logall THEN {} ELSE {"checked", "kept"})
    /\ Free(hand[s])
    /\ Inc("processed")
    /\ Top(s)
    /\ UNCHANGED <<control, flow, list, born, arrived, rejected, written>>

Process(s) == \/ StatAlert(s) \/ RuleAlert(s) \/ OS_AddEvent(s)
              \/ ArchiveLive(s) \/ ArchiveCopy(s) \/ Finish(s)

-----------------------------------------------------------------------------
(* Writers: log the item, release it, count it.                            *)
WriterCounter(w) == CASE w = "archive" -> "archives_written"
                      [] w = "firewall" -> "firewall_written"
                      [] OTHER -> "alerts_written"

(* Mutant: an item that cannot be written is queued again.                 *)
WriteRetries(w) ==
    /\ Alive /\ w \in Writers /\ pc[w] = "work"
    /\ \/ /\ written' = written \cup hand[w]
          /\ Free(hand[w])
          /\ Inc(WriterCounter(w))
          /\ UNCHANGED q
       \/ \E o \in hand[w] : /\ Room(w) /\ Put(w, o)
                            /\ UNCHANGED <<written, freed, count>>
    /\ Top(w)
    /\ UNCHANGED <<control, down, list, born, arrived, rejected>>

Write(w) ==
    /\ Alive /\ w \in Writers /\ pc[w] = "work"
    /\ written' = written \cup hand[w]
    /\ Free(hand[w])
    /\ Inc(WriterCounter(w))
    /\ Top(w)
    /\ UNCHANGED <<control, flow, list, born, arrived, rejected>>

-----------------------------------------------------------------------------
(* The main thread: SIGTERM, then analysisd_pipeline_shutdown.             *)

RequestShutdown ==
    /\ main = 0
    /\ shutting_down' = TRUE
    /\ main' = 1
    /\ UNCHANGED <<join_failed, flow, pc, job, hand, heap, arrived,
                   rejected, written, count>>

(* Mutant: the shards are closed together with the decode queues.          *)
EarlyStages == << [join |-> {Recv},    close |-> {"raw"}],
                  [join |-> Demuxers,  close |-> Types \cup Shards],
                  [join |-> Decoders,  close |-> {}],
                  [join |-> Shards,    close |-> Writers],
                  [join |-> Writers,   close |-> {}] >>

(* Mutant: the shards' queues are closed a stage too late.                 *)
LateStages == << [join |-> {Recv},    close |-> {"raw"}],
                 [join |-> Demuxers,  close |-> Types],
                 [join |-> Decoders,  close |-> {}],
                 [join |-> Shards,    close |-> Shards \cup Writers],
                 [join |-> Writers,   close |-> {}] >>

(* Stages 1 to 5: join the threads of one stage, then close the queues of  *)
(* the next.  6 drains what is left, 7 destroys lists and queues.          *)
Stages == << [join |-> {Recv},    close |-> {"raw"}],
             [join |-> Demuxers,  close |-> Types],
             [join |-> Decoders,  close |-> Shards],
             [join |-> Shards,    close |-> Writers],
             [join |-> Writers,   close |-> {}] >>

JoinStage ==
    /\ main \in 1 .. 5
    /\ \A t \in Stages[main].join : pc[t] = "exited"
    /\ down' = down \cup Stages[main].close
    /\ main' = main + 1
    /\ UNCHANGED <<shutting_down, join_failed, q, pc, job, hand, heap,
                   arrived, rejected, written, count>>

(* A decoder that waits for room it will not get: the writer has left, and *)
(* the queue is not closed.  No other thread fails to leave its loop.      *)
Stuck(t) == /\ pc[t] = "fw" /\ ~Room("firewall")
            /\ pc["firewall"] = "exited" /\ "firewall" \notin down

(* Mutant: pthread_join without a limit.                                   *)
JoinForever == FALSE /\ UNCHANGED vars

(* analysisd_join_thread gives up after ANALYSISD_SHUTDOWN_TIMEOUT, which  *)
(* is taken to be long enough for every thread that is not stuck.          *)
JoinTimeout ==
    /\ main \in 1 .. 5
    /\ \E t \in Stages[main].join : Stuck(t)
    /\ \A t \in Stages[main].join : pc[t] = "exited" \/ Stuck(t)
    /\ join_failed' = TRUE
    /\ down' = down \cup Stages[main].close
    /\ main' = main + 1
    /\ UNCHANGED <<shutting_down, q, pc, job, hand, heap, arrived,
                   rejected, written, count>>

Queued == UNION {ToSet(q[x]) : x \in Queues}
Listed == UNION {ToSet(list[s]) : s \in Shards}

analysisd_drain_queues ==
    /\ main = 6
    /\ Free(Queued)
    /\ q' = [x \in Queues |-> <<>>]
    /\ main' = 7
    /\ UNCHANGED <<shutting_down, join_failed, down, pc, job, hand, list,
                   born,
                   arrived, rejected, written, count>>

(* The event lists and the queues go; _exit(1) after a failed join.        *)
DestroyAll ==
    /\ main = 7
    /\ Free(Listed)
    /\ list' = [s \in Shards |-> <<>>]
    /\ main' = 8
    /\ UNCHANGED <<shutting_down, join_failed, flow, pc, job, hand, born,
                   arrived, rejected, written, count>>

Main == JoinStage \/ JoinTimeout \/ analysisd_drain_queues \/ DestroyAll

Terminated == ~Alive /\ UNCHANGED vars

-----------------------------------------------------------------------------
Init == /\ shutting_down = FALSE /\ main = 0 /\ join_failed = FALSE
        /\ q = [x \in Queues |-> <<>>]
        /\ down = {}
        /\ pc = [t \in Threads |-> "pop"]
        /\ job = [t \in Threads |-> NoMsg]
        /\ hand = [t \in Threads |-> {}]
        /\ list = [s \in Shards |-> <<>>]
        /\ arrived = {} /\ born = {} /\ written = {}
        /\ freed = [o \in Objects |-> 0]
        /\ count = [c \in Counters |-> 0]
        /\ rejected = {}

Receiver == ReceiveClosed \/ PushRaw \/ \E m \in Msgs : Receive(m)
Decoder(d) == \/ DecodeRejects(d) \/ Decode(d) \/ DecodeFirewall(d)
              \/ FirewallPush(d) \/ analysisd_push_decoded(d)

(* One step of thread t.                                                   *)
Step(t) == \/ Pop(t) \/ PopNull(t)
           \/ t = Recv /\ Receiver
           \/ t \in Demuxers /\ Demux(t)
           \/ t \in Decoders /\ Decoder(t)
           \/ t \in Shards /\ Process(t)
           \/ t \in Writers /\ Write(t)

Next == (\E t \in Threads : Step(t)) \/ RequestShutdown \/ Main \/ Terminated

Spec == Init /\ [][Next]_vars

(* The kernel runs every thread that can run.  Nothing makes messages      *)
(* arrive or the operator stop the daemon: of the receiver, fairness takes *)
(* in only what it does with a message it has, and its end.                *)
FairSpec == /\ Spec
            /\ WF_vars(PushRaw \/ ReceiveClosed)
            /\ \A t \in Threads \ {Recv} : WF_vars(Step(t))
            /\ WF_vars(Main)

-----------------------------------------------------------------------------
StateOK ==
    /\ shutting_down \in BOOLEAN /\ main \in 0 .. 8 /\ join_failed \in BOOLEAN
    /\ q \in [Queues -> Seq(Objects)] /\ \A x \in Queues : Len(q[x]) <= Capacity
    /\ down \subseteq Queues
    /\ pc \in [Threads -> {"pop", "work", "fw", "push", "checked", "logged",
                           "kept", "archived", "exited"}]
    /\ job \in [Threads -> Msgs \cup {NoMsg}]
    /\ hand \in [Threads -> SUBSET Objects]
    /\ list \in [Shards -> Seq(Objects)] /\ \A s \in Shards : Len(list[s]) <= ListMax
    /\ arrived \subseteq Msgs
    /\ born \subseteq Objects /\ written \subseteq born
    /\ freed \in [Objects -> 0 .. 1]
    /\ count \in [Counters -> Nat]
TypeOK == StateOK /\ rejected \subseteq Msgs    \* the history, too

(* Every buffer and Eventinfo that is alive has exactly one owner: a       *)
(* queue, a thread that still has to dispose of it, or an event list.      *)
(* What is freed is nowhere, and nothing is freed twice.                   *)
Owners(o) == Cardinality({x \in Queues : o \in ToSet(q[x])})
             + Cardinality({t \in Threads : o \in hand[t]})
             + Cardinality({s \in Shards : o \in ToSet(list[s])})
OneOwner == \A o \in Objects :
    Owners(o) = IF o \in born /\ freed[o] = 0 THEN 1 ELSE 0

(* A rule-matching thread never reads an event that was freed behind its   *)
(* back, by the list it was added to or by the writer it went to.          *)
EventLiveWhileUsed == \A s \in Shards :
    pc[s] \in {"work", "checked", "logged", "kept"}
        => freed[Event(job[s])] = 0

(* Until the shutdown the counters that the state file shows account for   *)
(* every datagram: one that was decoded is processed, dropped at its       *)
(* shard's queue, or between the two; and one that was received is dropped *)
(* somewhere, processed, still on its way, or was given up by a decoder -- *)
(* the only way to get lost that no counter shows.                         *)
Carried(X, T) == {m \in Msgs : \/ \E x \in X : \E o \in ToSet(q[x]) : o[2] = m
                              \/ \E t \in T : job[t] = m}
InFlight == Carried(Queues \ Writers, Threads \ Writers)
DecodedInFlight == Carried(Shards, Shards \cup {d \in Decoders : pc[d] = "push"})
MessagesAccounted == ~shutting_down =>
    /\ count["decoded"] = count["shard_dropped"] + count["processed"]
                            + Cardinality(DecodedInFlight)
    /\ count["received"] = count["dropped"] + count["processed"]
                             + Cardinality(InFlight) + Cardinality(rejected)

(* Every alert that was raised is written, counted as dropped, or with the *)
(* writers: until the queues are drained.                                  *)
Alerts(O) == {o \in O : o[1] \in {"alert", "stat"}}
AlertsAccounted == main <= 6 =>
    Cardinality(Alerts(born)) =
        count["alerts_written"] + count["alerts_dropped"]
        + Cardinality(Alerts(Queued)) + Cardinality(Alerts(hand["alerts"] \cup hand["statistical"]))

(* A queue is closed only when nobody can push to it any more, so that no  *)
(* stage has its output refused because the next one is being stopped.     *)
Feeds(t, x) == \/ t = Recv /\ x = "raw"
               \/ t \in Demuxers /\ x \in Types
               \/ t \in Decoders /\ x \in Shards \cup {"firewall"}
               \/ t \in Shards /\ x \in Writers
ClosedAfterFeeders == ~join_failed =>
    \A x \in down, t \in Threads : Feeds(t, x) => pc[t] = "exited"

(* A thread that cannot go on: it has left, or waits for a datagram, for   *)
(* an item, or for room in the firewall queue; and the main thread: nobody *)
(* asked it to stop, all is over, or it waits for a thread to leave.       *)
Waits(t) ==
    \/ pc[t] = "exited"
    \/ t = Recv /\ pc[t] = "pop" /\ ~shutting_down
    \/ t # Recv /\ pc[t] = "pop" /\ q[Input(t)] = <<>> /\ Input(t) \notin down
    \/ pc[t] = "fw" /\ ~Room("firewall") /\ "firewall" \notin down
MainWaits ==
    \/ main \in {0, 8}
    \/ main \in 1 .. 5 /\ \E t \in Stages[main].join : pc[t] # "exited" /\ ~Stuck(t)

(* Nobody waits for ever: when all threads wait, then the pipeline is      *)
(* empty, or the main thread goes on with the shutdown.                    *)
NoGridlock == Alive /\ (\A t \in Threads : Waits(t)) =>
    IF shutting_down THEN ~MainWaits
    ELSE (\A x \in Queues : q[x] = <<>>) /\ (\A t \in Threads : hand[t] = {})

(* How far an object has come, and a thread in its loop.                   *)
Station(o) ==
    CASE o \in hand[Recv] -> 1
      [] o \in ToSet(q["raw"]) -> 2
      [] \E t \in Demuxers : o \in hand[t] -> 3
      [] \E x \in Types : o \in ToSet(q[x]) -> 4
      [] \E t \in Decoders : o \in hand[t] -> 5
      [] \E x \in Shards : o \in ToSet(q[x]) -> 6
      [] \E t \in Shards : o \in hand[t] -> 7
      [] \E t \in Writers : o \in hand[t] -> 9
      [] OTHER -> 8    \* in a writer's queue or an event list
Position(o) == CASE o \notin born -> 0
                 [] o \in born /\ freed[o] = 0 -> Station(o)
                 [] OTHER -> 10
Turn(p) == CASE p = "work" -> 0 [] p \in {"fw", "checked"} -> 1 [] p \in {"push", "logged"} -> 2
             [] p = "kept" -> 3 [] p = "archived" -> 4 [] p = "pop" -> 5 [] p = "exited" -> 6

(* Nothing is handed back to an earlier stage, and no thread works in      *)
(* vain: its steps take an object further, or, where they move none, the   *)
(* thread itself towards the end of its loop.  So without new datagrams    *)
(* all comes to rest.                                                      *)
MovesOn == [][
    /\ \A o \in born : Position(o)' >= Position(o)
    /\ \/ \E o \in Objects : Position(o)' > Position(o)
       \/ \A t \in Threads : Step(t) =>
            /\ Turn(pc'[t]) > Turn(pc[t])
            /\ \A u \in Threads \ {t} : pc'[u] = pc[u]
    ]_vars

(* Every datagram leaves the pipeline: when no more arrive, in the end all *)
(* texts are freed, and events freed or kept in an event list; or the      *)
(* process ends.                                                           *)
Left(m) == /\ freed[Text(m)] = 1
           /\ Event(m) \in born => freed[Event(m)] = 1 \/ Event(m) \in Listed
MessagesLeave == <>[](Alive => \A m \in arrived : Left(m))

(* A requested shutdown ends, with threads that hang too.                  *)
ShutdownEnds == shutting_down ~> ~Alive
=============================================================================
