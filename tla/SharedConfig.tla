---------------------------- MODULE SharedConfig ----------------------------
(***************************************************************************)
(* How agents get the shared configuration.  An agent reports the checksum *)
(* of its merged.mg with every keep-alive.  remoted's secure listener      *)
(* leaves the report in the slot of the agent's key (save_controlmsg), the *)
(* manager thread sweeps the slots (wait_for_msgs) and sends the file, in  *)
(* parts, to an agent whose checksum differs; the agent writes the parts   *)
(* over its merged.mg and unpacks the file when the sum is right           *)
(* (receive_msg).                                                          *)
(*                                                                         *)
(* client.keys may change meanwhile: the listener reloads it when somebody *)
(* unknown sends, and the slots are numbered anew.  The key lock is held   *)
(* for reading by the manager while it sweeps and around each send.        *)
(*                                                                         *)
(* Datagrams get lost.  The replay check of the agent turns reordering and *)
(* repetition into loss (SecMsg), so a channel is a lossy FIFO.            *)
(***************************************************************************)
EXTENDS Naturals, Sequences, FiniteSets, SequencesExt

CONSTANTS Agents,
          KeyFile0,        \* client.keys at the start
          Parts,           \* datagrams it takes to send the contents
          MaxVersion,      \* bound: changes of the shared files
          MaxFaults,       \* bound: datagrams lost, agents restarted and
                           \* changes of client.keys, together
          NoAgent, NoMsg

ASSUME SharedConfigAssumption ==
    /\ IsFiniteSet(Agents) /\ NoAgent \notin Agents
    /\ KeyFile0 \in Seq(Agents) /\ IsInjective(KeyFile0)
    /\ Parts \in Nat \ {0}
    /\ {MaxVersion, MaxFaults} \subseteq Nat

VARIABLES
  (* remoted *)
  keyfile,      \* client.keys: the agents in their order
  keys,         \* the keystore: slot -> agent
  heard,        \* agents whose key entry has a recent rcvd
  _msg,         \* _msg[i]: the last report saved in slot i
  _keep_alive,  \* _keep_alive[i]: whose agent-info file slot i writes
  _changed,     \* slots with a report that was not taken up
  modified,     \* modified_agentid, 0 for none
  lis,          \* the message save_controlmsg is in the middle of, or NoMsg
  mgr,          \* the manager thread
  dir, ver,     \* version of the shared files, and of merged.mg and f_sum
  (* the agents *)
  rcv,          \* rcv[a]: the receiver of a
  used

slots == <<_msg, _keep_alive, _changed, modified>>
store == <<keyfile, keys, heard>>
vars == <<store, slots, lis, mgr, dir, ver, rcv, used>>

Slots == 1 .. Cardinality(Agents)
Versions == 0 .. MaxVersion

(* merged.mg is its parts; the checksum tells whole files apart, anything  *)
(* else differs from every announced sum ("x" when there is no file).      *)
Whole(v) == [k \in 1 .. Parts |-> <<v, k>>]
Bad == MaxVersion + 1
Sum(c) == IF \E v \in Versions : c = Whole(v)
          THEN CHOOSE v \in Versions : c = Whole(v) ELSE Bad

(* A control message: the start-up message or a report.                    *)
HC_STARTUP == MaxVersion + 2
Startup(a) == [from |-> a, sum |-> HC_STARTUP]
Report(a, s) == [from |-> a, sum |-> s]
Controls == [from : Agents, sum : Versions \cup {Bad, HC_STARTUP}]

(* What remoted sends: acknowledgement and file update.                    *)
Ack == <<"ack">>
Update(v) == <<"update", v>>
Part(v, k) == <<"part", v, k>>
Close == <<"close">>

(* The state of receiver.c: in start_agent or not, a file open or not, its *)
(* name known, the sum announced for it, what was written to merged.mg,    *)
(* and what was unpacked last.                                             *)
Receivers == [up : BOOLEAN, fp : BOOLEAN, file : BOOLEAN, file_sum : Versions \cup {Bad},
              merged : Seq(Versions \X (1 .. Parts)), conf : Seq(Versions \X (1 .. Parts))]
Started(m, c) == [up |-> FALSE, fp |-> FALSE, file |-> FALSE, file_sum |-> Bad,
                  merged |-> m, conf |-> c]

Fault == used < MaxFaults /\ used' = used + 1
Slot(a) == CHOOSE i \in DOMAIN keys : keys[i] = a

Init ==
    /\ keyfile = KeyFile0 /\ keys = KeyFile0 /\ heard = {}
    /\ _msg = [i \in Slots |-> NoMsg]
    /\ _keep_alive = [i \in Slots |-> NoAgent]
    /\ _changed = {} /\ modified = 0
    /\ lis = NoMsg
    /\ mgr = [pc |-> "top", i |-> 0, id |-> NoAgent, msg |-> NoMsg, idx |-> 0, k |-> 0]
    /\ dir = 0 /\ ver = 0
    /\ rcv = [a \in Agents |-> Started(<<>>, <<>>)]
    /\ used = 0

-----------------------------------------------------------------------------
(* The receiver of an agent: what it does with datagram d.                 *)

(* FILE_UPDATE_HEADER: the agent's file is overwritten in place.           *)
FileUpdate(r, v) == [r EXCEPT !.fp = TRUE, !.file = TRUE, !.file_sum = v, !.merged = <<>>]

(* Mutant: the file is unpacked whatever its sum.                          *)
FileCloseUnchecked(r) ==
    LET c == [r EXCEPT !.fp = FALSE, !.file = FALSE] IN
    IF r.file THEN [c EXCEPT !.conf = r.merged] ELSE c

(* FILE_CLOSE_HEADER: the file is unpacked, or removed when it is not the  *)
(* one announced.                                                          *)
FileClose(r) ==
    LET c == [r EXCEPT !.fp = FALSE, !.file = FALSE] IN
    IF ~r.file THEN c
    ELSE IF Sum(r.merged) = r.file_sum THEN [c EXCEPT !.conf = r.merged]
    ELSE [c EXCEPT !.merged = <<>>]

(* An acknowledgement leaves a file that is being received alone; contents *)
(* without an open file are dropped.  start_agent throws away everything   *)
(* but the acknowledgement it waits for.                                   *)
receive_msg(r, d) ==
    CASE d[1] = "ack" -> [r EXCEPT !.up = TRUE]
      [] d[1] # "ack" /\ ~r.up -> r
      [] d[1] = "update" /\ r.up -> FileUpdate(r, d[2])
      [] d[1] = "part" /\ r.up -> IF r.fp THEN [r EXCEPT !.merged = Append(@, <<d[2], d[3]>>)]
                                  ELSE r
      [] d[1] = "close" /\ r.up -> FileClose(r)

(* The datagram arrives or is lost.  That it arrives at once is no         *)
(* restriction: nobody looks at an agent between two datagrams but the     *)
(* agent itself, which reads all there is before it notifies again.        *)
Deliver(a, d) ==
    \/ rcv' = [rcv EXCEPT ![a] = receive_msg(@, d)] /\ UNCHANGED used
    \/ Fault /\ UNCHANGED rcv

(* send_msg reaches whoever has the slot now; it fails when the slot is    *)
(* gone or its agent was not heard of.                                     *)
Reachable(i) == i \in DOMAIN keys /\ keys[i] \in heard

-----------------------------------------------------------------------------
(* What an agent sends.  start_agent repeats the start-up message until it *)
(* is acknowledged.  run_notify reports the sum of what is on the disk; of *)
(* a file that is being written only a part may have got there (stdio).    *)
run_notify(a) ==
    IF ~rcv[a].up THEN {Startup(a)}
    ELSE {Report(a, s) : s \in {Sum(rcv[a].merged)} \cup (IF rcv[a].fp THEN {Bad} ELSE {})}

(* Mutant: a report that was stored already is not passed on.              *)
save_controlmsg_news_only(a) ==
    /\ lis = NoMsg /\ a \in Range(keys)
    /\ heard' = heard \cup {a}
    /\ Deliver(a, Ack)
    /\ \E m \in run_notify(a) :
         IF m = Startup(a) \/ _msg[Slot(a)] = m
         THEN UNCHANGED <<lis, _msg, _keep_alive>>
         ELSE /\ lis' = [slot |-> Slot(a), from |-> a]
              /\ _msg' = [_msg EXCEPT ![Slot(a)] = m]
              /\ _keep_alive' = [_keep_alive EXCEPT ![Slot(a)] = IF @ = NoAgent THEN a ELSE @]
    /\ UNCHANGED <<keyfile, keys, _changed, modified, mgr, dir, ver>>

(* The listener takes a control message in: the acknowledgement goes out,  *)
(* and a report is stored in the slot (the random tail of a keep-alive     *)
(* makes practically every one news).  A report that was under way for     *)
(* long is like one that waited in its slot.                               *)
save_controlmsg(a) ==
    /\ lis = NoMsg /\ a \in Range(keys)
    /\ heard' = heard \cup {a}
    /\ Deliver(a, Ack)
    /\ \E m \in run_notify(a) :
         IF m = Startup(a)
         THEN UNCHANGED <<lis, _msg, _keep_alive>>
         ELSE /\ lis' = [slot |-> Slot(a), from |-> a]
              /\ _msg' = [_msg EXCEPT ![Slot(a)] = m]
              /\ _keep_alive' = [_keep_alive EXCEPT ![Slot(a)] = IF @ = NoAgent THEN a ELSE @]
    /\ UNCHANGED <<keyfile, keys, _changed, modified, mgr, dir, ver>>

(* "Lock now to notify of change".                                         *)
save_controlmsg_notify ==
    /\ lis # NoMsg
    /\ lis' = NoMsg
    /\ _changed' = _changed \cup {lis.slot}
    /\ modified' = lis.slot
    /\ mgr' = IF mgr.pc = "asleep" THEN [mgr EXCEPT !.pc = "sweep", !.i = 1] ELSE mgr
    /\ UNCHANGED <<store, _msg, _keep_alive, dir, ver, rcv, used>>

(* Somebody unknown sends: nobody is served, but client.keys is looked at. *)
(* OS_UpdateKeys needs the write lock; rcvd is carried over by agent.      *)
HoldsKeys == mgr.pc = "sweep"
OS_UpdateKeys ==
    /\ lis = NoMsg /\ keyfile # keys /\ ~HoldsKeys
    /\ keys' = keyfile
    /\ heard' = heard \cap Range(keyfile)
    /\ UNCHANGED <<keyfile, slots, lis, mgr, dir, ver, rcv, used>>

(* manage_agents removes an agent, or adds one at the end of the file.     *)
ManageAgents ==
    /\ Fault
    /\ \/ \E i \in DOMAIN keyfile : keyfile' = RemoveAt(keyfile, i)
       \/ \E a \in Agents \ Range(keyfile) : keyfile' = Append(keyfile, a)
    /\ UNCHANGED <<keys, heard, slots, lis, mgr, dir, ver, rcv>>

-----------------------------------------------------------------------------
(* The manager thread.                                                     *)
ManagerStep(m) ==
    /\ mgr' = m
    /\ UNCHANGED <<store, _msg, _keep_alive, lis, dir>>

(* Every half hour the files are read again (c_files).  A mark is enough   *)
(* to start a sweep; without one it waits.                                 *)
wait_for_msgs ==
    /\ mgr.pc = "top"
    /\ ver' \in {ver, dir}
    /\ ManagerStep(IF modified = 0 THEN [mgr EXCEPT !.pc = "asleep"]
                   ELSE [mgr EXCEPT !.pc = "sweep", !.i = 1])
    /\ UNCHANGED <<_changed, modified, rcv, used>>

(* pthread_cond_wait may return without a signal; it is not in a loop.     *)
SpuriousWakeup ==
    /\ mgr.pc = "asleep"
    /\ ManagerStep([mgr EXCEPT !.pc = "sweep", !.i = 1])
    /\ UNCHANGED <<_changed, modified, ver, rcv, used>>

SweepEnds ==
    /\ mgr.pc = "sweep" /\ mgr.i > Len(keys)
    /\ ManagerStep([mgr EXCEPT !.pc = "top", !.i = 0])
    /\ UNCHANGED <<_changed, modified, ver, rcv, used>>

SweepSkips ==
    /\ mgr.pc = "sweep" /\ mgr.i <= Len(keys) /\ mgr.i \notin _changed
    /\ ManagerStep([mgr EXCEPT !.i = @ + 1])
    /\ UNCHANGED <<_changed, modified, ver, rcv, used>>

(* The report is copied and the agent of the slot remembered, by its id.   *)
SweepTakes ==
    /\ mgr.pc = "sweep" /\ mgr.i <= Len(keys) /\ mgr.i \in _changed
    /\ _changed' = _changed \ {mgr.i}
    /\ modified' = IF modified >= mgr.i THEN 0 ELSE modified
    /\ ManagerStep([mgr EXCEPT !.pc = "resolve", !.id = keys[mgr.i], !.msg = _msg[mgr.i]])
    /\ UNCHANGED <<ver, rcv, used>>

(* The slot the agent has now.                                             *)
Resolve ==
    /\ mgr.pc = "resolve"
    /\ ManagerStep(IF mgr.id \in Range(keys)
                   THEN [mgr EXCEPT !.pc = "read", !.idx = Slot(mgr.id)]
                   ELSE [mgr EXCEPT !.pc = "back"])
    /\ UNCHANGED <<_changed, modified, ver, rcv, used>>

(* Is there such an agent, and is its file another one?                    *)
read_controlmsg ==
    /\ mgr.pc = "read"
    /\ ManagerStep(IF mgr.idx <= Len(keys) /\ mgr.msg.sum # ver
                   THEN [mgr EXCEPT !.pc = "send", !.k = 0]
                   ELSE [mgr EXCEPT !.pc = "back"])
    /\ UNCHANGED <<_changed, modified, ver, rcv, used>>

FilePart(k) == IF k = 0 THEN Update(ver)
               ELSE IF k <= Parts THEN Part(ver, k) ELSE Close

(* One datagram of send_file_toagent under the key lock; a send that fails *)
(* ends the transfer.                                                      *)
send_file_toagent ==
    /\ mgr.pc = "send"
    /\ IF Reachable(mgr.idx)
       THEN /\ Deliver(keys[mgr.idx], FilePart(mgr.k))
            /\ ManagerStep(IF mgr.k > Parts THEN [mgr EXCEPT !.pc = "back"]
                           ELSE [mgr EXCEPT !.k = @ + 1])
       ELSE ManagerStep([mgr EXCEPT !.pc = "back"]) /\ UNCHANGED <<rcv, used>>
    /\ UNCHANGED <<_changed, modified, ver>>

(* The key lock is taken again and the sweep goes on, if the slot exists.  *)
SweepContinues ==
    /\ mgr.pc = "back"
    /\ ManagerStep([pc |-> IF mgr.i > Len(keys) THEN "top" ELSE "sweep",
                    i |-> IF mgr.i > Len(keys) THEN 0 ELSE mgr.i + 1,
                    id |-> NoAgent, msg |-> NoMsg, idx |-> 0, k |-> 0])
    /\ UNCHANGED <<_changed, modified, ver, rcv, used>>

SharedFilesChange ==
    /\ dir < MaxVersion
    /\ dir' = dir + 1
    /\ UNCHANGED <<store, slots, lis, mgr, ver, rcv, used>>

-----------------------------------------------------------------------------
(* The agent ends (exit writes out what stdio held) and starts again.      *)
AgentRestart(a) ==
    /\ Fault
    /\ rcv' = [rcv EXCEPT ![a] = Started(@.merged, @.conf)]
    /\ UNCHANGED <<store, slots, lis, mgr, dir, ver>>

(* The server has not answered for long: run_notify goes through           *)
(* start_agent again; a file that is open stays open.                      *)
Reconnect(a) ==
    /\ Fault /\ rcv[a].up
    /\ rcv' = [rcv EXCEPT ![a].up = FALSE]
    /\ UNCHANGED <<store, slots, lis, mgr, dir, ver>>

-----------------------------------------------------------------------------
Manager == \/ wait_for_msgs \/ SweepEnds \/ SweepSkips \/ SweepTakes
           \/ Resolve \/ read_controlmsg \/ send_file_toagent \/ SweepContinues

Next == \/ \E a \in Agents : save_controlmsg(a)
        \/ save_controlmsg_notify \/ OS_UpdateKeys
        \/ Manager \/ SpuriousWakeup
        \/ ManageAgents \/ SharedFilesChange
        \/ \E a \in Agents : AgentRestart(a) \/ Reconnect(a)

(* Threads run; agents go on notifying, and each one's datagram gets its   *)
(* turn at the listener's socket; the files are read again from time to    *)
(* time.                                                                   *)
Fairness == /\ \A a \in Agents : SF_vars(save_controlmsg(a))
            /\ WF_vars(save_controlmsg_notify) /\ WF_vars(Manager)
            /\ SF_vars(wait_for_msgs /\ ver' = dir)

Spec == Init /\ [][Next]_vars /\ Fairness

-----------------------------------------------------------------------------
TypeOK ==
    /\ keyfile \in Seq(Agents) /\ keys \in Seq(Agents) /\ heard \subseteq Agents
    /\ _msg \in [Slots -> Controls \cup {NoMsg}]
    /\ _keep_alive \in [Slots -> Agents \cup {NoAgent}]
    /\ _changed \subseteq Slots /\ modified \in Slots \cup {0}
    /\ lis \in [slot : Slots, from : Agents] \cup {NoMsg}
    /\ mgr \in [pc : {"top", "asleep", "sweep", "resolve", "read", "send", "back"},
                i : 0 .. Cardinality(Agents) + 1, id : Agents \cup {NoAgent},
                msg : Controls \cup {NoMsg}, idx : Slots \cup {0}, k : 0 .. Parts + 1]
    /\ dir \in Versions /\ ver \in Versions
    /\ rcv \in [Agents -> Receivers]

(* An agent unpacks whole files only: whatever parts of whichever transfer *)
(* were lost, and whoever else's parts got mixed in, what receive_msg      *)
(* unpacks is one version of merged.mg.                                    *)
UnpackedWhole == \A a \in Agents : rcv[a].conf = <<>> \/ \E v \in Versions : rcv[a].conf = Whole(v)

(* The configuration gets through: every agent with a key holds, again and *)
(* again, the current merged.mg, whatever was lost before.                 *)
MergedArrives == \A a \in Agents :
    []<>(a \in Range(keys) => rcv[a].merged = Whole(dir))

(* manager.c: "Re-resolve by agent ID after the unlocked window so a       *)
(* reload cannot send to a reshuffled slot": the file goes to the agent    *)
(* that was looked up.                                                     *)
SentToResolved == mgr.pc = "send" /\ Reachable(mgr.idx) => keys[mgr.idx] = mgr.id
=============================================================================
