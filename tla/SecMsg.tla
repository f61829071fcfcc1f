------------------------------- MODULE SecMsg -------------------------------
(***************************************************************************)
(* The message counters of the secure channel (os_crypto/shared/msgs.c):   *)
(* agents number what they send, remoted accepts a message only when its   *)
(* number is above the last one it accepted from that agent.  Both sides   *)
(* keep their counters in files (queue/rids) and must pick them up again   *)
(* after a restart, after client.keys changed, and when the file was       *)
(* removed under them.                                                     *)
(*                                                                         *)
(* The channel is UDP: datagrams are lost, duplicated and reordered.       *)
(* Encryption, compression and checksums are left out: what the model      *)
(* carries has passed them.  verify_msg_id is 1, its default.              *)
(***************************************************************************)
EXTENDS Naturals, Sequences, FiniteSets

CONSTANTS Agents,
          LocalMax,        \* local_count rolls over past this (9997)
          Flush,           \* remoted.recv_counter_flush
          MaxSent,         \* bound: messages per agent
          MaxRestarts,     \* bound: ends of the remoted process
          MaxAgentRestarts,\* bound: crashes of each agent process
          MaxRemovals,     \* bound: removals of counter files
          MaxReloads,      \* bound: changes of client.keys
          Crashes,         \* remoted may end without its shutdown path
          NoMsg, None

(* A counter is the pair (global, local).                                  *)
Counters == Nat \X Nat
Zero == <<0, 0>>
Newer(c, d) == c[1] > d[1] \/ (c[1] = d[1] /\ c[2] > d[2])
Messages == Agents \X (0 .. MaxSent) \X (0 .. LocalMax + 1)

ASSUME SecMsgAssumption ==
    /\ LocalMax \in Nat \ {0} /\ Flush \in Nat \ {0}
    /\ {MaxSent, MaxRestarts, MaxAgentRestarts, MaxRemovals, MaxReloads} \subseteq Nat
    /\ Crashes \in BOOLEAN
    /\ None \notin Counters /\ NoMsg \notin Messages

VARIABLES
  (* an agent *)
  snd,          \* snd[a]: global_count:local_count of the process
  sfile,        \* sfile[a]: what the sender file says; None: no file
  shandle,      \* shandle[a]: sender_fp is the file that has the name
  sent,         \* sent[a]: counters of the messages created, in order
  (* the channel: every datagram that may still (or again) arrive *)
  net,
  (* remoted *)
  phase,        \* "up", "stopping" (shutdown requested), "stored", "down"
  inbox,        \* a message received and not yet checked
  mem,          \* mem[a]: global:local of the key entry
  inode,        \* inode[a]: which file the key entry believes is open
  fp,           \* fp[a]: which file is open
  file,         \* file[a]: the rids file: its inode (0: none) and counter
  rcv_count,
  (* history *)
  accepted,     \* accepted[m]: how often message m was accepted
  stored,       \* stored[a]: highest counter the rids file of a has held
  used          \* how often each bounded event happened

agentvars == <<snd, sfile, shandle, sent>>
memory == <<mem, inode, fp, rcv_count>>
history == <<accepted, stored>>
vars == <<agentvars, net, phase, inbox, memory, file, history, used>>

Msg(a, c) == <<a, c[1], c[2]>>
Number(m) == <<m[2], m[3]>>
Events == {"agent", "unlink", "remove", "restart", "reload"}
Uses(e, max) == used[e] < max /\ used' = [used EXCEPT ![e] = @ + 1]
Removes(e) == /\ used["unlink"] + used["remove"] < MaxRemovals
              /\ used' = [used EXCEPT ![e] = @ + 1]
Higher(c, d) == IF Newer(c, d) THEN c ELSE d

-----------------------------------------------------------------------------
(* The sending side: CreateSecMSG and sendto.                              *)

(* Mutant: the local counter starts again without moving the global one.   *)
AdvanceStays(c) == IF c[2] >= LocalMax THEN <<c[1], 1>> ELSE <<c[1], c[2] + 1>>

Advance(c) == IF c[2] >= LocalMax THEN <<c[1] + 1, 1>> ELSE <<c[1], c[2] + 1>>

(* Mutant: the counter of a missing file is taken to be zero.              *)
ReloadSenderZero(a) ==
    IF shandle[a] THEN snd[a] ELSE IF sfile[a] = None THEN Zero ELSE sfile[a]

(* ReloadSenderCounter: another file has the name: read it; a new one has  *)
(* no counter, and the one in memory goes on.                              *)
ReloadSender(a) ==
    IF shandle[a] \/ sfile[a] = None THEN snd[a] ELSE sfile[a]

(* The counter is stored before the message leaves.                        *)
CreateSecMSG(a) ==
    LET c == Advance(ReloadSender(a)) IN
    /\ Len(sent[a]) < MaxSent
    /\ snd' = [snd EXCEPT ![a] = c]
    /\ sfile' = [sfile EXCEPT ![a] = c]
    /\ shandle' = [shandle EXCEPT ![a] = TRUE]
    /\ sent' = [sent EXCEPT ![a] = Append(@, c)]
    /\ net' = net \cup {Msg(a, c)}
    /\ UNCHANGED <<phase, inbox, memory, file, history, used>>

(* The agent process ends at any moment and starts again: OS_StartCounter. *)
AgentRestart(a) ==
    /\ Uses("agent", MaxAgentRestarts)
    /\ snd' = [snd EXCEPT ![a] = IF sfile[a] = None THEN Zero ELSE sfile[a]]
    /\ shandle' = [shandle EXCEPT ![a] = TRUE]
    /\ UNCHANGED <<sfile, sent, net, phase, inbox, memory, file, history>>

(* The agent's sender file is removed while it runs.                       *)
RemoveSenderFile(a) ==
    /\ sfile[a] # None
    /\ Removes("unlink")
    /\ sfile' = [sfile EXCEPT ![a] = None]
    /\ shandle' = [shandle EXCEPT ![a] = FALSE]
    /\ UNCHANGED <<snd, sent, net, phase, inbox, memory, file, history>>

-----------------------------------------------------------------------------
(* The receiving side: remoted's secure listener, one thread.              *)

(* recvfrom.  The datagram stays in the channel: it may come again.        *)
Receive(m) ==
    /\ phase = "up" /\ inbox = NoMsg /\ m \in net
    /\ inbox' = m
    /\ UNCHANGED <<agentvars, net, phase, memory, file, history, used>>

(* The inode of a file created now: no earlier file has it.                *)
NewInode == used["remove"] + 1
Created(f) == IF f.ino = 0 THEN [ino |-> NewInode, c |-> None] ELSE f
Counter(f) == IF f.c = None THEN Zero ELSE f.c

(* What ReloadCounter makes of an entry: nothing if the file is the one    *)
(* remembered.  A missing file is created, and remembered as missing; the  *)
(* counter stays.  Another file is read.                                   *)
ReloadCounter(e, f) ==
    CASE e.inode = f.ino -> e
      [] e.inode # f.ino /\ f.ino = 0 -> [e EXCEPT !.inode = 0, !.fp = NewInode]
      [] OTHER -> [mem |-> Counter(f), inode |-> f.ino, fp |-> f.ino]

(* StoreCounter writes to the open file, whatever its name has become.     *)
StoreCounter(f, p, c) == IF p = f.ino THEN [f EXCEPT !.c = c] ELSE f

(* Mutant: an equal counter passes.                                        *)
FreshOrEqual(c, d) == c[1] > d[1] \/ (c[1] = d[1] /\ c[2] >= d[2])

(* Mutant: only the local part is compared.                                *)
FreshLocal(c, d) == c[2] > d[2]

Fresh(c, d) == Newer(c, d)

(* Mutant: one message too late.                                           *)
FlushLate == rcv_count > Flush

FlushDue == rcv_count >= Flush

NextCount == IF FlushDue THEN 1 ELSE rcv_count + 1

(* ReadSecMSG.  Every Flush accepted messages the one at hand has its file *)
(* checked and its counter stored.                                         *)
ReadSecMSG ==
    /\ inbox # NoMsg /\ phase # "down"
    /\ LET a == inbox[1]
           c == Number(inbox)
           flush == FlushDue
           e0 == [mem |-> mem[a], inode |-> inode[a], fp |-> fp[a]]
           e == IF flush THEN ReloadCounter(e0, file[a]) ELSE e0
           f == IF flush /\ inode[a] # file[a].ino THEN Created(file[a]) ELSE file[a]
       IN
       /\ inode' = [inode EXCEPT ![a] = e.inode]
       /\ fp' = [fp EXCEPT ![a] = e.fp]
       /\ \/ /\ Fresh(c, e.mem)
             /\ mem' = [mem EXCEPT ![a] = c]
             /\ accepted' = [accepted EXCEPT ![inbox] = @ + 1]
             /\ rcv_count' = NextCount
             /\ IF flush
                THEN file' = [file EXCEPT ![a] = StoreCounter(f, e.fp, c)]
                ELSE file' = [file EXCEPT ![a] = f]
          \/ /\ ~Fresh(c, e.mem)
             /\ mem' = [mem EXCEPT ![a] = e.mem]
             /\ file' = [file EXCEPT ![a] = f]
             /\ UNCHANGED <<rcv_count, accepted>>
       /\ stored' = [stored EXCEPT ![a] = Higher(Counter(file'[a]), @)]
    /\ inbox' = NoMsg
    /\ UNCHANGED <<agentvars, net, phase, used>>

(* OS_StoreAgentCounters: every key entry to its open file.                *)
AllStored == [a \in Agents |-> StoreCounter(file[a], fp[a], mem[a])]
Stores(files) ==
    /\ stored' = [a \in Agents |-> Higher(Counter(files[a]), stored[a])]

(* OS_StartCounter: open or create every file and take its counter.        *)
Starts(files) ==
    LET opened == [a \in Agents |-> Created(files[a])] IN
    /\ file' = opened
    /\ mem' = [a \in Agents |-> Counter(opened[a])]
    /\ inode' = [a \in Agents |-> opened[a].ino]
    /\ fp' = [a \in Agents |-> opened[a].ino]

(* Mutant: a reload of client.keys drops the entries without storing them. *)
UpdateKeysForgets ==
    /\ phase # "down" /\ Uses("reload", MaxReloads)
    /\ Starts(file)
    /\ UNCHANGED <<agentvars, net, phase, inbox, rcv_count, history>>

(* OS_UpdateKeys under the key write lock: store, free, read, start.       *)
OS_UpdateKeys ==
    /\ phase # "down" /\ Uses("reload", MaxReloads)
    /\ Stores(AllStored)
    /\ Starts(AllStored)
    /\ UNCHANGED <<agentvars, net, phase, inbox, rcv_count, accepted>>

(* SIGTERM closes the sockets; a datagram already read is still checked.   *)
remoted_request_shutdown ==
    /\ phase = "up" /\ Uses("restart", MaxRestarts)
    /\ phase' = "stopping"
    /\ UNCHANGED <<agentvars, net, inbox, memory, file, history>>

(* remoted_wait_for_shutdown stores the counters, then the process ends.   *)
remoted_wait_for_shutdown ==
    /\ phase = "stopping"
    /\ Stores(AllStored)
    /\ file' = AllStored
    /\ phase' = "stored"
    /\ UNCHANGED <<agentvars, net, inbox, memory, accepted, used>>

Exit == /\ phase = "stored"
        /\ phase' = "down" /\ inbox' = NoMsg
        /\ UNCHANGED <<agentvars, net, memory, file, history, used>>

Crash == /\ Crashes /\ phase # "down" /\ Uses("restart", MaxRestarts)
         /\ phase' = "down" /\ inbox' = NoMsg
         /\ UNCHANGED <<agentvars, net, memory, file, history>>

Start == /\ phase = "down"
         /\ phase' = "up"
         /\ Starts(file)
         /\ rcv_count' = 0
         /\ UNCHANGED <<agentvars, net, inbox, accepted, stored, used>>

(* An administrator removes an agent's rids file.                          *)
RemoveRidsFile(a) ==
    /\ file[a].ino # 0 /\ Removes("remove")
    /\ file' = [file EXCEPT ![a] = [ino |-> 0, c |-> None]]
    /\ stored' = [stored EXCEPT ![a] = Zero]
    /\ UNCHANGED <<agentvars, net, phase, inbox, memory, accepted>>

-----------------------------------------------------------------------------
Init == /\ snd = [a \in Agents |-> Zero]
        /\ sfile = [a \in Agents |-> None]
        /\ shandle = [a \in Agents |-> TRUE]
        /\ sent = [a \in Agents |-> <<>>]
        /\ net = {}
        /\ phase = "up" /\ inbox = NoMsg
        /\ mem = [a \in Agents |-> Zero]
        /\ inode = [a \in Agents |-> 1] /\ fp = [a \in Agents |-> 1]
        /\ file = [a \in Agents |-> [ino |-> 1, c |-> None]]
        /\ rcv_count = 0
        /\ accepted = [m \in Messages |-> 0]
        /\ stored = [a \in Agents |-> Zero]
        /\ used = [e \in Events |-> 0]

Sender(a) == CreateSecMSG(a) \/ AgentRestart(a) \/ RemoveSenderFile(a)

Remoted == \/ \E m \in net : Receive(m)
           \/ ReadSecMSG \/ OS_UpdateKeys
           \/ remoted_request_shutdown \/ remoted_wait_for_shutdown
           \/ Exit \/ Crash \/ Start

Next == Remoted \/ \E a \in Agents : Sender(a) \/ RemoveRidsFile(a)

Spec == Init /\ [][Next]_vars

-----------------------------------------------------------------------------
TypeOK ==
    /\ snd \in [Agents -> Counters] /\ mem \in [Agents -> Counters]
    /\ sfile \in [Agents -> Counters \cup {None}]
    /\ shandle \in [Agents -> BOOLEAN]
    /\ sent \in [Agents -> Seq(Counters)]
    /\ net \subseteq Messages /\ inbox \in Messages \cup {NoMsg}
    /\ phase \in {"up", "stopping", "stored", "down"}
    /\ inode \in [Agents -> Nat] /\ fp \in [Agents -> Nat]
    /\ file \in [Agents -> [ino : Nat, c : Counters \cup {None}]]
    /\ rcv_count \in 0 .. Flush
    /\ accepted \in [Messages -> Nat]
    /\ stored \in [Agents -> Counters]
    /\ used \in [Events -> Nat]

(* No datagram is accepted twice as long as the process runs on and its    *)
(* files are left alone: reloads of client.keys and checks of the files    *)
(* lose no counter.                                                        *)
AcceptedOnce == used["restart"] = 0 /\ used["remove"] = 0 =>
    \A m \in Messages : accepted[m] <= 1

(* What a rids file covered is not accepted again, whatever crashes,       *)
(* restarts and reloads came in between.                                   *)
StoredNeverReplayed == [][
    \A m \in Messages : accepted'[m] > accepted[m]
        => Newer(Number(m), stored[m[1]])]_vars

(* An agent never uses a number again, nor goes back.  (Removing its file  *)
(* and restarting it resets the numbering on purpose.)                     *)
SenderReset == used["unlink"] > 0 /\ used["agent"] > 0
SenderFresh == ~SenderReset => \A a \in Agents :
    \A n \in 2 .. Len(sent[a]) : Newer(sent[a][n], sent[a][n - 1])

(* An agent is never locked out: what it sends next is above what remoted  *)
(* has accepted from it, whatever either side went through.                *)
SenderAhead == ~SenderReset => \A a \in Agents :
    Newer(Advance(ReloadSender(a)), mem[a])
=============================================================================
