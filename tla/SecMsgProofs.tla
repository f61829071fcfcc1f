---------------------------- MODULE SecMsgProofs ----------------------------
(***************************************************************************)
(* Proofs about the counters of the secure channel (SecMsg), for every set *)
(* of agents, every roll-over and flush limit and every number of crashes, *)
(* restarts, reloads and removed files; and, in the last section, about    *)
(* the shared configuration that travels over it (SharedConfig).           *)
(***************************************************************************)
EXTENDS SecMsg, TLAPS, FiniteSetTheorems, SequenceTheorems

-----------------------------------------------------------------------------
(* The order on counters.                                                  *)

LEMMA Constants ==
  /\ LocalMax \in Nat /\ LocalMax >= 1 /\ Flush \in Nat /\ Flush >= 1
  /\ MaxSent \in Nat
  /\ None \notin Counters /\ NoMsg \notin Messages
  BY SecMsgAssumption

LEMMA ZeroLeast ==
  Zero \in Counters /\ \A d \in Counters : ~Newer(Zero, d)
  BY DEF Zero, Counters, Newer

LEMMA Order ==
  ASSUME NEW c \in Counters, NEW d \in Counters, NEW e \in Counters
  PROVE  /\ ~Newer(c, c)
         /\ Newer(c, d) => ~Newer(d, c)
         /\ ~Newer(c, d) /\ ~Newer(d, e) => ~Newer(c, e)
         /\ Newer(c, d) /\ ~Newer(e, d) => Newer(c, e)
         /\ ~Newer(c, d) /\ ~Newer(d, c) => c = d
  BY DEF Counters, Newer

LEMMA AdvanceNewer ==
  ASSUME NEW c \in Counters
  PROVE  /\ Advance(c) \in Counters
         /\ Newer(Advance(c), c)
         /\ Advance(c)[1] <= c[1] + 1
         /\ Advance(c)[2] <= LocalMax
  BY Constants DEF Counters, Newer, Advance

LEMMA HigherOf ==
  ASSUME NEW c \in Counters, NEW d \in Counters
  PROVE  /\ Higher(c, d) \in Counters
         /\ \A e \in Counters : ~Newer(c, e) /\ ~Newer(d, e) => ~Newer(Higher(c, d), e)
  BY DEF Higher

LEMMA MessageNumber ==
  ASSUME NEW m \in Messages
  PROVE  m[1] \in Agents /\ Number(m) \in Counters
  BY Constants DEF Messages, Number, Counters

LEMMA MessageOf ==
  ASSUME NEW a \in Agents, NEW c \in Counters, c[1] <= MaxSent, c[2] <= LocalMax
  PROVE  Msg(a, c) \in Messages /\ Msg(a, c)[1] = a /\ Number(Msg(a, c)) = c
  BY Constants DEF Messages, Number, Counters, Msg

-----------------------------------------------------------------------------
(* The inductive invariant, in parts.                                      *)

(* The global part grows by at most one with each message, so what is sent *)
(* stays in the range of Messages; a file that lost its name is not there. *)
SenderBounds == \A a \in Agents :
    /\ Len(sent[a]) <= MaxSent
    /\ snd[a][1] <= Len(sent[a]) /\ snd[a][2] <= LocalMax
    /\ sfile[a] # None => sfile[a][1] <= Len(sent[a]) /\ sfile[a][2] <= LocalMax
    /\ ~shandle[a] => sfile[a] = None

TypeInv == TypeOK /\ SenderBounds /\ (inbox # NoMsg => inbox \in net)

(* A file that has the name is the open one; it never holds more than the  *)
(* key entry, and no less than it ever held since it was created.          *)
FilesInv == \A a \in Agents :
    /\ fp[a] # 0
    /\ file[a].ino = 0 => file[a].c = None
    /\ file[a].ino # 0 => fp[a] = file[a].ino /\ ~Newer(Counter(file[a]), mem[a])
    /\ ~Newer(stored[a], Counter(file[a]))

LastSent(a) == IF sent[a] = <<>> THEN Zero ELSE sent[a][Len(sent[a])]
OnDisk(a) == IF sfile[a] = None THEN Zero ELSE sfile[a]

(* Unless its numbering was reset an agent goes on from the last number it *)
(* used, and as long as no file was removed that number is on disk.        *)
SenderInv ==
    /\ ~SenderReset => \A a \in Agents : snd[a] = LastSent(a)
    /\ used["unlink"] = 0 => \A a \in Agents : snd[a] = OnDisk(a)

(* Nothing under way or remembered is above the agent's own counter.       *)
AheadInv == ~SenderReset =>
    /\ \A a \in Agents : ~Newer(mem[a], snd[a]) /\ ~Newer(Counter(file[a]), snd[a])
    /\ \A m \in net : ~Newer(Number(m), snd[m[1]])

(* While the process runs on and its files are left alone.                 *)
Undisturbed == used["restart"] = 0 /\ used["remove"] = 0
OnceInv == Undisturbed =>
    /\ phase = "up"
    /\ \A a \in Agents : inode[a] = file[a].ino /\ fp[a] = file[a].ino
    /\ \A m \in Messages :
         accepted[m] = 0 \/ (accepted[m] = 1 /\ ~Newer(Number(m), mem[m[1]]))

IndInv == TypeInv /\ FilesInv /\ SenderInv /\ SenderFresh /\ AheadInv /\ OnceInv

-----------------------------------------------------------------------------
(* What a step of each side does, in the terms the invariant uses.         *)

LEMMA EventUses ==
  ASSUME used \in [Events -> Nat], NEW e \in Events, used' = [used EXCEPT ![e] = @ + 1]
  PROVE  /\ used' \in [Events -> Nat]
         /\ used'[e] > 0
         /\ \A x \in Events : used[x] > 0 => used'[x] > 0
         /\ \A x \in Events \ {e} : used'[x] = used[x]
  OBVIOUS

LEMMA CounterType ==
  ASSUME TypeOK, NEW a \in Agents
  PROVE  Counter(file[a]) \in Counters
  BY ZeroLeast DEF TypeOK, Counter

(* Reading a message: the number it is compared with is the one of the key *)
(* entry or the one of the file, and both cover what was stored.  Only a   *)
(* fresh number is accepted, and only an accepted one reaches the file.    *)
ReadBase(a, base) ==
    /\ base \in Counters
    /\ base = mem[a] \/ base = Counter(file[a])
    /\ inode[a] = file[a].ino => base = mem[a]
    /\ inode[a] = file[a].ino => inode'[a] = inode[a] /\ fp'[a] = fp[a] /\ file'[a].ino = file[a].ino
    /\ ~Newer(stored[a], base) /\ ~Newer(Counter(file[a]), base)
    /\ inode' = [inode EXCEPT ![a] = inode'[a]] /\ inode'[a] \in Nat
    /\ fp' = [fp EXCEPT ![a] = fp'[a]] /\ fp'[a] \in Nat \ {0}
    /\ file' = [file EXCEPT ![a] = file'[a]]
    /\ file'[a] \in [ino : Nat, c : Counters \cup {None}]
    /\ file'[a].ino = 0 => file'[a].c = None
    /\ file'[a].ino # 0 => fp'[a] = file'[a].ino
    /\ Counter(file'[a]) = Counter(file[a]) \/ Counter(file'[a]) = mem'[a]
    /\ stored' = [stored EXCEPT ![a] = Higher(Counter(file'[a]), @)]
    /\ \/ /\ Newer(Number(inbox), base)
          /\ mem' = [mem EXCEPT ![a] = Number(inbox)]
          /\ accepted' = [accepted EXCEPT ![inbox] = @ + 1]
          /\ rcv_count' \in 0 .. Flush
       \/ /\ ~Newer(Number(inbox), base)
          /\ mem' = [mem EXCEPT ![a] = base]
          /\ Counter(file'[a]) = Counter(file[a])
          /\ UNCHANGED <<rcv_count, accepted>>

LEMMA NewInodeType ==
  ASSUME TypeOK
  PROVE  NewInode \in Nat \ {0}
  BY DEF TypeOK, NewInode, Events

LEMMA ReadCases ==
  ASSUME TypeInv, FilesInv, ReadSecMSG
  PROVE  /\ inbox \in Messages /\ inbox \in net /\ inbox[1] \in Agents
         /\ Number(inbox) \in Counters
         /\ \E base \in Counters : ReadBase(inbox[1], base)
<1> DEFINE a == inbox[1]
           e0 == [mem |-> mem[a], inode |-> inode[a], fp |-> fp[a]]
           e == IF FlushDue THEN ReloadCounter(e0, file[a]) ELSE e0
           f == IF FlushDue /\ inode[a] # file[a].ino THEN Created(file[a]) ELSE file[a]
<1>1. inbox \in Messages /\ inbox \in net /\ a \in Agents /\ Number(inbox) \in Counters
  BY MessageNumber DEF TypeInv, TypeOK, ReadSecMSG
<1>2. /\ mem[a] \in Counters /\ inode[a] \in Nat /\ fp[a] \in Nat \ {0}
      /\ file[a] \in [ino : Nat, c : Counters \cup {None}]
      /\ Counter(file[a]) \in Counters /\ stored[a] \in Counters
  BY <1>1, CounterType DEF TypeInv, TypeOK, FilesInv
<1>3. /\ file[a].ino = 0 => file[a].c = None /\ Counter(file[a]) = Zero
      /\ file[a].ino # 0 => fp[a] = file[a].ino /\ ~Newer(Counter(file[a]), mem[a])
      /\ ~Newer(stored[a], Counter(file[a]))
  BY <1>1, <1>2, SecMsgAssumption DEF FilesInv, Counter
<1>4. /\ e.mem = mem[a] \/ e.mem = Counter(file[a])
      /\ inode[a] = file[a].ino => e.mem = mem[a] /\ e.inode = inode[a] /\ e.fp = fp[a]
      /\ e.inode \in Nat /\ e.fp \in Nat \ {0} /\ e.mem \in Counters
  BY <1>2, <1>3, NewInodeType DEF ReloadCounter, TypeInv
<1>5. /\ f \in [ino : Nat, c : Counters \cup {None}]
      /\ f.ino = 0 => f.c = None
      /\ f.ino # 0 => e.fp = f.ino
      /\ Counter(f) = Counter(file[a])
      /\ inode[a] = file[a].ino => f = file[a]
  BY <1>2, <1>3, <1>4, NewInodeType DEF ReloadCounter, Created, Counter, TypeInv
<1>6. ~Newer(stored[a], e.mem) /\ ~Newer(Counter(file[a]), e.mem)
  <2>1. ~Newer(Counter(file[a]), e.mem)
    BY <1>2, <1>3, <1>4, ZeroLeast, Order
  <2> QED
    BY <1>2, <1>3, <1>4, <2>1, Order
<1>7. ASSUME NEW c \in Counters
      PROVE  /\ StoreCounter(f, e.fp, c) \in [ino : Nat, c : Counters \cup {None}]
             /\ StoreCounter(f, e.fp, c).ino = f.ino
             /\ f.ino = 0 => StoreCounter(f, e.fp, c) = f
             /\ \/ Counter(StoreCounter(f, e.fp, c)) = Counter(f)
                \/ Counter(StoreCounter(f, e.fp, c)) = c
  BY <1>4, <1>5, SecMsgAssumption DEF StoreCounter, Counter
<1>8. /\ inode' = [inode EXCEPT ![a] = e.inode]
      /\ fp' = [fp EXCEPT ![a] = e.fp]
      /\ stored' = [stored EXCEPT ![a] = Higher(Counter(file'[a]), @)]
  BY DEF ReadSecMSG
<1>9. inode'[a] = e.inode /\ fp'[a] = e.fp
  BY <1>1, <1>8 DEF TypeInv, TypeOK
<1>10. NextCount \in 0 .. Flush
  BY Constants DEF NextCount, FlushDue, TypeInv, TypeOK
<1> SUFFICES ReadBase(a, e.mem)
  BY <1>1, <1>4
<1>11. CASE Newer(Number(inbox), e.mem)
  <2>1. /\ mem' = [mem EXCEPT ![a] = Number(inbox)]
        /\ accepted' = [accepted EXCEPT ![inbox] = @ + 1]
        /\ rcv_count' = NextCount
        /\ \/ file' = [file EXCEPT ![a] = StoreCounter(f, e.fp, Number(inbox))]
           \/ file' = [file EXCEPT ![a] = f]
    BY <1>11 DEF ReadSecMSG, Fresh
  <2>2. /\ file'[a] = f \/ file'[a] = StoreCounter(f, e.fp, Number(inbox))
        /\ mem'[a] = Number(inbox)
    BY <1>1, <2>1 DEF TypeInv, TypeOK
  <2>3. /\ file'[a] \in [ino : Nat, c : Counters \cup {None}]
        /\ file'[a].ino = f.ino
        /\ file'[a].ino = 0 => file'[a].c = None
        /\ Counter(file'[a]) = Counter(file[a]) \/ Counter(file'[a]) = mem'[a]
    BY <1>1, <1>5, <1>7, <2>2, SMTT(20)
  <2>4. file' = [file EXCEPT ![a] = file'[a]]
    BY <1>1, <2>1 DEF TypeInv, TypeOK
  <2>5. inode[a] = file[a].ino => file'[a].ino = file[a].ino
    BY <1>5, <2>3
  <2> HIDE DEF a, e, f
  <2> QED
    BY <1>4, <1>5, <1>6, <1>8, <1>9, <1>10, <1>11, <2>1, <2>3, <2>4, <2>5 DEF ReadBase
<1>12. CASE ~Newer(Number(inbox), e.mem)
  <2>1. /\ mem' = [mem EXCEPT ![a] = e.mem]
        /\ file' = [file EXCEPT ![a] = f]
        /\ UNCHANGED <<rcv_count, accepted>>
    BY <1>12 DEF ReadSecMSG, Fresh
  <2>2. file'[a] = f
    BY <1>1, <2>1 DEF TypeInv, TypeOK
  <2> HIDE DEF a, e, f
  <2> QED
    BY <1>4, <1>5, <1>6, <1>8, <1>9, <1>12, <2>1, <2>2 DEF ReadBase
<1> QED
  BY <1>1, <1>11, <1>12

FileType == [ino : Nat, c : Counters \cup {None}]

(* A start opens every file and takes over its counter.                    *)
LEMMA StartsFacts ==
  ASSUME TypeOK, NEW files \in [Agents -> FileType], Starts(files),
         \A a \in Agents : files[a].ino = 0 => files[a].c = None
  PROVE  /\ file' \in [Agents -> FileType] /\ mem' \in [Agents -> Counters]
         /\ inode' \in [Agents -> Nat] /\ fp' \in [Agents -> Nat]
         /\ \A a \in Agents :
              /\ file'[a].ino # 0
              /\ files[a].ino # 0 => file'[a].ino = files[a].ino
              /\ inode'[a] = file'[a].ino /\ fp'[a] = file'[a].ino
              /\ mem'[a] = Counter(files[a]) /\ Counter(file'[a]) = Counter(files[a])
<1> DEFINE opened == [a \in Agents |-> Created(files[a])]
<1>1. ASSUME NEW a \in Agents
      PROVE  /\ opened[a] \in FileType /\ opened[a].ino # 0
             /\ files[a].ino # 0 => opened[a].ino = files[a].ino
             /\ Counter(opened[a]) = Counter(files[a]) /\ Counter(files[a]) \in Counters
  BY NewInodeType, ZeroLeast DEF Created, Counter, FileType
<1>2. /\ file' = opened /\ mem' = [a \in Agents |-> Counter(opened[a])]
      /\ inode' = [a \in Agents |-> opened[a].ino]
      /\ fp' = [a \in Agents |-> opened[a].ino]
  BY DEF Starts
<1>3. opened \in [Agents -> FileType]
  BY <1>1
<1> HIDE DEF opened
<1>4. \A a \in Agents : opened[a].ino \in Nat
  BY <1>1 DEF FileType
<1> QED
  BY <1>1, <1>2, <1>3, <1>4

(* Storing writes the key entry's counter to every file that is there.     *)
LEMMA AllStoredFacts ==
  ASSUME TypeOK, FilesInv
  PROVE  /\ AllStored \in [Agents -> FileType]
         /\ \A a \in Agents :
              /\ AllStored[a].ino = file[a].ino
              /\ AllStored[a].ino = 0 => AllStored[a].c = None
              /\ file[a].ino # 0 => Counter(AllStored[a]) = mem[a]
              /\ file[a].ino = 0 => Counter(AllStored[a]) = Counter(file[a])
              /\ Counter(AllStored[a]) \in Counters
              /\ ~Newer(Counter(file[a]), Counter(AllStored[a]))
<1>1. ASSUME NEW a \in Agents
      PROVE  LET s == StoreCounter(file[a], fp[a], mem[a]) IN
             /\ s \in FileType /\ s.ino = file[a].ino
             /\ s.ino = 0 => s.c = None
             /\ file[a].ino # 0 => Counter(s) = mem[a]
             /\ file[a].ino = 0 => s = file[a]
             /\ Counter(s) \in Counters
             /\ Counter(file[a]) \in Counters /\ mem[a] \in Counters
  <2>1. /\ file[a] \in FileType /\ mem[a] \in Counters
        /\ Counter(file[a]) \in Counters
    BY CounterType DEF TypeOK, FileType
  <2>2. /\ fp[a] # 0
        /\ file[a].ino # 0 => fp[a] = file[a].ino
        /\ file[a].ino = 0 => file[a].c = None
    BY DEF FilesInv
  <2>3. CASE file[a].ino = 0
    <3>1. StoreCounter(file[a], fp[a], mem[a]) = file[a]
      BY <2>2, <2>3 DEF StoreCounter
    <3> QED
      BY <2>1, <2>2, <2>3, <3>1
  <2>4. CASE file[a].ino # 0
    <3>1. StoreCounter(file[a], fp[a], mem[a]) = [file[a] EXCEPT !.c = mem[a]]
      BY <2>2, <2>4 DEF StoreCounter
    <3>2. /\ [file[a] EXCEPT !.c = mem[a]] \in FileType
          /\ [file[a] EXCEPT !.c = mem[a]].ino = file[a].ino
          /\ [file[a] EXCEPT !.c = mem[a]].c = mem[a]
      BY <2>1 DEF FileType
    <3>3. Counter([file[a] EXCEPT !.c = mem[a]]) = mem[a]
      BY <2>1, <3>2, SecMsgAssumption DEF Counter
    <3> QED
      BY <2>1, <2>4, <3>1, <3>2, <3>3
  <2> QED
    BY <2>3, <2>4
<1>2. \A a \in Agents : AllStored[a] = StoreCounter(file[a], fp[a], mem[a])
  BY DEF AllStored
<1>3. \A a \in Agents : file[a].ino # 0 => ~Newer(Counter(file[a]), mem[a])
  BY DEF FilesInv
<1>4. AllStored \in [Agents -> FileType]
  BY <1>1 DEF AllStored
<1>5. \A a \in Agents : ~Newer(Counter(file[a]), Counter(AllStored[a]))
  BY <1>1, <1>2, <1>3, Order
<1> QED
  BY <1>1, <1>2, <1>4, <1>5

(* Creating a message moves the counter in memory on by one.               *)
LEMMA CreateFacts ==
  ASSUME TypeInv, NEW a \in Agents, CreateSecMSG(a)
  PROVE  LET c == Advance(snd[a]) IN
         /\ c \in Counters /\ c[1] <= Len(sent[a]) + 1 /\ c[1] <= MaxSent
         /\ c[2] <= LocalMax /\ Len(sent[a]) < MaxSent
         /\ Newer(c, snd[a])
         /\ snd' = [snd EXCEPT ![a] = c] /\ sfile' = [sfile EXCEPT ![a] = c]
         /\ shandle' = [shandle EXCEPT ![a] = TRUE]
         /\ sent' = [sent EXCEPT ![a] = Append(@, c)]
         /\ net' = net \cup {Msg(a, c)}
         /\ Msg(a, c) \in Messages /\ Msg(a, c)[1] = a /\ Number(Msg(a, c)) = c
<1>1. ReloadSender(a) = snd[a]
  BY DEF ReloadSender, TypeInv, SenderBounds
<1>2. snd[a] \in Counters /\ snd[a][1] \in Nat /\ snd[a][1] <= Len(sent[a])
      /\ Len(sent[a]) \in Nat
  BY DEF TypeInv, TypeOK, SenderBounds, Counters
<1>3. Len(sent[a]) < MaxSent
  BY DEF CreateSecMSG
<1> DEFINE c == Advance(snd[a])
<1>4. /\ c \in Counters /\ Newer(c, snd[a]) /\ c[1] <= snd[a][1] + 1 /\ c[2] <= LocalMax
      /\ c[1] \in Nat
  BY <1>2, AdvanceNewer DEF Counters
<1>5. c[1] <= Len(sent[a]) + 1 /\ c[1] <= MaxSent
  BY <1>2, <1>3, <1>4, Constants
<1>6. Msg(a, c) \in Messages /\ Msg(a, c)[1] = a /\ Number(Msg(a, c)) = c
  BY <1>4, <1>5, MessageOf
<1> QED
  BY <1>1, <1>3, <1>4, <1>5, <1>6 DEF CreateSecMSG

-----------------------------------------------------------------------------
(* Type correctness.                                                       *)

LEMMA InitTypeInv == Init => TypeInv
  BY Constants, ZeroLeast DEF Init, TypeInv, TypeOK, SenderBounds, Counters, Zero, Events

LEMMA StepTypeInv ==
  ASSUME TypeInv, FilesInv, [Next]_vars
  PROVE  TypeInv'
<1> USE DEF Events
<1>1. ASSUME NEW a \in Agents, CreateSecMSG(a)
      PROVE  TypeInv'
  <2> DEFINE c == Advance(snd[a])
  <2>1. /\ c \in Counters /\ c[1] <= Len(sent[a]) + 1 /\ c[1] <= MaxSent
        /\ c[2] <= LocalMax /\ Len(sent[a]) < MaxSent
        /\ snd' = [snd EXCEPT ![a] = c] /\ sfile' = [sfile EXCEPT ![a] = c]
        /\ shandle' = [shandle EXCEPT ![a] = TRUE]
        /\ sent' = [sent EXCEPT ![a] = Append(@, c)]
        /\ net' = net \cup {Msg(a, c)} /\ Msg(a, c) \in Messages
    BY <1>1, CreateFacts
  <2> HIDE DEF c
  <2>2. /\ sent' \in [Agents -> Seq(Counters)]
        /\ \A x \in Agents : sent[x] \in Seq(Counters) /\ Len(sent[x]) \in Nat
        /\ Len(sent'[a]) = Len(sent[a]) + 1
        /\ \A x \in Agents \ {a} : sent'[x] = sent[x]
    BY <2>1 DEF TypeInv, TypeOK
  <2>3. TypeOK'
    <3>1. /\ snd' \in [Agents -> Counters] /\ sfile' \in [Agents -> Counters \cup {None}]
          /\ shandle' \in [Agents -> BOOLEAN] /\ net' \subseteq Messages
      BY <2>1 DEF TypeInv, TypeOK
    <3>2. UNCHANGED <<phase, inbox, mem, inode, fp, rcv_count, file, accepted, stored, used>>
      BY <1>1 DEF CreateSecMSG, memory, history
    <3> QED
      BY <2>2, <3>1, <3>2 DEF TypeInv, TypeOK
  <2>4. SenderBounds'
    BY <2>1, <2>2, Constants DEF TypeInv, TypeOK, SenderBounds
  <2> QED
    BY <1>1, <2>1, <2>3, <2>4 DEF TypeInv, CreateSecMSG
<1>2. ASSUME NEW a \in Agents, AgentRestart(a)
      PROVE  TypeInv'
  <2>1. snd' \in [Agents -> Counters]
    BY <1>2, ZeroLeast DEF AgentRestart, TypeInv, TypeOK
  <2>2. TypeOK'
    BY <1>2, <2>1, EventUses DEF AgentRestart, TypeInv, TypeOK, Uses, memory, history
  <2>3. SenderBounds'
    BY <1>2, Constants DEF AgentRestart, TypeInv, TypeOK, SenderBounds, Zero
  <2> QED
    BY <1>2, <2>2, <2>3 DEF AgentRestart, TypeInv
<1>3. ASSUME NEW a \in Agents, RemoveSenderFile(a)
      PROVE  TypeInv'
  <2>1. TypeOK'
    BY <1>3, EventUses DEF RemoveSenderFile, TypeInv, TypeOK, Removes, memory, history
  <2>2. SenderBounds'
    BY <1>3 DEF RemoveSenderFile, TypeInv, TypeOK, SenderBounds
  <2> QED
    BY <1>3, <2>1, <2>2 DEF RemoveSenderFile, TypeInv
<1>4. ASSUME NEW a \in Agents, RemoveRidsFile(a)
      PROVE  TypeInv'
  <2>1. [ino |-> 0, c |-> None] \in [ino : Nat, c : Counters \cup {None}]
    OBVIOUS
  <2>2. TypeOK'
    BY <1>4, <2>1, EventUses, ZeroLeast
       DEF RemoveRidsFile, TypeInv, TypeOK, Removes, memory, agentvars
  <2> QED
    BY <1>4, <2>2 DEF RemoveRidsFile, TypeInv, SenderBounds, agentvars
<1>5. ASSUME NEW m \in net, Receive(m)
      PROVE  TypeInv'
  BY <1>5 DEF Receive, TypeInv, TypeOK, SenderBounds, agentvars, memory, history
<1>6. CASE ReadSecMSG
  <2>1. PICK base \in Counters : ReadBase(inbox[1], base)
    BY <1>6, ReadCases
  <2>2. inbox \in Messages /\ inbox[1] \in Agents /\ Number(inbox) \in Counters
    BY <1>6, ReadCases
  <2> DEFINE a == inbox[1]
  <2>3. /\ a \in Agents /\ ReadBase(a, base)
    BY <2>1, <2>2
  <2> HIDE DEF a
  <2>4. /\ inode' \in [Agents -> Nat] /\ fp' \in [Agents -> Nat]
        /\ file' \in [Agents -> FileType] /\ mem' \in [Agents -> Counters]
        /\ accepted' \in [Messages -> Nat] /\ rcv_count' \in 0 .. Flush
    <3>1. inode' \in [Agents -> Nat] /\ fp' \in [Agents -> Nat]
      BY <2>3 DEF ReadBase, TypeInv, TypeOK
    <3>2. file' \in [Agents -> FileType]
      BY <2>3 DEF ReadBase, TypeInv, TypeOK, FileType
    <3>3. mem' \in [Agents -> Counters]
      <4>1. mem' = [mem EXCEPT ![a] = Number(inbox)] \/ mem' = [mem EXCEPT ![a] = base]
        BY <2>3 DEF ReadBase
      <4> QED
        BY <2>1, <2>2, <2>3, <4>1 DEF TypeInv, TypeOK
    <3>4. accepted' \in [Messages -> Nat] /\ rcv_count' \in 0 .. Flush
      <4>1. \/ accepted' = [accepted EXCEPT ![inbox] = @ + 1] /\ rcv_count' \in 0 .. Flush
            \/ UNCHANGED <<rcv_count, accepted>>
        BY <2>3 DEF ReadBase
      <4>2. accepted \in [Messages -> Nat] /\ rcv_count \in 0 .. Flush
        BY DEF TypeInv, TypeOK
      <4>3. [accepted EXCEPT ![inbox] = @ + 1] \in [Messages -> Nat]
        BY <2>2, <4>2
      <4> QED
        BY <4>1, <4>2, <4>3
    <3> QED
      BY <3>1, <3>2, <3>3, <3>4
  <2>5. Counter(file'[a]) \in Counters
    BY <2>3, <2>4, ZeroLeast DEF FileType, Counter
  <2>6. stored' \in [Agents -> Counters]
    BY <2>3, <2>5, HigherOf DEF ReadBase, TypeInv, TypeOK
  <2> QED
    BY <1>6, <2>4, <2>6 DEF ReadSecMSG, TypeInv, TypeOK, SenderBounds, FileType, agentvars
<1>7. ASSUME Stores(AllStored)
      PROVE  stored' \in [Agents -> Counters]
  <2>1. \A a \in Agents : Counter(AllStored[a]) \in Counters /\ stored[a] \in Counters
    BY AllStoredFacts DEF TypeInv, TypeOK
  <2> QED
    BY <1>7, <2>1, HigherOf DEF Stores
<1>8. CASE OS_UpdateKeys
  <2>1. stored' \in [Agents -> Counters]
    BY <1>7, <1>8 DEF OS_UpdateKeys
  <2>2. /\ file' \in [Agents -> FileType] /\ mem' \in [Agents -> Counters]
        /\ inode' \in [Agents -> Nat] /\ fp' \in [Agents -> Nat]
    BY <1>8, AllStoredFacts, StartsFacts DEF OS_UpdateKeys, TypeInv
  <2>3. used' \in [Events -> Nat]
    BY <1>8, EventUses DEF OS_UpdateKeys, Uses, TypeInv, TypeOK
  <2> QED
    BY <1>8, <2>1, <2>2, <2>3
       DEF OS_UpdateKeys, TypeInv, TypeOK, SenderBounds, FileType, agentvars
<1>9. CASE remoted_request_shutdown
  BY <1>9, EventUses DEF remoted_request_shutdown, Uses, TypeInv, TypeOK, SenderBounds,
     agentvars, memory, history
<1>10. CASE remoted_wait_for_shutdown
  <2>1. stored' \in [Agents -> Counters] /\ file' \in [Agents -> FileType]
    BY <1>7, <1>10, AllStoredFacts DEF remoted_wait_for_shutdown, TypeInv
  <2> QED
    BY <1>10, <2>1 DEF remoted_wait_for_shutdown, TypeInv, TypeOK, SenderBounds, FileType,
       agentvars, memory
<1>11. CASE Exit
  BY <1>11 DEF Exit, TypeInv, TypeOK, SenderBounds, agentvars, memory, history
<1>12. CASE Crash
  BY <1>12, EventUses DEF Crash, Uses, TypeInv, TypeOK, SenderBounds,
     agentvars, memory, history
<1>13. CASE Start
  <2>1. /\ file \in [Agents -> FileType]
        /\ \A a \in Agents : file[a].ino = 0 => file[a].c = None
    BY DEF TypeInv, TypeOK, FilesInv, FileType
  <2>2. /\ file' \in [Agents -> FileType] /\ mem' \in [Agents -> Counters]
        /\ inode' \in [Agents -> Nat] /\ fp' \in [Agents -> Nat]
    BY <1>13, <2>1, StartsFacts DEF Start, TypeInv
  <2> QED
    BY <1>13, <2>2, Constants DEF Start, TypeInv, TypeOK, SenderBounds, FileType, agentvars
<1>14. CASE UNCHANGED vars
  BY <1>14 DEF vars, TypeInv, TypeOK, SenderBounds, agentvars, memory, history
<1> QED
  BY <1>1, <1>2, <1>3, <1>4, <1>5, <1>6, <1>8, <1>9, <1>10, <1>11, <1>12, <1>13, <1>14
     DEF Next, Remoted, Sender

-----------------------------------------------------------------------------
(* The files of the receiving side.                                        *)

LEMMA InitFilesInv == Init => FilesInv
  BY ZeroLeast DEF Init, FilesInv, Counter

LEMMA StepFilesInv ==
  ASSUME TypeInv, FilesInv, [Next]_vars
  PROVE  FilesInv'
<1> USE DEF Events
<1>1. CASE ReadSecMSG
  <2> DEFINE a == inbox[1]
  <2>1. PICK base \in Counters : ReadBase(a, base)
    BY <1>1, ReadCases
  <2>2. a \in Agents /\ Number(inbox) \in Counters
    BY <1>1, ReadCases
  <2> HIDE DEF a
  <2>3. ASSUME NEW x \in Agents, x # a
        PROVE  /\ fp'[x] = fp[x] /\ file'[x] = file[x] /\ mem'[x] = mem[x]
               /\ stored'[x] = stored[x]
    <3>1. mem' = [mem EXCEPT ![a] = Number(inbox)] \/ mem' = [mem EXCEPT ![a] = base]
      BY <2>1 DEF ReadBase
    <3>2. /\ fp' = [fp EXCEPT ![a] = fp'[a]] /\ file' = [file EXCEPT ![a] = file'[a]]
          /\ stored' = [stored EXCEPT ![a] = Higher(Counter(file'[a]), @)]
      BY <2>1 DEF ReadBase
    <3> QED
      BY <2>2, <2>3, <3>1, <3>2 DEF TypeInv, TypeOK
  <2>4. /\ file'[a] \in FileType /\ Counter(file'[a]) \in Counters
        /\ stored[a] \in Counters /\ Counter(file[a]) \in Counters
    BY <2>1, <2>2, CounterType, ZeroLeast DEF ReadBase, FileType, Counter, TypeInv, TypeOK
  <2>5. /\ mem'[a] \in Counters
        /\ ~Newer(Counter(file[a]), mem'[a])
        /\ ~Newer(Counter(file'[a]), mem'[a]) /\ ~Newer(Counter(file[a]), Counter(file'[a]))
    <3>1. ~Newer(Counter(file[a]), base) /\ base \in Counters
      BY <2>1 DEF ReadBase
    <3>2. CASE Newer(Number(inbox), base)
      <4>1. mem'[a] = Number(inbox)
        BY <2>1, <2>2, <3>2 DEF ReadBase, TypeInv, TypeOK
      <4>2. ~Newer(Counter(file[a]), Number(inbox))
        BY <2>2, <2>4, <3>1, <3>2, Order
      <4>3. Counter(file'[a]) = Counter(file[a]) \/ Counter(file'[a]) = mem'[a]
        BY <2>1 DEF ReadBase
      <4> QED
        BY <2>2, <2>4, <4>1, <4>2, <4>3, Order
    <3>3. CASE ~Newer(Number(inbox), base)
      <4>1. mem'[a] = base /\ Counter(file'[a]) = Counter(file[a])
        BY <2>1, <2>2, <3>3 DEF ReadBase, TypeInv, TypeOK
      <4> QED
        BY <2>4, <3>1, <4>1, Order
    <3> QED  BY <3>2, <3>3
  <2>6. stored'[a] = Higher(Counter(file'[a]), stored[a]) /\ ~Newer(stored[a], Counter(file[a]))
    BY <2>1, <2>2 DEF ReadBase, TypeInv, TypeOK, FilesInv
  <2>7. ~Newer(stored'[a], Counter(file'[a]))
    <3>1. ~Newer(stored[a], Counter(file'[a]))
      BY <2>4, <2>5, <2>6, Order
    <3> QED
      BY <2>4, <2>6, <3>1, HigherOf, Order
  <2>8. /\ fp'[a] # 0
        /\ file'[a].ino = 0 => file'[a].c = None
        /\ file'[a].ino # 0 => fp'[a] = file'[a].ino /\ ~Newer(Counter(file'[a]), mem'[a])
        /\ ~Newer(stored'[a], Counter(file'[a]))
    BY <2>1, <2>5, <2>7 DEF ReadBase
  <2>9. ASSUME NEW x \in Agents, x # a
         PROVE  /\ fp'[x] # 0
                /\ file'[x].ino = 0 => file'[x].c = None
                /\ file'[x].ino # 0 => fp'[x] = file'[x].ino /\ ~Newer(Counter(file'[x]), mem'[x])
                /\ ~Newer(stored'[x], Counter(file'[x]))
    BY <2>3, <2>9 DEF FilesInv
  <2> QED
    BY <2>8, <2>9 DEF FilesInv, Counter
<1>2. ASSUME Stores(AllStored), NEW a \in Agents
      PROVE  /\ stored'[a] = Higher(Counter(AllStored[a]), stored[a])
             /\ ~Newer(stored'[a], Counter(AllStored[a]))
  <2>1. /\ Counter(AllStored[a]) \in Counters /\ Counter(file[a]) \in Counters
        /\ stored[a] \in Counters
        /\ ~Newer(Counter(file[a]), Counter(AllStored[a]))
        /\ ~Newer(stored[a], Counter(file[a]))
    BY AllStoredFacts, CounterType DEF FilesInv, TypeInv, TypeOK
  <2>2. ~Newer(stored[a], Counter(AllStored[a]))
    BY <2>1, Order
  <2>3. stored'[a] = Higher(Counter(AllStored[a]), stored[a])
    BY <1>2 DEF Stores
  <2> QED
    BY <2>1, <2>2, <2>3, HigherOf, Order
<1>3. CASE OS_UpdateKeys
  <2>1. \A a \in Agents :
              /\ file'[a].ino # 0 /\ file'[a].ino \in Nat /\ fp'[a] = file'[a].ino
              /\ mem'[a] = Counter(file'[a]) /\ Counter(file'[a]) = Counter(AllStored[a])
              /\ Counter(file'[a]) \in Counters
    BY <1>3, AllStoredFacts, StartsFacts DEF OS_UpdateKeys, TypeInv, FileType
  <2>2. \A a \in Agents : ~Newer(stored'[a], Counter(file'[a]))
    BY <1>2, <1>3, <2>1 DEF OS_UpdateKeys
  <2>3. \A a \in Agents : ~Newer(Counter(file'[a]), mem'[a])
    BY <2>1, Order
  <2> QED
    BY <2>1, <2>2, <2>3 DEF FilesInv, Counter
<1>4. CASE remoted_wait_for_shutdown
  <2>1. file' = AllStored /\ UNCHANGED <<fp, mem>>
    BY <1>4 DEF remoted_wait_for_shutdown, memory
  <2>2. \A a \in Agents : ~Newer(stored'[a], Counter(file'[a]))
    BY <1>2, <1>4, <2>1 DEF remoted_wait_for_shutdown
  <2>3. ASSUME NEW a \in Agents
        PROVE  /\ fp'[a] # 0
               /\ file'[a].ino = 0 => file'[a].c = None
               /\ file'[a].ino # 0 => fp'[a] = file'[a].ino /\ ~Newer(Counter(file'[a]), mem'[a])
    <3>1. /\ AllStored[a].ino = file[a].ino
          /\ AllStored[a].ino = 0 => AllStored[a].c = None
          /\ file[a].ino # 0 => Counter(AllStored[a]) = mem[a]
          /\ mem[a] \in Counters
      BY AllStoredFacts DEF TypeInv, TypeOK
    <3> QED
      BY <2>1, <3>1, Order DEF FilesInv
  <2> QED
    BY <2>2, <2>3 DEF FilesInv, Counter
<1>5. CASE Start
  <2>1. /\ file \in [Agents -> FileType]
        /\ \A a \in Agents : file[a].ino = 0 => file[a].c = None
    BY DEF TypeInv, TypeOK, FilesInv, FileType
  <2>2. \A a \in Agents :
              /\ file'[a].ino # 0 /\ file'[a].ino \in Nat /\ fp'[a] = file'[a].ino
              /\ mem'[a] = Counter(file'[a]) /\ Counter(file'[a]) = Counter(file[a])
              /\ Counter(file'[a]) \in Counters
    BY <1>5, <2>1, StartsFacts, CounterType DEF Start, TypeInv
  <2>3. \A a \in Agents : ~Newer(Counter(file'[a]), mem'[a])
    BY <2>2, Order
  <2>4. \A a \in Agents : ~Newer(stored'[a], Counter(file'[a]))
    BY <1>5, <2>2 DEF FilesInv, Start
  <2> QED
    BY <2>2, <2>3, <2>4 DEF FilesInv, Counter
<1>6. ASSUME NEW a \in Agents, RemoveRidsFile(a)
      PROVE  FilesInv'
  BY <1>6, ZeroLeast DEF RemoveRidsFile, FilesInv, Counter, TypeInv, TypeOK, memory
<1>7. CASE UNCHANGED <<memory, file, stored>>
  BY <1>7 DEF FilesInv, Counter, memory
<1>8. CASE Next /\ ~UNCHANGED <<memory, file, stored>>
  <2>1. \A m \in net : ~Receive(m)
    BY <1>8 DEF Receive, history
  <2>2. \A a \in Agents : ~Sender(a)
    BY <1>8 DEF Sender, CreateSecMSG, AgentRestart, RemoveSenderFile, history
  <2>3. ~remoted_request_shutdown /\ ~Exit /\ ~Crash
    BY <1>8 DEF remoted_request_shutdown, Exit, Crash, history
  <2> QED
    BY <1>1, <1>3, <1>4, <1>5, <1>6, <1>8, <2>1, <2>2, <2>3 DEF Next, Remoted
<1> QED
  BY <1>7, <1>8 DEF vars, history

-----------------------------------------------------------------------------
(* The sending side: an agent goes on from the last number it used.        *)

(* Only a restart of an agent after a removal resets its numbering: a      *)
(* state that follows a reset one is a reset one.                          *)
LEMMA SenderSteps ==
  ASSUME TypeInv, [Next]_vars
  PROVE  /\ used' \in [Events -> Nat]
         /\ \A x \in Events : used[x] > 0 => used'[x] > 0
         /\ ~SenderReset' => ~SenderReset
         /\ \/ UNCHANGED <<snd, sfile, sent, net>>
            \/ \E a \in Agents : CreateSecMSG(a)
            \/ \E a \in Agents : AgentRestart(a)
            \/ \E a \in Agents : RemoveSenderFile(a)
<1>1. used \in [Events -> Nat]
  BY DEF TypeInv, TypeOK
<1>2. \/ used' = used
      \/ \E e \in Events : used' = [used EXCEPT ![e] = @ + 1]
  <2>1. ASSUME NEW a \in Agents, Sender(a) \/ RemoveRidsFile(a)
        PROVE  \/ used' = used
               \/ \E e \in Events : used' = [used EXCEPT ![e] = @ + 1]
    BY <2>1 DEF Sender, CreateSecMSG, AgentRestart, RemoveSenderFile, RemoveRidsFile,
       Uses, Removes, Events
  <2>2. CASE Remoted
    BY <2>2 DEF Remoted, Receive, ReadSecMSG, OS_UpdateKeys, remoted_request_shutdown,
       remoted_wait_for_shutdown, Exit, Crash, Start, Uses, Events
  <2> QED
    BY <2>1, <2>2 DEF Next, vars
<1>3. used' \in [Events -> Nat] /\ \A x \in Events : used[x] > 0 => used'[x] > 0
  BY <1>1, <1>2, EventUses
<1>4. ~SenderReset' => ~SenderReset
  BY <1>3 DEF SenderReset, Events
<1>5. \/ UNCHANGED <<snd, sfile, sent, net>>
      \/ \E a \in Agents : Sender(a)
  <2>1. ASSUME NEW a \in Agents, RemoveRidsFile(a)
        PROVE  UNCHANGED <<snd, sfile, sent, net>>
    BY <2>1 DEF RemoveRidsFile, agentvars
  <2>2. CASE Remoted
    BY <2>2 DEF Remoted, Receive, ReadSecMSG, OS_UpdateKeys, remoted_request_shutdown,
       remoted_wait_for_shutdown, Exit, Crash, Start, agentvars
  <2> QED
    BY <2>1, <2>2 DEF Next, vars, agentvars
<1> QED
  BY <1>3, <1>4, <1>5 DEF Sender

LEMMA StepSenderInv ==
  ASSUME TypeInv, SenderInv, SenderFresh, [Next]_vars
  PROVE  SenderInv' /\ SenderFresh'
<1>1. used \in [Events -> Nat] /\ used' \in [Events -> Nat]
      /\ (used'["unlink"] = 0 => used["unlink"] = 0)
      /\ (~SenderReset' => ~SenderReset)
  BY SenderSteps, SMTT(30) DEF TypeInv, TypeOK, Events
<1>2. CASE UNCHANGED <<snd, sfile, sent, net>>
  BY <1>1, <1>2 DEF SenderInv, SenderFresh, LastSent, OnDisk
<1>3. ASSUME NEW a \in Agents, CreateSecMSG(a)
      PROVE  SenderInv' /\ SenderFresh'
  <2> DEFINE c == Advance(snd[a])
  <2>1. /\ c \in Counters /\ Newer(c, snd[a])
        /\ snd' = [snd EXCEPT ![a] = c] /\ sfile' = [sfile EXCEPT ![a] = c]
        /\ sent' = [sent EXCEPT ![a] = Append(@, c)]
    BY <1>3, CreateFacts
  <2> HIDE DEF c
  <2>2. /\ sent[a] \in Seq(Counters) /\ Len(sent[a]) \in Nat
        /\ sent'[a] = Append(sent[a], c) /\ Len(sent'[a]) = Len(sent[a]) + 1
        /\ sent'[a][Len(sent[a]) + 1] = c
        /\ \A n \in 1 .. Len(sent[a]) : sent'[a][n] = sent[a][n]
        /\ \A x \in Agents \ {a} : sent'[x] = sent[x]
    BY <2>1 DEF TypeInv, TypeOK
  <2>3. /\ snd'[a] = c /\ sfile'[a] = c
        /\ \A x \in Agents \ {a} : snd'[x] = snd[x] /\ sfile'[x] = sfile[x]
    BY <2>1 DEF TypeInv, TypeOK
  <2>4. (LastSent(a))' = c /\ (OnDisk(a))' = c
    BY <2>1, <2>2, <2>3, Constants DEF LastSent, OnDisk
  <2>5. \A x \in Agents \ {a} : (LastSent(x))' = LastSent(x) /\ (OnDisk(x))' = OnDisk(x)
    BY <2>2, <2>3 DEF LastSent, OnDisk
  <2>6. SenderInv'
    BY <1>1, <2>3, <2>4, <2>5 DEF SenderInv
  <2>7. ASSUME ~SenderReset'
        PROVE  \A n \in 2 .. Len(sent'[a]) : Newer(sent'[a][n], sent'[a][n - 1])
    <3>1. ~SenderReset /\ snd[a] = LastSent(a)
      BY <1>1, <2>7 DEF SenderInv
    <3>2. ASSUME NEW n \in 2 .. Len(sent[a]) + 1
          PROVE  Newer(sent'[a][n], sent'[a][n - 1])
      <4>1. CASE n <= Len(sent[a])
        <5>1. n \in 1 .. Len(sent[a]) /\ n - 1 \in 1 .. Len(sent[a]) /\ n \in 2 .. Len(sent[a])
          BY <2>2, <4>1
        <5> QED
          BY <2>2, <3>1, <5>1 DEF SenderFresh
      <4>2. CASE n = Len(sent[a]) + 1
        <5>1. n - 1 = Len(sent[a]) /\ Len(sent[a]) \in 1 .. Len(sent[a]) /\ sent[a] # <<>>
          BY <2>2, <4>2
        <5>2. sent'[a][n - 1] = snd[a]
          BY <2>2, <3>1, <5>1 DEF LastSent
        <5> QED
          BY <2>1, <2>2, <4>2, <5>2
      <4> QED
        BY <2>2, <4>1, <4>2
    <3> QED
      BY <2>2, <3>2
  <2>8. ASSUME ~SenderReset', NEW x \in Agents \ {a}
        PROVE  \A n \in 2 .. Len(sent'[x]) : Newer(sent'[x][n], sent'[x][n - 1])
    BY <1>1, <2>2, <2>8 DEF SenderFresh
  <2> QED
    BY <2>6, <2>7, <2>8 DEF SenderFresh
<1>4. ASSUME NEW a \in Agents, AgentRestart(a)
      PROVE  SenderInv' /\ SenderFresh'
  <2>1. snd' = [snd EXCEPT ![a] = OnDisk(a)] /\ UNCHANGED <<sfile, sent>>
    BY <1>4 DEF AgentRestart, OnDisk
  <2>2. used'["agent"] > 0
    BY <1>1, <1>4, EventUses DEF AgentRestart, Uses, Events
  <2>3. used'["unlink"] = 0 => snd' = snd
    BY <1>1, <2>1 DEF SenderInv, TypeInv, TypeOK
  <2>4. ~SenderReset' => used'["unlink"] = 0
    BY <1>1, <2>2 DEF SenderReset, Events
  <2> QED
    BY <1>1, <2>1, <2>3, <2>4 DEF SenderInv, SenderFresh, LastSent, OnDisk
<1>5. ASSUME NEW a \in Agents, RemoveSenderFile(a)
      PROVE  SenderInv' /\ SenderFresh'
  <2>1. used'["unlink"] > 0 /\ UNCHANGED <<snd, sent>>
    BY <1>1, <1>5, EventUses DEF RemoveSenderFile, Removes, Events
  <2> QED
    BY <1>1, <2>1 DEF SenderInv, SenderFresh, LastSent
<1> QED
  BY <1>2, <1>3, <1>4, <1>5, SenderSteps

-----------------------------------------------------------------------------
(* Nothing in the channel or at the receiver is ahead of the sender.       *)

(* What remoted may hold for an agent after a step: what it held, what a   *)
(* message of the channel says, what its file says, or nothing.            *)
Known(a, c) == \/ c = Zero \/ c = mem[a] \/ c = Counter(file[a])
               \/ \E m \in net : m[1] = a /\ c = Number(m)

LEMMA ReceiverSteps ==
  ASSUME TypeInv, FilesInv, [Next]_vars
  PROVE  \A a \in Agents : Known(a, mem'[a]) /\ Known(a, Counter(file'[a]))
<1>1. CASE ReadSecMSG
  <2> DEFINE b == inbox[1]
  <2>1. PICK base \in Counters : ReadBase(b, base)
    BY <1>1, ReadCases
  <2>2. b \in Agents /\ inbox \in net /\ Number(inbox) \in Counters
    BY <1>1, ReadCases
  <2>3. Known(b, Number(inbox))
    BY <2>2 DEF Known
  <2> HIDE DEF b
  <2>4. mem' = [mem EXCEPT ![b] = Number(inbox)] \/ mem' = [mem EXCEPT ![b] = base]
    BY <2>1 DEF ReadBase
  <2>5. base = mem[b] \/ base = Counter(file[b])
    BY <2>1 DEF ReadBase
  <2>6. /\ file' = [file EXCEPT ![b] = file'[b]]
        /\ Counter(file'[b]) = Counter(file[b]) \/ Counter(file'[b]) = mem'[b]
    BY <2>1 DEF ReadBase
  <2>7. /\ mem'[b] = Number(inbox) \/ mem'[b] = base
        /\ \A x \in Agents \ {b} : mem'[x] = mem[x] /\ file'[x] = file[x]
    BY <2>2, <2>4, <2>6 DEF TypeInv, TypeOK
  <2>8. Known(b, mem'[b])
    BY <2>3, <2>5, <2>7 DEF Known
  <2>9. Known(b, Counter(file'[b]))
    BY <2>6, <2>8 DEF Known
  <2> QED
    BY <2>7, <2>8, <2>9 DEF Known
<1>2. CASE OS_UpdateKeys
  <2>1. \A a \in Agents : /\ mem'[a] = Counter(AllStored[a])
                          /\ Counter(file'[a]) = Counter(AllStored[a])
                          /\ Counter(AllStored[a]) = mem[a] \/ Counter(AllStored[a]) = Counter(file[a])
    BY <1>2, AllStoredFacts, StartsFacts DEF OS_UpdateKeys, TypeInv
  <2> QED
    BY <2>1 DEF Known
<1>3. CASE remoted_wait_for_shutdown
  BY <1>3, AllStoredFacts DEF remoted_wait_for_shutdown, TypeInv, Known, memory
<1>4. CASE Start
  <2>1. /\ file \in [Agents -> FileType]
        /\ \A a \in Agents : file[a].ino = 0 => file[a].c = None
    BY DEF TypeInv, TypeOK, FilesInv, FileType
  <2>2. \A a \in Agents : mem'[a] = Counter(file[a]) /\ Counter(file'[a]) = Counter(file[a])
    BY <1>4, <2>1, StartsFacts DEF Start, TypeInv
  <2> QED
    BY <2>2 DEF Known
<1>5. ASSUME NEW a \in Agents, RemoveRidsFile(a)
      PROVE  \A x \in Agents : Known(x, mem'[x]) /\ Known(x, Counter(file'[x]))
  BY <1>5 DEF RemoveRidsFile, Known, Counter, TypeInv, TypeOK, memory
<1>6. CASE UNCHANGED <<mem, file>>
  BY <1>6 DEF Known
<1>7. CASE Next /\ ~UNCHANGED <<mem, file>>
  <2>1. \A m \in net : ~Receive(m)
    BY <1>7 DEF Receive, memory
  <2>2. \A a \in Agents : ~Sender(a)
    BY <1>7 DEF Sender, CreateSecMSG, AgentRestart, RemoveSenderFile, memory
  <2>3. ~remoted_request_shutdown /\ ~Exit /\ ~Crash
    BY <1>7 DEF remoted_request_shutdown, Exit, Crash, memory
  <2> QED
    BY <1>1, <1>2, <1>3, <1>4, <1>5, <1>7, <2>1, <2>2, <2>3 DEF Next, Remoted
<1> QED
  BY <1>6, <1>7 DEF vars, memory

LEMMA StepAheadInv ==
  ASSUME TypeInv, FilesInv, SenderInv, AheadInv, TypeInv', [Next]_vars
  PROVE  AheadInv'
<1> SUFFICES ASSUME ~SenderReset'
             PROVE  /\ \A a \in Agents : /\ ~Newer(mem'[a], snd'[a])
                                         /\ ~Newer(Counter(file'[a]), snd'[a])
                    /\ \A m \in net' : ~Newer(Number(m), snd'[m[1]])
  BY DEF AheadInv, Counter
<1>1. ~SenderReset
  BY SenderSteps
<1>2. \A a \in Agents : /\ mem[a] \in Counters /\ Counter(file[a]) \in Counters
                        /\ snd[a] \in Counters /\ snd'[a] \in Counters
                        /\ ~Newer(mem[a], snd[a]) /\ ~Newer(Counter(file[a]), snd[a])
  BY <1>1, CounterType DEF TypeInv, TypeOK, AheadInv
<1>3. \A m \in net : m[1] \in Agents /\ Number(m) \in Counters /\ ~Newer(Number(m), snd[m[1]])
  BY <1>1, MessageNumber DEF TypeInv, TypeOK, AheadInv
<1>4. /\ \A a \in Agents : ~Newer(snd[a], snd'[a])
      /\ \A m \in net' : m \in net \/ Number(m) = snd'[m[1]]
  <2>1. CASE UNCHANGED <<snd, sfile, sent, net>>
    BY <1>2, <2>1, Order
  <2>2. ASSUME NEW a \in Agents, CreateSecMSG(a)
        PROVE  /\ \A x \in Agents : ~Newer(snd[x], snd'[x])
               /\ \A m \in net' : m \in net \/ Number(m) = snd'[m[1]]
    <3> DEFINE c == Advance(snd[a])
    <3>1. /\ c \in Counters /\ Newer(c, snd[a])
          /\ snd' = [snd EXCEPT ![a] = c] /\ net' = net \cup {Msg(a, c)}
          /\ Msg(a, c)[1] = a /\ Number(Msg(a, c)) = c
      BY <2>2, CreateFacts
    <3> HIDE DEF c
    <3>2. snd'[a] = c /\ \A x \in Agents \ {a} : snd'[x] = snd[x]
      BY <3>1 DEF TypeInv, TypeOK
    <3>3. ~Newer(snd[a], c)
      BY <1>2, <3>1, Order
    <3>4. \A x \in Agents : ~Newer(snd[x], snd'[x])
      BY <1>2, <3>2, <3>3, Order
    <3> QED
      BY <3>1, <3>2, <3>4
  <2>3. ASSUME NEW a \in Agents, AgentRestart(a)
        PROVE  UNCHANGED <<snd, net>>
    <3>1. used \in [Events -> Nat] /\ used'["agent"] > 0 /\ used'["unlink"] = used["unlink"]
      BY <2>3, EventUses DEF AgentRestart, Uses, Events, TypeInv, TypeOK
    <3>2. used["unlink"] = 0
      BY <3>1 DEF SenderReset, Events
    <3> QED
      BY <2>3, <3>2 DEF AgentRestart, SenderInv, OnDisk, TypeInv, TypeOK
  <2>4. ASSUME NEW a \in Agents, RemoveSenderFile(a)
        PROVE  UNCHANGED <<snd, net>>
    BY <2>4 DEF RemoveSenderFile
  <2> QED
    BY <1>2, <2>1, <2>2, <2>3, <2>4, SenderSteps, Order
<1>5. ASSUME NEW a \in Agents, NEW c, Known(a, c)
      PROVE  ~Newer(c, snd'[a])
  <2>1. c \in Counters /\ ~Newer(c, snd[a])
    BY <1>2, <1>3, <1>5, ZeroLeast DEF Known
  <2> QED
    BY <1>2, <1>4, <2>1, Order
<1>6. \A a \in Agents : ~Newer(mem'[a], snd'[a]) /\ ~Newer(Counter(file'[a]), snd'[a])
  BY <1>5, ReceiverSteps
<1>7. ASSUME NEW m \in net'
      PROVE  ~Newer(Number(m), snd'[m[1]])
  <2>1. m[1] \in Agents /\ Number(m) \in Counters
    BY MessageNumber DEF TypeInv, TypeOK
  <2> QED
    BY <1>2, <1>3, <1>4, <2>1, Order
<1> QED
  BY <1>6, <1>7

-----------------------------------------------------------------------------
(* No message is accepted twice while nothing disturbs the receiver.       *)

LEMMA StepOnceInv ==
  ASSUME TypeInv, FilesInv, OnceInv, [Next]_vars
  PROVE  OnceInv'
<1> USE DEF Events
<1> SUFFICES ASSUME Undisturbed'
             PROVE  /\ phase' = "up"
                    /\ \A a \in Agents : inode'[a] = file'[a].ino /\ fp'[a] = file'[a].ino
                    /\ \A m \in Messages :
                         \/ accepted'[m] = 0
                         \/ accepted'[m] = 1 /\ ~Newer(Number(m), mem'[m[1]])
  BY DEF OnceInv, Undisturbed
<1>1. Undisturbed
  BY SenderSteps, SMTT(30) DEF Undisturbed, TypeInv, TypeOK
<1>2. /\ phase = "up"
      /\ \A a \in Agents : inode[a] = file[a].ino /\ fp[a] = file[a].ino
      /\ \A m \in Messages :
           accepted[m] = 0 \/ (accepted[m] = 1 /\ ~Newer(Number(m), mem[m[1]]))
  BY <1>1 DEF OnceInv
<1>3. CASE ReadSecMSG
  <2> DEFINE a == inbox[1]
  <2>1. PICK base \in Counters : ReadBase(a, base)
    BY <1>3, ReadCases
  <2>2. a \in Agents /\ inbox \in Messages /\ Number(inbox) \in Counters
    BY <1>3, ReadCases
  <2>3. /\ base = mem[a] /\ inode'[a] = inode[a] /\ fp'[a] = fp[a] /\ file'[a].ino = file[a].ino
        /\ inode' = [inode EXCEPT ![a] = inode'[a]] /\ fp' = [fp EXCEPT ![a] = fp'[a]]
        /\ file' = [file EXCEPT ![a] = file'[a]]
    BY <1>2, <2>1, <2>2 DEF ReadBase
  <2>4. \A x \in Agents : inode'[x] = file'[x].ino /\ fp'[x] = file'[x].ino
    BY <1>2, <2>2, <2>3 DEF TypeInv, TypeOK
  <2>5. ASSUME NEW m \in Messages
        PROVE  \/ accepted'[m] = 0
               \/ accepted'[m] = 1 /\ ~Newer(Number(m), mem'[m[1]])
    <3>1. m[1] \in Agents /\ Number(m) \in Counters /\ mem[m[1]] \in Counters /\ mem[a] \in Counters
      BY <2>2, MessageNumber DEF TypeInv, TypeOK
    <3>2. CASE Newer(Number(inbox), base)
      <4>1. /\ mem' = [mem EXCEPT ![a] = Number(inbox)]
            /\ accepted' = [accepted EXCEPT ![inbox] = @ + 1]
        BY <2>1, <3>2 DEF ReadBase
      <4>2. m # inbox => accepted'[m] = accepted[m]
        BY <2>2, <4>1 DEF TypeInv, TypeOK
      <4>3. accepted[inbox] = 0
        BY <1>2, <2>2, <2>3, <3>2
      <4>4. accepted'[inbox] = 1 /\ mem'[a] = Number(inbox)
        BY <2>2, <4>1, <4>3 DEF TypeInv, TypeOK
      <4>5. m[1] # a => mem'[m[1]] = mem[m[1]]
        BY <2>2, <3>1, <4>1 DEF TypeInv, TypeOK
      <4>6. ~Newer(Number(m), mem[m[1]]) => ~Newer(Number(m), mem'[m[1]])
        <5>1. CASE m[1] = a
          <6> HIDE DEF a
          <6>1. ~Newer(mem[a], Number(inbox))
            BY <2>2, <2>3, <3>1, <3>2, Order
          <6> QED
            BY <2>2, <3>1, <4>4, <5>1, <6>1, Order
        <5> QED
          BY <4>5, <5>1
      <4>7. ~Newer(Number(inbox), Number(inbox))
        BY <2>2, Order
      <4>8. m = inbox => accepted'[m] = 1 /\ ~Newer(Number(m), mem'[m[1]])
        BY <4>4, <4>7
      <4> QED
        BY <1>2, <4>2, <4>6, <4>8
    <3>3. CASE ~Newer(Number(inbox), base)
      <4>1. mem' = mem /\ accepted' = accepted
        <5>1. mem' = [mem EXCEPT ![a] = mem[a]] /\ accepted' = accepted
          BY <2>1, <2>3, <3>3 DEF ReadBase
        <5>2. mem = [b \in Agents |-> mem[b]]
          BY DEF TypeInv, TypeOK
        <5> QED
          BY <2>2, <5>1, <5>2
      <4> QED
        BY <1>2, <4>1
    <3> QED
      BY <3>2, <3>3
  <2> QED
    BY <1>2, <1>3, <2>4, <2>5 DEF ReadSecMSG
<1>4. CASE OS_UpdateKeys
  <2>1. \A a \in Agents : file[a].ino # 0
    BY <1>2 DEF FilesInv
  <2>2. \A a \in Agents : /\ inode'[a] = file'[a].ino /\ fp'[a] = file'[a].ino
                          /\ mem'[a] = Counter(AllStored[a])
    BY <1>4, AllStoredFacts, StartsFacts DEF OS_UpdateKeys, TypeInv
  <2>3. \A a \in Agents : mem'[a] = mem[a]
    BY <2>1, <2>2, AllStoredFacts DEF TypeInv
  <2>4. accepted' = accepted /\ phase' = phase
    BY <1>4 DEF OS_UpdateKeys
  <2> QED
    BY <1>2, <2>2, <2>3, <2>4, MessageNumber
<1>5. CASE UNCHANGED <<phase, mem, inode, fp, file, accepted>>
  BY <1>2, <1>5
<1>6. CASE Next /\ ~UNCHANGED <<phase, mem, inode, fp, file, accepted>>
  <2>1. \A m \in net : ~Receive(m)
    BY <1>6 DEF Receive, memory, history
  <2>2. \A a \in Agents : ~Sender(a)
    BY <1>6 DEF Sender, CreateSecMSG, AgentRestart, RemoveSenderFile, memory, history
  <2>3. ~remoted_wait_for_shutdown /\ ~Exit /\ ~Start
    BY <1>2 DEF remoted_wait_for_shutdown, Exit, Start
  <2>4. ~remoted_request_shutdown /\ ~Crash
    BY EventUses DEF remoted_request_shutdown, Crash, Uses, Undisturbed, TypeInv, TypeOK
  <2>5. \A a \in Agents : ~RemoveRidsFile(a)
    BY EventUses DEF RemoveRidsFile, Removes, Undisturbed, TypeInv, TypeOK
  <2> QED
    BY <1>3, <1>4, <1>6, <2>1, <2>2, <2>3, <2>4, <2>5 DEF Next, Remoted
<1> QED
  BY <1>5, <1>6 DEF vars, memory, history

-----------------------------------------------------------------------------
(* The theorems.                                                           *)

LEMMA InitIndInv == Init => IndInv
<1> SUFFICES ASSUME Init PROVE IndInv
  OBVIOUS
<1>1. TypeInv /\ FilesInv
  BY InitTypeInv, InitFilesInv
<1>2. SenderInv /\ SenderFresh
  BY DEF Init, SenderInv, SenderFresh, LastSent, OnDisk
<1>3. AheadInv
  BY ZeroLeast DEF Init, AheadInv, Counter
<1>4. OnceInv
  BY DEF Init, OnceInv
<1> QED
  BY <1>1, <1>2, <1>3, <1>4 DEF IndInv

LEMMA StepIndInv == IndInv /\ [Next]_vars => IndInv'
  BY StepTypeInv, StepFilesInv, StepSenderInv, StepAheadInv, StepOnceInv DEF IndInv

LEMMA Invariance == Spec => []IndInv
  BY InitIndInv, StepIndInv, PTL DEF Spec

(* Every variable keeps its type: no counter leaves the range a message    *)
(* can carry, for any number of agents and any limits (CreateSecMSG).      *)
THEOREM SecMsgTypeCorrect == Spec => []TypeOK
<1>1. IndInv => TypeOK
  BY DEF IndInv, TypeInv
<1> QED
  BY <1>1, Invariance, PTL

(* Without a restart of remoted and a removed rids file ReadSecMSG accepts *)
(* no datagram twice, whatever reloads of client.keys do to the counters.  *)
THEOREM ReplayRejected == Spec => []AcceptedOnce
<1>1. IndInv => AcceptedOnce
  BY DEF IndInv, OnceInv, AcceptedOnce, Undisturbed
<1> QED
  BY <1>1, Invariance, PTL

(* CreateSecMSG never numbers two messages of an agent alike or backwards, *)
(* unless the agent lost its file and was restarted.                       *)
THEOREM NumbersGrow == Spec => []SenderFresh
<1>1. IndInv => SenderFresh
  BY DEF IndInv
<1> QED
  BY <1>1, Invariance, PTL

(* What an agent sends next is above what remoted remembers of it, after   *)
(* any crashes, restarts, reloads and removals of remoted's files.         *)
THEOREM NeverLockedOut == Spec => []SenderAhead
<1>1. ASSUME IndInv, ~SenderReset, NEW a \in Agents
      PROVE  Newer(Advance(ReloadSender(a)), mem[a])
  <2>1. ReloadSender(a) = snd[a]
    BY <1>1 DEF ReloadSender, IndInv, TypeInv, SenderBounds
  <2>2. snd[a] \in Counters /\ mem[a] \in Counters /\ ~Newer(mem[a], snd[a])
    BY <1>1 DEF IndInv, TypeInv, TypeOK, AheadInv
  <2>3. Advance(snd[a]) \in Counters /\ Newer(Advance(snd[a]), snd[a])
    BY <2>2, AdvanceNewer
  <2> QED
    BY <2>1, <2>2, <2>3, Order
<1>2. IndInv => SenderAhead
  BY <1>1 DEF SenderAhead
<1> QED
  BY <1>2, Invariance, PTL

(* A step that accepts a message accepts one above everything the rids     *)
(* file of its agent has held: what was stored survives any crash.         *)
THEOREM StoredStaysRejected == Spec => StoredNeverReplayed
<1> DEFINE Above == \A m \in Messages : accepted'[m] > accepted[m]
                       => Newer(Number(m), stored[m[1]])
<1>1. ASSUME IndInv, [Next]_vars
      PROVE  Above
  <2>0. TypeInv /\ FilesInv
    BY <1>1 DEF IndInv
  <2>1. CASE ReadSecMSG
    <3> DEFINE a == inbox[1]
    <3>1. PICK base \in Counters : ReadBase(a, base)
      BY <2>0, <2>1, ReadCases
    <3>2. a \in Agents /\ inbox \in Messages /\ Number(inbox) \in Counters /\ stored[a] \in Counters
      BY <2>0, <2>1, ReadCases DEF TypeInv, TypeOK
    <3>3. ~Newer(stored[a], base)
      BY <3>1 DEF ReadBase
    <3>4. CASE Newer(Number(inbox), base)
      <4>1. accepted' = [accepted EXCEPT ![inbox] = @ + 1]
        BY <3>1, <3>4 DEF ReadBase
      <4>2. \A m \in Messages : accepted'[m] > accepted[m] => m = inbox
        BY <2>0, <3>2, <4>1 DEF TypeInv, TypeOK
      <4>3. Newer(Number(inbox), stored[a])
        BY <3>1, <3>2, <3>3, <3>4, Order
      <4> QED
        BY <4>2, <4>3
    <3>5. CASE ~Newer(Number(inbox), base)
      <4>1. accepted' = accepted
        BY <3>1, <3>5 DEF ReadBase
      <4> QED
        BY <2>0, <4>1 DEF TypeInv, TypeOK
    <3> QED
      BY <3>4, <3>5
  <2>2. CASE accepted' = accepted
    BY <2>0, <2>2 DEF TypeInv, TypeOK
  <2>3. ReadSecMSG \/ accepted' = accepted
    BY <1>1 DEF Next, Remoted, Sender, Receive, OS_UpdateKeys, remoted_request_shutdown,
       remoted_wait_for_shutdown, Exit, Crash, Start, CreateSecMSG, AgentRestart,
       RemoveSenderFile, RemoveRidsFile, vars, history
  <2> QED
    BY <2>1, <2>2, <2>3
<1>2. IndInv /\ [Next]_vars => [Above]_vars
  BY <1>1
<1> QED
  BY <1>2, Invariance, PTL DEF Spec, StoredNeverReplayed

-----------------------------------------------------------------------------
(* What the channel carries: the shared configuration (SharedConfig), for  *)
(* the same agents.  Its parts are lost on the way like any datagram, and  *)
(* its own faults are counted apart.                                       *)
CONSTANTS KeyFile0, Parts, MaxVersion, MaxFaults, NoAgent
VARIABLES keyfile, keys, heard, _msg, _keep_alive, _changed, modified,
          lis, mgr, dir, ver, rcv, faults

Shared == INSTANCE SharedConfig WITH used <- faults

(* The receiver of an agent is sane: the sum it compares with is one that  *)
(* was announced, and what it unpacked last is whole.                      *)
Sane(r) == /\ r \in Shared!Receivers
           /\ r.file => r.file_sum \in Shared!Versions
           /\ r.conf = <<>> \/ \E v \in Shared!Versions : r.conf = Shared!Whole(v)

(* A file with the sum of a version is that version: no other contents     *)
(* collide with it.                                                        *)
LEMMA SumFound ==
  ASSUME Shared!SharedConfigAssumption,
         NEW c, Shared!Sum(c) \in Shared!Versions
  PROVE  \E v \in Shared!Versions : c = Shared!Whole(v)
<1>1. MaxVersion \in Nat
  BY DEF Shared!SharedConfigAssumption
<1>2. Shared!Bad \notin Shared!Versions
  BY <1>1 DEF Shared!Bad, Shared!Versions
<1> QED
  BY <1>2 DEF Shared!Sum

(* receive_msg keeps it sane whatever of remoted's datagrams arrives, in   *)
(* whatever order.                                                         *)
LEMMA ReceiveSane ==
  ASSUME Shared!SharedConfigAssumption,
         NEW r, Sane(r), NEW v \in Shared!Versions, NEW k \in 1 .. Parts,
         NEW d \in {Shared!Ack, Shared!Update(v), Shared!Part(v, k), Shared!Close}
  PROVE  Sane(Shared!receive_msg(r, d))
<1>1. /\ r.up \in BOOLEAN /\ r.fp \in BOOLEAN /\ r.file \in BOOLEAN
      /\ r.file_sum \in Shared!Versions \cup {Shared!Bad}
      /\ r.merged \in Seq(Shared!Versions \X (1 .. Parts))
      /\ r.conf \in Seq(Shared!Versions \X (1 .. Parts))
      /\ r.file => r.file_sum \in Shared!Versions
      /\ r.conf = <<>> \/ \E w \in Shared!Versions : r.conf = Shared!Whole(w)
  BY DEF Sane, Shared!Receivers
<1>2. <<>> \in Seq(Shared!Versions \X (1 .. Parts))
  OBVIOUS
<1>4. CASE d = Shared!Ack
  <2>1. Shared!receive_msg(r, d) = [r EXCEPT !.up = TRUE]
    <3>1. d[1] = "ack"
      BY <1>4 DEF Shared!Ack
    <3> QED
      BY <3>1 DEF Shared!receive_msg
  <2> QED
    BY <1>1, <2>1 DEF Sane, Shared!Receivers
<1>5. CASE ~r.up /\ d # Shared!Ack
  <2>1. d[1] # "ack" /\ ~r.up
    BY <1>5 DEF Shared!Update, Shared!Part, Shared!Close, Shared!Ack
  <2>2. Shared!receive_msg(r, d) = r
    BY <2>1 DEF Shared!receive_msg
  <2> QED
    BY <2>2
<1>6. CASE r.up /\ d = Shared!Update(v)
  <2>1. d[1] = "update" /\ d[2] = v
    BY <1>6 DEF Shared!Update
  <2>2. Shared!receive_msg(r, d) = Shared!FileUpdate(r, v)
    BY <1>6, <2>1 DEF Shared!receive_msg
  <2> QED
    BY <1>1, <1>2, <2>2 DEF Sane, Shared!Receivers, Shared!FileUpdate
<1>7. CASE r.up /\ d = Shared!Part(v, k)
  <2>1. d[1] = "part" /\ d[2] = v /\ d[3] = k
    BY <1>7 DEF Shared!Part
  <2>2. Shared!receive_msg(r, d) = IF r.fp THEN [r EXCEPT !.merged = Append(@, <<v, k>>)] ELSE r
    BY <1>7, <2>1 DEF Shared!receive_msg
  <2>3. Append(r.merged, <<v, k>>) \in Seq(Shared!Versions \X (1 .. Parts))
    BY <1>1
  <2> QED
    BY <1>1, <2>2, <2>3 DEF Sane, Shared!Receivers
<1>8. CASE r.up /\ d = Shared!Close
  <2>1. d[1] = "close"
    BY <1>8 DEF Shared!Close
  <2>2. Shared!receive_msg(r, d) = Shared!FileClose(r)
    BY <1>8, <2>1 DEF Shared!receive_msg
  <2> DEFINE c == [r EXCEPT !.fp = FALSE, !.file = FALSE]
  <2>3. Sane(c) /\ c.merged = r.merged
    BY <1>1 DEF Sane, Shared!Receivers
  <2>4. CASE ~r.file
    BY <2>2, <2>3, <2>4 DEF Shared!FileClose
  <2>5. CASE r.file /\ Shared!Sum(r.merged) = r.file_sum
    <3>1. \E w \in Shared!Versions : r.merged = Shared!Whole(w)
      BY <1>1, <2>5, SumFound
    <3>2. Shared!receive_msg(r, d) = [c EXCEPT !.conf = r.merged]
      BY <2>2, <2>5 DEF Shared!FileClose
    <3> QED
      BY <1>1, <3>1, <3>2 DEF Sane, Shared!Receivers
  <2>6. CASE r.file /\ Shared!Sum(r.merged) # r.file_sum
    <3>1. Shared!receive_msg(r, d) = [c EXCEPT !.merged = <<>>]
      BY <2>2, <2>6 DEF Shared!FileClose
    <3> QED
      BY <1>1, <1>2, <3>1 DEF Sane, Shared!Receivers
  <2> QED
    BY <2>4, <2>5, <2>6
<1> QED
  BY <1>1, <1>4, <1>5, <1>6, <1>7, <1>8

(* What send_file_toagent sends of merged.mg is one of them.               *)
LEMMA FilePartKinds ==
  ASSUME Shared!SharedConfigAssumption,
         ver \in Shared!Versions, NEW k \in 0 .. Parts + 1
  PROVE  \E v \in Shared!Versions, j \in 1 .. Parts :
           Shared!FilePart(k) \in {Shared!Ack, Shared!Update(v), Shared!Part(v, j), Shared!Close}
<1>1. Parts \in Nat /\ 1 \in 1 .. Parts
  BY DEF Shared!SharedConfigAssumption
<1>2. CASE k = 0
  BY <1>1, <1>2 DEF Shared!FilePart
<1>3. CASE k # 0 /\ k <= Parts
  BY <1>1, <1>3 DEF Shared!FilePart
<1>4. CASE k # 0 /\ ~(k <= Parts)
  BY <1>1, <1>4 DEF Shared!FilePart
<1> QED
  BY <1>2, <1>3, <1>4

(* Of the manager thread only the place in the file it sends matters.      *)
MgrFields == {"pc", "i", "id", "msg", "idx", "k"}
ManagerOK(m) == /\ m = [f \in MgrFields |-> m[f]]
                /\ m.k \in 0 .. Parts + 1

SharedInv == /\ dir \in Shared!Versions /\ ver \in Shared!Versions
             /\ ManagerOK(mgr)
             /\ rcv = [a \in Agents |-> rcv[a]]
             /\ \A a \in Agents : Sane(rcv[a])

LEMMA StartedSane ==
  ASSUME NEW r, Sane(r)
  PROVE  Sane(Shared!Started(r.merged, r.conf)) /\ Sane([r EXCEPT !.up = FALSE])
  BY DEF Sane, Shared!Receivers, Shared!Started

LEMMA EmptySane == Sane(Shared!Started(<<>>, <<>>))
<1>1. <<>> \in Seq(Shared!Versions \X (1 .. Parts))
  OBVIOUS
<1> QED
  BY <1>1 DEF Sane, Shared!Receivers, Shared!Started

(* Only one agent's receiver changes in a step; the slot may be that of    *)
(* nobody.                                                                 *)
LEMMA OneChanges ==
  ASSUME SharedInv, NEW a, NEW r, a \in Agents => Sane(r),
         rcv' = [rcv EXCEPT ![a] = r]
  PROVE  /\ rcv' = [b \in Agents |-> rcv'[b]]
         /\ \A b \in Agents : Sane(rcv'[b])
  BY DEF SharedInv

LEMMA DeliverSane ==
  ASSUME Shared!SharedConfigAssumption,
         SharedInv, NEW a, NEW d, NEW v \in Shared!Versions, NEW k \in 1 .. Parts,
         d \in {Shared!Ack, Shared!Update(v), Shared!Part(v, k), Shared!Close},
         Shared!Deliver(a, d)
  PROVE  /\ rcv' = [b \in Agents |-> rcv'[b]]
         /\ \A b \in Agents : Sane(rcv'[b])
<1>1. CASE UNCHANGED rcv
  BY <1>1 DEF SharedInv
<1>2. CASE rcv' = [rcv EXCEPT ![a] = Shared!receive_msg(@, d)]
  <2>1. a \in Agents => Sane(Shared!receive_msg(rcv[a], d))
    BY ReceiveSane DEF SharedInv
  <2>2. rcv' = [rcv EXCEPT ![a] = Shared!receive_msg(rcv[a], d)]
    BY <1>2
  <2> QED
    BY <2>1, <2>2, OneChanges
<1> QED
  BY <1>1, <1>2 DEF Shared!Deliver

LEMMA ManagerMoves ==
  ASSUME ManagerOK(mgr)
  PROVE  /\ \A p : ManagerOK([mgr EXCEPT !.pc = p])
         /\ \A i : ManagerOK([mgr EXCEPT !.i = i])
         /\ \A p, i : ManagerOK([mgr EXCEPT !.pc = p, !.i = i])
         /\ \A p, x, y : ManagerOK([mgr EXCEPT !.pc = p, !.id = x, !.msg = y])
         /\ \A p, n : ManagerOK([mgr EXCEPT !.pc = p, !.idx = n])
         /\ \A p : \A k \in 0 .. Parts + 1 : ManagerOK([mgr EXCEPT !.pc = p, !.k = k])
         /\ \A k \in 0 .. Parts + 1 : ManagerOK([mgr EXCEPT !.k = k])
<1>1. /\ \A p : ManagerOK([mgr EXCEPT !.pc = p])
      /\ \A i : ManagerOK([mgr EXCEPT !.i = i])
  BY DEF ManagerOK, MgrFields
<1>2. \A p, i : ManagerOK([mgr EXCEPT !.pc = p, !.i = i])
  BY DEF ManagerOK, MgrFields
<1>3. \A p, x, y : ManagerOK([mgr EXCEPT !.pc = p, !.id = x, !.msg = y])
  BY DEF ManagerOK, MgrFields
<1>4. \A p, n : ManagerOK([mgr EXCEPT !.pc = p, !.idx = n])
  BY DEF ManagerOK, MgrFields
<1>5. /\ \A p : \A k \in 0 .. Parts + 1 : ManagerOK([mgr EXCEPT !.pc = p, !.k = k])
      /\ \A k \in 0 .. Parts + 1 : ManagerOK([mgr EXCEPT !.k = k])
  BY DEF ManagerOK, MgrFields
<1> QED
  BY <1>1, <1>2, <1>3, <1>4, <1>5

LEMMA StepSane ==
  ASSUME Shared!SharedConfigAssumption,
         SharedInv, [Shared!Next]_Shared!vars
  PROVE  SharedInv'
<1> DEFINE RcvOK == rcv' = [b \in Agents |-> rcv'[b]] /\ \A b \in Agents : Sane(rcv'[b])
<1>0. /\ Parts \in Nat /\ Parts >= 1 /\ MaxVersion \in Nat /\ 0 \in 0 .. Parts + 1
      /\ 1 \in 1 .. Parts
  BY DEF Shared!SharedConfigAssumption
<1>1. UNCHANGED rcv => RcvOK
  BY DEF SharedInv
<1>2. SUFFICES dir' \in Shared!Versions /\ ver' \in Shared!Versions /\ ManagerOK(mgr') /\ RcvOK
  BY DEF SharedInv, ManagerOK, Sane
<1>3. dir \in Shared!Versions /\ ver \in Shared!Versions /\ ManagerOK(mgr)
  BY DEF SharedInv
<1> HIDE DEF RcvOK
<1>4. ASSUME NEW a \in Agents, Shared!save_controlmsg(a)
      PROVE  dir' \in Shared!Versions /\ ver' \in Shared!Versions /\ ManagerOK(mgr') /\ RcvOK
  <2>1. RcvOK
    <3>1. Shared!Deliver(a, Shared!Ack)
      BY <1>4 DEF Shared!save_controlmsg
    <3> QED
      BY <1>0, <1>3, <3>1, DeliverSane DEF RcvOK
  <2> QED
    BY <1>3, <1>4, <2>1 DEF Shared!save_controlmsg
<1>5. CASE Shared!save_controlmsg_notify
  <2>1. ManagerOK(mgr')
    <3>1. mgr' = mgr \/ mgr' = [mgr EXCEPT !.pc = "sweep", !.i = 1]
      BY <1>5 DEF Shared!save_controlmsg_notify
    <3> QED
      BY <1>0, <1>3, <3>1 DEF ManagerOK, MgrFields
  <2> QED
    BY <1>1, <1>3, <1>5, <2>1 DEF Shared!save_controlmsg_notify
<1>6. CASE Shared!OS_UpdateKeys \/ Shared!ManageAgents
  BY <1>1, <1>3, <1>6 DEF Shared!OS_UpdateKeys, Shared!ManageAgents
<1>7. CASE Shared!wait_for_msgs
  <2>1. ManagerOK(mgr')
    <3>1. mgr' = [mgr EXCEPT !.pc = "asleep"] \/ mgr' = [mgr EXCEPT !.pc = "sweep", !.i = 1]
      BY <1>7 DEF Shared!wait_for_msgs, Shared!ManagerStep
    <3> QED
      BY <1>0, <1>3, <3>1 DEF ManagerOK, MgrFields
  <2> QED
    BY <1>1, <1>3, <1>7, <2>1 DEF Shared!wait_for_msgs, Shared!ManagerStep
<1>8. CASE Shared!SpuriousWakeup
  <2>1. ManagerOK(mgr')
    <3>1. mgr' = [mgr EXCEPT !.pc = "sweep", !.i = 1]
      BY <1>8 DEF Shared!SpuriousWakeup, Shared!ManagerStep
    <3> QED
      BY <1>3, <3>1, ManagerMoves
  <2> QED
    BY <1>1, <1>3, <1>8, <2>1 DEF Shared!SpuriousWakeup, Shared!ManagerStep
<1>9. CASE Shared!SweepEnds \/ Shared!SweepSkips
  <2>1. ManagerOK(mgr')
    <3>1. mgr' = [mgr EXCEPT !.pc = "top", !.i = 0] \/ mgr' = [mgr EXCEPT !.i = mgr.i + 1]
      BY <1>9 DEF Shared!SweepEnds, Shared!SweepSkips, Shared!ManagerStep
    <3> QED
      BY <1>0, <1>3, <3>1 DEF ManagerOK, MgrFields
  <2> QED
    BY <1>1, <1>3, <1>9, <2>1 DEF Shared!SweepEnds, Shared!SweepSkips, Shared!ManagerStep
<1>10. CASE Shared!SweepTakes
  <2>1. ManagerOK(mgr')
    <3>1. mgr' = [mgr EXCEPT !.pc = "resolve", !.id = keys[mgr.i], !.msg = _msg[mgr.i]]
      BY <1>10 DEF Shared!SweepTakes, Shared!ManagerStep
    <3> QED
      BY <1>3, <3>1, ManagerMoves
  <2> QED
    BY <1>1, <1>3, <1>10, <2>1 DEF Shared!SweepTakes, Shared!ManagerStep
<1>11. CASE Shared!Resolve
  <2>1. ManagerOK(mgr')
    <3>1. \/ mgr' = [mgr EXCEPT !.pc = "read", !.idx = Shared!Slot(mgr.id)]
          \/ mgr' = [mgr EXCEPT !.pc = "back"]
      BY <1>11 DEF Shared!Resolve, Shared!ManagerStep
    <3> QED
      BY <1>0, <1>3, <3>1 DEF ManagerOK, MgrFields
  <2> QED
    BY <1>1, <1>3, <1>11, <2>1 DEF Shared!Resolve, Shared!ManagerStep
<1>12. CASE Shared!read_controlmsg
  <2>1. ManagerOK(mgr')
    <3>1. mgr' = [mgr EXCEPT !.pc = "send", !.k = 0] \/ mgr' = [mgr EXCEPT !.pc = "back"]
      BY <1>12 DEF Shared!read_controlmsg, Shared!ManagerStep
    <3> QED
      BY <1>0, <1>3, <3>1 DEF ManagerOK, MgrFields
  <2> QED
    BY <1>1, <1>3, <1>12, <2>1 DEF Shared!read_controlmsg, Shared!ManagerStep
<1>13. CASE Shared!send_file_toagent
  <2>1. mgr.k \in 0 .. Parts + 1
    BY <1>3 DEF ManagerOK
  <2>2. RcvOK
    <3>1. PICK v \in Shared!Versions, j \in 1 .. Parts :
            Shared!FilePart(mgr.k) \in {Shared!Ack, Shared!Update(v), Shared!Part(v, j), Shared!Close}
      BY <1>3, <2>1, FilePartKinds
    <3>2. CASE Shared!Reachable(mgr.idx)
      BY <1>13, <3>1, <3>2, DeliverSane DEF Shared!send_file_toagent, RcvOK
    <3>3. CASE ~Shared!Reachable(mgr.idx)
      BY <1>1, <1>13, <3>3 DEF Shared!send_file_toagent
    <3> QED
      BY <3>2, <3>3
  <2>3. ManagerOK(mgr')
    <3>1. \/ mgr' = [mgr EXCEPT !.pc = "back"]
          \/ mgr.k <= Parts /\ mgr' = [mgr EXCEPT !.k = mgr.k + 1]
      BY <1>0, <1>13, <2>1 DEF Shared!send_file_toagent, Shared!ManagerStep
    <3>2. mgr.k <= Parts => mgr.k + 1 \in 0 .. Parts + 1
      BY <1>0, <2>1
    <3> QED
      BY <1>3, <3>1, <3>2, ManagerMoves
  <2> QED
    BY <1>3, <1>13, <2>2, <2>3 DEF Shared!send_file_toagent, Shared!ManagerStep
<1>14. CASE Shared!SweepContinues
  <2>1. \E p, i : mgr' = [pc |-> p, i |-> i, id |-> NoAgent, msg |-> NoMsg, idx |-> 0, k |-> 0]
    BY <1>14 DEF Shared!SweepContinues, Shared!ManagerStep
  <2>2. ManagerOK(mgr')
    BY <1>0, <2>1 DEF ManagerOK, MgrFields
  <2> QED
    BY <1>1, <1>3, <1>14, <2>2 DEF Shared!SweepContinues, Shared!ManagerStep
<1>15. CASE Shared!SharedFilesChange
  BY <1>0, <1>1, <1>3, <1>15 DEF Shared!SharedFilesChange, Shared!Versions
<1>16. ASSUME NEW a \in Agents, Shared!AgentRestart(a) \/ Shared!Reconnect(a)
       PROVE  dir' \in Shared!Versions /\ ver' \in Shared!Versions /\ ManagerOK(mgr') /\ RcvOK
  <2>1. Sane(rcv[a])
    BY DEF SharedInv
  <2>2. \/ rcv' = [rcv EXCEPT ![a] = Shared!Started(rcv[a].merged, rcv[a].conf)]
        \/ rcv' = [rcv EXCEPT ![a] = [rcv[a] EXCEPT !.up = FALSE]]
    BY <1>16 DEF Shared!AgentRestart, Shared!Reconnect
  <2>3. RcvOK
    BY <2>1, <2>2, StartedSane, OneChanges DEF RcvOK
  <2> QED
    BY <1>3, <1>16, <2>3 DEF Shared!AgentRestart, Shared!Reconnect
<1>17. CASE UNCHANGED Shared!vars
  BY <1>1, <1>3, <1>17 DEF Shared!vars
<1> QED
  BY <1>4, <1>5, <1>6, <1>7, <1>8, <1>9, <1>10, <1>11, <1>12, <1>13, <1>14, <1>15, <1>16,
     <1>17 DEF Shared!Next, Shared!Manager

LEMMA InitSane ==
  ASSUME Shared!SharedConfigAssumption, Shared!Init
  PROVE  SharedInv
<1>1. 0 \in Shared!Versions /\ 0 \in 0 .. Parts + 1
  BY DEF Shared!SharedConfigAssumption, Shared!Versions
<1>2. ManagerOK(mgr)
  BY <1>1 DEF Shared!Init, ManagerOK, MgrFields
<1>3. rcv = [a \in Agents |-> Shared!Started(<<>>, <<>>)]
  BY DEF Shared!Init
<1> QED
  BY <1>1, <1>2, <1>3, EmptySane DEF Shared!Init, SharedInv

(* An agent unpacks whole files only, whatever parts of whichever transfer *)
(* are lost, however often client.keys changes under a transfer, and       *)
(* whoever gets the parts meant for another: receive_msg unpacks only what *)
(* has the announced sum, and the announced sum is that of a whole file.   *)
THEOREM UnpackedWholeAlways ==
  ASSUME Shared!SharedConfigAssumption
  PROVE  Shared!Spec => []Shared!UnpackedWhole
<1>1. Shared!Init => SharedInv
  BY InitSane
<1>2. SharedInv /\ [Shared!Next]_Shared!vars => SharedInv'
  BY StepSane
<1>3. SharedInv => Shared!UnpackedWhole
  BY DEF SharedInv, Sane, Shared!UnpackedWhole
<1> QED
  BY <1>1, <1>2, <1>3, PTL DEF Shared!Spec

-----------------------------------------------------------------------------
(* The slots.  client.keys names nobody twice, so every slot of the        *)
(* keystore is one of the arrays that save_controlmsg and the manager      *)
(* index, through any number of reloads.                                   *)

Distinct(s) == \A m, n \in 1 .. Len(s) : s[m] = s[n] => m = n

(* The instance has symbols of its own for what FiniteSets defines.        *)
LEMMA SameCount ==
  ASSUME NEW S
  PROVE  /\ Shared!IsFiniteSet(S) <=> IsFiniteSet(S)
         /\ Shared!Cardinality(S) = Cardinality(S)
<1>1. Shared!IsFiniteSet(S) <=> IsFiniteSet(S)
  BY DEF Shared!IsFiniteSet, IsFiniteSet
<1>2. Shared!Cardinality(S) = Cardinality(S)
  BY DEF Shared!Cardinality, Cardinality
<1> QED
  BY <1>1, <1>2

LEMMA SlotsSuffice ==
  ASSUME Shared!SharedConfigAssumption, NEW s \in Seq(Agents), Distinct(s)
  PROVE  /\ Cardinality(Agents) \in Nat
         /\ Len(s) \in 0 .. Cardinality(Agents)
         /\ 1 .. Len(s) \subseteq Shared!Slots
<1>1. IsFiniteSet(Agents)
  BY SameCount DEF Shared!SharedConfigAssumption
<1>2. Len(s) \in Nat /\ s \in [1 .. Len(s) -> Agents]
  OBVIOUS
<1>3. s \in Injection(1 .. Len(s), Agents)
  BY <1>2 DEF Distinct, Injection, IsInjective
<1>4. Cardinality(1 .. Len(s)) <= Cardinality(Agents)
  BY <1>1, <1>3, FS_Injection
<1>5. Cardinality(1 .. Len(s)) = Len(s)
  <2>1. 1 \in Int /\ Len(s) \in Int
    BY <1>2
  <2>2. Cardinality(1 .. Len(s)) = IF 1 > Len(s) THEN 0 ELSE Len(s) - 1 + 1
    BY ONLY <2>1, FS_Interval
  <2> QED
    BY <1>2, <2>2
<1>6. Cardinality(Agents) \in Nat
  BY <1>1, FS_CardinalityType
<1> QED
  BY <1>2, <1>4, <1>5, <1>6, SameCount DEF Shared!Slots

(* manage_agents adds and removes agents: nobody gets a second line.       *)
LEMMA RemovalKeepsDistinct ==
  ASSUME NEW s \in Seq(Agents), Distinct(s), NEW n \in 1 .. Len(s)
  PROVE  Shared!RemoveAt(s, n) \in Seq(Agents) /\ Distinct(Shared!RemoveAt(s, n))
<1> DEFINE a == SubSeq(s, 1, n - 1)
           b == SubSeq(s, n + 1, Len(s))
<1>1. Len(s) \in Nat /\ \A m \in 1 .. Len(s) : s[m] \in Agents
  OBVIOUS
<1>2. a \in Seq(Agents) /\ Len(a) = n - 1 /\ \A m \in 1 .. n - 1 : a[m] = s[m]
  <2>1. \A m \in 1 .. n - 1 : s[m] \in Agents
    BY <1>1
  <2> QED
    BY <1>1, <2>1, SubSeqProperties
<1>3. b \in Seq(Agents) /\ Len(b) = Len(s) - n /\ \A m \in 1 .. Len(s) - n : b[m] = s[m + n]
  <2>1. \A m \in n + 1 .. Len(s) : s[m] \in Agents
    BY <1>1
  <2> QED
    BY <1>1, <2>1, SubSeqProperties
<1>4. Shared!RemoveAt(s, n) = a \o b
  BY DEF Shared!RemoveAt
<1> HIDE DEF a, b
<1>5. /\ a \o b \in Seq(Agents) /\ Len(a \o b) = Len(s) - 1
      /\ \A m \in 1 .. Len(s) - 1 : (a \o b)[m] = IF m < n THEN s[m] ELSE s[m + 1]
  <2>1. /\ a \o b \in Seq(Agents) /\ Len(a \o b) = Len(a) + Len(b)
        /\ \A m \in 1 .. Len(a) + Len(b) :
             (a \o b)[m] = IF m <= Len(a) THEN a[m] ELSE b[m - Len(a)]
    BY <1>2, <1>3, ConcatProperties
  <2>2. Len(a) + Len(b) = Len(s) - 1
    BY <1>1, <1>2, <1>3
  <2>3. ASSUME NEW m \in 1 .. Len(s) - 1
        PROVE  (a \o b)[m] = IF m < n THEN s[m] ELSE s[m + 1]
    <3>1. (a \o b)[m] = IF m <= Len(a) THEN a[m] ELSE b[m - Len(a)]
      BY <2>1, <2>2
    <3>2. CASE m < n
      BY <1>1, <1>2, <3>1, <3>2
    <3>3. CASE ~(m < n)
      <4>1. ~(m <= Len(a)) /\ m - Len(a) = m - (n - 1) /\ m - (n - 1) \in 1 .. Len(s) - n
        BY <1>1, <1>2, <3>3
      <4>2. b[m - (n - 1)] = s[(m - (n - 1)) + n] /\ (m - (n - 1)) + n = m + 1
        BY <1>1, <1>3, <4>1
      <4> QED
        BY <3>1, <3>3, <4>1, <4>2
    <3> QED
      BY <3>2, <3>3
  <2> QED
    BY <2>1, <2>2, <2>3
<1>6. ASSUME NEW x \in 1 .. Len(s) - 1, NEW y \in 1 .. Len(s) - 1, (a \o b)[x] = (a \o b)[y]
      PROVE  x = y
  <2> DEFINE at(m) == IF m < n THEN m ELSE m + 1
  <2>1. /\ at(x) \in 1 .. Len(s) /\ at(y) \in 1 .. Len(s)
        /\ at(x) = at(y) => x = y
    BY <1>1
  <2>2. (a \o b)[x] = s[at(x)] /\ (a \o b)[y] = s[at(y)]
    BY <1>5
  <2> HIDE DEF at
  <2> QED
    BY <1>6, <2>1, <2>2 DEF Distinct
<1> QED
  BY <1>4, <1>5, <1>6 DEF Distinct

LEMMA AdditionKeepsDistinct ==
  ASSUME NEW s \in Seq(Agents), Distinct(s), NEW e \in Agents \ Shared!Range(s)
  PROVE  Append(s, e) \in Seq(Agents) /\ Distinct(Append(s, e))
<1>1. /\ Append(s, e) \in Seq(Agents) /\ Len(Append(s, e)) = Len(s) + 1 /\ Len(s) \in Nat
      /\ \A m \in 1 .. Len(s) : Append(s, e)[m] = s[m]
      /\ Append(s, e)[Len(s) + 1] = e
  BY AppendProperties
<1>2. \A m \in 1 .. Len(s) : s[m] # e
  BY DEF Shared!Range
<1> QED
  BY <1>1, <1>2 DEF Distinct

TypesInv == Shared!TypeOK /\ Distinct(keyfile) /\ Distinct(keys)

(* What the manager and the listener look up is a slot of the arrays.      *)
LEMMA SlotFacts ==
  ASSUME Shared!SharedConfigAssumption, TypesInv
  PROVE  /\ Cardinality(Agents) \in Nat
         /\ Len(keys) \in 0 .. Cardinality(Agents)
         /\ 1 .. Len(keys) \subseteq Shared!Slots
         /\ Shared!Range(keys) \subseteq Agents
         /\ \A a \in Shared!Range(keys) : Shared!Slot(a) \in 1 .. Len(keys)
<1>1. keys \in Seq(Agents) /\ Distinct(keys)
  BY DEF TypesInv, Shared!TypeOK
<1>2. ASSUME NEW a \in Shared!Range(keys)
      PROVE  Shared!Slot(a) \in 1 .. Len(keys)
  <2>1. DOMAIN keys = 1 .. Len(keys)
    BY <1>1
  <2>2. \E n \in DOMAIN keys : keys[n] = a
    BY <1>2 DEF Shared!Range
  <2> QED
    BY <2>1, <2>2 DEF Shared!Slot
<1>3. Shared!Range(keys) \subseteq Agents
  BY <1>1 DEF Shared!Range
<1> QED
  BY <1>1, <1>2, <1>3, SlotsSuffice

(* The types in three parts, next to those of SharedInv.                   *)
StoreOK == /\ keyfile \in Seq(Agents) /\ keys \in Seq(Agents) /\ heard \subseteq Agents
           /\ Distinct(keyfile) /\ Distinct(keys)
SlotsOK == /\ _msg \in [Shared!Slots -> Shared!Controls \cup {NoMsg}]
           /\ _keep_alive \in [Shared!Slots -> Agents \cup {NoAgent}]
           /\ _changed \subseteq Shared!Slots /\ modified \in Shared!Slots \cup {0}
           /\ lis \in [slot : Shared!Slots, from : Agents] \cup {NoMsg}
Managers == [pc : {"top", "asleep", "sweep", "resolve", "read", "send", "back"},
             i : 0 .. Shared!Cardinality(Agents) + 1, id : Agents \cup {NoAgent},
             msg : Shared!Controls \cup {NoMsg}, idx : Shared!Slots \cup {0}, k : 0 .. Parts + 1]

LEMMA TypesSplit ==
  ASSUME SharedInv
  PROVE  TypesInv <=> StoreOK /\ SlotsOK /\ mgr \in Managers
<1>1. rcv \in [Agents -> Shared!Receivers]
  BY DEF SharedInv, Sane
<1> QED
  BY <1>1 DEF TypesInv, Shared!TypeOK, StoreOK, SlotsOK, Managers, SharedInv

(* What an agent sends is a control message of its own.                    *)
LEMMA ReportKnown ==
  ASSUME Shared!SharedConfigAssumption, NEW a \in Agents, NEW m \in Shared!run_notify(a)
  PROVE  m \in Shared!Controls
<1>1. \A c : Shared!Sum(c) \in Shared!Versions \cup {Shared!Bad}
  BY DEF Shared!Sum
<1>2. CASE m = Shared!Startup(a)
  BY <1>2 DEF Shared!Startup, Shared!Controls
<1>3. ASSUME NEW s \in Shared!Versions \cup {Shared!Bad}, m = Shared!Report(a, s)
      PROVE  m \in Shared!Controls
  BY <1>3 DEF Shared!Report, Shared!Controls
<1>4. m = Shared!Startup(a) \/ \E s \in Shared!Versions \cup {Shared!Bad} : m = Shared!Report(a, s)
  BY <1>1 DEF Shared!run_notify
<1> QED
  BY <1>2, <1>3, <1>4

LEMMA ListenerTypes ==
  ASSUME Shared!SharedConfigAssumption, SharedInv, TypesInv,
         NEW a \in Agents, Shared!save_controlmsg(a)
  PROVE  StoreOK' /\ SlotsOK' /\ mgr' \in Managers
<1>1. StoreOK /\ SlotsOK /\ mgr \in Managers
  BY TypesSplit
<1>2. a \in Shared!Range(keys) /\ Shared!Slot(a) \in Shared!Slots
  BY SlotFacts DEF Shared!save_controlmsg
<1>3. /\ heard' = heard \cup {a}
      /\ UNCHANGED <<keyfile, keys, _changed, modified, mgr, dir, ver>>
  BY DEF Shared!save_controlmsg
<1>4. StoreOK'
  BY <1>1, <1>3 DEF StoreOK, Distinct
<1>5. PICK m \in Shared!run_notify(a) :
        IF m = Shared!Startup(a)
        THEN UNCHANGED <<lis, _msg, _keep_alive>>
        ELSE /\ lis' = [slot |-> Shared!Slot(a), from |-> a]
             /\ _msg' = [_msg EXCEPT ![Shared!Slot(a)] = m]
             /\ _keep_alive' = [_keep_alive EXCEPT ![Shared!Slot(a)] = IF @ = NoAgent THEN a ELSE @]
  BY DEF Shared!save_controlmsg
<1>6. m \in Shared!Controls
  BY ReportKnown
<1>7. CASE m = Shared!Startup(a)
  BY <1>1, <1>3, <1>4, <1>5, <1>7 DEF SlotsOK
<1>8. CASE m # Shared!Startup(a)
  <2>1. lis' \in [slot : Shared!Slots, from : Agents]
    BY <1>2, <1>5, <1>8
  <2>2. _msg' \in [Shared!Slots -> Shared!Controls \cup {NoMsg}]
    BY <1>1, <1>5, <1>6, <1>8 DEF SlotsOK
  <2>3. _keep_alive' \in [Shared!Slots -> Agents \cup {NoAgent}]
    BY <1>1, <1>5, <1>8 DEF SlotsOK
  <2> QED
    BY <1>1, <1>3, <1>4, <2>1, <2>2, <2>3 DEF SlotsOK
<1> QED
  BY <1>7, <1>8

LEMMA KeysTypes ==
  ASSUME Shared!SharedConfigAssumption, SharedInv, TypesInv,
         Shared!OS_UpdateKeys \/ Shared!ManageAgents
  PROVE  StoreOK' /\ SlotsOK' /\ mgr' \in Managers
<1>1. StoreOK /\ SlotsOK /\ mgr \in Managers
  BY TypesSplit
<1>2. SlotsOK' /\ mgr' \in Managers
  BY <1>1 DEF SlotsOK, Shared!OS_UpdateKeys, Shared!ManageAgents, Shared!slots
<1>3. CASE Shared!OS_UpdateKeys
  <2>1. keyfile' = keyfile /\ keys' = keyfile /\ heard' \subseteq heard
    BY <1>3 DEF Shared!OS_UpdateKeys
  <2> QED
    BY <1>1, <1>2, <2>1 DEF StoreOK, Distinct
<1>4. CASE Shared!ManageAgents
  <2>1. keys' = keys /\ heard' = heard
    BY <1>4 DEF Shared!ManageAgents
  <2>2. \/ \E n \in DOMAIN keyfile : keyfile' = Shared!RemoveAt(keyfile, n)
        \/ \E e \in Agents \ Shared!Range(keyfile) : keyfile' = Append(keyfile, e)
    BY <1>4 DEF Shared!ManageAgents
  <2>3. keyfile \in Seq(Agents) /\ Distinct(keyfile) /\ DOMAIN keyfile = 1 .. Len(keyfile)
    BY <1>1 DEF StoreOK
  <2>4. keyfile' \in Seq(Agents) /\ Distinct(keyfile')
    BY <2>2, <2>3, RemovalKeepsDistinct, AdditionKeepsDistinct
  <2> QED
    BY <1>1, <1>2, <2>1, <2>4 DEF StoreOK, Distinct
<1> QED
  BY <1>3, <1>4

LEMMA ManagerTypes ==
  ASSUME Shared!SharedConfigAssumption, SharedInv, TypesInv,
         \/ Shared!save_controlmsg_notify \/ Shared!Manager \/ Shared!SpuriousWakeup
  PROVE  StoreOK' /\ SlotsOK' /\ mgr' \in Managers
<1>1. StoreOK /\ SlotsOK /\ mgr \in Managers
  BY TypesSplit
<1>2. /\ Shared!Cardinality(Agents) \in Nat
      /\ Len(keys) \in 0 .. Shared!Cardinality(Agents)
      /\ 1 .. Len(keys) \subseteq Shared!Slots
      /\ \A a \in Shared!Range(keys) : Shared!Slot(a) \in Shared!Slots
  BY SlotFacts, SameCount
<1>3. Parts \in Nat /\ 0 \in 0 .. Parts + 1
  BY DEF Shared!SharedConfigAssumption
<1>4. StoreOK'
  <2>1. UNCHANGED Shared!store
    BY DEF Shared!save_controlmsg_notify, Shared!Manager, Shared!SpuriousWakeup,
           Shared!wait_for_msgs, Shared!SweepEnds, Shared!SweepSkips, Shared!SweepTakes,
           Shared!Resolve, Shared!read_controlmsg, Shared!send_file_toagent,
           Shared!SweepContinues, Shared!ManagerStep
  <2> QED
    BY <1>1, <2>1 DEF StoreOK, Distinct, Shared!store
<1>5. /\ 0 \in 0 .. Shared!Cardinality(Agents) + 1
      /\ 1 \in 0 .. Shared!Cardinality(Agents) + 1
      /\ \A n \in 0 .. Shared!Cardinality(Agents) + 1 :
           n <= Len(keys) => n + 1 \in 0 .. Shared!Cardinality(Agents) + 1
  BY <1>2
<1>6. /\ mgr.i \in 0 .. Shared!Cardinality(Agents) + 1 /\ mgr.id \in Agents \cup {NoAgent}
      /\ mgr.msg \in Shared!Controls \cup {NoMsg} /\ mgr.k \in 0 .. Parts + 1
      /\ mgr.idx \in Shared!Slots \cup {0}
  BY <1>1 DEF Managers
<1>7. CASE Shared!save_controlmsg_notify
  <2>1. lis.slot \in Shared!Slots
    BY <1>1, <1>7 DEF Shared!save_controlmsg_notify, SlotsOK
  <2>2. SlotsOK'
    BY <1>1, <1>7, <2>1 DEF Shared!save_controlmsg_notify, SlotsOK
  <2>3. mgr' = mgr \/ mgr' = [mgr EXCEPT !.pc = "sweep", !.i = 1]
    BY <1>7 DEF Shared!save_controlmsg_notify
  <2>4. mgr' \in Managers
    BY <1>1, <1>5, <2>3 DEF Managers
  <2> QED
    BY <1>4, <2>2, <2>4
<1>8. CASE \/ Shared!wait_for_msgs \/ Shared!SpuriousWakeup \/ Shared!SweepEnds
           \/ Shared!SweepSkips
  <2>1. SlotsOK'
    BY <1>1, <1>8 DEF SlotsOK, Shared!wait_for_msgs, Shared!SpuriousWakeup, Shared!SweepEnds,
                      Shared!SweepSkips, Shared!ManagerStep
  <2>2. \/ mgr' = [mgr EXCEPT !.pc = "asleep"]
        \/ mgr' = [mgr EXCEPT !.pc = "sweep", !.i = 1]
        \/ mgr' = [mgr EXCEPT !.pc = "top", !.i = 0]
        \/ mgr.i <= Len(keys) /\ mgr' = [mgr EXCEPT !.i = mgr.i + 1]
    BY <1>8 DEF Shared!wait_for_msgs, Shared!SpuriousWakeup, Shared!SweepEnds,
                Shared!SweepSkips, Shared!ManagerStep
  <2>3. mgr' \in Managers
    BY <1>1, <1>5, <1>6, <2>2 DEF Managers
  <2> QED
    BY <1>4, <2>1, <2>3
<1>9. CASE Shared!SweepTakes
  <2>1. mgr.i \in Shared!Slots /\ keys[mgr.i] \in Agents
    <3>1. mgr.i \in Shared!Slots /\ mgr.i <= Len(keys)
      BY <1>1, <1>9 DEF SlotsOK, Shared!SweepTakes
    <3>2. mgr.i \in 1 .. Len(keys)
      BY <1>2, <3>1 DEF Shared!Slots
    <3> QED
      BY <1>1, <3>1, <3>2 DEF StoreOK
  <2>2. SlotsOK'
    BY <1>1, <1>9 DEF SlotsOK, Shared!SweepTakes, Shared!ManagerStep
  <2>3. /\ mgr' = [mgr EXCEPT !.pc = "resolve", !.id = keys[mgr.i], !.msg = _msg[mgr.i]]
        /\ _msg[mgr.i] \in Shared!Controls \cup {NoMsg}
    BY <1>1, <1>9, <2>1 DEF SlotsOK, Shared!SweepTakes, Shared!ManagerStep
  <2>4. mgr' \in Managers
    BY <1>1, <2>1, <2>3 DEF Managers
  <2> QED
    BY <1>4, <2>2, <2>4
<1>10. CASE Shared!Resolve \/ Shared!read_controlmsg
  <2>1. SlotsOK'
    BY <1>1, <1>10 DEF SlotsOK, Shared!Resolve, Shared!read_controlmsg, Shared!ManagerStep
  <2>2. \/ mgr' = [mgr EXCEPT !.pc = "back"]
        \/ mgr' = [mgr EXCEPT !.pc = "send", !.k = 0]
        \/ /\ mgr.id \in Shared!Range(keys)
           /\ mgr' = [mgr EXCEPT !.pc = "read", !.idx = Shared!Slot(mgr.id)]
    BY <1>10 DEF Shared!Resolve, Shared!read_controlmsg, Shared!ManagerStep
  <2>3. mgr' \in Managers
    <3>1. CASE mgr' = [mgr EXCEPT !.pc = "back"]
      BY <1>1, <3>1 DEF Managers
    <3>2. CASE mgr' = [mgr EXCEPT !.pc = "send", !.k = 0]
      BY <1>1, <1>3, <3>2 DEF Managers
    <3>3. CASE /\ mgr.id \in Shared!Range(keys)
               /\ mgr' = [mgr EXCEPT !.pc = "read", !.idx = Shared!Slot(mgr.id)]
      <4>1. Shared!Slot(mgr.id) \in Shared!Slots \cup {0}
        BY <1>2, <3>3
      <4> QED
        BY <1>1, <3>3, <4>1 DEF Managers
    <3> QED
      BY <2>2, <3>1, <3>2, <3>3
  <2> QED
    BY <1>4, <2>1, <2>3
<1>11. CASE Shared!send_file_toagent \/ Shared!SweepContinues
  <2>1. SlotsOK'
    BY <1>1, <1>11 DEF SlotsOK, Shared!send_file_toagent, Shared!SweepContinues,
                       Shared!ManagerStep
  <2>2. \/ mgr' = [mgr EXCEPT !.pc = "back"]
        \/ mgr.k <= Parts /\ mgr' = [mgr EXCEPT !.k = mgr.k + 1]
        \/ \E p \in {"top", "sweep"}, i \in 0 .. Shared!Cardinality(Agents) + 1 :
             mgr' = [pc |-> p, i |-> i, id |-> NoAgent, msg |-> NoMsg, idx |-> 0, k |-> 0]
    <3>1. CASE Shared!send_file_toagent
      BY <1>3, <1>6, <3>1 DEF Shared!send_file_toagent, Shared!ManagerStep
    <3>2. CASE Shared!SweepContinues
      <4>1. CASE mgr.i > Len(keys)
        BY <1>5, <3>2, <4>1 DEF Shared!SweepContinues, Shared!ManagerStep
      <4>2. CASE ~(mgr.i > Len(keys))
        <5>1. mgr.i + 1 \in 0 .. Shared!Cardinality(Agents) + 1
          BY <1>2, <1>6, <4>2
        <5> QED
          BY <3>2, <4>2, <5>1 DEF Shared!SweepContinues, Shared!ManagerStep
      <4> QED
        BY <4>1, <4>2
    <3> QED
      BY <1>11, <3>1, <3>2
  <2>3. mgr' \in Managers
    <3>1. mgr.k <= Parts => mgr.k + 1 \in 0 .. Parts + 1
      BY <1>3, <1>6
    <3> QED
      BY <1>1, <1>3, <2>2, <3>1 DEF Managers
  <2> QED
    BY <1>4, <2>1, <2>3
<1> QED
  BY <1>7, <1>8, <1>9, <1>10, <1>11 DEF Shared!Manager

LEMMA StepTypes ==
  ASSUME Shared!SharedConfigAssumption, SharedInv, TypesInv, [Shared!Next]_Shared!vars
  PROVE  TypesInv'
<1>1. StoreOK /\ SlotsOK /\ mgr \in Managers
  BY TypesSplit
<1>2. ASSUME SharedInv', StoreOK', SlotsOK', mgr' \in Managers
      PROVE  TypesInv'
  <2>1. rcv' \in [Agents -> Shared!Receivers]
    BY <1>2 DEF SharedInv, Sane
  <2> QED
    BY <1>2, <2>1 DEF TypesInv, Shared!TypeOK, StoreOK, SlotsOK, Managers, SharedInv
<1>3. SharedInv'
  BY StepSane
<1>4. SUFFICES StoreOK' /\ SlotsOK' /\ mgr' \in Managers
  BY <1>2, <1>3
<1>5. CASE \E a \in Agents : Shared!save_controlmsg(a)
  BY <1>5, ListenerTypes
<1>6. CASE Shared!OS_UpdateKeys \/ Shared!ManageAgents
  BY <1>6, KeysTypes
<1>7. CASE Shared!save_controlmsg_notify \/ Shared!Manager \/ Shared!SpuriousWakeup
  BY <1>7, ManagerTypes
<1>8. CASE \/ Shared!SharedFilesChange \/ UNCHANGED Shared!vars
           \/ \E a \in Agents : Shared!AgentRestart(a) \/ Shared!Reconnect(a)
  <2>1. UNCHANGED <<Shared!store, Shared!slots, lis, mgr>>
    BY <1>8 DEF Shared!SharedFilesChange, Shared!AgentRestart, Shared!Reconnect, Shared!vars
  <2> QED
    BY <1>1, <2>1 DEF StoreOK, SlotsOK, Distinct, Shared!store, Shared!slots
<1> QED
  BY <1>5, <1>6, <1>7, <1>8 DEF Shared!Next

LEMMA InitTypes ==
  ASSUME Shared!SharedConfigAssumption, Shared!Init
  PROVE  TypesInv
<1>1. KeyFile0 \in Seq(Agents) /\ Distinct(KeyFile0)
  BY DEF Shared!SharedConfigAssumption, Shared!IsInjective, Distinct
<1>2. Shared!Cardinality(Agents) \in Nat /\ Parts \in Nat
  BY <1>1, SlotsSuffice, SameCount DEF Shared!SharedConfigAssumption
<1>3. StoreOK
  BY <1>1 DEF Shared!Init, StoreOK
<1>4. SlotsOK
  BY DEF Shared!Init, SlotsOK
<1>5. mgr \in Managers
  BY <1>2 DEF Shared!Init, Managers
<1> QED
  BY <1>3, <1>4, <1>5, InitSane, TypesSplit

(* Type correctness of the shared configuration, for any number of agents: *)
(* whatever manage_agents does to client.keys and whenever the keystore is *)
(* reloaded, save_controlmsg and the manager thread index their slots in   *)
(* bounds, and a transfer stays within the parts of the file.              *)
THEOREM SharedTypeCorrect ==
  ASSUME Shared!SharedConfigAssumption
  PROVE  Shared!Spec => []Shared!TypeOK
<1>1. Shared!Init => SharedInv /\ TypesInv
  BY InitSane, InitTypes
<1>2. SharedInv /\ TypesInv /\ [Shared!Next]_Shared!vars => SharedInv' /\ TypesInv'
  BY StepSane, StepTypes
<1>3. TypesInv => Shared!TypeOK
  BY DEF TypesInv
<1> QED
  BY <1>1, <1>2, <1>3, PTL DEF Shared!Spec
=============================================================================
