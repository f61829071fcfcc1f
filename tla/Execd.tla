-------------------------------- MODULE Execd --------------------------------
(***************************************************************************)
(* execd runs the active responses: the script with "add" when a request   *)
(* comes, and with "delete" when the response has timed out or the daemon  *)
(* is told to end.  Scripts are children that run on by themselves.  What  *)
(* is to be undone is in timeout_list; the entry stays there until its     *)
(* "delete" was collected.  A request for what is listed only prolongs it. *)
(*                                                                         *)
(* A signal may interrupt the main loop anywhere; the handler goes through *)
(* the same list and then ends the process.                                *)
(***************************************************************************)
EXTENDS Integers, Sequences, FiniteSets, FiniteSetsExt, SequencesExt

CONSTANTS Keys,        \* script, user and address of a response
          Plain,       \* those whose command has no timeout
          NoAddress,   \* those without an address ("-")
          Offenders,   \* length of repeated_offenders_timeout, 0 for none
          MaxPid,      \* bound: children at a time
          MaxRequests, \* bound: requests
          MaxFailures  \* bound: forks that fail

ASSUME ExecdAssumption ==
    /\ IsFiniteSet(Keys) /\ Keys # {} /\ Plain \subseteq Keys /\ NoAddress \subseteq Keys
    /\ {Offenders, MaxPid, MaxRequests, MaxFailures} \subseteq Nat

VARIABLES pc,            \* where the main loop, or the handler, is
          i,             \* the list node it is at
          req,           \* the key of the request in hand
          got,           \* what fork returned last, when not stored yet
          timeout_list,  \* entries [key, block, expired, delete_pid]
          repeated_hash, \* key -> times seen; -1 for never
          childcount,
          proc,          \* pid -> the child with it
          owed,          \* history: keys whose "add" was started, and no
                         \* "delete" since
          left,          \* history: keys that the handler could not undo, or
                         \* has no entry for
          asked, failed  \* use of the bounds

data == <<timeout_list, repeated_hash, childcount>>
vars == <<pc, i, req, got, data, proc, owed, left, asked, failed>>

Pids == 1 .. MaxPid
Free == <<>>
Child(kind, k) == <<kind, k>>
Children == {p \in Pids : proc[p] # Free}
Listed(k) == \E n \in DOMAIN timeout_list : timeout_list[n].key = k
Node(k) == CHOOSE n \in DOMAIN timeout_list : timeout_list[n].key = k
Handler == {"h_next", "h_forked", "h_wait"}
Stopping == pc \in Handler \cup {"exited"}

Init ==
    /\ pc = "reap" /\ i = 0 /\ req = (CHOOSE k \in Keys : TRUE) /\ got = 0
    /\ timeout_list = <<>>
    /\ repeated_hash = [k \in Keys |-> -1]
    /\ childcount = 0
    /\ proc = [p \in Pids |-> Free]
    /\ owed = {} /\ left = {} /\ asked = 0 /\ failed = 0

(* fork: a child with a new pid, or -1.                                    *)
ExecCmd(kind, k) ==
    \/ /\ \E p \in Pids \ Children :
            /\ got' = p
            /\ proc' = [proc EXCEPT ![p] = Child(kind, k)]
       /\ owed' = IF kind = "delete" THEN owed \ {k}
                  ELSE IF k \in Plain THEN owed ELSE owed \cup {k}
       /\ UNCHANGED failed
    \/ /\ Children = Pids \/ failed < MaxFailures
       /\ failed' = IF Children = Pids THEN failed ELSE failed + 1
       /\ got' = -1
       /\ UNCHANGED <<proc, owed>>

(* waitpid gives the process of a script that has ended.  Nothing else     *)
(* depends on when a script ends: a child counts as running until then.    *)
Collect(p) == p \in Children /\ proc' = [proc EXCEPT ![p] = Free]

(* The time of a listed response runs out.  (The main loop takes the time  *)
(* once in a round, after it has reaped.)                                  *)
TimesOut(k) ==
    /\ pc = "reap" /\ Listed(k) /\ ~timeout_list[Node(k)].expired
    /\ timeout_list' = [timeout_list EXCEPT ![Node(k)].expired = TRUE]
    /\ UNCHANGED <<pc, i, req, got, repeated_hash, childcount, proc, owed,
                   left, asked, failed>>

-----------------------------------------------------------------------------
(* The main loop.                                                          *)
ExecdTimeoutReapDelete(p) ==
    timeout_list' = RemoveFirstMatch(timeout_list, LAMBDA e : e.delete_pid = p)

(* "Clean up any children".                                                *)
Reap(p) ==
    /\ pc = "reap" /\ childcount > 0
    /\ Collect(p) /\ ExecdTimeoutReapDelete(p)
    /\ childcount' = childcount - 1
    /\ UNCHANGED <<pc, i, req, got, repeated_hash, owed, left, asked, failed>>

(* Those left are running, or there is none, or none is counted.           *)
ReapEnds ==
    /\ pc = "reap"
    /\ pc' = "launch" /\ i' = 1
    /\ UNCHANGED <<req, got, data, proc, owed, left, asked, failed>>

(* Mutant: an entry whose "delete" is running is due again.                *)
DueAgain(e) == e.expired

Due(e) == e.delete_pid <= 0 /\ e.expired

Launch ==
    /\ pc = "launch" /\ i <= Len(timeout_list)
    /\ IF Due(timeout_list[i])
       THEN /\ ExecCmd("delete", timeout_list[i].key)
            /\ pc' = "launched" /\ UNCHANGED i
       ELSE /\ i' = i + 1
            /\ UNCHANGED <<pc, got, proc, owed, failed>>
    /\ UNCHANGED <<req, data, left, asked>>

(* Its pid is stored; one that failed is tried again in the next round.    *)
Launched ==
    /\ pc = "launched"
    /\ timeout_list' = [timeout_list EXCEPT ![i].delete_pid = got]
    /\ childcount' = IF got > 0 THEN childcount + 1 ELSE childcount
    /\ got' = 0
    /\ pc' = "launch" /\ i' = i + 1
    /\ UNCHANGED <<req, repeated_hash, proc, owed, left, asked, failed>>

LaunchEnds ==
    /\ pc = "launch" /\ i > Len(timeout_list)
    /\ pc' = "select" /\ i' = 0
    /\ UNCHANGED <<req, got, data, proc, owed, left, asked, failed>>

(* select times out after a second, or the message is of no use (no such   *)
(* command, too few arguments).                                            *)
SelectTimeout ==
    /\ pc = "select"
    /\ pc' = "reap"
    /\ UNCHANGED <<i, req, got, data, proc, owed, left, asked, failed>>

Receive(k) ==
    /\ pc = "select" /\ asked < MaxRequests
    /\ req' = k /\ asked' = asked + 1
    /\ pc' = "dup"
    /\ UNCHANGED <<i, got, data, proc, owed, left, failed>>

(* How often the offender was seen, and the time that goes with it: 0 is   *)
(* the time of the command, n the n-th of the configured ones.             *)
Seen(k) == IF Offenders = 0 THEN -1
           ELSE IF repeated_hash[k] >= Offenders THEN Offenders ELSE repeated_hash[k] + 1

(* Mutant: the number of times is not stored.                              *)
ProlongForgets ==
    /\ pc = "dup" /\ Listed(req) /\ timeout_list[Node(req)].delete_pid <= 0
    /\ LET raise == Offenders > 0 /\ req \notin NoAddress /\ repeated_hash[req] # -1 IN
       timeout_list' = [timeout_list EXCEPT ![Node(req)].expired = FALSE,
                                            ![Node(req)].block = IF raise THEN Seen(req) ELSE @]
    /\ pc' = "reap"
    /\ UNCHANGED <<i, req, got, repeated_hash, childcount, proc, owed,
                   left, asked, failed>>

(* It is in force: its time starts again, with the next offender's time.   *)
Prolong ==
    /\ pc = "dup" /\ Listed(req) /\ timeout_list[Node(req)].delete_pid <= 0
    /\ LET raise == Offenders > 0 /\ req \notin NoAddress /\ repeated_hash[req] # -1 IN
       /\ timeout_list' = [timeout_list EXCEPT ![Node(req)].expired = FALSE,
                                               ![Node(req)].block = IF raise THEN Seen(req) ELSE @]
       /\ repeated_hash' = IF raise THEN [repeated_hash EXCEPT ![req] = Seen(req)]
                           ELSE repeated_hash
    /\ pc' = "reap"
    /\ UNCHANGED <<i, req, got, childcount, proc, owed, left, asked, failed>>

(* Mutant: the entry stays.                                                *)
WaitDeleteKeeps ==
    /\ pc = "dup" /\ Listed(req) /\ timeout_list[Node(req)].delete_pid > 0
    /\ LET p == timeout_list[Node(req)].delete_pid IN
       /\ Collect(p)
       /\ childcount' = IF childcount > 0 THEN childcount - 1 ELSE 0
    /\ pc' = "add"
    /\ UNCHANGED <<i, req, got, timeout_list, repeated_hash, owed, left,
                   asked, failed>>

(* Its "delete" is running: that is waited for, and the response is new.   *)
WaitDelete ==
    /\ pc = "dup" /\ Listed(req) /\ timeout_list[Node(req)].delete_pid > 0
    /\ LET p == timeout_list[Node(req)].delete_pid IN
       /\ Collect(p)
       /\ childcount' = IF childcount > 0 THEN childcount - 1 ELSE 0
    /\ timeout_list' = RemoveAt(timeout_list, Node(req))
    /\ pc' = "add"
    /\ UNCHANGED <<i, req, got, repeated_hash, owed, left, asked, failed>>

DupCheckEnds ==
    /\ pc = "dup" /\ ~Listed(req)
    /\ pc' = "add"
    /\ UNCHANGED <<i, req, got, data, proc, owed, left, asked, failed>>

Add ==
    /\ pc = "add"
    /\ ExecCmd("add", req)
    /\ pc' = "added"
    /\ UNCHANGED <<i, req, data, left, asked>>

(* The entry, unless the command has no timeout.  The child is counted     *)
(* whether or not there is one.                                            *)
Added ==
    /\ pc = "added"
    /\ IF req \in Plain THEN UNCHANGED <<timeout_list, repeated_hash>>
       ELSE /\ repeated_hash' = IF Offenders = 0 THEN repeated_hash
                                ELSE [repeated_hash EXCEPT ![req] = Seen(req)]
            /\ timeout_list' = Append(timeout_list, [key |-> req,
                   block |-> IF Offenders = 0 THEN 0 ELSE Seen(req),
                   expired |-> FALSE, delete_pid |-> 0])
    /\ childcount' = childcount + 1
    /\ got' = 0
    /\ pc' = "reap"
    /\ UNCHANGED <<i, req, proc, owed, left, asked, failed>>

-----------------------------------------------------------------------------
(* execd_shutdown, in place of whatever the main loop was about to do: a   *)
(* response that has just been started has no entry yet.                   *)
Signal ==
    /\ ~Stopping
    /\ pc' = "h_next"
    /\ left' = IF pc = "added" /\ got > 0 THEN left \cup {req} ELSE left
    /\ UNCHANGED <<i, req, got, data, proc, owed, asked, failed>>

(* A running "delete" is waited for, any other is started.  When that      *)
(* fails, nobody tries again: ExecCmd's result is not looked at.           *)
ShutdownNext ==
    /\ pc = "h_next" /\ timeout_list # <<>>
    /\ LET e == Head(timeout_list) IN
       IF e.delete_pid > 0
       THEN /\ pc' = "h_wait"
            /\ UNCHANGED <<got, proc, owed, left, failed>>
       ELSE /\ ExecCmd("delete", e.key)
            /\ left' = IF got' = -1 THEN left \cup {e.key} ELSE left
            /\ pc' = "h_forked"
    /\ UNCHANGED <<i, req, data, asked>>

NodeDone == /\ timeout_list' = Tail(timeout_list)
            /\ pc' = "h_next" /\ got' = 0
            /\ UNCHANGED <<i, req, repeated_hash, childcount, owed, left,
                           asked, failed>>

(* Mutant: wait for the child that was forked.                             *)
ShutdownWaitsAnyForked ==
    /\ pc = "h_forked"
    /\ Collect(got)
    /\ NodeDone

(* wait takes whichever child ends first, and fails when there is none.    *)
ShutdownWaitsAny ==
    /\ pc = "h_forked"
    /\ \/ \E p \in Pids : Collect(p)
       \/ Children = {} /\ UNCHANGED proc
    /\ NodeDone

(* waitpid fails when an earlier wait has taken the child.                 *)
ShutdownWaitsDelete ==
    /\ pc = "h_wait"
    /\ LET p == Head(timeout_list).delete_pid IN
       \/ Collect(p)
       \/ p \notin Children /\ UNCHANGED proc
    /\ NodeDone

HandleSIG ==
    /\ pc = "h_next" /\ timeout_list = <<>>
    /\ pc' = "exited"
    /\ UNCHANGED <<i, req, got, data, proc, owed, left, asked, failed>>

-----------------------------------------------------------------------------
MainLoop == \/ ReapEnds \/ Launch \/ Launched \/ LaunchEnds
            \/ SelectTimeout \/ Prolong \/ WaitDelete \/ DupCheckEnds
            \/ Add \/ Added

Shutdown == ShutdownNext \/ ShutdownWaitsAny \/ ShutdownWaitsDelete \/ HandleSIG

Next == \/ MainLoop \/ Shutdown \/ Signal
        \/ \E k \in Keys : Receive(k) \/ TimesOut(k)
        \/ \E p \in Pids : Reap(p)

(* The process runs, time passes, and scripts end, after which waitpid     *)
(* returns them.                                                           *)
Fairness == /\ WF_vars(MainLoop) /\ WF_vars(Shutdown)
            /\ SF_vars(\E k \in Keys : TimesOut(k))
            /\ SF_vars(\E p \in Pids : Reap(p))

Spec == Init /\ [][Next]_vars /\ Fairness

-----------------------------------------------------------------------------
Entries == [key : Keys, block : 0 .. Offenders, expired : BOOLEAN,
            delete_pid : Pids \cup {-1, 0}]

StateOK ==
    /\ pc \in {"reap", "launch", "launched", "select", "dup", "add", "added", "exited"} \cup Handler
    /\ i \in Nat /\ req \in Keys /\ got \in Pids \cup {-1, 0}
    /\ timeout_list \in Seq(Entries)
    /\ repeated_hash \in [Keys -> -1 .. Offenders]
    /\ childcount \in Nat
    /\ proc \in [Pids -> {Free} \cup ({"add", "delete"} \X Keys)]
    /\ owed \subseteq Keys /\ asked \in Nat /\ failed \in Nat
TypeOK == StateOK /\ left \subseteq Keys    \* the history, too

(* The regression "execd drops a block while its delete is still running": *)
(* while a "delete" runs, nothing is started for the same script, user and *)
(* address.                                                                *)
UndoAlone == [][ \A p \in Pids :
    proc[p] = Free /\ proc'[p] # Free /\ ~Stopping =>
        ~ \E q \in Pids : proc[q] = Child("delete", proc'[p][2]) ]_vars

(* Every response that is in force can be undone: it is listed, once, and  *)
(* its "delete" was not started.                                           *)
OwedListed ==
    /\ \A m, n \in DOMAIN timeout_list : timeout_list[m].key = timeout_list[n].key => m = n
    /\ ~Stopping => \A k \in owed :
         \/ pc = "added" /\ k = req
         \/ \E n \in DOMAIN timeout_list :
               timeout_list[n].key = k /\ timeout_list[n].delete_pid <= 0

(* A repeated offender is blocked for the time that goes with how often it *)
(* was seen, whether it came back during a block or after one.             *)
OffenderTime == Offenders > 0 =>
    \A n \in DOMAIN timeout_list : timeout_list[n].block = repeated_hash[timeout_list[n].key]

(* Every response ends: when no more requests come and forks no longer     *)
(* fail (MaxRequests, MaxFailures; until then an undo that could not be    *)
(* started keeps its entry and is tried again) all are undone and off the  *)
(* list, and a shutdown that has begun is over: it waits for no child      *)
(* that nobody will become.  In force for good are only the responses that *)
(* a shutdown leaves behind: one whose undo it could not start, and one    *)
(* that it interrupted before there was an entry.                          *)
AllUndone == <>[](/\ timeout_list = <<>> /\ (Stopping => pc = "exited")
                  /\ owed \subseteq left /\ (~Stopping => left = {}))
=============================================================================
