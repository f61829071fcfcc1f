----------------------------- MODULE SyscheckDb -----------------------------
(***************************************************************************)
(* The integrity database analysisd keeps for an agent.  Several threads   *)
(* take the agent's reports from one queue; a mutex of the agent makes one *)
(* of them at a time look a file up and update it.  The database is a text *)
(* file: an update writes '#' over the start of the file's old row and     *)
(* appends a new one.  An index in memory, built from the file when it is  *)
(* first used, says where the row of a file is and what it holds.          *)
(*                                                                         *)
(* In maintenance mode changes are accepted without an alert.  The mode is *)
(* a marker file, which agent_control writes and removes, and which        *)
(* analysisd reads, rewrites to count what it accepted, and removes at the *)
(* end of a scan.  No lock protects it.                                    *)
(*                                                                         *)
(* The process may end at any moment: what is on disk remains.  An append  *)
(* may fail (a full disk), the byte that comments a row out does not.      *)
(***************************************************************************)
EXTENDS FimSum, Sequences, FiniteSets, SequencesExt

CONSTANTS Files, Threads,
          Reports,    \* the messages of the agent: [file, sum], or Completed
          OldRows,    \* the database from before, as the file holds it
          Completed,  \* the agent has sent its whole database
          Rescanned,  \* the same, after the scan that "agent_control -M end" asks for
          AlertNew, ReportNew,   \* syscheck_alert_new, report_new_files_as_changed
          Fails,      \* the writes that may fail: "found", "new"
          MaxFails, MaxCrashes, MaxCommands, \* bounds
          None

FileReports == [file : Files, sum : Sums]
Messages == FileReports \cup {Completed, Rescanned}
Rows == [file : Files, sum : Sums, mark : Marks, live : BOOLEAN]
Entries == [pos : Nat \ {0}, sum : Sums, mark : Marks]

(* The database from before is one that this code has written.             *)
ASSUME SyscheckDbAssumption ==
    /\ Reports \in Seq(Messages) /\ {Completed, Rescanned} \cap FileReports = {}
    /\ OldRows \in Seq(Rows)
    /\ \A i, j \in DOMAIN OldRows :
         OldRows[i].live /\ OldRows[j].live /\ OldRows[i].file = OldRows[j].file => i = j
    /\ {AlertNew, ReportNew} \subseteq BOOLEAN
    /\ None \notin Hashes \cup Entries \cup [sum : Sums, mark : Marks]
                  \cup [file : Files, maint : BOOLEAN]

VARIABLES queue,
          th,         \* th[t]: the thread: where it is, its message, what it has decided
          rows,       \* the file: [file, sum, mark, live], live if not commented out
          stub,       \* the file ends in a '#' without a row
          built, index,    \* the index: [pos, sum, mark], or None
          cp, cpt,    \* the database is complete: in memory, on disk
          marker,     \* the marker: "off", "on" or "pending" (pending_end)
          cached,     \* maintenance was found on less than two seconds ago
          scan,       \* the scan for "-M end": "no", "asked", "sent", "done"
          auto,       \* auto_ignore
          alert, known,    \* histories: the last alert, the last real hash of a file
          fails, crashes, commands

disk == <<rows, stub, cpt>>
memory == <<built, index, cp, cached>>
bounds == <<fails, crashes, commands>>
vars == <<queue, th, disk, memory, marker, scan, auto, alert, known, bounds>>

Idle == [pc |-> "idle", msg |-> None, job |-> None]

(* The thread goes on; one that is done keeps nothing.                     *)
Goto(t, l) == th' = [th EXCEPT ![t] = IF l = "idle" THEN Idle ELSE [@ EXCEPT !.pc = l]]

(* What the index would be if it were built from the file.                 *)
DB_BuildIndex(r) == [f \in Files |->
    LET at == {i \in DOMAIN r : r[i].file = f /\ r[i].live}
    IN IF at = {} THEN None
       ELSE [pos |-> Max(at), sum |-> r[Max(at)].sum, mark |-> r[Max(at)].mark]]

(* A history: the real hash the database holds for each file.              *)
Known(idx) == [f \in Files |-> IF idx[f] = None \/ idx[f].sum = Deleted \/ idx[f].sum.hash = Xxx
                               THEN None ELSE idx[f].sum.hash]

Unbuilt == [f \in Files |-> None]

Init ==
    /\ queue = Reports /\ th = [t \in Threads |-> Idle]
    /\ rows = OldRows /\ stub = FALSE /\ cpt = FALSE
    /\ built = FALSE /\ index = Unbuilt /\ cp = FALSE
    /\ marker \in {"off", "on"} /\ cached = FALSE /\ scan = "no" /\ auto \in BOOLEAN
    /\ alert = [file |-> None, kind |-> None, flip |-> FALSE] /\ known = Known(DB_BuildIndex(OldRows))
    /\ fails = 0 /\ crashes = 0 /\ commands = 0

(* sk_agent_mutex, from DB_File to the end of DB_Search.                   *)
Holding(t) == th[t].pc \in {"comment", "append", "new", "bump", "write"}

Free == \A t \in Threads : ~Holding(t)

Take(t) ==
    /\ th[t].pc = "idle" /\ queue # <<>>
    /\ th' = [th EXCEPT ![t] = [pc |-> IF Head(queue) \in {Completed, Rescanned} THEN "completed"
                                       ELSE "search",
                                msg |-> Head(queue), job |-> None]]
    /\ queue' = Tail(queue)
    /\ UNCHANGED <<disk, memory, marker, scan, auto, alert, known, bounds>>

-----------------------------------------------------------------------------
(* The mode is looked up on disk unless it was on a moment ago.            *)
DB_IsMaintenance == cached \/ marker # "off"

(* The history takes in the report: the last real hash of the file, until  *)
(* it is deleted.                                                          *)
Hash(f, s) == IF s = Deleted THEN None ELSE IF s.hash = Xxx THEN known[f] ELSE s.hash
Know(f, s) == known' = [known EXCEPT ![f] = Hash(f, s)]

(* DB_Search as far as the first write: DB_File, the mode, the index and   *)
(* the decision of DB_ProcessFoundEntry.                                   *)
DB_Search(t) ==
    /\ th[t].pc = "search" /\ Free
    /\ LET f == th[t].msg.file
           idx == IF built THEN index ELSE DB_BuildIndex(rows)
           maint == DB_IsMaintenance
           old == idx[f]
           new == fim_sum_keep_hashes(old.sum, th[t].msg.sum)
           quiet == maint \/ ~fim_sum_has_real_change(old.sum, new)
           Decide(l, k, s, m, e) == th' = [th EXCEPT ![t].pc = l, ![t].job =
               [file |-> f, kind |-> k, sum |-> s, mark |-> m, maint |-> maint, event |-> e, copy |-> "off"]]
       IN /\ built' = TRUE /\ index' = idx /\ cached' = maint
          /\ cp' = IF built THEN cp ELSE cpt
          /\ CASE old = None ->
                    Decide("new", "new", th[t].msg.sum, 0, "new") /\ UNCHANGED known
               [] old # None /\ new # old.sum /\ quiet ->
                    /\ Decide("comment", IF fim_sum_has_real_change(old.sum, new) THEN "accept"
                                         ELSE "quiet", new, 0, None)
                    /\ UNCHANGED known
               [] old # None /\ ~quiet /\ (auto => Changes(old.mark) < 3) ->
                    /\ Decide("comment", "alert", new, NextMark(old.mark),
                              Reported(old.sum, new, old.mark, auto))
                    /\ UNCHANGED known
               [] OTHER ->
                    /\ Goto(t, "idle")
                    /\ IF new = old.sum THEN Know(f, th[t].msg.sum) ELSE UNCHANGED known
    /\ UNCHANGED <<queue, disk, marker, scan, auto, alert, bounds>>

(* The '#' goes where the index says.  Where an append failed that may be  *)
(* the end of the file, and the next row is then part of a comment.        *)
Comment(t) ==
    /\ th[t].pc = "comment"
    /\ LET p == index[th[t].job.file].pos
       IN IF p <= Len(rows)
          THEN rows' = [rows EXCEPT ![p].live = FALSE] /\ UNCHANGED stub
          ELSE stub' = TRUE /\ UNCHANGED rows
    /\ Goto(t, "append")
    /\ UNCHANGED <<queue, cpt, memory, marker, scan, auto, alert, known, bounds>>

Write(j, m) ==
    /\ rows' = Append(rows, [file |-> j.file, sum |-> j.sum, mark |-> m, live |-> ~stub])
    /\ stub' = FALSE

(* Mutant: the entry keeps the position of the row it replaces.            *)
IndexSumOnly(j, m) ==
    index' = [index EXCEPT ![j.file] = [pos |-> IF @ = None THEN Len(rows) + 1 ELSE @.pos,
                                        sum |-> j.sum, mark |-> m]]

(* The index entry for the row that is written at the end of the file.     *)
Index(j, m) ==
    index' = [index EXCEPT ![j.file] = [pos |-> Len(rows) + 1, sum |-> j.sum, mark |-> m]]

Raise(j) == alert' = [file |-> j.file, kind |-> j.event, flip |-> ~alert.flip]

(* The new row of a file that has changed (DB_ProcessFoundEntry,           *)
(* DB_QuietUpdate).                                                        *)
AppendRow(t) ==
    /\ th[t].pc = "append"
    /\ LET j == th[t].job
       IN /\ Write(j, j.mark) /\ Index(j, j.mark)
          /\ IF j.kind = "alert" THEN Raise(j) ELSE UNCHANGED alert
          /\ Know(j.file, th[t].msg.sum)
          /\ Goto(t, IF j.kind = "accept" THEN "bump" ELSE "idle")
    /\ UNCHANGED <<queue, cpt, built, cp, cached, marker, scan, auto, bounds>>

(* Mutant: the index is updated although the row could not be written.     *)
AppendFailsIndexed(t) ==
    /\ th[t].pc = "append" /\ "found" \in Fails /\ fails < MaxFails
    /\ fails' = fails + 1
    /\ Index(th[t].job, th[t].job.mark)
    /\ Goto(t, "idle")
    /\ UNCHANGED <<queue, disk, built, cp, cached, marker, scan, auto, alert, known, crashes, commands>>

(* The row cannot be written: the index keeps the old one, no alert.       *)
AppendFails(t) ==
    /\ th[t].pc = "append" /\ "found" \in Fails /\ fails < MaxFails
    /\ fails' = fails + 1
    /\ Goto(t, "idle")
    /\ UNCHANGED <<queue, disk, memory, marker, scan, auto, alert, known, crashes, commands>>

(* A file that is not in the database.  Whether its row could be written   *)
(* is not looked at.                                                       *)
NewRow(t) ==
    /\ th[t].pc = "new"
    /\ LET j == th[t].job
           m == IF ~j.maint /\ ReportNew /\ cp THEN New ELSE 0
       IN /\ Index(j, m)
          /\ \E ok \in {TRUE} \cup {~("new" \in Fails /\ fails < MaxFails)} :
                IF ok THEN Write(j, m) /\ UNCHANGED fails
                ELSE fails' = fails + 1 /\ UNCHANGED <<rows, stub>>
          /\ IF AlertNew /\ ~j.maint THEN Raise(j) ELSE UNCHANGED alert
          /\ Know(j.file, th[t].msg.sum)
          /\ Goto(t, IF j.maint THEN "bump" ELSE "idle")
    /\ UNCHANGED <<queue, cpt, built, cp, cached, marker, scan, auto, crashes, commands>>

(* syscheck_maint_bump_silent_location: the marker is read ...             *)
BumpRead(t) ==
    /\ th[t].pc = "bump"
    /\ IF marker = "off" THEN Goto(t, "idle")
       ELSE th' = [th EXCEPT ![t].pc = "write", ![t].job.copy = marker]
    /\ UNCHANGED <<queue, disk, memory, marker, scan, auto, alert, known, bounds>>

(* ... and written again with one more silent update.                      *)
BumpWrite(t) ==
    /\ th[t].pc = "write"
    /\ marker' = th[t].job.copy
    /\ Goto(t, "idle")
    /\ UNCHANGED <<queue, disk, memory, scan, auto, alert, known, bounds>>

-----------------------------------------------------------------------------
(* The agent has sent everything.  DB_SetCompleted finds the database only *)
(* if it is open.                                                          *)
DB_SetCompleted(t) ==
    /\ th[t].pc = "completed"
    /\ IF built /\ ~cp THEN Free /\ cp' = TRUE /\ cpt' = TRUE ELSE UNCHANGED <<cp, cpt>>
    /\ Goto(t, "pending")
    /\ UNCHANGED <<queue, rows, stub, built, index, cached, marker, scan, auto, alert, known, bounds>>

(* The end of maintenance, if it waits for this scan.                      *)
ReadPending(t) ==
    /\ th[t].pc = "pending"
    /\ Goto(t, IF marker = "pending" THEN "clear" ELSE "idle")
    /\ scan' = IF marker # "pending" /\ th[t].msg = Rescanned THEN "done" ELSE scan
    /\ UNCHANGED <<queue, disk, memory, marker, auto, alert, known, bounds>>

ClearMarker(t) ==
    /\ th[t].pc = "clear"
    /\ marker' = "off"
    /\ Goto(t, "idle")
    /\ scan' = IF th[t].msg = Rescanned THEN "done" ELSE scan
    /\ UNCHANGED <<queue, disk, memory, auto, alert, known, bounds>>

-----------------------------------------------------------------------------
(* agent_control -M: enable, disable, and end, which marks the mode and    *)
(* asks the agent for a scan.                                              *)
Command(m, s) ==
    /\ commands < MaxCommands
    /\ commands' = commands + 1
    /\ marker' = m /\ scan' = s
    /\ UNCHANGED <<queue, th, disk, memory, auto, alert, known, fails, crashes>>

MaintEnable == Command("on", "no")
MaintDisable == Command("off", "no")
MaintEnd == scan = "no" /\ Command("pending", "asked")

(* The agent's scan is over; its message is the last of the queue.         *)
Rescan ==
    /\ scan = "asked"
    /\ scan' = "sent"
    /\ queue' = Append(queue, Rescanned)
    /\ UNCHANGED <<th, disk, memory, marker, auto, alert, known, bounds>>

(* Two seconds pass.                                                       *)
CacheExpires ==
    /\ cached
    /\ cached' = FALSE
    /\ UNCHANGED <<queue, th, disk, built, index, cp, marker, scan, auto, alert, known, bounds>>

(* analysisd ends, with what it has not yet written to disk and with some  *)
(* of the messages that were on their way, and is started again.           *)
Crash ==
    /\ crashes < MaxCrashes
    /\ crashes' = crashes + 1
    /\ \E k \in 0 .. Len(queue) : queue' = SubSeq(queue, k + 1, Len(queue))
    /\ th' = [t \in Threads |-> Idle]
    /\ built' = FALSE /\ index' = Unbuilt /\ cp' = FALSE /\ cached' = FALSE
    /\ known' = Known(DB_BuildIndex(rows))
    /\ UNCHANGED <<disk, marker, scan, auto, alert, fails, commands>>

-----------------------------------------------------------------------------
Step(t) == \/ Take(t) \/ DB_Search(t) \/ Comment(t) \/ AppendRow(t) \/ AppendFails(t)
           \/ NewRow(t) \/ BumpRead(t) \/ BumpWrite(t)
           \/ DB_SetCompleted(t) \/ ReadPending(t) \/ ClearMarker(t)

Next == \/ \E t \in Threads : Step(t)
        \/ MaintEnable \/ MaintDisable \/ MaintEnd \/ Rescan \/ CacheExpires \/ Crash

Spec == Init /\ [][Next]_vars

-----------------------------------------------------------------------------
Places == {"idle", "search", "comment", "append", "new", "bump", "write",
           "completed", "pending", "clear"}
Kinds == {"new", "del", "mod", "mod2", "mod3", None}
Jobs == [file : Files, kind : {"new", "accept", "quiet", "alert"}, sum : Sums, mark : Marks,
         maint : BOOLEAN, event : Kinds, copy : {"off", "on", "pending"}]

TypeOK ==
    /\ queue \in Seq(Messages)
    /\ th \in [Threads -> [pc : Places, msg : Messages \cup {None}, job : Jobs \cup {None}]]
    /\ rows \in Seq(Rows) /\ index \in [Files -> Entries \cup {None}]
    /\ stub \in BOOLEAN /\ built \in BOOLEAN
    /\ cp \in BOOLEAN /\ cpt \in BOOLEAN /\ cached \in BOOLEAN /\ auto \in BOOLEAN
    /\ marker \in {"off", "on", "pending"} /\ scan \in {"no", "asked", "sent", "done"}
    /\ alert \in [file : Files \cup {None}, kind : Kinds, flip : BOOLEAN]
    /\ known \in [Files -> Hashes \cup {None}]

(* A file has one row that is not commented out, through updates that were *)
(* cut short and failed ones: what reads the database after a restart, or  *)
(* beside analysisd, never finds an old sum of a file beside a new one.    *)
OneLiveRow ==
    \A i, j \in DOMAIN rows :
        rows[i].live /\ rows[j].live /\ rows[i].file = rows[j].file => i = j

(* "Where the agent has no hash (xxx), carry the last known one, or the    *)
(* next real hash would have nothing to compare to": however many reports  *)
(* without a hash come in between, a hash that differs from the last real  *)
(* one is not stored without an alert, unless it is accepted in            *)
(* maintenance mode.  The last real hash is carried through a restart as   *)
(* far as the file holds it: if the restart cut an update short and the    *)
(* row is gone, there is nothing to compare the next report with.          *)
HashChangeSeen ==
    [][\A f \in Files :
          known[f] # None /\ known'[f] \notin {None, known[f]} =>
              alert' # alert \/ \E t \in Threads : th[t].pc = "append" /\ th[t].job.kind = "accept"]_vars

(* The text file with its index, its several threads, its unfinished and   *)
(* its failed updates is one map from files to sums (FimBaseline): no      *)
(* change is accepted silently, none is reported twice, and a restart      *)
(* forgets only a file whose own update was cut short or failed.  It is so *)
(* where "new" is not in Fails: the code does not look whether the row of  *)
(* a new file was written (syscheck.c:1187), the index then has a row that *)
(* the file has not, and the position of every later row is wrong.         *)
View == IF built THEN index ELSE DB_BuildIndex(rows)
Entry(e) == IF e = None THEN None ELSE [sum |-> e.sum, mark |-> e.mark]
Baseline == INSTANCE FimBaseline WITH
    base <- [f \in Files |-> Entry(View[f])],
    saved <- {f \in Files : Entry(View[f]) = Entry(DB_BuildIndex(rows)[f])},
    busy <- IF Free THEN None
            ELSE LET j == th[CHOOSE t \in Threads : Holding(t)].job
                 IN [file |-> j.file, maint |-> j.maint]
ImplementsBaseline == Baseline!Spec

(* "end restarts syscheck/rootcheck and clears maintenance when that scan  *)
(* finishes": once the end of the scan has been dealt with, maintenance is *)
(* off until it is enabled again.                                          *)
EndClears == scan = "done" => marker = "off"
=============================================================================
