-------------------------------- MODULE Maild --------------------------------
(***************************************************************************)
(* maild reads alerts, gathers them in a list and hands the list, as one   *)
(* batch, to a thread that sends it; an alert may also go out as an SMS,   *)
(* one thread each.  mail_active_workers limits the threads: a slot is     *)
(* taken before it is known whether a thread can be had.  No more than     *)
(* maxperhour mails are to be sent in an hour; at its end everything that  *)
(* was held back goes out, and the count starts again when the threads of  *)
(* the old hour have ended.                                                *)
(*                                                                         *)
(* SIGTERM sets a flag; the main loop then drains what it has.             *)
(***************************************************************************)
EXTENDS Naturals, Sequences, FiniteSets, SequencesExt

CONSTANTS Mails,        \* the alerts
          To,           \* To[m]: the recipients of m, as one set
          Priority,     \* Priority[m]: 0, FORWARD_NOW or DONOTGROUP
          WithSms,      \* alerts that are also an SMS
          MaxWorkers, MaxPerHour, ListMax,
          Groupping,    \* maild.groupping
          None

FORWARD_NOW == 1
DONOTGROUP == 2

ASSUME MaildAssumption ==
    /\ IsFiniteSet(Mails) /\ WithSms \subseteq Mails /\ None \notin Mails \cup Nat
    /\ Priority \in [Mails -> {0, FORWARD_NOW, DONOTGROUP}]
    /\ {MaxWorkers, MaxPerHour, ListMax} \subseteq Nat \ {0}
    /\ Groupping \in BOOLEAN

VARIABLES pc,          \* where OS_Run is
          list,        \* the mail list, oldest first
          sms,         \* the SMS queue
          s_msg,       \* an alert held back for the batch before it
          gather,      \* mail_timeout = NEXTMAIL_TIMEOUT
          mailtosend,  \* mailtosend # 0
          newhour,     \* p->tm_hour # thishour
          sent,        \* mails_sent_this_hour
          active,      \* mail_active_workers
          rollover,    \* mail_hour_rollover_pending
          threads,     \* the worker threads
          shutting, force,
          fate,        \* fate[m]: what became of the mail
          smsfate      \* smsfate[m]: and of the SMS

loop == <<s_msg, gather, mailtosend>>
hour == <<newhour, sent, rollover>>
flags == <<shutting, force>>
fates == <<fate, smsfate>>
vars == <<pc, list, sms, loop, hour, active, threads, flags, fates>>

(* A thread: its kind, what it was given (try tells apart the threads that *)
(* had the same SMS), and how many mails it has sent, once it is done.     *)
Fresh == CHOOSE k \in 0 .. Cardinality(threads) : \A t \in threads : t.try # k
MailThread(b) == [kind |-> "mail", batch |-> b, try |-> 0, n |-> None]
SmsThread(m) == [kind |-> "sms", batch |-> <<m>>, try |-> Fresh, n |-> None]

Init ==
    /\ pc = "top" /\ list = <<>> /\ sms = <<>>
    /\ s_msg = None /\ gather = FALSE /\ mailtosend = FALSE
    /\ newhour = FALSE /\ sent = 0 /\ rollover = FALSE
    /\ active = 0 /\ threads = {}
    /\ shutting = FALSE /\ force = FALSE
    /\ fate = [m \in Mails |-> "new"] /\ smsfate = [m \in Mails |-> "none"]

Running == pc \notin {"done", "abandoned"}

(* OS_AddMailtoList, and OS_RequeueMailBatch: over the limit the oldest    *)
(* is freed.                                                               *)
Trim(l) == IF Len(l) > ListMax THEN SubSeq(l, Len(l) - ListMax + 1, Len(l)) ELSE l
Put(l) == /\ list' = Trim(l)
          /\ fate' = [m \in Mails |->
                        IF m \in Range(l) \ Range(Trim(l)) THEN "evicted" ELSE
                        IF m \in Range(l) THEN "listed" ELSE fate[m]]

-----------------------------------------------------------------------------
(* The threads.  One mail for each set of recipients of the batch; what    *)
(* cannot be sent is freed all the same.                                   *)
MailSends(t) ==
    /\ Running /\ t.kind = "mail" /\ t.n = None
    /\ \E ok \in SUBSET {To[m] : m \in Range(t.batch)} :
         /\ fate' = [m \in Mails |-> IF m \notin Range(t.batch) THEN fate[m]
                                     ELSE IF To[m] \in ok THEN "sent" ELSE "failed"]
         /\ threads' = (threads \ {t}) \cup {[t EXCEPT !.n = Cardinality(ok)]}
    /\ UNCHANGED <<pc, list, sms, loop, hour, active, flags, smsfate>>

SmsSends(t) ==
    /\ Running /\ t.kind = "sms" /\ t.n = None
    /\ smsfate' = [smsfate EXCEPT ![t.batch[1]] = "sent"]
    /\ threads' = (threads \ {t}) \cup {[t EXCEPT !.n = 1]}
    /\ UNCHANGED <<pc, list, sms, loop, hour, active, flags, fate>>

(* An SMS that cannot be sent goes back to the head of the queue.          *)
SmsFails(t) ==
    /\ Running /\ t.kind = "sms" /\ t.n = None
    /\ sms' = t.batch \o sms
    /\ smsfate' = [smsfate EXCEPT ![t.batch[1]] = "queued"]
    /\ threads' = (threads \ {t}) \cup {[t EXCEPT !.n = 0]}
    /\ UNCHANGED <<pc, list, loop, hour, active, flags, fate>>

(* The last thread of the old hour starts the new count.                   *)
mail_worker_finished(t) ==
    /\ Running /\ t.n # None
    /\ active' = active - 1
    /\ IF active = 1 /\ rollover
       THEN sent' = 0 /\ rollover' = FALSE
       ELSE sent' = sent + t.n /\ UNCHANGED rollover
    /\ threads' = threads \ {t}
    /\ UNCHANGED <<pc, list, sms, loop, newhour, flags, fates>>

-----------------------------------------------------------------------------
(* OS_Run.                                                                 *)
Top ==
    /\ pc = "top"
    /\ pc' = IF shutting THEN "down_recv" ELSE "sms"
    /\ IF ~rollover /\ active = 0 /\ newhour
       THEN newhour' = FALSE /\ sent' = 0
       ELSE UNCHANGED <<newhour, sent>>
    /\ UNCHANGED <<list, sms, loop, rollover, active, threads, flags, fates>>

(* A slot is taken.                                                        *)
Slot(next) == active < MaxWorkers /\ active' = active + 1 /\ pc' = next

(* SMS go first, one at a time; while there are some nothing else is done. *)
SmsCheck ==
    /\ pc = "sms"
    /\ \/ sms = <<>> /\ pc' = "batch" /\ UNCHANGED active
       \/ sms # <<>> /\ sent < MaxPerHour /\ Slot("sms_spawn")
       \/ /\ sms # <<>> /\ (sent >= MaxPerHour \/ active >= MaxWorkers)
          /\ pc' = "top" /\ UNCHANGED active
    /\ UNCHANGED <<list, sms, loop, hour, threads, flags, fates>>

(* The thread gets the SMS, or it goes back and the slot is given up.      *)
SpawnSms(ok, next) ==
    /\ sms # <<>>
    /\ IF ok
       THEN /\ threads' = threads \cup {SmsThread(Head(sms))}
            /\ sms' = Tail(sms)
            /\ smsfate' = [smsfate EXCEPT ![Head(sms)] = "thread"]
            /\ UNCHANGED active
       ELSE /\ active' = active - 1
            /\ UNCHANGED <<sms, threads, smsfate>>
    /\ pc' = next

SmsSpawn ==
    /\ pc = "sms_spawn"
    /\ \E ok \in BOOLEAN : SpawnSms(ok, IF ok /\ Len(sms) = 1 THEN "batch" ELSE "top")
    /\ UNCHANGED <<list, loop, hour, flags, fate>>

(* More alerts are gathered; or the list is due, if mails may be sent or   *)
(* the hour is over; a slot is taken if there is one.                      *)
BatchDue == ~(gather /\ ~newhour) /\ ((mailtosend /\ sent < MaxPerHour) \/ newhour)

BatchCheck ==
    /\ pc = "batch"
    /\ \/ ~BatchDue /\ pc' = "held" /\ UNCHANGED active
       \/ BatchDue /\ list # <<>> /\ Slot("batch_spawn")
       \/ /\ BatchDue /\ (list = <<>> \/ active >= MaxWorkers)
          /\ pc' = "check_hour" /\ UNCHANGED active
    /\ UNCHANGED <<list, sms, loop, hour, threads, flags, fates>>

(* Mutant: the slot is not given up.                                       *)
SpawnBatchKeepsSlot(ok, good, bad) ==
    /\ list # <<>>
    /\ IF ok
       THEN /\ threads' = threads \cup {MailThread(list)}
            /\ list' = <<>>
            /\ fate' = [m \in Mails |-> IF m \in Range(list) THEN "thread" ELSE fate[m]]
            /\ pc' = good
            /\ UNCHANGED active
       ELSE /\ Put(list)
            /\ pc' = bad
            /\ UNCHANGED <<threads, active>>

(* Mutant: the batch of a thread that was not created is lost.             *)
SpawnBatchLoses(ok, good, bad) ==
    /\ list # <<>>
    /\ list' = <<>>
    /\ IF ok
       THEN /\ threads' = threads \cup {MailThread(list)}
            /\ fate' = [m \in Mails |-> IF m \in Range(list) THEN "thread" ELSE fate[m]]
            /\ pc' = good
            /\ UNCHANGED active
       ELSE /\ active' = active - 1
            /\ pc' = bad
            /\ UNCHANGED <<threads, fate>>

(* A thread gets the list, or the list is put back and the slot is given   *)
(* up.                                                                     *)
SpawnBatch(ok, good, bad) ==
    /\ list # <<>>
    /\ IF ok
       THEN /\ threads' = threads \cup {MailThread(list)}
            /\ list' = <<>>
            /\ fate' = [m \in Mails |-> IF m \in Range(list) THEN "thread" ELSE fate[m]]
            /\ pc' = good
            /\ UNCHANGED active
       ELSE /\ active' = active - 1
            /\ Put(list)
            /\ pc' = bad
            /\ UNCHANGED threads

BatchSpawn ==
    /\ pc = "batch_spawn"
    /\ \E ok \in BOOLEAN : SpawnBatch(ok, "check_hour", "top")
    /\ UNCHANGED <<sms, loop, hour, flags, smsfate>>

(* snd_check_hour: the new hour begins when the threads have ended.        *)
CheckHour ==
    /\ pc = "check_hour"
    /\ IF newhour /\ active > 0
       THEN rollover' = TRUE /\ UNCHANGED <<newhour, sent, mailtosend>>
       ELSE /\ newhour' = FALSE /\ UNCHANGED rollover
            /\ sent' = IF newhour THEN 0 ELSE sent
            /\ mailtosend' = (mailtosend /\ ~newhour)
    /\ pc' = "held"
    /\ UNCHANGED <<list, sms, s_msg, gather, active, threads, flags, fates>>

(* The alert that was held back is next.                                   *)
Held ==
    /\ pc = "held"
    /\ IF s_msg = None
       THEN pc' = "recv" /\ UNCHANGED <<s_msg, mailtosend, list, fate>>
       ELSE /\ Put(Append(list, s_msg))
            /\ s_msg' = None /\ mailtosend' = TRUE
            /\ pc' = "top"
    /\ UNCHANGED <<sms, gather, hour, active, threads, flags, smsfate>>

(* OS_RecvMailQ: no alert within mail_timeout.                             *)
RecvNothing ==
    /\ pc = "recv"
    /\ mailtosend' = (mailtosend \/ gather)
    /\ gather' = FALSE
    /\ pc' = "top"
    /\ UNCHANGED <<list, sms, s_msg, hour, active, threads, flags, fates>>

(* An alert: its SMS is queued.                                            *)
QueueSms(m) ==
    IF m \in WithSms
    THEN sms' = Append(sms, m) /\ smsfate' = [smsfate EXCEPT ![m] = "queued"]
    ELSE UNCHANGED <<sms, smsfate>>

Recv(m) ==
    /\ pc = "recv" /\ fate[m] = "new"
    /\ QueueSms(m)
    /\ IF Priority[m] = DONOTGROUP
       THEN /\ s_msg' = m /\ fate' = [fate EXCEPT ![m] = "held"]
            /\ UNCHANGED list
       ELSE Put(Append(list, m)) /\ UNCHANGED s_msg
    /\ gather' = IF Groupping THEN Priority[m] = 0 ELSE gather
    /\ mailtosend' = (mailtosend \/ ~Groupping \/ Priority[m] = FORWARD_NOW)
    /\ pc' = "top"
    /\ UNCHANGED <<hour, active, threads, flags>>

-----------------------------------------------------------------------------
(* The same loop after SIGTERM: an alert more, something to send if there  *)
(* is a slot, and the end when all is done, on a second signal, or after a *)
(* minute.                                                                 *)
DownRecv ==
    /\ pc = "down_recv"
    /\ \/ UNCHANGED <<list, fates, sms>>
       \/ \E m \in Mails : fate[m] = "new" /\ QueueSms(m) /\ Put(Append(list, m))
    /\ pc' = "down_slot"
    /\ UNCHANGED <<loop, hour, active, threads, flags>>

DownSlot ==
    /\ pc = "down_slot"
    /\ \/ Slot("down_spawn")
       \/ active >= MaxWorkers /\ pc' = "down_check" /\ UNCHANGED active
    /\ UNCHANGED <<list, sms, loop, hour, threads, flags, fates>>

maild_shutdown_drain ==
    /\ pc = "down_spawn"
    /\ \/ /\ \E ok \in BOOLEAN : SpawnSms(ok, "down_check")
          /\ UNCHANGED <<list, fate>>
       \/ /\ sms = <<>>
          /\ \E ok \in BOOLEAN : SpawnBatch(ok, "down_check", "down_check")
          /\ UNCHANGED <<sms, smsfate>>
       \/ /\ sms = <<>> /\ list = <<>>
          /\ active' = active - 1 /\ pc' = "down_check"
          /\ UNCHANGED <<list, sms, threads, fates>>
    /\ UNCHANGED <<loop, hour, flags>>

(* Mutant: only the lists are looked at.                                   *)
DownCheckLists ==
    /\ pc = "down_check"
    /\ IF sms = <<>> /\ list = <<>> THEN pc' = "done"
       ELSE pc' \in {"abandoned", "top"} /\ (force => pc' = "abandoned")
    /\ UNCHANGED <<list, sms, loop, hour, active, threads, flags, fates>>

DownCheck ==
    /\ pc = "down_check"
    /\ IF active = 0 /\ sms = <<>> /\ list = <<>> THEN pc' = "done"
       ELSE pc' \in {"abandoned", "top"} /\ (force => pc' = "abandoned")
    /\ UNCHANGED <<list, sms, loop, hour, active, threads, flags, fates>>

(* The first signal, and any other: at the places where OS_Run looks.      *)
maild_HandleSIG ==
    /\ pc = (IF shutting THEN "down_check" ELSE "top") /\ ~force
    /\ shutting' = TRUE /\ force' = shutting
    /\ UNCHANGED <<pc, list, sms, loop, hour, active, threads, fates>>

(* The clock, which OS_Run reads once in a round.                          *)
HourPasses ==
    /\ pc = "top" /\ ~newhour
    /\ newhour' = TRUE
    /\ UNCHANGED <<pc, list, sms, loop, sent, rollover, active, threads, flags, fates>>

-----------------------------------------------------------------------------
OS_Run == \/ Top \/ SmsCheck \/ SmsSpawn \/ BatchCheck \/ BatchSpawn \/ CheckHour
          \/ Held \/ RecvNothing \/ (\E m \in Mails : Recv(m))
          \/ DownRecv \/ DownSlot \/ maild_shutdown_drain \/ DownCheck

Threads == \E t \in threads : MailSends(t) \/ SmsSends(t) \/ mail_worker_finished(t)

Next == \/ OS_Run \/ Threads \/ (\E t \in threads : SmsFails(t))
        \/ maild_HandleSIG \/ HourPasses

(* The main thread runs, sends end (each reply is waited for a limited     *)
(* time), and hours pass.  Nothing makes the minute of a shutdown end.     *)
Fairness == WF_vars(OS_Run) /\ WF_vars(Threads) /\ SF_vars(HourPasses)

Spec == Init /\ [][Next]_vars /\ Fairness

-----------------------------------------------------------------------------
ThreadRecords == [kind : {"mail", "sms"}, batch : Seq(Mails), try : Nat, n : Nat \cup {None}]

TypeOK ==
    /\ pc \in {"top", "sms", "sms_spawn", "batch", "batch_spawn", "check_hour", "held",
               "recv", "down_recv", "down_slot", "down_spawn", "down_check", "done", "abandoned"}
    /\ list \in Seq(Mails) /\ Len(list) <= ListMax /\ sms \in Seq(WithSms)
    /\ s_msg \in Mails \cup {None}
    /\ gather \in BOOLEAN /\ mailtosend \in BOOLEAN /\ newhour \in BOOLEAN
    /\ rollover \in BOOLEAN /\ shutting \in BOOLEAN /\ force \in BOOLEAN
    /\ sent \in Nat /\ active \in 0 .. MaxWorkers
    /\ threads \subseteq ThreadRecords /\ IsFiniteSet(threads)
    /\ fate \in [Mails -> {"new", "held", "listed", "thread", "sent", "failed", "evicted"}]
    /\ smsfate \in [Mails -> {"none", "queued", "thread", "sent"}]

(* No slot is lost and none is used twice: the counter is the number of    *)
(* threads, and one more while the main loop has a slot for a thread it    *)
(* has not created yet.                                                    *)
SlotsExact == active = Cardinality(threads) +
    (IF pc \in {"sms_spawn", "batch_spawn", "down_spawn"} THEN 1 ELSE 0)

(* Nothing is sent twice and nothing disappears: an alert that was read is *)
(* held back, listed, with one thread, or was disposed of; and so is its   *)
(* SMS.                                                                    *)
InBatch(kind, m) == {t \in threads : t.kind = kind /\ t.n = None /\ m \in Range(t.batch)}
OnePlace == \A m \in Mails :
    /\ fate[m] = "held" <=> s_msg = m
    /\ (IF fate[m] = "listed" THEN 1 ELSE 0) = Cardinality({i \in DOMAIN list : list[i] = m})
    /\ (IF fate[m] = "thread" THEN 1 ELSE 0) = Cardinality(InBatch("mail", m))
    /\ (IF smsfate[m] = "queued" THEN 1 ELSE 0) = Cardinality({i \in DOMAIN sms : sms[i] = m})
    /\ (IF smsfate[m] = "thread" THEN 1 ELSE 0) = Cardinality(InBatch("sms", m))

(* "Shutdown complete": every alert that was read was sent or given up,    *)
(* and every SMS was sent.  (An alert that do_not_group holds back at that *)
(* moment is forgotten.)                                                   *)
DrainedAtExit == pc = "done" => \A m \in Mails :
    fate[m] \in {"new", "sent", "failed", "evicted", "held"} /\ smsfate[m] \in {"none", "sent"}

(* A thread cannot be created, or an SMS cannot be sent.                   *)
Failure == \/ pc \in {"sms_spawn", "batch_spawn", "down_spawn"} /\ active' < active
           \/ \E t \in threads : SmsFails(t)

(* If from some time on threads can be had and the server takes the SMS, a *)
(* shutdown ends by itself: however often an SMS was put back before, the  *)
(* drain needs neither the second signal nor the minute, both of which may *)
(* come but need not.  (While every SMS fails it is put back for ever, and *)
(* only those two end the drain.)                                          *)
ShutdownEnds == <>[][~Failure]_vars => (shutting ~> ~Running)
=============================================================================
