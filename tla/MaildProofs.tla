----------------------------- MODULE MaildProofs -----------------------------
(***************************************************************************)
(* Proofs about maild's batches and worker slots (Maild), for every set of *)
(* alerts, every assignment of recipients and priorities, and any number   *)
(* of workers, of threads that cannot be created and of SMS that fail.     *)
(***************************************************************************)
EXTENDS Maild, SequenceTheorems, FiniteSetTheorems, TLAPS

-----------------------------------------------------------------------------
(* The inductive invariant, in parts.                                      *)

NoRepeat(l) == \A x, y \in 1 .. Len(l) : l[x] = l[y] => x = y

(* An alert is on the list, or an SMS in the queue, once, when its fate    *)
(* says so.                                                                *)
ListInv == NoRepeat(list) /\ \A m \in Mails : fate[m] = "listed" <=> m \in Range(list)
SmsListInv == NoRepeat(sms) /\ \A m \in Mails : smsfate[m] = "queued" <=> m \in Range(sms)

HeldInv ==
    /\ \A m \in Mails : fate[m] = "held" <=> s_msg = m
    /\ \A m \in Mails : fate[m] = "new" => smsfate[m] = "none"
    /\ pc = "recv" => s_msg = None

MailThreads == {t \in threads : t.kind = "mail"}
SmsThreads == {t \in threads : t.kind = "sms"}

(* No two mail threads, busy or done, have an alert in common.             *)
MailInv ==
    /\ \A t \in MailThreads :
         /\ Range(t.batch) # {}
         /\ \A m \in Range(t.batch) :
              /\ t.n = None => fate[m] = "thread"
              /\ t.n # None => fate[m] \in {"sent", "failed"}
    /\ \A t, u \in MailThreads : \A m \in Range(t.batch) : m \in Range(u.batch) => t = u
    /\ \A m \in Mails : fate[m] = "thread" =>
         \E t \in MailThreads : t.n = None /\ m \in Range(t.batch)

(* An SMS may have threads that are done and failed, one busy at most: a   *)
(* thread that failed is told apart from the next by its try.              *)
SmsInv ==
    /\ \A t \in SmsThreads :
         /\ t.batch[1] \in WithSms /\ t.batch = <<t.batch[1]>>
         /\ t.n = None => smsfate[t.batch[1]] = "thread"
         /\ t.n # None => \/ t.n = 1 /\ smsfate[t.batch[1]] = "sent"
                          \/ t.n = 0
    /\ \A t, u \in SmsThreads : t.batch[1] = u.batch[1] =>
         /\ t.try = u.try => t = u
         /\ t.n = None /\ u.n = None => t = u
    /\ \A m \in Mails : smsfate[m] = "thread" =>
         \E t \in SmsThreads : t.n = None /\ t.batch[1] = m

DoneInv == pc = "done" => list = <<>> /\ sms = <<>> /\ threads = {}

IndInv == /\ TypeOK /\ SlotsExact /\ ListInv /\ SmsListInv /\ HeldInv
          /\ MailInv /\ SmsInv /\ DoneInv

-----------------------------------------------------------------------------
(* Lists without repetitions.                                              *)

LEMMA InRange ==
  ASSUME NEW S, NEW l \in Seq(S)
  PROVE  /\ Len(l) \in Nat /\ DOMAIN l = 1 .. Len(l) /\ Range(l) \subseteq S
         /\ \A m : m \in Range(l) <=> \E x \in 1 .. Len(l) : l[x] = m
         /\ l = <<>> <=> Range(l) = {}
<1>1. Len(l) \in Nat /\ DOMAIN l = 1 .. Len(l) /\ l \in [1 .. Len(l) -> S]
  BY LenProperties
<1>2. \A m : m \in Range(l) <=> \E x \in 1 .. Len(l) : l[x] = m
  BY <1>1 DEF Range
<1>3. l = <<>> <=> Len(l) = 0
  BY EmptySeq
<1> QED
  BY <1>1, <1>2, <1>3

LEMMA AppendList ==
  ASSUME NEW S, NEW l \in Seq(S), NEW m \in S, NoRepeat(l), m \notin Range(l)
  PROVE  /\ Append(l, m) \in Seq(S) /\ NoRepeat(Append(l, m))
         /\ Range(Append(l, m)) = Range(l) \cup {m}
<1>1. /\ Len(l) \in Nat /\ Append(l, m) \in Seq(S) /\ Len(Append(l, m)) = Len(l) + 1
      /\ \A x \in 1 .. Len(l) : Append(l, m)[x] = l[x]
      /\ Append(l, m)[Len(l) + 1] = m
  BY InRange, AppendProperties
<1>2. \A x \in 1 .. Len(l) : l[x] # m
  BY InRange
<1>3. NoRepeat(Append(l, m))
  <2> SUFFICES ASSUME NEW x \in 1 .. Len(l) + 1, NEW y \in 1 .. Len(l) + 1,
                      Append(l, m)[x] = Append(l, m)[y]
               PROVE  x = y
    BY <1>1 DEF NoRepeat
  <2> QED
    BY <1>1, <1>2 DEF NoRepeat
<1>4. \A z : z \in Range(Append(l, m)) <=> z \in Range(l) \cup {m}
  <2>1. \A z : z \in Range(Append(l, m)) <=> \E x \in 1 .. Len(l) + 1 : Append(l, m)[x] = z
    BY <1>1, InRange
  <2>2. \A z : z \in Range(l) <=> \E x \in 1 .. Len(l) : l[x] = z
    BY InRange
  <2>3. \A x \in 1 .. Len(l) + 1 : x \in 1 .. Len(l) \/ x = Len(l) + 1
    BY <1>1
  <2>4. \A x \in 1 .. Len(l) : x \in 1 .. Len(l) + 1
    BY <1>1
  <2>5. Len(l) + 1 \in 1 .. Len(l) + 1
    BY <1>1
  <2> QED
    BY <1>1, <2>1, <2>2, <2>3, <2>4, <2>5
<1> QED
  BY <1>1, <1>3, <1>4

LEMMA TailList ==
  ASSUME NEW S, NEW l \in Seq(S), l # <<>>, NoRepeat(l)
  PROVE  /\ Head(l) \in Range(l) /\ Tail(l) \in Seq(S) /\ NoRepeat(Tail(l))
         /\ Range(Tail(l)) = Range(l) \ {Head(l)}
<1>1. /\ Len(l) \in Nat /\ Len(l) > 0 /\ Head(l) = l[1]
      /\ Tail(l) \in Seq(S) /\ Len(Tail(l)) = Len(l) - 1
      /\ \A x \in 1 .. Len(l) - 1 : Tail(l)[x] = l[x + 1]
  BY InRange, EmptySeq, HeadTailProperties
<1>2. NoRepeat(Tail(l))
  <2> SUFFICES ASSUME NEW x \in 1 .. Len(l) - 1, NEW y \in 1 .. Len(l) - 1,
                      Tail(l)[x] = Tail(l)[y]
               PROVE  x = y
    BY <1>1 DEF NoRepeat
  <2>1. l[x + 1] = l[y + 1] /\ x + 1 \in 1 .. Len(l) /\ y + 1 \in 1 .. Len(l)
    BY <1>1
  <2>2. \A a, b \in 1 .. Len(l) : l[a] = l[b] => a = b
    BY DEF NoRepeat
  <2>3. x + 1 = y + 1
    BY <2>1, <2>2, Zenon
  <2>4. x \in Int /\ y \in Int
    BY <1>1
  <2> QED
    BY <2>3, <2>4
<1>3. \A z : z \in Range(Tail(l)) <=> z \in Range(l) \ {l[1]}
  <2>0. \A z : z \in Range(Tail(l)) <=> \E x \in 1 .. Len(Tail(l)) : Tail(l)[x] = z
    BY <1>1, InRange, Zenon
  <2>1. \A z : z \in Range(Tail(l)) <=> \E x \in 1 .. Len(l) - 1 : l[x + 1] = z
    BY <1>1, <2>0
  <2>2. \A z : z \in Range(l) <=> \E x \in 1 .. Len(l) : l[x] = z
    BY InRange
  <2>3. ASSUME NEW z, z \in Range(l), z # l[1]
        PROVE  z \in Range(Tail(l))
    <3>1. PICK x \in 1 .. Len(l) : l[x] = z
      BY <2>2, <2>3
    <3>2. x - 1 \in 1 .. Len(l) - 1 /\ (x - 1) + 1 = x
      BY <1>1, <2>3, <3>1
    <3> QED
      BY <2>1, <3>1, <3>2
  <2>4. ASSUME NEW z, z \in Range(Tail(l))
        PROVE  z \in Range(l) /\ z # l[1]
    <3>1. PICK x \in 1 .. Len(l) - 1 : l[x + 1] = z
      BY <2>1, <2>4
    <3>2. x + 1 \in 1 .. Len(l) /\ 1 \in 1 .. Len(l) /\ x + 1 # 1
      BY <1>1
    <3> QED
      BY <2>2, <3>1, <3>2 DEF NoRepeat
  <2> QED
    BY <2>3, <2>4
<1>4. Head(l) \in Range(l)
  BY <1>1, InRange
<1> QED
  BY <1>1, <1>2, <1>3, <1>4

LEMMA FrontList ==
  ASSUME NEW S, NEW l \in Seq(S), NEW m \in S, NoRepeat(l), m \notin Range(l)
  PROVE  /\ <<m>> \o l \in Seq(S) /\ NoRepeat(<<m>> \o l)
         /\ Range(<<m>> \o l) = Range(l) \cup {m}
<1> DEFINE r == <<m>> \o l
<1>1. /\ Len(l) \in Nat /\ r \in Seq(S) /\ Len(r) = Len(l) + 1
      /\ r[1] = m /\ \A x \in 2 .. Len(l) + 1 : r[x] = l[x - 1]
  <2>1. <<m>> \in Seq(S) /\ Len(<<m>>) = 1 /\ Len(l) \in Nat
    OBVIOUS
  <2>2. /\ r \in Seq(S) /\ Len(r) = Len(<<m>>) + Len(l)
        /\ \A x \in 1 .. Len(<<m>>) + Len(l) :
             r[x] = IF x <= Len(<<m>>) THEN <<m>>[x] ELSE l[x - Len(<<m>>)]
    BY <2>1, ConcatProperties
  <2> HIDE DEF r
  <2>3. \A x \in 1 .. 1 + Len(l) : r[x] = IF x <= 1 THEN <<m>>[x] ELSE l[x - 1]
    BY <2>1, <2>2
  <2> QED
    BY <2>1, <2>2, <2>3
<1> HIDE DEF r
<1>2. \A x \in 1 .. Len(l) : l[x] # m
  BY InRange
<1>3. NoRepeat(r)
  <2> SUFFICES ASSUME NEW x \in 1 .. Len(l) + 1, NEW y \in 1 .. Len(l) + 1, r[x] = r[y]
               PROVE  x = y
    BY <1>1 DEF NoRepeat
  <2>1. /\ x = 1 \/ (x \in 2 .. Len(l) + 1 /\ x - 1 \in 1 .. Len(l))
        /\ y = 1 \/ (y \in 2 .. Len(l) + 1 /\ y - 1 \in 1 .. Len(l))
    BY <1>1
  <2> QED
    BY <1>1, <1>2, <2>1 DEF NoRepeat
<1>4. \A z : z \in Range(r) <=> z \in Range(l) \cup {m}
  <2>1. \A z : z \in Range(r) <=> \E x \in 1 .. Len(l) + 1 : r[x] = z
    BY <1>1, InRange
  <2>2. \A z : z \in Range(l) <=> \E x \in 1 .. Len(l) : l[x] = z
    BY InRange
  <2>3. \A x \in 1 .. Len(l) : x + 1 \in 1 .. Len(l) + 1 /\ r[x + 1] = l[x]
    BY <1>1
  <2>4. \A x \in 1 .. Len(l) + 1 : x = 1 \/ (x - 1 \in 1 .. Len(l) /\ r[x] = l[x - 1])
    BY <1>1
  <2>5. 1 \in 1 .. Len(l) + 1
    BY <1>1
  <2>6. ASSUME NEW z, z \in Range(r)
        PROVE  z \in Range(l) \cup {m}
    <3>1. PICK x \in 1 .. Len(l) + 1 : r[x] = z
      BY <2>1, <2>6
    <3> QED
      BY <1>1, <2>2, <2>4, <3>1
  <2>7. ASSUME NEW z, z \in Range(l) \cup {m}
        PROVE  z \in Range(r)
    <3>1. CASE z = m
      BY <1>1, <2>1, <2>5, <3>1
    <3>2. CASE z \in Range(l)
      <4>1. PICK x \in 1 .. Len(l) : l[x] = z
        BY <2>2, <3>2
      <4> QED
        BY <2>1, <2>3, <4>1
    <3> QED
      BY <2>7, <3>1, <3>2
  <2> QED
    BY <2>6, <2>7
<1> QED
  BY <1>1, <1>3, <1>4 DEF r

LEMMA TrimList ==
  ASSUME NEW l \in Seq(Mails), NoRepeat(l)
  PROVE  /\ Trim(l) \in Seq(Mails) /\ NoRepeat(Trim(l)) /\ Len(Trim(l)) <= ListMax
         /\ Range(Trim(l)) \subseteq Range(l)
         /\ Len(l) <= ListMax => Trim(l) = l
<1>0. Len(l) \in Nat /\ ListMax \in Nat /\ ListMax > 0
  BY MaildAssumption, InRange
<1>1. CASE Len(l) <= ListMax
  BY <1>0, <1>1 DEF Trim
<1>2. CASE Len(l) > ListMax
  <2> DEFINE d == Len(l) - ListMax
             t == SubSeq(l, d + 1, Len(l))
  <2>1. \A x \in d + 1 .. Len(l) : l[x] \in Mails
    BY <1>0, <1>2, ElementOfSeq
  <2>2. /\ t \in Seq(Mails) /\ Len(t) = ListMax
        /\ \A x \in 1 .. ListMax : t[x] = l[x + d] /\ x + d \in 1 .. Len(l)
    BY <1>0, <1>2, <2>1, SubSeqProperties
  <2>3. Trim(l) = t
    BY <1>2 DEF Trim
  <2> HIDE DEF t
  <2>4. NoRepeat(t)
    <3> SUFFICES ASSUME NEW x \in 1 .. ListMax, NEW y \in 1 .. ListMax, t[x] = t[y]
                 PROVE  x = y
      BY <2>2 DEF NoRepeat
    <3>1. \A a, b \in 1 .. Len(l) : l[a] = l[b] => a = b
      BY DEF NoRepeat
    <3>2. x + d = y + d
      <4> HIDE DEF d
      <4> QED
        BY <2>2, <3>1
    <3> QED
      BY <1>0, <3>2
  <2>5. \A z : z \in Range(t) <=> \E x \in 1 .. ListMax : t[x] = z
    BY <2>2, InRange
  <2>6. Range(t) \subseteq Range(l)
    <3>1. \A z : z \in Range(l) <=> \E x \in 1 .. Len(l) : l[x] = z
      BY InRange
    <3> HIDE DEF d
    <3> QED
      BY <2>2, <2>5, <3>1
  <2> QED
    BY <1>0, <1>2, <2>2, <2>3, <2>4, <2>6
<1> QED
  BY <1>0, <1>1, <1>2

LEMMA Places ==
  ASSUME NEW S, NEW l \in Seq(S), NoRepeat(l), NEW m
  PROVE  Cardinality({x \in DOMAIN l : l[x] = m}) = IF m \in Range(l) THEN 1 ELSE 0
<1>1. CASE m \in Range(l)
  <2>1. PICK x \in 1 .. Len(l) : l[x] = m
    BY <1>1, InRange
  <2>2. {y \in DOMAIN l : l[y] = m} = {x}
    BY <2>1, InRange DEF NoRepeat
  <2> QED
    BY <1>1, <2>2, FS_Singleton
<1>2. CASE m \notin Range(l)
  <2>1. {y \in DOMAIN l : l[y] = m} = {}
    BY <1>2, InRange
  <2> QED
    BY <1>2, <2>1, FS_EmptySet
<1> QED
  BY <1>1, <1>2

-----------------------------------------------------------------------------
(* The list and the queue.                                                 *)

Fates == {"new", "held", "listed", "thread", "sent", "failed", "evicted"}

(* An alert that is not listed is put on the list; another may be freed.   *)
LEMMA PutFresh ==
  ASSUME TypeOK, ListInv, NEW m \in Mails, fate[m] # "listed", Put(Append(list, m))
  PROVE  /\ list' \in Seq(Mails) /\ Len(list') <= ListMax /\ NoRepeat(list')
         /\ fate' \in [Mails -> Fates]
         /\ \A k \in Mails : fate'[k] = "listed" <=> k \in Range(list')
         /\ \A k \in Mails : IF fate[k] = "listed" \/ k = m
                             THEN fate'[k] \in {"listed", "evicted"}
                             ELSE fate'[k] = fate[k]
<1> DEFINE l == Append(list, m)
<1>1. list \in Seq(Mails) /\ fate \in [Mails -> Fates] /\ NoRepeat(list)
  BY DEF TypeOK, ListInv, Fates
<1>2. \A k \in Mails : fate[k] = "listed" <=> k \in Range(list)
  BY DEF ListInv
<1>3. m \notin Range(list)
  BY <1>2
<1>4. l \in Seq(Mails) /\ NoRepeat(l) /\ Range(l) = Range(list) \cup {m}
  BY <1>1, <1>3, AppendList, ZenonT(30)
<1>5. /\ list' = Trim(l)
      /\ fate' = [k \in Mails |-> IF k \in Range(l) \ Range(Trim(l)) THEN "evicted" ELSE
                                  IF k \in Range(l) THEN "listed" ELSE fate[k]]
  BY DEF Put
<1> HIDE DEF l
<1>6. /\ Trim(l) \in Seq(Mails) /\ NoRepeat(Trim(l)) /\ Len(Trim(l)) <= ListMax
      /\ Range(Trim(l)) \subseteq Range(l)
  BY <1>4, TrimList, Zenon
<1>7. \A k \in Mails : fate'[k] = IF k \in Range(l) \ Range(list') THEN "evicted" ELSE
                                  IF k \in Range(l) THEN "listed" ELSE fate[k]
  BY <1>5
<1>8. fate' \in [Mails -> Fates]
  BY <1>1, <1>5 DEF Fates
<1>9. \A k \in Mails : k \in Range(l) <=> fate[k] = "listed" \/ k = m
  BY <1>2, <1>4
<1> QED
  BY <1>5, <1>6, <1>7, <1>8, <1>9

(* A batch that is put back fits.                                          *)
LEMMA PutBack ==
  ASSUME TypeOK, ListInv, Put(list)
  PROVE  list' = list /\ fate' = fate
<1>1. list \in Seq(Mails) /\ Len(list) <= ListMax /\ fate \in [Mails -> Fates] /\ NoRepeat(list)
  BY DEF TypeOK, ListInv, Fates
<1>2. Trim(list) = list
  BY <1>1, TrimList
<1>3. fate' = [k \in Mails |-> IF k \in Range(list) THEN "listed" ELSE fate[k]]
  BY <1>2 DEF Put
<1>4. \A k \in Mails : k \in Range(list) => fate[k] = "listed"
  BY DEF ListInv
<1>5. fate' = fate
  BY <1>1, <1>3, <1>4
<1> QED
  BY <1>2, <1>5 DEF Put

(* The SMS of a new alert is queued.                                       *)
LEMMA Queued ==
  ASSUME TypeOK, SmsListInv, NEW m \in Mails, smsfate[m] = "none", QueueSms(m)
  PROVE  /\ sms' \in Seq(WithSms) /\ NoRepeat(sms')
         /\ smsfate' \in [Mails -> {"none", "queued", "thread", "sent"}]
         /\ \A k \in Mails : smsfate'[k] = "queued" <=> k \in Range(sms')
         /\ \A k \in Mails : k # m => smsfate'[k] = smsfate[k]
         /\ smsfate'[m] \in {"none", "queued"}
<1>1. /\ sms \in Seq(WithSms) /\ NoRepeat(sms)
      /\ smsfate \in [Mails -> {"none", "queued", "thread", "sent"}]
      /\ \A k \in Mails : smsfate[k] = "queued" <=> k \in Range(sms)
  BY DEF TypeOK, SmsListInv
<1>2. CASE m \in WithSms
  <2>1. sms' = Append(sms, m) /\ smsfate' = [smsfate EXCEPT ![m] = "queued"]
    BY <1>2 DEF QueueSms
  <2>2. m \notin Range(sms)
    BY <1>1
  <2>3. sms' \in Seq(WithSms) /\ NoRepeat(sms') /\ Range(sms') = Range(sms) \cup {m}
    BY <1>1, <1>2, <2>1, <2>2, AppendList, ZenonT(30)
  <2> QED
    BY <1>1, <2>1, <2>3
<1>3. CASE m \notin WithSms
  BY <1>1, <1>3 DEF QueueSms
<1> QED
  BY <1>2, <1>3

-----------------------------------------------------------------------------
(* What a step does to the alerts and the threads: the actions of the main *)
(* loop and those of the shutdown do it in the same ways.                  *)

data == <<list, sms, s_msg, threads, fates>>

Lists(m) ==
    /\ Put(Append(list, m))
    /\ \/ fate[m] = "new" /\ QueueSms(m) /\ UNCHANGED s_msg
       \/ fate[m] = "held" /\ s_msg' = None /\ UNCHANGED <<sms, smsfate>>
    /\ UNCHANGED threads

Holds(m) ==
    /\ fate[m] = "new" /\ QueueSms(m) /\ s_msg = None /\ s_msg' = m
    /\ fate' = [fate EXCEPT ![m] = "held"]
    /\ UNCHANGED <<list, threads>>

StartsSms ==
    /\ sms # <<>> /\ sms' = Tail(sms)
    /\ threads' = threads \cup {SmsThread(Head(sms))}
    /\ smsfate' = [smsfate EXCEPT ![Head(sms)] = "thread"]
    /\ UNCHANGED <<list, s_msg, fate>>

StartsBatch ==
    /\ list # <<>> /\ list' = <<>>
    /\ threads' = threads \cup {MailThread(list)}
    /\ fate' = [m \in Mails |-> IF m \in Range(list) THEN "thread" ELSE fate[m]]
    /\ UNCHANGED <<sms, s_msg, smsfate>>

LEMMA Effects ==
  ASSUME IndInv, [Next]_vars
  PROVE  \/ UNCHANGED data
         \/ \E m \in Mails : Lists(m) \/ Holds(m)
         \/ StartsSms \/ StartsBatch
         \/ \E t \in threads : \/ MailSends(t) \/ SmsSends(t) \/ SmsFails(t)
                               \/ mail_worker_finished(t)
<1>1. ASSUME NEW ok \in BOOLEAN, NEW next, SpawnSms(ok, next),
             UNCHANGED <<list, s_msg, fate>>
      PROVE  StartsSms \/ UNCHANGED data
  BY <1>1 DEF SpawnSms, StartsSms, data, fates
<1>2. ASSUME NEW ok \in BOOLEAN, NEW good, NEW bad, SpawnBatch(ok, good, bad),
             UNCHANGED <<sms, s_msg, smsfate>>
      PROVE  StartsBatch \/ UNCHANGED data
  <2>1. CASE ok
    BY <1>2, <2>1 DEF SpawnBatch, StartsBatch
  <2>2. CASE ~ok
    <3>1. Put(list) /\ UNCHANGED threads
      BY <1>2, <2>2 DEF SpawnBatch
    <3>2. list' = list /\ fate' = fate
      BY <3>1, PutBack DEF IndInv
    <3> QED
      BY <1>2, <3>1, <3>2 DEF data, fates
  <2> QED
    BY <2>1, <2>2
<1>3. CASE SmsSpawn
  BY <1>1, <1>3 DEF SmsSpawn, loop
<1>4. CASE BatchSpawn
  BY <1>2, <1>4 DEF BatchSpawn, loop
<1>5. CASE maild_shutdown_drain
  <2>1. UNCHANGED <<s_msg>>
    BY <1>5 DEF maild_shutdown_drain, loop
  <2>2. CASE (\E ok \in BOOLEAN : SpawnSms(ok, "down_check")) /\ UNCHANGED <<list, fate>>
    BY <1>1, <2>1, <2>2
  <2>3. CASE /\ \E ok \in BOOLEAN : SpawnBatch(ok, "down_check", "down_check")
             /\ UNCHANGED <<sms, smsfate>>
    BY <1>2, <2>1, <2>3
  <2>4. CASE UNCHANGED <<list, sms, threads, fates>>
    BY <2>1, <2>4 DEF data, fates
  <2> QED
    BY <1>5, <2>2, <2>3, <2>4 DEF maild_shutdown_drain
<1>6. CASE Held
  <2>1. CASE s_msg = None
    BY <1>6, <2>1 DEF Held, data, fates
  <2>2. CASE s_msg # None
    <3>1. s_msg \in Mails /\ fate[s_msg] = "held"
      BY <2>2 DEF IndInv, TypeOK, HeldInv
    <3>2. Lists(s_msg)
      BY <1>6, <2>2, <3>1 DEF Held, Lists
    <3> QED
      BY <3>1, <3>2
  <2> QED
    BY <2>1, <2>2
<1>7. ASSUME NEW m \in Mails, Recv(m)
      PROVE  Lists(m) \/ Holds(m)
  <2>1. s_msg = None
    BY <1>7 DEF Recv, IndInv, HeldInv
  <2>2. CASE Priority[m] = DONOTGROUP
    BY <1>7, <2>1, <2>2 DEF Recv, Holds
  <2>3. CASE Priority[m] # DONOTGROUP
    BY <1>7, <2>3 DEF Recv, Lists
  <2> QED
    BY <2>2, <2>3
<1>8. CASE DownRecv
  <2>1. UNCHANGED <<s_msg, threads>>
    BY <1>8 DEF DownRecv, loop
  <2>2. CASE UNCHANGED <<list, fates, sms>>
    BY <2>1, <2>2 DEF data, fates
  <2>3. ASSUME NEW m \in Mails, fate[m] = "new", QueueSms(m), Put(Append(list, m))
        PROVE  Lists(m)
    BY <2>1, <2>3 DEF Lists
  <2> QED
    BY <1>8, <2>2, <2>3 DEF DownRecv
<1>9. CASE Top \/ SmsCheck \/ BatchCheck \/ CheckHour \/ RecvNothing
  BY <1>9 DEF Top, SmsCheck, BatchCheck, CheckHour, RecvNothing, data, loop, fates
<1>10. CASE DownSlot \/ DownCheck \/ maild_HandleSIG \/ HourPasses \/ UNCHANGED vars
  BY <1>10 DEF DownSlot, DownCheck, maild_HandleSIG, HourPasses, data, vars, loop, fates
<1>11. CASE Threads \/ \E t \in threads : SmsFails(t)
  BY <1>11 DEF Threads
<1> QED
  BY <1>3, <1>4, <1>5, <1>6, <1>7, <1>8, <1>9, <1>10, <1>11 DEF Next, OS_Run

-----------------------------------------------------------------------------
(* The threads.                                                            *)

(* There is a try that no thread has.                                       *)
LEMMA FreshTry ==
  ASSUME IsFiniteSet(threads)
  PROVE  Fresh \in Nat /\ \A t \in threads : t.try # Fresh
<1> DEFINE tries == {t.try : t \in threads}
           N == Cardinality(threads)
<1>1. N \in Nat
  BY FS_CardinalityType
<1>2. IsFiniteSet(tries) /\ Cardinality(tries) <= N
  <2>1. [t \in threads |-> t.try] \in Surjection(threads, tries)
    BY DEF Surjection
  <2> QED
    BY <2>1, FS_Surjection
<1>3. IsFiniteSet(0 .. N) /\ Cardinality(0 .. N) = N + 1
  BY <1>1, FS_Interval
<1>4. ~(0 .. N \subseteq tries)
  <2> HIDE DEF tries, N
  <2>1. ASSUME 0 .. N \subseteq tries
        PROVE  N + 1 <= Cardinality(tries) /\ Cardinality(tries) \in Nat
    <3> DEFINE T == 0 .. N
    <3>1. T \in SUBSET tries /\ Cardinality(T) = N + 1
      BY <1>3, <2>1
    <3> HIDE DEF T
    <3>2. Cardinality(T) <= Cardinality(tries)
      BY <1>2, <3>1, FS_Subset
    <3> QED
      BY <1>2, <3>1, <3>2, FS_CardinalityType
  <2> QED
    BY <1>1, <1>2, <2>1
<1>5. \E k \in 0 .. N : \A t \in threads : t.try # k
  BY <1>4
<1>6. \A k \in 0 .. N : k \in Nat
  BY <1>1
<1> QED
  BY <1>5, <1>6 DEF Fresh

(* A new thread is not one of those there are.                             *)
LEMMA NewThread ==
  ASSUME TypeOK, ListInv, SmsListInv, MailInv, SmsInv
  PROVE  /\ list # <<>> => MailThread(list) \notin threads
         /\ sms # <<>> => SmsThread(Head(sms)) \notin threads
<1>1. ASSUME list # <<>>, MailThread(list) \in threads
      PROVE  FALSE
  <2>1. /\ MailThread(list) \in MailThreads
        /\ MailThread(list).batch = list /\ MailThread(list).n = None
    BY <1>1 DEF MailThread, MailThreads
  <2>2. PICK m : m \in Range(list)
    BY <1>1, InRange DEF TypeOK
  <2>3. fate[m] = "thread"
    BY <2>1, <2>2 DEF MailInv
  <2>4. m \in Mails
    BY <2>2, InRange DEF TypeOK
  <2> QED
    BY <2>2, <2>3, <2>4 DEF ListInv
<1>2. ASSUME sms # <<>>, SmsThread(Head(sms)) \in threads
      PROVE  FALSE
  <2>1. /\ SmsThread(Head(sms)) \in SmsThreads
        /\ SmsThread(Head(sms)).batch[1] = Head(sms) /\ SmsThread(Head(sms)).n = None
    BY <1>2 DEF SmsThread, SmsThreads
  <2>2. smsfate[Head(sms)] = "thread"
    BY <2>1 DEF SmsInv
  <2>3. NoRepeat(sms) /\ sms \in Seq(WithSms)
    BY DEF SmsListInv, TypeOK
  <2>4. Head(sms) \in Range(sms) /\ Head(sms) \in Mails
    BY <1>2, <2>3, TailList, InRange, MaildAssumption DEF MaildAssumption
  <2> QED
    BY <2>2, <2>4 DEF SmsListInv
<1> QED
  BY <1>1, <1>2

(* Nor is what becomes of a thread that is done.                           *)
LEMMA ThreadEnds ==
  ASSUME TypeOK, MailInv, SmsInv, NEW t \in threads, t.n = None, NEW k \in Nat
  PROVE  [t EXCEPT !.n = k] \in ThreadRecords \ threads
<1> DEFINE u == [t EXCEPT !.n = k]
<1>1. /\ t \in ThreadRecords /\ u \in ThreadRecords /\ k # None
      /\ u.kind = t.kind /\ u.batch = t.batch /\ u.try = t.try /\ u.n = k
  BY MaildAssumption DEF TypeOK, ThreadRecords, MaildAssumption
<1>2. t # u /\ t.kind \in {"mail", "sms"}
  BY <1>1 DEF ThreadRecords
<1> HIDE DEF u
<1>3. ASSUME t.kind = "mail"
      PROVE  u \notin threads
  <2>1. ASSUME u \in threads
        PROVE  FALSE
    <3>1. t \in MailThreads /\ u \in MailThreads
      BY <1>1, <1>3, <2>1 DEF MailThreads
    <3>2. PICK m : m \in Range(t.batch)
      BY <3>1 DEF MailInv
    <3> QED
      BY <1>1, <1>2, <3>1, <3>2 DEF MailInv
  <2> QED
    BY <2>1
<1>4. ASSUME t.kind = "sms"
      PROVE  u \notin threads
  <2>1. ASSUME u \in threads
        PROVE  FALSE
    <3>1. t \in SmsThreads /\ u \in SmsThreads
      BY <1>1, <1>4, <2>1 DEF SmsThreads
    <3> QED
      BY <1>1, <1>2, <3>1 DEF SmsInv
  <2> QED
    BY <2>1
<1> QED
  BY <1>1, <1>2, <1>3, <1>4 DEF u

(* An end of a batch counts what was sent.                                 *)
LEMMA SentCount ==
  ASSUME TypeOK, NEW t \in threads, NEW ok \in SUBSET {To[m] : m \in Range(t.batch)}
  PROVE  Cardinality(ok) \in Nat
<1>1. t.batch \in Seq(Mails)
  BY DEF TypeOK, ThreadRecords
<1>2. Range(t.batch) \subseteq Mails
  BY <1>1, InRange
<1>3. IsFiniteSet(Range(t.batch))
  BY <1>2, MaildAssumption, FS_Subset DEF MaildAssumption
<1>4. IsFiniteSet({To[m] : m \in Range(t.batch)})
  <2>1. [m \in Range(t.batch) |-> To[m]] \in Surjection(Range(t.batch), {To[m] : m \in Range(t.batch)})
    BY DEF Surjection
  <2> QED
    BY <1>3, <2>1, FS_Surjection
<1> QED
  BY <1>4, FS_Subset, FS_CardinalityType

-----------------------------------------------------------------------------
(* Each part of the invariant is preserved.                                *)

LEMMA ActivePositive ==
  ASSUME TypeOK, SlotsExact,
         threads # {} \/ pc \in {"sms_spawn", "batch_spawn", "down_spawn"}
  PROVE  active > 0
<1>1. active \in Nat /\ IsFiniteSet(threads)
  BY MaildAssumption DEF TypeOK, MaildAssumption
<1>2. Cardinality(threads) \in Nat /\ (threads # {} => Cardinality(threads) # 0)
  BY <1>1, FS_CardinalityType, FS_EmptySet
<1> QED
  BY <1>1, <1>2 DEF SlotsExact

(* What the threads and the main loop hand on has its type.                *)
DataOK ==
    /\ list \in Seq(Mails) /\ Len(list) <= ListMax /\ sms \in Seq(WithSms)
    /\ s_msg \in Mails \cup {None}
    /\ threads \subseteq ThreadRecords /\ IsFiniteSet(threads)
    /\ fate \in [Mails -> Fates]
    /\ smsfate \in [Mails -> {"none", "queued", "thread", "sent"}]

LEMMA DataType ==
  ASSUME IndInv, [Next]_vars
  PROVE  DataOK'
<1>1. /\ list \in Seq(Mails) /\ Len(list) <= ListMax /\ sms \in Seq(WithSms)
      /\ s_msg \in Mails \cup {None}
      /\ threads \subseteq ThreadRecords /\ IsFiniteSet(threads)
      /\ fate \in [Mails -> Fates]
      /\ smsfate \in [Mails -> {"none", "queued", "thread", "sent"}]
  BY DEF IndInv, TypeOK, Fates
<1>2. /\ TypeOK /\ ListInv /\ SmsListInv /\ HeldInv /\ MailInv /\ SmsInv
      /\ NoRepeat(list) /\ NoRepeat(sms)
  BY DEF IndInv, ListInv, SmsListInv
<1>3. CASE UNCHANGED data
  BY <1>1, <1>3 DEF data, fates, DataOK
<1>4. ASSUME NEW m \in Mails, Lists(m)
      PROVE  DataOK'
  <2>1. fate[m] # "listed" /\ Put(Append(list, m))
    BY <1>4 DEF Lists
  <2>2. list' \in Seq(Mails) /\ Len(list') <= ListMax /\ fate' \in [Mails -> Fates]
    BY <1>2, <2>1, PutFresh
  <2>3. sms' \in Seq(WithSms) /\ smsfate' \in [Mails -> {"none", "queued", "thread", "sent"}]
    <3>1. CASE fate[m] = "new" /\ QueueSms(m)
      BY <1>2, <3>1, Queued DEF HeldInv
    <3>2. CASE UNCHANGED <<sms, smsfate>>
      BY <1>1, <3>2
    <3> QED
      BY <1>4, <3>1, <3>2 DEF Lists
  <2> QED
    BY <1>1, <1>4, <2>2, <2>3 DEF Lists, DataOK
<1>5. ASSUME NEW m \in Mails, Holds(m)
      PROVE  DataOK'
  <2>1. sms' \in Seq(WithSms) /\ smsfate' \in [Mails -> {"none", "queued", "thread", "sent"}]
    BY <1>2, <1>5, Queued DEF HeldInv, Holds
  <2> QED
    BY <1>1, <1>5, <2>1 DEF Holds, Fates, DataOK
<1>6. CASE StartsSms
  <2>1. Head(sms) \in Mails /\ sms' \in Seq(WithSms)
    BY <1>1, <1>2, <1>6, TailList, InRange, MaildAssumption DEF StartsSms, MaildAssumption
  <2>2. SmsThread(Head(sms)) \in ThreadRecords
    BY <1>1, <2>1, FreshTry DEF SmsThread, ThreadRecords
  <2>3. threads' \subseteq ThreadRecords /\ IsFiniteSet(threads')
    BY <1>1, <1>6, <2>2, FS_AddElement DEF StartsSms
  <2> QED
    BY <1>1, <1>6, <2>1, <2>3 DEF StartsSms, DataOK
<1>7. CASE StartsBatch
  <2>1. MailThread(list) \in ThreadRecords
    BY <1>1 DEF MailThread, ThreadRecords
  <2>2. threads' \subseteq ThreadRecords /\ IsFiniteSet(threads')
    BY <1>1, <1>7, <2>1, FS_AddElement DEF StartsBatch
  <2>3. <<>> \in Seq(Mails) /\ Len(<<>>) = 0 /\ ListMax \in Nat
    BY MaildAssumption DEF MaildAssumption
  <2>4. fate' \in [Mails -> Fates]
    BY <1>1, <1>7 DEF StartsBatch, Fates
  <2> QED
    BY <1>1, <1>7, <2>2, <2>3, <2>4 DEF StartsBatch, DataOK
<1>8. ASSUME NEW t \in threads, NEW k \in Nat, t.n = None,
             threads' = (threads \ {t}) \cup {[t EXCEPT !.n = k]}
      PROVE  threads' \subseteq ThreadRecords /\ IsFiniteSet(threads')
  <2>1. [t EXCEPT !.n = k] \in ThreadRecords
    BY <1>2, <1>8, ThreadEnds
  <2>2. IsFiniteSet(threads \ {t})
    BY <1>1, FS_RemoveElement
  <2> QED
    BY <1>1, <1>8, <2>1, <2>2, FS_AddElement
<1>9. ASSUME NEW t \in threads, MailSends(t)
      PROVE  DataOK'
  <2>1. PICK ok \in SUBSET {To[m] : m \in Range(t.batch)} :
          /\ fate' = [m \in Mails |-> IF m \notin Range(t.batch) THEN fate[m]
                                      ELSE IF To[m] \in ok THEN "sent" ELSE "failed"]
          /\ threads' = (threads \ {t}) \cup {[t EXCEPT !.n = Cardinality(ok)]}
    BY <1>9 DEF MailSends
  <2>2. threads' \subseteq ThreadRecords /\ IsFiniteSet(threads')
    BY <1>2, <1>8, <1>9, <2>1, SentCount DEF MailSends
  <2>3. fate' \in [Mails -> Fates]
    BY <1>1, <2>1 DEF Fates
  <2> QED
    BY <1>1, <1>9, <2>2, <2>3 DEF MailSends, loop, DataOK
<1>10. ASSUME NEW t \in threads, SmsSends(t)
       PROVE  DataOK'
  <2>1. threads' \subseteq ThreadRecords /\ IsFiniteSet(threads')
    BY <1>8, <1>10 DEF SmsSends
  <2> QED
    BY <1>1, <1>10, <2>1 DEF SmsSends, loop, DataOK
<1>11. ASSUME NEW t \in threads, SmsFails(t)
       PROVE  DataOK'
  <2>1. threads' \subseteq ThreadRecords /\ IsFiniteSet(threads')
    BY <1>8, <1>11 DEF SmsFails
  <2>2. t \in SmsThreads
    BY <1>11 DEF SmsFails, SmsThreads
  <2>3. t.batch[1] \in WithSms /\ t.batch = <<t.batch[1]>>
    BY <1>2, <2>2 DEF SmsInv
  <2>4. t.batch \in Seq(WithSms)
    <3> DEFINE b == t.batch[1]
    <3>1. b \in WithSms /\ t.batch = <<b>>
      BY <2>3
    <3> HIDE DEF b
    <3> QED
      BY <3>1
  <2>5. sms' \in Seq(WithSms)
    <3>1. t.batch \o sms \in Seq(WithSms)
      BY <1>1, <2>4, ConcatProperties, Zenon
    <3> QED
      BY <1>11, <3>1 DEF SmsFails
  <2>6. smsfate' \in [Mails -> {"none", "queued", "thread", "sent"}]
    <3>1. smsfate' = [smsfate EXCEPT ![t.batch[1]] = "queued"]
      BY <1>11, Zenon DEF SmsFails
    <3>2. smsfate \in [Mails -> {"none", "queued", "thread", "sent"}]
      BY <1>1
    <3>3. smsfate' \in [Mails -> {"none", "queued", "thread", "sent"}]
      BY <3>1, <3>2
    <3> QED
      BY <3>1, <3>2, <3>3
  <2>7. UNCHANGED <<list, s_msg, fate>>
    BY <1>11 DEF SmsFails, loop
  <2> QED
    BY <1>1, <2>1, <2>5, <2>6, <2>7 DEF DataOK
<1>12. ASSUME NEW t \in threads, mail_worker_finished(t)
       PROVE  DataOK'
  <2>1. IsFiniteSet(threads')
    BY <1>1, <1>12, FS_RemoveElement DEF mail_worker_finished
  <2> QED
    BY <1>1, <1>12, <2>1 DEF mail_worker_finished, loop, fates, DataOK
<1> QED
  BY <1>3, <1>4, <1>5, <1>6, <1>7, <1>9, <1>10, <1>11, <1>12, Effects

LEMMA TypeStep ==
  ASSUME IndInv, [Next]_vars
  PROVE  TypeOK'
<1>1. TypeOK /\ SlotsExact /\ MaxWorkers \in Nat \ {0} /\ None \notin Nat
  BY MaildAssumption DEF IndInv, MaildAssumption
<1>2. /\ pc \in {"top", "sms", "sms_spawn", "batch", "batch_spawn", "check_hour", "held",
                 "recv", "down_recv", "down_slot", "down_spawn", "down_check", "done", "abandoned"}
      /\ gather \in BOOLEAN /\ mailtosend \in BOOLEAN /\ newhour \in BOOLEAN
      /\ rollover \in BOOLEAN /\ shutting \in BOOLEAN /\ force \in BOOLEAN
      /\ sent \in Nat /\ active \in 0 .. MaxWorkers
      /\ \A t \in threads : t.n \in Nat \cup {None}
  BY <1>1 DEF TypeOK, ThreadRecords
<1> DEFINE Rest == /\ pc \in {"top", "sms", "sms_spawn", "batch", "batch_spawn", "check_hour",
                              "held", "recv", "down_recv", "down_slot", "down_spawn",
                              "down_check", "done", "abandoned"}
                   /\ gather \in BOOLEAN /\ mailtosend \in BOOLEAN /\ newhour \in BOOLEAN
                   /\ rollover \in BOOLEAN /\ shutting \in BOOLEAN /\ force \in BOOLEAN
                   /\ sent \in Nat /\ active \in 0 .. MaxWorkers
<1>3. ASSUME NEW ok \in BOOLEAN, NEW next, SpawnSms(ok, next), active > 0
      PROVE  active' \in 0 .. MaxWorkers /\ pc' = next
  BY <1>1, <1>2, <1>3 DEF SpawnSms
<1>4. ASSUME NEW ok \in BOOLEAN, NEW good, NEW bad, SpawnBatch(ok, good, bad), active > 0
      PROVE  active' \in 0 .. MaxWorkers /\ pc' \in {good, bad}
  BY <1>1, <1>2, <1>4 DEF SpawnBatch
<1>5. ASSUME NEW next, Slot(next)
      PROVE  active' \in 0 .. MaxWorkers /\ pc' = next
  BY <1>1, <1>2, <1>5 DEF Slot
<1>6. Rest'
  <2>1. CASE Top \/ CheckHour \/ Held \/ RecvNothing
    <3>1. CASE Top
      <4>1. /\ (newhour' = FALSE /\ sent' = 0) \/ (newhour' = newhour /\ sent' = sent)
            /\ pc' \in {"down_recv", "sms"}
            /\ UNCHANGED <<loop, rollover, active, flags>>
        BY <3>1, Zenon DEF Top
      <4>2. sent' \in Nat
        BY <1>2, <4>1
      <4>3. newhour' \in BOOLEAN
        BY <1>2, <4>1, Zenon
      <4> QED
        BY <1>2, <4>1, <4>2, <4>3 DEF loop, flags
    <3>2. CASE CheckHour
      <4>1. /\ (newhour' = FALSE /\ (sent' = 0 \/ sent' = sent)) \/ (newhour' = newhour /\ sent' = sent)
            /\ rollover' = TRUE \/ rollover' = rollover
            /\ pc' = "held" /\ UNCHANGED <<gather, active, flags>>
        BY <3>2, Zenon DEF CheckHour
      <4>2. mailtosend' \in BOOLEAN
        BY <1>2, <3>2, Zenon DEF CheckHour
      <4>3. sent' \in Nat
        BY <1>2, <4>1
      <4>4. newhour' \in BOOLEAN /\ rollover' \in BOOLEAN
        BY <1>2, <4>1, Zenon
      <4> QED
        BY <1>2, <4>1, <4>2, <4>3, <4>4 DEF flags
    <3>3. CASE Held
      BY <1>2, <3>3 DEF Held, hour, flags
    <3>4. CASE RecvNothing
      BY <1>2, <3>4 DEF RecvNothing, hour, flags
    <3> QED
      BY <2>1, <3>1, <3>2, <3>3, <3>4
  <2>2. CASE SmsCheck
    <3>1. active' \in 0 .. MaxWorkers /\ pc' \in {"batch", "sms_spawn", "top"}
      BY <1>2, <1>5, <2>2 DEF SmsCheck
    <3> QED
      BY <1>2, <2>2, <3>1 DEF SmsCheck, loop, hour, flags
  <2>3. CASE BatchCheck
    <3>1. active' \in 0 .. MaxWorkers /\ pc' \in {"held", "batch_spawn", "check_hour"}
      BY <1>2, <1>5, <2>3 DEF BatchCheck
    <3> QED
      BY <1>2, <2>3, <3>1 DEF BatchCheck, loop, hour, flags
  <2>4. CASE SmsSpawn
    <3>1. active > 0
      BY <1>1, <2>4, ActivePositive DEF SmsSpawn
    <3>2. active' \in 0 .. MaxWorkers /\ pc' \in {"batch", "top"}
      BY <1>3, <2>4, <3>1 DEF SmsSpawn
    <3> QED
      BY <1>2, <2>4, <3>2 DEF SmsSpawn, loop, hour, flags
  <2>5. CASE BatchSpawn
    <3>1. active > 0
      BY <1>1, <2>5, ActivePositive DEF BatchSpawn
    <3>2. active' \in 0 .. MaxWorkers /\ pc' \in {"check_hour", "top"}
      BY <1>4, <2>5, <3>1 DEF BatchSpawn
    <3> QED
      BY <1>2, <2>5, <3>2 DEF BatchSpawn, loop, hour, flags
  <2>6. ASSUME NEW m \in Mails, Recv(m)
        PROVE  Rest'
    BY <1>2, <2>6 DEF Recv, hour, flags
  <2>7. CASE DownRecv
    BY <1>2, <2>7 DEF DownRecv, loop, hour, flags
  <2>8. CASE DownSlot
    <3>1. active' \in 0 .. MaxWorkers /\ pc' \in {"down_spawn", "down_check"}
      BY <1>2, <1>5, <2>8 DEF DownSlot
    <3> QED
      BY <1>2, <2>8, <3>1 DEF DownSlot, loop, hour, flags
  <2>9. CASE maild_shutdown_drain
    <3>1. active > 0
      BY <1>1, <2>9, ActivePositive DEF maild_shutdown_drain
    <3>2. active' \in 0 .. MaxWorkers /\ pc' = "down_check"
      <4>1. CASE \E ok \in BOOLEAN : SpawnSms(ok, "down_check")
        BY <1>3, <3>1, <4>1
      <4>2. CASE \E ok \in BOOLEAN : SpawnBatch(ok, "down_check", "down_check")
        BY <1>4, <3>1, <4>2
      <4>3. CASE active' = active - 1 /\ pc' = "down_check"
        BY <1>1, <1>2, <3>1, <4>3
      <4> QED
        BY <2>9, <4>1, <4>2, <4>3 DEF maild_shutdown_drain
    <3> QED
      BY <1>2, <2>9, <3>2 DEF maild_shutdown_drain, loop, hour, flags
  <2>10. CASE DownCheck \/ maild_HandleSIG \/ HourPasses \/ UNCHANGED vars
    BY <1>2, <2>10 DEF DownCheck, maild_HandleSIG, HourPasses, vars, loop, hour, flags
  <2>11. ASSUME NEW t \in threads, MailSends(t) \/ SmsSends(t) \/ SmsFails(t)
         PROVE  Rest'
    BY <1>2, <2>11 DEF MailSends, SmsSends, SmsFails, loop, hour, flags
  <2>12. ASSUME NEW t \in threads, mail_worker_finished(t)
         PROVE  Rest'
    <3>1. active > 0
      BY <1>1, ActivePositive
    <3>2. t.n \in Nat /\ active' = active - 1
      BY <1>2, <2>12 DEF mail_worker_finished
    <3>3. sent' \in Nat /\ rollover' \in BOOLEAN
      <4>1. CASE active = 1 /\ rollover
        <5>1. sent' = 0 /\ rollover' = FALSE
          BY <2>12, <4>1, Zenon DEF mail_worker_finished
        <5> QED
          BY <5>1
      <4>2. CASE ~(active = 1 /\ rollover)
        <5>1. sent' = sent + t.n /\ rollover' = rollover
          BY <2>12, <4>2, Zenon DEF mail_worker_finished
        <5> QED
          BY <1>2, <3>2, <5>1
      <4> QED
        BY <4>1, <4>2
    <3>4. active' \in 0 .. MaxWorkers
      BY <1>1, <1>2, <3>1, <3>2
    <3> QED
      BY <1>2, <2>12, <3>3, <3>4 DEF mail_worker_finished, loop, flags
  <2> QED
    BY <2>1, <2>2, <2>3, <2>4, <2>5, <2>6, <2>7, <2>8, <2>9, <2>10, <2>11, <2>12
       DEF Next, OS_Run, Threads
<1>7. DataOK'
  BY DataType
<1> QED
  BY <1>6, <1>7 DEF TypeOK, DataOK, Fates

LEMMA ListStep ==
  ASSUME IndInv, [Next]_vars
  PROVE  ListInv' /\ SmsListInv'
<1>1. /\ TypeOK /\ ListInv /\ SmsListInv /\ HeldInv /\ MailInv /\ SmsInv
      /\ NoRepeat(list) /\ NoRepeat(sms) /\ list \in Seq(Mails) /\ sms \in Seq(WithSms)
      /\ fate \in [Mails -> Fates]
      /\ smsfate \in [Mails -> {"none", "queued", "thread", "sent"}]
      /\ \A m \in Mails : fate[m] = "listed" <=> m \in Range(list)
      /\ \A m \in Mails : smsfate[m] = "queued" <=> m \in Range(sms)
  BY DEF IndInv, ListInv, SmsListInv, TypeOK, Fates
<1>2. CASE UNCHANGED data
  BY <1>1, <1>2 DEF data, fates, ListInv, SmsListInv
<1>3. ASSUME NEW m \in Mails, Lists(m)
      PROVE  ListInv' /\ SmsListInv'
  <2>1. fate[m] # "listed" /\ Put(Append(list, m))
    BY <1>3 DEF Lists
  <2>2. ListInv'
    BY <1>1, <2>1, PutFresh DEF ListInv
  <2>3. CASE fate[m] = "new" /\ QueueSms(m)
    BY <1>1, <2>2, <2>3, Queued DEF HeldInv, SmsListInv
  <2>4. CASE UNCHANGED <<sms, smsfate>>
    BY <1>1, <2>2, <2>4 DEF SmsListInv
  <2> QED
    BY <1>3, <2>3, <2>4 DEF Lists
<1>4. ASSUME NEW m \in Mails, Holds(m)
      PROVE  ListInv' /\ SmsListInv'
  <2>1. SmsListInv'
    BY <1>1, <1>4, Queued DEF Holds, HeldInv, SmsListInv
  <2>2. ListInv'
    BY <1>1, <1>4 DEF Holds, ListInv
  <2> QED
    BY <2>1, <2>2
<1>5. CASE StartsSms
  <2> DEFINE m == Head(sms)
  <2>1. /\ m \in Mails /\ NoRepeat(Tail(sms)) /\ Range(Tail(sms)) = Range(sms) \ {m}
    BY <1>1, <1>5, TailList, InRange, MaildAssumption DEF StartsSms, MaildAssumption
  <2>2. /\ sms' = Tail(sms) /\ smsfate' = [smsfate EXCEPT ![m] = "thread"]
        /\ UNCHANGED <<list, fate>>
    BY <1>5 DEF StartsSms
  <2> HIDE DEF m
  <2>3. SmsListInv'
    BY <1>1, <2>1, <2>2 DEF SmsListInv
  <2> QED
    BY <1>1, <2>2, <2>3 DEF ListInv
<1>6. CASE StartsBatch
  <2>1. /\ list' = <<>> /\ UNCHANGED <<sms, smsfate>>
        /\ fate' = [m \in Mails |-> IF m \in Range(list) THEN "thread" ELSE fate[m]]
    BY <1>6 DEF StartsBatch
  <2>2. <<>> \in Seq(Mails) /\ Range(<<>>) = {} /\ Len(<<>>) = 0
    BY InRange, EmptySeq
  <2>3. NoRepeat(<<>>)
    BY <2>2 DEF NoRepeat
  <2>4. ListInv'
    BY <1>1, <2>1, <2>2, <2>3 DEF ListInv
  <2> QED
    BY <1>1, <2>1, <2>4 DEF SmsListInv
<1>7. ASSUME NEW t \in threads, MailSends(t)
      PROVE  ListInv' /\ SmsListInv'
  <2>1. t \in MailThreads /\ \A m \in Range(t.batch) : fate[m] = "thread"
    BY <1>1, <1>7 DEF MailSends, MailThreads, MailInv
  <2>2. PICK ok \in SUBSET {To[m] : m \in Range(t.batch)} :
          fate' = [m \in Mails |-> IF m \notin Range(t.batch) THEN fate[m]
                                   ELSE IF To[m] \in ok THEN "sent" ELSE "failed"]
    BY <1>7 DEF MailSends
  <2>3. UNCHANGED <<list, sms, smsfate>>
    BY <1>7 DEF MailSends
  <2>4. \A m \in Mails : fate'[m] = "listed" <=> fate[m] = "listed"
    BY <2>1, <2>2
  <2> QED
    BY <1>1, <2>3, <2>4 DEF ListInv, SmsListInv
<1>8. ASSUME NEW t \in threads, SmsSends(t) \/ SmsFails(t)
      PROVE  ListInv' /\ SmsListInv'
  <2> DEFINE m == t.batch[1]
  <2>1. /\ t \in SmsThreads /\ m \in WithSms /\ m \in Mails
        /\ t.batch = <<m>> /\ smsfate[m] = "thread" /\ m \notin Range(sms)
    BY <1>1, <1>8, MaildAssumption DEF SmsSends, SmsFails, SmsThreads, SmsInv, MaildAssumption
  <2>2. UNCHANGED <<list, fate>>
    BY <1>8 DEF SmsSends, SmsFails
  <2>3. \/ sms' = sms /\ smsfate' = [smsfate EXCEPT ![m] = "sent"]
        \/ sms' = <<m>> \o sms /\ smsfate' = [smsfate EXCEPT ![m] = "queued"]
    BY <1>8, <2>1 DEF SmsSends, SmsFails
  <2> HIDE DEF m
  <2>4. NoRepeat(<<m>> \o sms) /\ Range(<<m>> \o sms) = Range(sms) \cup {m}
    <3>1. m \in WithSms /\ m \notin Range(sms) /\ sms \in Seq(WithSms) /\ NoRepeat(sms)
      BY <1>1, <2>1
    <3> QED
      BY <3>1, FrontList, ZenonT(30)
  <2>5. SmsListInv'
    BY <1>1, <2>1, <2>3, <2>4 DEF SmsListInv
  <2> QED
    BY <1>1, <2>2, <2>5 DEF ListInv
<1>9. ASSUME NEW t \in threads, mail_worker_finished(t)
      PROVE  ListInv' /\ SmsListInv'
  BY <1>1, <1>9 DEF mail_worker_finished, fates, ListInv, SmsListInv
<1> QED
  BY <1>2, <1>3, <1>4, <1>5, <1>6, <1>7, <1>8, <1>9, Effects

LEMMA HeldStep ==
  ASSUME IndInv, [Next]_vars
  PROVE  HeldInv'
<1>1. /\ TypeOK /\ ListInv /\ SmsListInv /\ HeldInv /\ MailInv /\ SmsInv
      /\ fate \in [Mails -> Fates] /\ None \notin Mails
      /\ smsfate \in [Mails -> {"none", "queued", "thread", "sent"}]
      /\ \A m \in Mails : fate[m] = "listed" <=> m \in Range(list)
      /\ \A m \in Mails : fate[m] = "held" <=> s_msg = m
      /\ \A m \in Mails : fate[m] = "new" => smsfate[m] = "none"
  BY MaildAssumption DEF IndInv, ListInv, TypeOK, Fates, HeldInv, MaildAssumption
<1>2. pc' = "recv" => s_msg' = None
  <2>1. CASE Held
    BY <2>1 DEF Held
  <2>2. CASE \/ Top \/ SmsCheck \/ SmsSpawn \/ BatchCheck \/ BatchSpawn \/ CheckHour
             \/ RecvNothing \/ (\E m \in Mails : Recv(m))
    <3>1. pc' # "recv"
      BY <2>2 DEF Top, SmsCheck, SmsSpawn, BatchCheck, BatchSpawn, CheckHour, RecvNothing,
                  Recv, Slot, SpawnSms, SpawnBatch
    <3> QED
      BY <3>1
  <2>3. CASE DownRecv \/ DownSlot \/ maild_shutdown_drain \/ DownCheck
    <3>1. pc' # "recv"
      BY <2>3 DEF DownRecv, DownSlot, maild_shutdown_drain, DownCheck, Slot, SpawnSms, SpawnBatch
    <3> QED
      BY <3>1
  <2>4. CASE \/ Threads \/ (\E t \in threads : SmsFails(t))
             \/ maild_HandleSIG \/ HourPasses \/ UNCHANGED vars
    <3>1. UNCHANGED <<pc, s_msg>>
      BY <2>4 DEF Threads, MailSends, SmsSends, SmsFails, mail_worker_finished,
                  maild_HandleSIG, HourPasses, vars, loop
    <3> QED
      BY <1>1, <3>1 DEF HeldInv
  <2> QED
    BY <2>1, <2>2, <2>3, <2>4 DEF Next, OS_Run
<1> DEFINE H == /\ \A m \in Mails : fate[m] = "held" <=> s_msg = m
                /\ \A m \in Mails : fate[m] = "new" => smsfate[m] = "none"
<1>3. ASSUME UNCHANGED data
      PROVE  H'
  BY <1>1, <1>3 DEF data, fates
<1>4. ASSUME NEW m \in Mails, Lists(m)
      PROVE  H'
  <2>1. fate[m] # "listed" /\ Put(Append(list, m))
    BY <1>4 DEF Lists
  <2>2. \A k \in Mails : IF fate[k] = "listed" \/ k = m
                         THEN fate'[k] \in {"listed", "evicted"} ELSE fate'[k] = fate[k]
    BY <1>1, <2>1, PutFresh
  <2>3. CASE fate[m] = "new" /\ QueueSms(m) /\ UNCHANGED s_msg
    <3>1. \A k \in Mails : k # m => smsfate'[k] = smsfate[k]
      BY <1>1, <2>3, Queued
    <3> QED
      BY <1>1, <2>2, <2>3, <3>1
  <2>4. CASE fate[m] = "held" /\ s_msg' = None /\ UNCHANGED <<sms, smsfate>>
    BY <1>1, <2>2, <2>4
  <2> QED
    BY <1>4, <2>3, <2>4 DEF Lists
<1>5. ASSUME NEW m \in Mails, Holds(m)
      PROVE  H'
  <2>1. \A k \in Mails : k # m => smsfate'[k] = smsfate[k]
    BY <1>1, <1>5, Queued DEF Holds
  <2> QED
    BY <1>1, <1>5, <2>1 DEF Holds
<1>6. ASSUME StartsSms
      PROVE  H'
  <2> DEFINE m == Head(sms)
  <2>1. m \in Range(sms) /\ m \in Mails
    BY <1>6, TailList, InRange, MaildAssumption
       DEF StartsSms, IndInv, SmsListInv, TypeOK, MaildAssumption
  <2>2. smsfate[m] = "queued"
    BY <1>1, <2>1 DEF SmsListInv
  <2>3. smsfate' = [smsfate EXCEPT ![m] = "thread"] /\ UNCHANGED <<fate, s_msg>>
    BY <1>6 DEF StartsSms
  <2> HIDE DEF m
  <2> QED
    BY <1>1, <2>1, <2>2, <2>3
<1>7. ASSUME StartsBatch
      PROVE  H'
  <2>1. /\ UNCHANGED <<s_msg, smsfate>>
        /\ fate' = [m \in Mails |-> IF m \in Range(list) THEN "thread" ELSE fate[m]]
    BY <1>7 DEF StartsBatch
  <2> QED
    BY <1>1, <2>1
<1>8. ASSUME NEW t \in threads, MailSends(t)
      PROVE  H'
  <2>1. t \in MailThreads /\ \A m \in Range(t.batch) : fate[m] = "thread"
    BY <1>1, <1>8 DEF MailSends, MailThreads, MailInv
  <2>2. PICK ok \in SUBSET {To[m] : m \in Range(t.batch)} :
          fate' = [m \in Mails |-> IF m \notin Range(t.batch) THEN fate[m]
                                   ELSE IF To[m] \in ok THEN "sent" ELSE "failed"]
    BY <1>8 DEF MailSends
  <2>3. UNCHANGED <<s_msg, smsfate>>
    BY <1>8 DEF MailSends, loop
  <2>4. \A m \in Mails : /\ fate'[m] = "held" <=> fate[m] = "held"
                         /\ fate'[m] = "new" <=> fate[m] = "new"
    BY <2>1, <2>2
  <2> QED
    BY <1>1, <2>3, <2>4
<1>9. ASSUME NEW t \in threads, SmsSends(t) \/ SmsFails(t)
      PROVE  H'
  <2> DEFINE m == t.batch[1]
  <2>1. t \in SmsThreads /\ m \in Mails /\ smsfate[m] = "thread"
    BY <1>1, <1>9, MaildAssumption DEF SmsSends, SmsFails, SmsThreads, SmsInv, MaildAssumption
  <2>2. UNCHANGED <<s_msg, fate>>
    BY <1>9 DEF SmsSends, SmsFails, loop
  <2>3. \/ smsfate' = [smsfate EXCEPT ![m] = "sent"]
        \/ smsfate' = [smsfate EXCEPT ![m] = "queued"]
    BY <1>9 DEF SmsSends, SmsFails
  <2> HIDE DEF m
  <2> QED
    BY <1>1, <2>1, <2>2, <2>3
<1>10. ASSUME NEW t \in threads, mail_worker_finished(t)
       PROVE  H'
  BY <1>1, <1>10 DEF mail_worker_finished, fates, loop
<1>11. H'
  BY <1>3, <1>4, <1>5, <1>6, <1>7, <1>8, <1>9, <1>10, Effects
<1> QED
  BY <1>2, <1>11 DEF HeldInv

(* Nothing that concerns the mail threads changes.                         *)
LEMMA MailFrame ==
  ASSUME TypeOK, MailInv, MailThreads' = MailThreads,
         \A k \in Mails : fate[k] \in {"thread", "sent", "failed"} \/ fate'[k] = "thread"
                          => fate'[k] = fate[k]
  PROVE  MailInv'
<1>1. \A t \in MailThreads : \A m \in Range(t.batch) : m \in Mails
  <2>1. \A t \in MailThreads : t.batch \in Seq(Mails)
    BY DEF MailThreads, TypeOK, ThreadRecords
  <2> QED
    BY <2>1, InRange
<1>2. \A t \in MailThreads :
        /\ Range(t.batch) # {}
        /\ \A m \in Range(t.batch) :
             /\ t.n = None => fate'[m] = "thread"
             /\ t.n # None => fate'[m] \in {"sent", "failed"}
  BY <1>1 DEF MailInv
<1>3. \A m \in Mails : fate'[m] = "thread" =>
        \E t \in MailThreads : t.n = None /\ m \in Range(t.batch)
  BY DEF MailInv
<1> QED
  BY <1>2, <1>3 DEF MailInv

LEMMA MailStep ==
  ASSUME IndInv, [Next]_vars
  PROVE  MailInv'
<1>1. /\ TypeOK /\ ListInv /\ SmsListInv /\ HeldInv /\ MailInv /\ SmsInv
      /\ fate \in [Mails -> Fates] /\ None \notin Nat
      /\ \A m \in Mails : fate[m] = "listed" <=> m \in Range(list)
  BY MaildAssumption DEF IndInv, ListInv, TypeOK, Fates, MaildAssumption
<1>2. \A t \in MailThreads : \A m \in Range(t.batch) : m \in Mails
  <2>1. \A t \in MailThreads : t.batch \in Seq(Mails)
    BY <1>1 DEF MailThreads, TypeOK, ThreadRecords
  <2> QED
    BY <2>1, InRange
<1>3. CASE UNCHANGED data
  <2>1. MailThreads' = MailThreads /\ fate' = fate
    BY <1>3 DEF data, fates, MailThreads
  <2> QED
    BY <1>1, <2>1, MailFrame
<1>4. ASSUME NEW m \in Mails, Lists(m)
      PROVE  MailInv'
  <2>1. fate[m] \in {"new", "held"} /\ Put(Append(list, m))
    BY <1>4 DEF Lists
  <2>2. \A k \in Mails : IF fate[k] = "listed" \/ k = m
                         THEN fate'[k] \in {"listed", "evicted"} ELSE fate'[k] = fate[k]
    BY <1>1, <2>1, PutFresh
  <2>3. MailThreads' = MailThreads
    BY <1>4 DEF Lists, MailThreads
  <2> QED
    BY <1>1, <2>1, <2>2, <2>3, MailFrame
<1>5. ASSUME NEW m \in Mails, Holds(m)
      PROVE  MailInv'
  <2>1. MailThreads' = MailThreads
    BY <1>5 DEF Holds, MailThreads
  <2> QED
    BY <1>1, <1>5, <2>1, MailFrame DEF Holds
<1>6. CASE StartsSms
  <2>1. MailThreads' = MailThreads /\ fate' = fate
    BY <1>6 DEF StartsSms, MailThreads, SmsThread
  <2> QED
    BY <1>1, <2>1, MailFrame
<1>7. CASE StartsBatch
  <2> DEFINE x == MailThread(list)
  <2>1. x.batch = list /\ x.n = None /\ MailThreads' = MailThreads \cup {x}
    BY <1>7 DEF StartsBatch, MailThreads, MailThread
  <2>2. fate' = [m \in Mails |-> IF m \in Range(list) THEN "thread" ELSE fate[m]]
    BY <1>7 DEF StartsBatch
  <2>3. Range(list) \subseteq Mails /\ Range(list) # {}
    BY <1>1, <1>7, InRange DEF StartsBatch, TypeOK
  <2> HIDE DEF x
  <2>4. \A t \in MailThreads : \A m \in Range(t.batch) : m \notin Range(list)
    BY <1>1, <1>2 DEF MailInv
  <2>5. \A t \in MailThreads' :
          /\ Range(t.batch) # {}
          /\ \A m \in Range(t.batch) :
               /\ t.n = None => fate'[m] = "thread"
               /\ t.n # None => fate'[m] \in {"sent", "failed"}
    BY <1>1, <1>2, <2>1, <2>2, <2>3, <2>4 DEF MailInv
  <2>6. \A t, u \in MailThreads' : \A m \in Range(t.batch) : m \in Range(u.batch) => t = u
    BY <1>1, <2>1, <2>4 DEF MailInv
  <2>7. \A m \in Mails : fate'[m] = "thread" =>
          \E t \in MailThreads' : t.n = None /\ m \in Range(t.batch)
    BY <1>1, <2>1, <2>2 DEF MailInv
  <2> QED
    BY <2>5, <2>6, <2>7 DEF MailInv
<1>8. ASSUME NEW t \in threads, MailSends(t)
      PROVE  MailInv'
  <2>1. PICK ok \in SUBSET {To[m] : m \in Range(t.batch)} :
          /\ fate' = [m \in Mails |-> IF m \notin Range(t.batch) THEN fate[m]
                                      ELSE IF To[m] \in ok THEN "sent" ELSE "failed"]
          /\ threads' = (threads \ {t}) \cup {[t EXCEPT !.n = Cardinality(ok)]}
    BY <1>8 DEF MailSends
  <2> DEFINE u == [t EXCEPT !.n = Cardinality(ok)]
  <2>2. /\ t \in MailThreads /\ t.n = None /\ t \in ThreadRecords
        /\ u.kind = t.kind /\ u.batch = t.batch /\ u.n # None
    BY <1>1, <1>8, SentCount DEF MailSends, MailThreads, TypeOK, ThreadRecords
  <2>3. MailThreads' = (MailThreads \ {t}) \cup {u}
    BY <2>1, <2>2 DEF MailThreads
  <2> HIDE DEF u
  <2>4. \A v \in MailThreads \ {t} : \A m \in Range(v.batch) : m \notin Range(t.batch)
    BY <1>1, <2>2 DEF MailInv
  <2>5. \A v \in MailThreads' :
          /\ Range(v.batch) # {}
          /\ \A m \in Range(v.batch) :
               /\ v.n = None => fate'[m] = "thread"
               /\ v.n # None => fate'[m] \in {"sent", "failed"}
    BY <1>1, <1>2, <2>1, <2>2, <2>3, <2>4 DEF MailInv
  <2>6. \A v, w \in MailThreads' : \A m \in Range(v.batch) : m \in Range(w.batch) => v = w
    BY <1>1, <2>2, <2>3, <2>4 DEF MailInv
  <2>7. \A m \in Mails : fate'[m] = "thread" =>
          \E v \in MailThreads' : v.n = None /\ m \in Range(v.batch)
    <3> SUFFICES ASSUME NEW m \in Mails, fate'[m] = "thread"
                 PROVE  \E v \in MailThreads' : v.n = None /\ m \in Range(v.batch)
      OBVIOUS
    <3>1. m \notin Range(t.batch) /\ fate[m] = "thread"
      BY <2>1
    <3>2. PICK v \in MailThreads : v.n = None /\ m \in Range(v.batch)
      BY <1>1, <3>1 DEF MailInv
    <3>3. v \in MailThreads'
      BY <2>3, <3>1, <3>2
    <3> QED
      BY <3>2, <3>3
  <2> QED
    BY <2>5, <2>6, <2>7 DEF MailInv
<1>9. ASSUME NEW t \in threads, SmsSends(t) \/ SmsFails(t)
      PROVE  MailInv'
  <2>1. PICK k \in Nat : threads' = (threads \ {t}) \cup {[t EXCEPT !.n = k]}
    BY <1>9 DEF SmsSends, SmsFails
  <2>2. [t EXCEPT !.n = k].kind = "sms" /\ t.kind = "sms" /\ fate' = fate
    BY <1>1, <1>9 DEF SmsSends, SmsFails, TypeOK, ThreadRecords
  <2>3. MailThreads' = MailThreads
    BY <2>1, <2>2 DEF MailThreads
  <2> QED
    BY <1>1, <2>2, <2>3, MailFrame
<1>10. ASSUME NEW t \in threads, mail_worker_finished(t)
       PROVE  MailInv'
  <2>1. t.n # None /\ MailThreads' = MailThreads \ {t} /\ fate' = fate
    BY <1>10 DEF mail_worker_finished, MailThreads, fates
  <2> QED
    BY <1>1, <2>1 DEF MailInv
<1> QED
  BY <1>3, <1>4, <1>5, <1>6, <1>7, <1>8, <1>9, <1>10, Effects

(* Nothing that concerns the SMS threads changes.                          *)
LEMMA SmsFrame ==
  ASSUME TypeOK, SmsInv, SmsThreads' = SmsThreads,
         \A k \in Mails : smsfate[k] \in {"thread", "sent"} \/ smsfate'[k] = "thread"
                          => smsfate'[k] = smsfate[k]
  PROVE  SmsInv'
<1>1. WithSms \subseteq Mails
  BY MaildAssumption DEF MaildAssumption
<1>2. \A t \in SmsThreads :
        /\ t.batch[1] \in WithSms /\ t.batch = <<t.batch[1]>>
        /\ t.n = None => smsfate'[t.batch[1]] = "thread"
        /\ t.n # None => \/ t.n = 1 /\ smsfate'[t.batch[1]] = "sent"
                         \/ t.n = 0
  BY <1>1 DEF SmsInv
<1>3. \A m \in Mails : smsfate'[m] = "thread" =>
        \E t \in SmsThreads : t.n = None /\ t.batch[1] = m
  BY DEF SmsInv
<1> QED
  BY <1>2, <1>3 DEF SmsInv

LEMMA SmsStep ==
  ASSUME IndInv, [Next]_vars
  PROVE  SmsInv'
<1>1. /\ TypeOK /\ ListInv /\ SmsListInv /\ HeldInv /\ MailInv /\ SmsInv
      /\ WithSms \subseteq Mails /\ None \notin Nat
      /\ smsfate \in [Mails -> {"none", "queued", "thread", "sent"}]
      /\ \A t \in threads : t \in ThreadRecords /\ t.try \in Nat
  BY MaildAssumption DEF IndInv, TypeOK, ThreadRecords, MaildAssumption
<1>2. CASE UNCHANGED data
  <2>1. SmsThreads' = SmsThreads /\ smsfate' = smsfate
    BY <1>2 DEF data, fates, SmsThreads
  <2> QED
    BY <1>1, <2>1, SmsFrame
<1>3. ASSUME NEW m \in Mails, Lists(m) \/ Holds(m)
      PROVE  SmsInv'
  <2>1. SmsThreads' = SmsThreads
    BY <1>3 DEF Lists, Holds, SmsThreads
  <2>2. CASE fate[m] = "new" /\ QueueSms(m)
    <3>1. smsfate[m] = "none"
      BY <1>1, <2>2 DEF HeldInv
    <3>2. /\ \A k \in Mails : k # m => smsfate'[k] = smsfate[k]
          /\ smsfate'[m] \in {"none", "queued"}
      BY <1>1, <2>2, <3>1, Queued
    <3> QED
      BY <1>1, <2>1, <3>1, <3>2, SmsFrame
  <2>3. CASE UNCHANGED <<sms, smsfate>>
    BY <1>1, <2>1, <2>3, SmsFrame
  <2> QED
    BY <1>3, <2>2, <2>3 DEF Lists, Holds
<1>4. CASE StartsSms
  <2> DEFINE m == Head(sms)
             x == SmsThread(m)
  <2>1. m \in WithSms /\ smsfate[m] = "queued"
    <3>1. m \in Range(sms) /\ Range(sms) \subseteq WithSms
      BY <1>1, <1>4, TailList, InRange DEF StartsSms, TypeOK, SmsListInv
    <3> QED
      BY <1>1, <3>1 DEF SmsListInv
  <2>2. /\ x.batch[1] = m /\ x.batch = <<m>> /\ x.try = Fresh /\ x.n = None
        /\ SmsThreads' = SmsThreads \cup {x}
    BY <1>4 DEF StartsSms, SmsThreads, SmsThread
  <2>3. smsfate' = [smsfate EXCEPT ![m] = "thread"]
    BY <1>4 DEF StartsSms
  <2> HIDE DEF x, m
  <2>4. \A t \in SmsThreads : t.batch[1] = m => t.n = 0
    BY <1>1, <2>1 DEF SmsInv
  <2>5. \A t \in SmsThreads' :
          /\ t.batch[1] \in WithSms /\ t.batch = <<t.batch[1]>>
          /\ t.n = None => smsfate'[t.batch[1]] = "thread"
          /\ t.n # None => \/ t.n = 1 /\ smsfate'[t.batch[1]] = "sent"
                           \/ t.n = 0
    <3> SUFFICES ASSUME NEW t \in SmsThreads'
                 PROVE  /\ t.batch[1] \in WithSms /\ t.batch = <<t.batch[1]>>
                        /\ t.n = None => smsfate'[t.batch[1]] = "thread"
                        /\ t.n # None => \/ t.n = 1 /\ smsfate'[t.batch[1]] = "sent"
                                         \/ t.n = 0
      OBVIOUS
    <3>1. CASE t = x
      BY <1>1, <2>1, <2>2, <2>3, <3>1
    <3>2. CASE t \in SmsThreads /\ t.batch[1] = m
      BY <1>1, <2>1, <2>3, <2>4, <3>2 DEF SmsInv
    <3>3. CASE t \in SmsThreads /\ t.batch[1] # m
      BY <1>1, <2>3, <3>3 DEF SmsInv
    <3> QED
      BY <2>2, <3>1, <3>2, <3>3
  <2>6. \A t \in SmsThreads : t.batch[1] = m => t.try # x.try /\ t.n # None
    <3>1. \A t \in SmsThreads : t.try # Fresh
      BY <1>1, FreshTry DEF SmsThreads, TypeOK
    <3> QED
      BY <1>1, <2>2, <2>4, <3>1
  <2>7. \A t, u \in SmsThreads' : t.batch[1] = u.batch[1] =>
          /\ t.try = u.try => t = u
          /\ t.n = None /\ u.n = None => t = u
    BY <1>1, <2>2, <2>6 DEF SmsInv
  <2>8. \A k \in Mails : smsfate'[k] = "thread" =>
          \E t \in SmsThreads' : t.n = None /\ t.batch[1] = k
    BY <1>1, <2>1, <2>2, <2>3 DEF SmsInv
  <2> QED
    BY <2>5, <2>7, <2>8 DEF SmsInv
<1>5. CASE StartsBatch
  <2>1. SmsThreads' = SmsThreads /\ smsfate' = smsfate
    BY <1>5 DEF StartsBatch, SmsThreads, MailThread
  <2> QED
    BY <1>1, <2>1, SmsFrame
<1>6. ASSUME NEW t \in threads, MailSends(t)
      PROVE  SmsInv'
  <2>1. PICK ok \in SUBSET {To[m] : m \in Range(t.batch)} :
          threads' = (threads \ {t}) \cup {[t EXCEPT !.n = Cardinality(ok)]}
    BY <1>6 DEF MailSends
  <2>2. /\ [t EXCEPT !.n = Cardinality(ok)].kind = "mail" /\ t.kind = "mail"
        /\ smsfate' = smsfate
    BY <1>1, <1>6 DEF MailSends, TypeOK, ThreadRecords
  <2>3. SmsThreads' = SmsThreads
    BY <2>1, <2>2 DEF SmsThreads
  <2> QED
    BY <1>1, <2>2, <2>3, SmsFrame
<1>7. ASSUME NEW t \in threads, SmsSends(t) \/ SmsFails(t)
      PROVE  SmsInv'
  <2> DEFINE m == t.batch[1]
  <2>1. PICK k \in {0, 1} :
          /\ threads' = (threads \ {t}) \cup {[t EXCEPT !.n = k]}
          /\ \/ k = 1 /\ smsfate' = [smsfate EXCEPT ![m] = "sent"]
             \/ k = 0 /\ smsfate' = [smsfate EXCEPT ![m] = "queued"]
    <3>1. CASE SmsSends(t)
      BY <3>1 DEF SmsSends
    <3>2. CASE SmsFails(t)
      BY <3>2 DEF SmsFails
    <3> QED
      BY <1>7, <3>1, <3>2
  <2> DEFINE u == [t EXCEPT !.n = k]
  <2>2. t \in SmsThreads /\ t.n = None /\ k # None
    BY <1>1, <1>7 DEF SmsSends, SmsFails, SmsThreads
  <2>3. /\ u.kind = "sms" /\ u.batch = t.batch /\ u.try = t.try /\ u.n = k
    BY <1>1, <2>2 DEF ThreadRecords, SmsThreads
  <2>4. SmsThreads' = (SmsThreads \ {t}) \cup {u}
    BY <2>1, <2>2, <2>3 DEF SmsThreads
  <2>5. /\ m \in WithSms /\ t.batch = <<m>> /\ smsfate[m] = "thread"
        /\ t.try \in Nat
    BY <1>1, <2>2 DEF SmsInv
  <2> HIDE DEF u
  <2>6. \A v \in SmsThreads \ {t} : v.batch[1] = m =>
          v.try # t.try /\ v.n = 0
    BY <1>1, <2>2, <2>5 DEF SmsInv
  <2> DEFINE b == u.batch[1]
  <2>7. b = m /\ u.batch = <<b>>
    BY <2>3, <2>5
  <2>8. \A v \in SmsThreads' :
          /\ v.batch[1] \in WithSms /\ v.batch = <<v.batch[1]>>
          /\ v.n = None => smsfate'[v.batch[1]] = "thread"
          /\ v.n # None => \/ v.n = 1 /\ smsfate'[v.batch[1]] = "sent"
                           \/ v.n = 0
    <3> SUFFICES ASSUME NEW v \in SmsThreads'
                 PROVE  /\ v.batch[1] \in WithSms /\ v.batch = <<v.batch[1]>>
                        /\ v.n = None => smsfate'[v.batch[1]] = "thread"
                        /\ v.n # None => \/ v.n = 1 /\ smsfate'[v.batch[1]] = "sent"
                                         \/ v.n = 0
      OBVIOUS
    <3>1. CASE v = u
      <4>1. m \in Mails
        BY <1>1, <2>5
      <4> HIDE DEF m
      <4> QED
        BY <1>1, <2>1, <2>2, <2>3, <2>5, <2>7, <3>1, <4>1
    <3>2. CASE v \in SmsThreads \ {t} /\ v.batch[1] = m
      <4>1. v.try \in Nat
        BY <1>1, <3>2 DEF SmsThreads
      <4> HIDE DEF m
      <4> QED
        BY <1>1, <2>1, <2>5, <2>6, <3>2, <4>1 DEF SmsInv
    <3>3. CASE v \in SmsThreads \ {t} /\ v.batch[1] # m
      <4>1. v.try \in Nat
        BY <1>1, <3>3 DEF SmsThreads
      <4> HIDE DEF m
      <4> QED
        BY <1>1, <2>1, <3>3, <4>1 DEF SmsInv
    <3> QED
      BY <2>4, <3>1, <3>2, <3>3
  <2>9. \A v, w \in SmsThreads' : v.batch[1] = w.batch[1] =>
          /\ v.try = w.try => v = w
          /\ v.n = None /\ w.n = None => v = w
    <3> HIDE DEF m, b
    <3> QED
      BY <1>1, <2>2, <2>3, <2>4, <2>6, <2>7 DEF SmsInv, b
  <2>10. \A j \in Mails : smsfate'[j] = "thread" =>
           \E v \in SmsThreads' : v.n = None /\ v.batch[1] = j
    <3> SUFFICES ASSUME NEW j \in Mails, smsfate'[j] = "thread"
                 PROVE  \E v \in SmsThreads' : v.n = None /\ v.batch[1] = j
      OBVIOUS
    <3>1. j # m /\ smsfate[j] = "thread"
      BY <1>1, <2>1, <2>5
    <3>2. PICK v \in SmsThreads : v.n = None /\ v.batch[1] = j
      BY <1>1, <3>1 DEF SmsInv
    <3> QED
      BY <2>4, <3>1, <3>2
  <2> QED
    BY <2>8, <2>9, <2>10 DEF SmsInv
<1>8. ASSUME NEW t \in threads, mail_worker_finished(t)
      PROVE  SmsInv'
  <2>1. /\ t.n # None /\ SmsThreads' = SmsThreads \ {t}
        /\ smsfate' = smsfate
    BY <1>8 DEF mail_worker_finished, SmsThreads, fates
  <2> QED
    BY <1>1, <2>1 DEF SmsInv
<1> QED
  BY <1>2, <1>3, <1>4, <1>5, <1>6, <1>7, <1>8, Effects

(* The slot that is taken or given up, and the number of threads.          *)
LEMMA SlotsStep ==
  ASSUME IndInv, [Next]_vars
  PROVE  SlotsExact'
<1>1. /\ TypeOK /\ SlotsExact /\ ListInv /\ SmsListInv /\ HeldInv /\ MailInv /\ SmsInv
      /\ IsFiniteSet(threads) /\ Cardinality(threads) \in Nat /\ active \in Nat
      /\ None \notin Nat
  BY MaildAssumption, FS_CardinalityType DEF IndInv, TypeOK, MaildAssumption
<1> DEFINE Spawning == pc \in {"sms_spawn", "batch_spawn", "down_spawn"}
<1>2. active = Cardinality(threads) + (IF Spawning THEN 1 ELSE 0)
  BY <1>1 DEF SlotsExact
<1>3. ASSUME UNCHANGED <<threads, active>>, Spawning' <=> Spawning
      PROVE  SlotsExact'
  BY <1>2, <1>3 DEF SlotsExact
<1>4. ASSUME NEW next \in {"sms_spawn", "batch_spawn", "down_spawn"}, ~Spawning,
             Slot(next), UNCHANGED threads
      PROVE  SlotsExact'
  BY <1>1, <1>2, <1>4 DEF SlotsExact, Slot
<1>5. ASSUME Spawning, ~Spawning',
             \/ active' = active - 1 /\ UNCHANGED threads
             \/ active' = active /\ Cardinality(threads') = Cardinality(threads) + 1
      PROVE  SlotsExact'
  BY <1>1, <1>2, <1>5 DEF SlotsExact
<1>6. ASSUME NEW ok \in BOOLEAN, NEW next, SpawnSms(ok, next)
      PROVE  \/ active' = active - 1 /\ UNCHANGED threads
             \/ active' = active /\ Cardinality(threads') = Cardinality(threads) + 1
  <2>1. CASE ok
    <3>1. SmsThread(Head(sms)) \notin threads
      BY <1>1, <1>6, NewThread DEF SpawnSms
    <3>2. threads' = threads \cup {SmsThread(Head(sms))} /\ active' = active
      BY <1>6, <2>1 DEF SpawnSms
    <3> QED
      BY <1>1, <3>1, <3>2, FS_AddElement
  <2>2. CASE ~ok
    BY <1>6, <2>2 DEF SpawnSms
  <2> QED
    BY <2>1, <2>2
<1>7. ASSUME NEW ok \in BOOLEAN, NEW good, NEW bad, SpawnBatch(ok, good, bad)
      PROVE  \/ active' = active - 1 /\ UNCHANGED threads
             \/ active' = active /\ Cardinality(threads') = Cardinality(threads) + 1
  <2>1. CASE ok
    <3>1. MailThread(list) \notin threads
      BY <1>1, <1>7, NewThread DEF SpawnBatch
    <3>2. threads' = threads \cup {MailThread(list)} /\ active' = active
      BY <1>7, <2>1 DEF SpawnBatch
    <3> QED
      BY <1>1, <3>1, <3>2, FS_AddElement
  <2>2. CASE ~ok
    BY <1>7, <2>2 DEF SpawnBatch
  <2> QED
    BY <2>1, <2>2
<1>8. ASSUME NEW t \in threads, NEW k \in Nat, t.n = None,
             threads' = (threads \ {t}) \cup {[t EXCEPT !.n = k]}, UNCHANGED <<pc, active>>
      PROVE  SlotsExact'
  <2> DEFINE u == [t EXCEPT !.n = k]
  <2>1. u \notin threads
    BY <1>1, <1>8, ThreadEnds
  <2> HIDE DEF u
  <2>2. IsFiniteSet(threads \ {t}) /\ Cardinality(threads \ {t}) = Cardinality(threads) - 1
    BY <1>1, FS_RemoveElement
  <2>3. Cardinality((threads \ {t}) \cup {u}) = Cardinality(threads \ {t}) + 1
    BY <2>1, <2>2, FS_AddElement
  <2>4. Cardinality(threads') = Cardinality(threads)
    BY <1>1, <1>8, <2>2, <2>3 DEF u
  <2> QED
    BY <1>2, <1>8, <2>4 DEF SlotsExact
<1>9. CASE Top \/ CheckHour \/ Held \/ RecvNothing
  BY <1>3, <1>9 DEF Top, CheckHour, Held, RecvNothing
<1>10. CASE SmsCheck
  <2>1. UNCHANGED threads /\ ~Spawning
    BY <1>10 DEF SmsCheck
  <2>2. CASE Slot("sms_spawn")
    BY <1>4, <2>1, <2>2
  <2>3. CASE pc' \in {"batch", "top"} /\ UNCHANGED active
    BY <1>3, <2>1, <2>3
  <2> QED
    BY <1>10, <2>2, <2>3 DEF SmsCheck
<1>11. CASE BatchCheck
  <2>1. UNCHANGED threads /\ ~Spawning
    BY <1>11 DEF BatchCheck
  <2>2. CASE Slot("batch_spawn")
    BY <1>4, <2>1, <2>2
  <2>3. CASE pc' \in {"held", "check_hour"} /\ UNCHANGED active
    BY <1>3, <2>1, <2>3
  <2> QED
    BY <1>11, <2>2, <2>3 DEF BatchCheck
<1>12. CASE DownSlot
  <2>1. UNCHANGED threads /\ ~Spawning
    BY <1>12 DEF DownSlot
  <2>2. CASE Slot("down_spawn")
    BY <1>4, <2>1, <2>2
  <2>3. CASE pc' = "down_check" /\ UNCHANGED active
    BY <1>3, <2>1, <2>3
  <2> QED
    BY <1>12, <2>2, <2>3 DEF DownSlot
<1>13. CASE SmsSpawn
  <2>1. Spawning /\ ~Spawning'
    BY <1>13 DEF SmsSpawn, SpawnSms
  <2> QED
    BY <1>5, <1>6, <1>13, <2>1 DEF SmsSpawn
<1>14. CASE BatchSpawn
  <2>1. Spawning /\ ~Spawning'
    BY <1>14 DEF BatchSpawn, SpawnBatch
  <2> QED
    BY <1>5, <1>7, <1>14, <2>1 DEF BatchSpawn
<1>15. CASE maild_shutdown_drain
  <2>1. Spawning /\ ~Spawning'
    BY <1>15 DEF maild_shutdown_drain, SpawnSms, SpawnBatch
  <2>2. CASE \E ok \in BOOLEAN : SpawnSms(ok, "down_check")
    BY <1>5, <1>6, <2>1, <2>2
  <2>3. CASE \E ok \in BOOLEAN : SpawnBatch(ok, "down_check", "down_check")
    BY <1>5, <1>7, <2>1, <2>3
  <2>4. CASE active' = active - 1 /\ UNCHANGED threads
    BY <1>5, <2>1, <2>4
  <2> QED
    BY <1>15, <2>2, <2>3, <2>4 DEF maild_shutdown_drain
<1>16. CASE (\E m \in Mails : Recv(m)) \/ DownRecv
  BY <1>3, <1>16 DEF Recv, DownRecv
<1>17. CASE DownCheck \/ maild_HandleSIG \/ HourPasses \/ UNCHANGED vars
  BY <1>3, <1>17 DEF DownCheck, maild_HandleSIG, HourPasses, vars
<1>18. ASSUME NEW t \in threads, MailSends(t)
       PROVE  SlotsExact'
  <2>1. PICK ok \in SUBSET {To[m] : m \in Range(t.batch)} :
          threads' = (threads \ {t}) \cup {[t EXCEPT !.n = Cardinality(ok)]}
    BY <1>18 DEF MailSends
  <2>2. Cardinality(ok) \in Nat
    BY <1>1, SentCount
  <2>3. t.n = None /\ UNCHANGED <<pc, active>>
    BY <1>18 DEF MailSends
  <2> QED
    BY <1>8, <2>1, <2>2, <2>3
<1>19. ASSUME NEW t \in threads, SmsSends(t) \/ SmsFails(t)
       PROVE  SlotsExact'
  BY <1>8, <1>19 DEF SmsSends, SmsFails
<1>20. ASSUME NEW t \in threads, mail_worker_finished(t)
       PROVE  SlotsExact'
  <2>1. active' = active - 1 /\ threads' = threads \ {t} /\ UNCHANGED pc
    BY <1>20 DEF mail_worker_finished
  <2>2. Cardinality(threads') = Cardinality(threads) - 1
    BY <1>1, <2>1, FS_RemoveElement
  <2> QED
    BY <1>1, <1>2, <2>1, <2>2 DEF SlotsExact
<1> QED
  BY <1>9, <1>10, <1>11, <1>12, <1>13, <1>14, <1>15, <1>16, <1>17, <1>18, <1>19, <1>20
     DEF Next, OS_Run, Threads

LEMMA DoneStep ==
  ASSUME IndInv, [Next]_vars
  PROVE  DoneInv'
<1>1. TypeOK /\ SlotsExact /\ DoneInv
  BY DEF IndInv
<1>2. CASE DownCheck
  <2>1. ASSUME pc' = "done"
        PROVE  list' = <<>> /\ sms' = <<>> /\ threads' = {}
    <3>1. /\ pc = "down_check" /\ active = 0 /\ sms = <<>> /\ list = <<>>
          /\ UNCHANGED <<list, sms, threads>>
      BY <1>2, <2>1 DEF DownCheck
    <3>2. ~(active > 0)
      BY <3>1
    <3>3. threads = {}
      BY <1>1, <3>2, ActivePositive
    <3> QED
      BY <3>1, <3>3
  <2> QED
    BY <2>1 DEF DoneInv
<1>3. CASE UNCHANGED vars
  BY <1>1, <1>3 DEF DoneInv, vars
<1>4. CASE \/ Top \/ SmsCheck \/ SmsSpawn \/ BatchCheck \/ BatchSpawn \/ CheckHour
           \/ Held \/ RecvNothing \/ (\E m \in Mails : Recv(m))
  <2>1. pc' # "done"
    BY <1>4 DEF Top, SmsCheck, SmsSpawn, BatchCheck, BatchSpawn, CheckHour, Held, RecvNothing,
                Recv, Slot, SpawnSms, SpawnBatch
  <2> QED
    BY <2>1 DEF DoneInv
<1>5. CASE DownRecv \/ DownSlot \/ maild_shutdown_drain
  <2>1. pc' # "done"
    BY <1>5 DEF DownRecv, DownSlot, maild_shutdown_drain, Slot, SpawnSms, SpawnBatch
  <2> QED
    BY <2>1 DEF DoneInv
<1>6. CASE Threads \/ (\E t \in threads : SmsFails(t)) \/ maild_HandleSIG \/ HourPasses
  <2>1. pc # "done" /\ pc' = pc
    BY <1>6 DEF Threads, MailSends, SmsSends, SmsFails, mail_worker_finished,
                maild_HandleSIG, HourPasses, Running
  <2> QED
    BY <2>1 DEF DoneInv
<1> QED
  BY <1>2, <1>3, <1>4, <1>5, <1>6 DEF Next, OS_Run

LEMMA Initially == Init => IndInv
<1> SUFFICES ASSUME Init
             PROVE  IndInv
  OBVIOUS
<1>1. /\ <<>> \in Seq(Mails) /\ <<>> \in Seq(WithSms) /\ Len(<<>>) = 0
      /\ {MaxWorkers, ListMax} \subseteq Nat
  BY MaildAssumption DEF MaildAssumption
<1>2. Range(<<>>) = {} /\ NoRepeat(<<>>)
  BY <1>1, InRange DEF NoRepeat
<1>3. IsFiniteSet({}) /\ Cardinality({}) = 0
  BY FS_EmptySet
<1>4. TypeOK
  <2>1. /\ gather \in BOOLEAN /\ mailtosend \in BOOLEAN /\ newhour \in BOOLEAN
        /\ rollover \in BOOLEAN /\ shutting \in BOOLEAN /\ force \in BOOLEAN
    BY Zenon DEF Init
  <2>2. /\ list \in Seq(Mails) /\ Len(list) <= ListMax /\ sms \in Seq(WithSms)
        /\ sent \in Nat /\ active \in 0 .. MaxWorkers
    BY <1>1 DEF Init
  <2>3. threads \subseteq ThreadRecords /\ IsFiniteSet(threads)
    BY <1>3 DEF Init
  <2>4. /\ fate \in [Mails -> {"new", "held", "listed", "thread", "sent", "failed", "evicted"}]
        /\ smsfate \in [Mails -> {"none", "queued", "thread", "sent"}]
        /\ s_msg = None /\ pc = "top"
    BY DEF Init
  <2> QED
    BY <2>1, <2>2, <2>3, <2>4 DEF TypeOK
<1>5. SlotsExact
  BY <1>3 DEF Init, SlotsExact
<1>6. ListInv /\ SmsListInv
  BY <1>2 DEF Init, ListInv, SmsListInv
<1>7. HeldInv
  BY MaildAssumption DEF Init, HeldInv, MaildAssumption
<1>8. MailInv /\ SmsInv
  BY DEF Init, MailInv, SmsInv, MailThreads, SmsThreads
<1>9. DoneInv
  BY DEF Init, DoneInv
<1> QED
  BY <1>4, <1>5, <1>6, <1>7, <1>8, <1>9 DEF IndInv

(* IndInv holds throughout.                                                *)
THEOREM Invariance == Spec => []IndInv
<1>1. IndInv /\ [Next]_vars => IndInv'
  BY TypeStep, SlotsStep, ListStep, HeldStep, MailStep, SmsStep, DoneStep DEF IndInv
<1> QED
  BY <1>1, Initially, PTL DEF Spec

-----------------------------------------------------------------------------
(* Lists, threads and counters keep their types: the list never holds more *)
(* than it may, and there are never more workers than there may be.        *)
THEOREM MaildTypeCorrect == Spec => []TypeOK
<1>1. IndInv => TypeOK
  BY DEF IndInv
<1> QED
  BY <1>1, Invariance, PTL

(* mail_active_workers is the number of threads, whatever could not be     *)
(* created, and whatever failed.                                           *)
THEOREM SlotsAreExact == Spec => []SlotsExact
<1>1. IndInv => SlotsExact
  BY DEF IndInv
<1> QED
  BY <1>1, Invariance, PTL

(* An alert that was read, and an SMS, is in one place.                    *)
THEOREM NothingLostOrDoubled == Spec => []OnePlace
<1>1. ASSUME IndInv
      PROVE  OnePlace
  <2>1. /\ TypeOK /\ ListInv /\ SmsListInv /\ HeldInv /\ MailInv /\ SmsInv
        /\ list \in Seq(Mails) /\ sms \in Seq(WithSms) /\ NoRepeat(list) /\ NoRepeat(sms)
    BY <1>1 DEF IndInv, TypeOK, ListInv, SmsListInv
  <2> SUFFICES ASSUME NEW m \in Mails
               PROVE  /\ fate[m] = "held" <=> s_msg = m
                      /\ (IF fate[m] = "listed" THEN 1 ELSE 0) =
                           Cardinality({i \in DOMAIN list : list[i] = m})
                      /\ (IF fate[m] = "thread" THEN 1 ELSE 0) = Cardinality(InBatch("mail", m))
                      /\ (IF smsfate[m] = "queued" THEN 1 ELSE 0) =
                           Cardinality({i \in DOMAIN sms : sms[i] = m})
                      /\ (IF smsfate[m] = "thread" THEN 1 ELSE 0) = Cardinality(InBatch("sms", m))
    BY DEF OnePlace
  <2>2. (IF fate[m] = "listed" THEN 1 ELSE 0) = Cardinality({i \in DOMAIN list : list[i] = m})
    <3>1. Cardinality({i \in DOMAIN list : list[i] = m}) = IF m \in Range(list) THEN 1 ELSE 0
      BY <2>1, Places
    <3> QED
      BY <2>1, <3>1 DEF ListInv
  <2>3. (IF smsfate[m] = "queued" THEN 1 ELSE 0) = Cardinality({i \in DOMAIN sms : sms[i] = m})
    <3>1. Cardinality({i \in DOMAIN sms : sms[i] = m}) = IF m \in Range(sms) THEN 1 ELSE 0
      BY <2>1, Places
    <3> QED
      BY <2>1, <3>1 DEF SmsListInv
  <2>4. InBatch("mail", m) = {t \in MailThreads : t.n = None /\ m \in Range(t.batch)}
    BY DEF InBatch, MailThreads
  <2>5. (IF fate[m] = "thread" THEN 1 ELSE 0) = Cardinality(InBatch("mail", m))
    <3>1. CASE fate[m] = "thread"
      <4>1. PICK t \in MailThreads : t.n = None /\ m \in Range(t.batch)
        BY <2>1, <3>1 DEF MailInv
      <4>2. InBatch("mail", m) = {t}
        BY <2>1, <2>4, <4>1 DEF MailInv
      <4> QED
        BY <3>1, <4>2, FS_Singleton
    <3>2. CASE fate[m] # "thread"
      <4>1. InBatch("mail", m) = {}
        BY <2>1, <2>4, <3>2 DEF MailInv
      <4> QED
        BY <3>2, <4>1, FS_EmptySet
    <3> QED
      BY <3>1, <3>2
  <2>6. InBatch("sms", m) = {t \in SmsThreads : t.n = None /\ t.batch[1] = m}
    <3>1. \A t \in SmsThreads : m \in Range(t.batch) <=> t.batch[1] = m
      <4> SUFFICES ASSUME NEW t \in SmsThreads
                   PROVE  m \in Range(t.batch) <=> t.batch[1] = m
        OBVIOUS
      <4> DEFINE b == t.batch[1]
      <4>1. t.batch = <<b>> /\ b \in WithSms
        BY <2>1 DEF SmsInv
      <4> HIDE DEF b
      <4>2. Range(<<b>>) = {b}
        BY <4>1 DEF Range
      <4> QED
        BY <4>1, <4>2 DEF b
    <3> QED
      BY <3>1 DEF InBatch, SmsThreads
  <2>7. (IF smsfate[m] = "thread" THEN 1 ELSE 0) = Cardinality(InBatch("sms", m))
    <3>1. CASE smsfate[m] = "thread"
      <4>1. PICK t \in SmsThreads : t.n = None /\ t.batch[1] = m
        BY <2>1, <3>1 DEF SmsInv
      <4>2. InBatch("sms", m) = {t}
        BY <2>1, <2>6, <4>1 DEF SmsInv
      <4> QED
        BY <3>1, <4>2, FS_Singleton
    <3>2. CASE smsfate[m] # "thread"
      <4>1. InBatch("sms", m) = {}
        BY <2>1, <2>6, <3>2 DEF SmsInv
      <4> QED
        BY <3>2, <4>1, FS_EmptySet
    <3> QED
      BY <3>1, <3>2
  <2> QED
    BY <2>1, <2>2, <2>3, <2>5, <2>7 DEF HeldInv
<1> QED
  BY <1>1, Invariance, PTL

(* When maild says it has drained everything, it has.                      *)
THEOREM DrainComplete == Spec => []DrainedAtExit
<1>1. ASSUME IndInv
      PROVE  DrainedAtExit
  <2> SUFFICES ASSUME pc = "done", NEW m \in Mails
               PROVE  /\ fate[m] \in {"new", "sent", "failed", "evicted", "held"}
                      /\ smsfate[m] \in {"none", "sent"}
    BY DEF DrainedAtExit
  <2>1. list = <<>> /\ sms = <<>> /\ threads = {}
    BY <1>1 DEF IndInv, DoneInv
  <2>2. Range(list) = {} /\ Range(sms) = {}
    BY <1>1, <2>1, InRange DEF IndInv, TypeOK
  <2>3. fate[m] \notin {"listed", "thread"} /\ smsfate[m] \notin {"queued", "thread"}
    BY <1>1, <2>1, <2>2
       DEF IndInv, ListInv, SmsListInv, MailInv, SmsInv, MailThreads, SmsThreads
  <2> QED
    BY <1>1, <2>3 DEF IndInv, TypeOK
<1> QED
  BY <1>1, Invariance, PTL
=============================================================================
