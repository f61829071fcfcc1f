----------------------------- MODULE Correlation -----------------------------
(***************************************************************************)
(* Rules of analysisd that look back.  An event that makes a rule fire is  *)
(* put on the lists of the rules that watch it: on the rule's own list     *)
(* (if_matched_sid), which has a limit, and on one list for each rule that *)
(* watches one of its groups (if_matched_group), which has none.  It is    *)
(* also put on the event list of its shard, which owns it.  A composite    *)
(* rule counts the events on such a list, the newest first, and fires when *)
(* there are enough of them.                                               *)
(*                                                                         *)
(* Every shard is a thread with an event list of its own; the lists of the *)
(* rules are shared under prev_matched_mutex, the counting of a rule is    *)
(* under its own mutex.  Nobody but its shard frees an event, and it does  *)
(* so while others may find the event on the shared lists.                 *)
(***************************************************************************)
EXTENDS Integers, Sequences, FiniteSets, SequencesExt

CONSTANTS Shards, Events,
          Feed,       \* Feed[s]: the events of shard s, in the order of its queue
          Time,       \* Time[e]: when e was decoded
          Base,       \* Base[e]: the simple rule that e matches
          Children,   \* Children[b]: its composite rules, in the order they are tried
          Kind,       \* Kind[r]: "sid", "group" or "event" for a composite rule
          Watched,    \* Watched[r]: the rules whose events r counts
          Frequency, Timeframe, Level, IgnoreTime,
          Alike,      \* Alike[r]: pairs of events that agree as r asks
          SidMax,     \* analysisd.sid_prev_matched_max
          MemSize,    \* memory_size
          MinEvict,   \* events that an eviction removes at least: 10
          MaxFreq,    \* _max_freq
          LastMax,    \* MAX_LAST_EVENTS: logs that last_events holds
          None

Simple == {Base[e] : e \in Events}
Composite == UNION {Range(Children[b]) : b \in Simple}
Rules == Simple \cup Composite
SidLists == UNION {Watched[r] : r \in {x \in Composite : Kind[x] = "sid"}}
GroupLists == {r \in Composite : Kind[r] = "group"}

ASSUME CorrelationAssumption ==
    /\ IsFiniteSet(Events) /\ Time \in [Events -> Nat \ {0}]
    /\ Feed \in [Shards -> Seq(Events)] /\ \A s \in Shards : IsInjective(Feed[s])
    /\ \A s, o \in Shards : s # o => Range(Feed[s]) \cap Range(Feed[o]) = {}
    /\ \A b \in Simple : Children[b] \in Seq(Composite)
    /\ Kind \in [Composite -> {"sid", "group", "event"}]
    /\ Watched \in [Composite -> SUBSET Rules]
    /\ \A r \in Composite : Kind[r] = "sid" => \E b \in Rules : Watched[r] = {b}
    /\ Frequency \in [Composite -> Nat] /\ Timeframe \in [Composite -> Nat]
    /\ Level \in [Composite -> Nat] /\ IgnoreTime \in [Rules -> Nat]
    /\ {SidMax, MemSize, MinEvict, MaxFreq, LastMax} \subseteq Nat
    /\ SidMax > 1 /\ MinEvict > 0 /\ MemSize >= MinEvict
    /\ None \notin Events \cup Rules

VARIABLES feed, pc, cur,   \* the thread of each shard and its event
          child,      \* child[s]: the place in Children it has got to
          found,      \* found[s]: what the search that succeeded has counted
          rule,       \* rule[s]: the rule that fired
          elist,      \* elist[s]: the event list, oldest first
          victims,    \* victims[s]: evicted events that are still to be freed
          sidlist, grouplist,
          sidnode,    \* events with sid_node_to_delete set
          groupnodes, \* events with group_nodes_to_delete set
          gen,        \* gen[e]: generated_rule
          matched,    \* matched[e]: the level of the rule it was counted for
          lastev,     \* lastev[r]: last_events of a composite rule
          ignored,    \* ignored[r]: time_ignored
          live,       \* events that are not freed
          marks       \* the searches that succeeded: a history

thread == <<feed, cur, child, found, rule>>
shared == <<sidlist, grouplist, sidnode, groupnodes>>
vars == <<pc, thread, elist, victims, shared, gen, matched, lastev, ignored, live, marks>>

Init ==
    /\ feed = Feed /\ pc = [s \in Shards |-> "idle"] /\ cur = [s \in Shards |-> None]
    /\ child = [s \in Shards |-> 0] /\ found = [s \in Shards |-> None]
    /\ rule = [s \in Shards |-> None]
    /\ elist = [s \in Shards |-> <<>>] /\ victims = [s \in Shards |-> <<>>]
    /\ sidlist = [r \in SidLists |-> <<>>] /\ grouplist = [r \in GroupLists |-> <<>>]
    /\ sidnode = {} /\ groupnodes = {}
    /\ gen = [e \in Events |-> None] /\ matched = [e \in Events |-> 0]
    /\ lastev = [r \in Composite |-> {}] /\ ignored = [r \in Rules |-> 0]
    /\ live = {} /\ marks = {}

Goto(s, l) == pc' = [pc EXCEPT ![s] = l]

(* The event comes out of the shard's queue.                               *)
Take(s) ==
    /\ pc[s] = "idle" /\ feed[s] # <<>>
    /\ cur' = [cur EXCEPT ![s] = Head(feed[s])]
    /\ feed' = [feed EXCEPT ![s] = Tail(feed[s])]
    /\ live' = live \cup {Head(feed[s])}
    /\ child' = [child EXCEPT ![s] = 1]
    /\ Goto(s, "search")
    /\ UNCHANGED <<found, rule, elist, victims, shared, gen, matched, lastev, ignored, marks>>

-----------------------------------------------------------------------------
(* The locks: a search that has found enough holds the mutex of its rule,  *)
(* and prev_matched_mutex if it walks a shared list, until it has marked   *)
(* what it counted.                                                        *)
Current(s) == Children[Base[cur[s]]][child[s]]

PrevMatchedFree(s) ==
    \A o \in Shards \ {s} : pc[o] = "mark" => Kind[Current(o)] = "event"

(* Mutant: the counting of a rule is not under the rule's mutex.           *)
RuleFreeAlways(s, r) == s \in Shards /\ r \in Composite

RuleFree(s, r) == \A o \in Shards \ {s} : pc[o] = "mark" => Current(o) # r

ListOf(s, r) ==
    CASE Kind[r] = "sid" -> sidlist[CHOOSE b \in Watched[r] : TRUE]
      [] Kind[r] = "group" -> grouplist[r]
      [] OTHER -> elist[s]

(* The walk goes back from the newest event as far as the first one that   *)
(* is too old or was counted before, for this or for a higher level.       *)
Stop(r, e, l) == Max({0} \cup {i \in DOMAIN l : \/ Time[e] - Time[l[i]] > Timeframe[r]
                                                \/ matched[l[i]] >= Level[r]})
Counts(r, e, l) == {i \in (Stop(r, e, l) + 1) .. Len(l) : <<l[i], e>> \in Alike[r]}

(* Search_LastSids, Search_LastGroups, Search_LastEvents up to the marks.  *)
(* The logs that were counted are in last_events, enough or not, as many   *)
(* as it holds; that of the event that makes them enough only in a search  *)
(* by sid.                                                                 *)
Search(s) ==
    /\ pc[s] = "search" /\ child[s] <= Len(Children[Base[cur[s]]])
    /\ LET r == Current(s)
           l == ListOf(s, r)
           n == Counts(r, cur[s], l)
           Newest(k) == {i \in n : Cardinality({j \in n : j >= i}) <= k}
           c == Newest(Frequency[r] + 1)
           logs == IF Kind[r] = "sid" THEN Frequency[r] + 1 ELSE Frequency[r]
       IN /\ RuleFree(s, r) /\ (Kind[r] # "event" => PrevMatchedFree(s))
          /\ lastev' = [lastev EXCEPT ![r] =
                {l[i] : i \in Newest(IF logs > LastMax THEN LastMax ELSE logs)}]
          /\ IF Cardinality(c) = Frequency[r] + 1
             THEN /\ found' = [found EXCEPT ![s] = [set |-> {l[i] : i \in c},
                                     oldest |-> l[Min(c)], first |-> l[Len(l)]]]
                  /\ Goto(s, "mark")
                  /\ UNCHANGED child
             ELSE /\ child' = [child EXCEPT ![s] = @ + 1]
                  /\ UNCHANGED <<found, pc>>
    /\ UNCHANGED <<feed, cur, rule, elist, victims, shared, gen, matched, ignored, live, marks>>

(* Mutant: the newest event of the list is not marked.                     *)
MarkOldest(s) ==
    /\ pc[s] = "mark"
    /\ LET r == Current(s)
           f == found[s]
       IN /\ matched' = [e \in Events |-> IF e \in {cur[s], f.oldest} THEN Level[r] ELSE matched[e]]
          /\ rule' = [rule EXCEPT ![s] = r]
          /\ marks' = marks \cup {[rule |-> r, set |-> f.set, first |-> f.first, context |-> lastev[r]]}
          /\ lastev' = [lastev EXCEPT ![r] = {}]
    /\ found' = [found EXCEPT ![s] = None]
    /\ Goto(s, "fire")
    /\ UNCHANGED <<feed, cur, child, elist, victims, shared, gen, ignored, live>>

(* The marks; last_events goes to the event (OS_MoveRuleLastEvents).       *)
Mark(s) ==
    /\ pc[s] = "mark"
    /\ LET r == Current(s)
           f == found[s]
       IN /\ matched' = [e \in Events |-> IF e \in {cur[s], f.oldest, f.first} THEN Level[r]
                                          ELSE matched[e]]
          /\ rule' = [rule EXCEPT ![s] = r]
          /\ marks' = marks \cup {[rule |-> r, set |-> f.set, first |-> f.first, context |-> lastev[r]]}
          /\ lastev' = [lastev EXCEPT ![r] = {}]
    /\ found' = [found EXCEPT ![s] = None]
    /\ Goto(s, "fire")
    /\ UNCHANGED <<feed, cur, child, elist, victims, shared, gen, ignored, live>>

(* None of the composite rules: the simple one fires.                      *)
NoChild(s) ==
    /\ pc[s] = "search" /\ child[s] > Len(Children[Base[cur[s]]])
    /\ rule' = [rule EXCEPT ![s] = Base[cur[s]]]
    /\ Goto(s, "fire")
    /\ UNCHANGED <<feed, cur, child, found, elist, victims, shared, gen, matched, lastev, ignored, live, marks>>

-----------------------------------------------------------------------------
(* Mutant: the first alert does not set the time.                          *)
IgnoreForgets(r, t) ==
    IF ignored[r] # 0 THEN ignored' = [ignored EXCEPT ![r] = t] ELSE UNCHANGED ignored

(* The time from which the rule is ignored.                                *)
Ignore(r, t) == ignored' = [ignored EXCEPT ![r] = t]

(* The rule fires, unless it fired less than ignore_time ago.              *)
Fire(s) ==
    /\ pc[s] = "fire"
    /\ LET r == rule[s]
           t == Time[cur[s]]
       IN IF IgnoreTime[r] > 0 /\ ignored[r] # 0 /\ t - ignored[r] < IgnoreTime[r]
          THEN Goto(s, "finish") /\ UNCHANGED <<ignored, gen>>
          ELSE /\ IF IgnoreTime[r] > 0 THEN Ignore(r, t) ELSE UNCHANGED ignored
               /\ gen' = [gen EXCEPT ![cur[s]] = r]
               /\ Goto(s, "sid")
    /\ UNCHANGED <<thread, elist, victims, shared, matched, lastev, live, marks>>

(* Mutant: the event of the node that is trimmed still refers to it.       *)
AddSidKeepsNode(s) ==
    /\ pc[s] = "sid"
    /\ IF rule[s] \in SidLists
       THEN LET l == Append(sidlist[rule[s]], cur[s])
                over == Len(l) > SidMax
            IN /\ PrevMatchedFree(s)
               /\ sidlist' = [sidlist EXCEPT ![rule[s]] = IF over THEN Tail(l) ELSE l]
               /\ sidnode' = sidnode \cup {cur[s]}
       ELSE UNCHANGED <<sidlist, sidnode>>
    /\ Goto(s, "group")
    /\ UNCHANGED <<thread, elist, victims, grouplist, groupnodes, gen, matched, lastev, ignored, live, marks>>

(* OSList_AddData; over the limit the oldest node goes, and its event      *)
(* forgets it (Mark_EventNodeDelete).                                      *)
AddSid(s) ==
    /\ pc[s] = "sid"
    /\ IF rule[s] \in SidLists
       THEN LET l == Append(sidlist[rule[s]], cur[s])
                over == Len(l) > SidMax
            IN /\ PrevMatchedFree(s)
               /\ sidlist' = [sidlist EXCEPT ![rule[s]] = IF over THEN Tail(l) ELSE l]
               /\ sidnode' = (sidnode \cup {cur[s]}) \ (IF over THEN {Head(l)} ELSE {})
       ELSE UNCHANGED <<sidlist, sidnode>>
    /\ Goto(s, "group")
    /\ UNCHANGED <<thread, elist, victims, grouplist, groupnodes, gen, matched, lastev, ignored, live, marks>>

Watchers(r) == {c \in GroupLists : r \in Watched[c]}

AddGroups(s) ==
    /\ pc[s] = "group"
    /\ IF Watchers(rule[s]) # {}
       THEN /\ PrevMatchedFree(s)
            /\ grouplist' = [c \in GroupLists |-> IF c \in Watchers(rule[s])
                               THEN Append(grouplist[c], cur[s]) ELSE grouplist[c]]
            /\ groupnodes' = groupnodes \cup {cur[s]}
       ELSE UNCHANGED <<grouplist, groupnodes>>
    /\ Goto(s, "add")
    /\ UNCHANGED <<thread, elist, victims, sidlist, sidnode, gen, matched, lastev, ignored, live, marks>>

(* OS_AddEvent_List: over the limit MinEvict events go, and more as long   *)
(* as the next one is old.                                                 *)
Evicted(l, e) ==
    IF Len(l) <= MemSize THEN 0
    ELSE Min({k \in 0 .. Len(l) :
                k = Len(l) \/ (k >= MinEvict /\ Time[e] - Time[l[k + 1]] <= MaxFreq)})

AddEvent(s) ==
    /\ pc[s] = "add"
    /\ LET l == Append(elist[s], cur[s])
           k == Evicted(l, cur[s])
       IN /\ elist' = [elist EXCEPT ![s] = SubSeq(l, k + 1, Len(l))]
          /\ victims' = [victims EXCEPT ![s] = Reverse(SubSeq(l, 1, k))]
    /\ cur' = [cur EXCEPT ![s] = None]
    /\ Goto(s, "unlink")
    /\ UNCHANGED <<feed, child, found, rule, shared, gen, matched, lastev, ignored, live, marks>>

-----------------------------------------------------------------------------
(* Mutant: the group lists only if the event is not on a sid list.         *)
UnlinkElse(e) ==
    /\ sidlist' = IF e \in sidnode /\ gen[e] # None
                  THEN [sidlist EXCEPT ![gen[e]] = RemoveFirst(@, e)] ELSE sidlist
    /\ grouplist' = IF e \in groupnodes \ sidnode /\ gen[e] # None
                    THEN [c \in GroupLists |-> IF c \in Watchers(gen[e])
                             THEN RemoveFirst(grouplist[c], e) ELSE grouplist[c]]
                    ELSE grouplist

(* Free_Eventinfo: first off the lists, where its nodes are, ...           *)
Unlink(e) ==
    /\ sidlist' = IF e \in sidnode /\ gen[e] # None
                  THEN [sidlist EXCEPT ![gen[e]] = RemoveFirst(@, e)] ELSE sidlist
    /\ grouplist' = IF e \in groupnodes /\ gen[e] # None
                    THEN [c \in GroupLists |-> IF c \in Watchers(gen[e])
                             THEN RemoveFirst(grouplist[c], e) ELSE grouplist[c]]
                    ELSE grouplist

UnlinkVictim(s) ==
    /\ pc[s] = "unlink" /\ victims[s] # <<>>
    /\ LET e == Head(victims[s])
       IN /\ e \in sidnode \cup groupnodes => PrevMatchedFree(s)
          /\ Unlink(e)
          /\ sidnode' = sidnode \ {e} /\ groupnodes' = groupnodes \ {e}
    /\ Goto(s, "free")
    /\ UNCHANGED <<thread, elist, victims, gen, matched, lastev, ignored, live, marks>>

(* ... then from memory.                                                   *)
FreeVictim(s) ==
    /\ pc[s] = "free"
    /\ live' = live \ {Head(victims[s])}
    /\ victims' = [victims EXCEPT ![s] = Tail(@)]
    /\ Goto(s, "unlink")
    /\ UNCHANGED <<thread, elist, shared, gen, matched, lastev, ignored, marks>>

Freed(s) ==
    /\ pc[s] = "unlink" /\ victims[s] = <<>>
    /\ Goto(s, "idle")
    /\ UNCHANGED <<thread, elist, victims, shared, gen, matched, lastev, ignored, live, marks>>

(* analysisd_finish_event: an event that is on no list is freed at once.   *)
Finish(s) ==
    /\ pc[s] = "finish"
    /\ live' = live \ {cur[s]}
    /\ cur' = [cur EXCEPT ![s] = None]
    /\ Goto(s, "idle")
    /\ UNCHANGED <<feed, child, found, rule, elist, victims, shared, gen, matched, lastev, ignored, marks>>

(* OS_EventList_Destroy, when the threads have ended.                      *)
Destroy(s) ==
    /\ \A o \in Shards : pc[o] = "idle" /\ feed[o] = <<>>
    /\ elist[s] # <<>>
    /\ victims' = [victims EXCEPT ![s] = Reverse(elist[s])]
    /\ elist' = [elist EXCEPT ![s] = <<>>]
    /\ Goto(s, "unlink")
    /\ UNCHANGED <<thread, shared, gen, matched, lastev, ignored, live, marks>>

-----------------------------------------------------------------------------
Next == \E s \in Shards :
    \/ Take(s) \/ Search(s) \/ Mark(s) \/ NoChild(s) \/ Fire(s) \/ AddSid(s) \/ AddGroups(s)
    \/ AddEvent(s) \/ UnlinkVictim(s) \/ FreeVictim(s) \/ Freed(s) \/ Finish(s) \/ Destroy(s)

Spec == Init /\ [][Next]_vars

-----------------------------------------------------------------------------
Steps == {"idle", "search", "mark", "fire", "sid", "group", "add", "unlink", "free", "finish"}

Found == [set : SUBSET Events, oldest : Events, first : Events]
Marks == [rule : Composite, set : SUBSET Events, first : Events, context : SUBSET Events]

TypeOK ==
    /\ pc \in [Shards -> Steps] /\ cur \in [Shards -> Events \cup {None}]
    /\ feed \in [Shards -> Seq(Events)] /\ victims \in [Shards -> Seq(Events)]
    /\ elist \in [Shards -> Seq(Events)] /\ \A s \in Shards : Len(elist[s]) <= MemSize
    /\ child \in [Shards -> Nat] /\ rule \in [Shards -> Rules \cup {None}]
    /\ found \in [Shards -> Found \cup {None}]
    /\ sidlist \in [SidLists -> Seq(Events)] /\ \A r \in SidLists : Len(sidlist[r]) <= SidMax
    /\ grouplist \in [GroupLists -> Seq(Events)]
    /\ sidnode \cup groupnodes \cup live \subseteq Events
    /\ gen \in [Events -> Rules \cup {None}]
    /\ matched \in [Events -> Nat] /\ ignored \in [Rules -> Nat]
    /\ lastev \in [Composite -> SUBSET Events]
    /\ marks \subseteq Marks

(* What a search of any thread may come upon is not freed: the events on   *)
(* the lists of the rules, which other shards own, those on the shard's    *)
(* own list, and those a search has counted and is about to mark.          *)
ListedLive ==
    /\ \A r \in SidLists : Range(sidlist[r]) \subseteq live
    /\ \A r \in GroupLists : Range(grouplist[r]) \subseteq live
    /\ \A s \in Shards : /\ Range(elist[s]) \cup Range(victims[s]) \subseteq live
                         /\ pc[s] = "mark" => found[s].set \cup {found[s].first, cur[s]} \subseteq live

(* An event refers to a node exactly while the node is on the list: it is  *)
(* never deleted a second time, whether the limit of the list or the       *)
(* eviction of its event came first.                                       *)
NodesOwned ==
    /\ \A r \in SidLists : /\ IsInjective(sidlist[r])
                           /\ Range(sidlist[r]) = {e \in sidnode : gen[e] = r}
    /\ \A r \in GroupLists : /\ IsInjective(grouplist[r])
                             /\ Range(grouplist[r]) = {e \in groupnodes : gen[e] \in Watched[r]}

(* The earlier marks that a search has counted past: by a rule on the same *)
(* list, of the same or a higher level, for some of the same events.       *)
SameList(r, q) == /\ Kind[r] = Kind[q]
                  /\ Kind[r] = "sid" => Watched[r] = Watched[q]
                  /\ Kind[r] = "group" => r = q
CountedBefore(s) == {m \in marks : /\ SameList(m.rule, Current(s))
                                   /\ Level[m.rule] >= Level[Current(s)]
                                   /\ m.set \cap found[s].set # {}}
MarkGone(s) == \A m \in CountedBefore(s) : m.first \notin Range(ListOf(s, Current(s)))

(* "We avoid multiple triggers for the same rule or rules with a lower     *)
(* level", as eventinfo.c has it: an event is counted again only if the    *)
(* one that carried the mark, the newest of the list at that time, has     *)
(* been evicted by its shard meanwhile.                                    *)
TriggersAvoided == \A s \in Shards : pc[s] = "mark" => MarkGone(s)

(* What holds of it: a search of the shard's own events and one of a       *)
(* shared list hold no lock in common, and the one may write its level     *)
(* over the higher one of the other.  A rule is not triggered again unless *)
(* there is a rule of a lower level that searches under the other lock.    *)
OtherLock(r, q) == (Kind[r] = "event") # (Kind[q] = "event")
Overwritten(r) == \E c \in Composite : OtherLock(c, r) /\ Level[c] < Level[r]

TriggersApart ==
    \A s \in Shards : pc[s] = "mark" /\ ~Overwritten(Current(s)) => MarkGone(s)

(* The logs an alert shows as its context are of events that its own       *)
(* search has counted, and they are all there, or as many as it may show.  *)
ContextOwn ==
    \A m \in marks : /\ m.context \subseteq m.set
                     /\ \/ Cardinality(m.context) >= Frequency[m.rule]
                        \/ Cardinality(m.context) = LastMax

(* Two alerts of a rule with an ignore time are that far apart, though     *)
(* events come out of the shards out of order.                             *)
IgnoredApart ==
    \A e, f \in Events : e # f /\ gen[e] = gen[f] /\ gen[e] # None =>
        LET gap == Time[e] - Time[f] IN IgnoreTime[gen[e]] <= (IF gap < 0 THEN -gap ELSE gap)
=============================================================================
