---------------------------- MODULE MCCorrelation ----------------------------
(* Model-checking instance of Correlation: two shards, two simple rules    *)
(* (b, and d with an ignore time) and four composite rules: c1 counts by   *)
(* sid, c4 does on the same list for a lower level, c2 counts by group     *)
(* (the alerts of c1 included), c3 looks at the shard's own events.        *)
EXTENDS Correlation, TLC

CONSTANTS s1, s2, e1, e2, e3, e4, e5, f1, f2, f3, f4, b, d, c1, c2, c3, c4

FeedOf == (s1 :> <<e1, e2, e3, e4, e5>>) @@ (s2 :> <<f1, f2, f3, f4>>)
TimeOf == (e1 :> 1) @@ (e2 :> 2) @@ (e3 :> 2) @@ (e4 :> 4) @@ (e5 :> 5) @@
          (f1 :> 1) @@ (f2 :> 1) @@ (f3 :> 2) @@ (f4 :> 4)
BaseOf == [e \in Events |-> IF e \in {e4, f3} THEN d ELSE b]
ChildrenOf == (b :> <<c1, c4, c3>>) @@ (d :> <<c3, c2>>)
KindOf == (c1 :> "sid") @@ (c2 :> "group") @@ (c3 :> "event") @@ (c4 :> "sid")
WatchedBy == (c1 :> {b}) @@ (c2 :> {b, c1}) @@ (c3 :> {}) @@ (c4 :> {b})
FrequencyOf == (c1 :> 2) @@ (c2 :> 1) @@ (c3 :> 1) @@ (c4 :> 1)
TimeframeOf == (c1 :> 3) @@ (c2 :> 3) @@ (c3 :> 3) @@ (c4 :> 3)
LevelOf == (c1 :> 7) @@ (c2 :> 5) @@ (c3 :> 5) @@ (c4 :> 5)
IgnoreTimeOf == (b :> 0) @@ (d :> 3) @@ (c1 :> 0) @@ (c2 :> 0) @@ (c3 :> 0) @@ (c4 :> 0)
(* c3 asks for the same source; e5 and f4 have one of their own.           *)
AlikeOf == [r \in {c1, c2, c3, c4} |-> {p \in Events \X Events :
               r = c3 => (p[1] \in {e5, f4}) = (p[2] \in {e5, f4})}]

(* For the mark that is written over: a rule by sid for the one simple     *)
(* rule, and for the other one of a lower level that looks at the shard's  *)
(* own events.                                                             *)
LevelsFeed == (s1 :> <<e1, e2, e3>>) @@ (s2 :> <<f1, f2>>)
LevelsTime == [e \in Events |-> 1]
LevelsBase == [e \in Events |-> IF e = e3 THEN d ELSE b]
LevelsChildren == (b :> <<c1>>) @@ (d :> <<c3>>)
LevelsKind == (c1 :> "sid") @@ (c3 :> "event")
LevelsWatched == (c1 :> {b}) @@ (c3 :> {})
LevelsFrequency == (c1 :> 1) @@ (c3 :> 1)
LevelsTimeframe == (c1 :> 3) @@ (c3 :> 3)
LevelsLevel == (c1 :> 5) @@ (c3 :> 3)
LevelsIgnoreTime == [r \in {b, d, c1, c3} |-> 0]
LevelsAlike == [r \in {c1, c3} |-> Events \X Events]
=============================================================================
