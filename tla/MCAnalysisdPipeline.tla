------------------------ MODULE MCAnalysisdPipeline ------------------------
(* A model-checking instance of AnalysisdPipeline.                         *)
EXTENDS AnalysisdPipeline, TLC

CONSTANTS e1, e2, e3, e4, e5, e6

(* A log event and a syscheck message; a log event at which Check_Hour     *)
(* fires; and three firewall events: one for the firewall writer, one to   *)
(* fill its queue, one to get stuck with.                                  *)
AllMsgs == {e1, e2, e3, e4, e5, e6}
MCTypeOf == [m \in AllMsgs |-> IF m = e2 THEN "syscheck" ELSE "event"]
MCShardOf == [m \in AllMsgs |-> "s1"]
MCDecoderType == ("d1" :> "event") @@ ("d2" :> "syscheck")

(* What arrives: of the first two any, in any order; or the third; or the  *)
(* firewall events, in one order, since they differ in nothing.            *)
Traffic == arrived \in SUBSET {e1, e2} \cup {{e3}, {e4}, {e4, e5}, {e4, e5, e6}}
=============================================================================
