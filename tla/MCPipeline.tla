----------------------------- MODULE MCPipeline -----------------------------
(* AsyncPipeline on small instances: one or two pods, a slot or two each.  *)
EXTENDS AsyncPipeline, TLC

CONSTANTS s1, s2, s3, p1, p2

OnePod  == [s \in Slots |-> p1]
TwoPods == [s \in Slots |-> IF s = s3 THEN p2 ELSE p1]

(* Slots of one pod are alike, and so are pollers.                         *)
PollerSlotSymmetry == Permutations(Pollers) \cup Permutations(Slots)
=============================================================================
