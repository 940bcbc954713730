------------------------------- MODULE MCSync -------------------------------
(* SyncPipeline on one pod.                                                *)
EXTENDS SyncPipeline

CONSTANTS j1, j2, s1, s2, q1, p1

OnePod == [s \in Slots |-> p1]
=============================================================================
