----------------------------- MODULE MCListing ------------------------------
(* Instances of JobListing for TLC.                                         *)
EXTENDS JobListing

CONSTANTS ann, w1

(* Two jobs are created in one second and the next ones later, all of them  *)
(* by ann, who also lists them.                                             *)
TwoAtOnce == [j \in Jobs |-> IF j <= 2 THEN 1 ELSE j]
ByNumber == [j \in Jobs |-> j]
AnnsJobs == [j \in Jobs |-> ann]
AnnLists == [w \in Clients |-> ann]
=============================================================================
