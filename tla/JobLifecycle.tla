---------------------------- MODULE JobLifecycle ----------------------------
(***************************************************************************)
(* What the job API promises about one job, seen through its record: it is *)
(* pending from the moment it exists, gets one outcome, keeps that outcome *)
(* for as long as the record exists, and once the record is gone, by       *)
(* cleanup or expiry, the job is gone for good.                            *)
(*                                                                         *)
(* Several jobs may move in one step: a restart of the gateway ends all    *)
(* the submissions it was handling.                                        *)
(***************************************************************************)
CONSTANT Jobs

VARIABLE phase

Phase == {"new", "pending", "completed", "failed", "gone"}

(* A job moves only along these edges: "new" to "gone" is a submission that *)
(* never left a record.                                                     *)
Moves ==
  { <<"new", "pending">>, <<"new", "gone">>,
    <<"pending", "completed">>, <<"pending", "failed">>,
    <<"pending", "gone">>, <<"completed", "gone">>, <<"failed", "gone">> }

Init == phase = [j \in Jobs |-> "new"]

Next ==
  /\ phase' \in [Jobs -> Phase]
  /\ \A j \in Jobs : phase'[j] = phase[j] \/ <<phase[j], phase'[j]>> \in Moves

Spec == Init /\ [][Next]_phase
=============================================================================
