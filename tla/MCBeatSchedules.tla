-------------------------- MODULE MCBeatSchedules --------------------------
(* A beat of its own and one on a worker's thread, with a schedule and the  *)
(* cleanup, which comes due with the first slot.                            *)
EXTENDS BeatSchedules, TLC

MCBeat == {"beat", "worker"}
MCColocated == {"worker"}
MCSchedules == <<"often">>
MCSlots == "often" :> 1..2 @@ "cleanup" :> {1}
=============================================================================
