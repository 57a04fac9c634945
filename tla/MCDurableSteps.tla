--------------------------- MODULE MCDurableSteps ---------------------------
(* A worker and a drain of one queue, a sync task of two steps and an async *)
(* one.  In each scenario some rare events happen, once or twice.           *)
EXTENDS DurableSteps, TLC

MCProcess == {"worker", "drain"}
MCDrains == {"drain"}
MCConcurrency == "worker" :> 1 @@ "drain" :> 2
MCTask == {"a", "b"}
MCAsync == {"b"}

Once(S) == [e \in Events |-> IF e \in S THEN 1 ELSE 0]
MCScenarios ==
  {Once({"expire", "stall"}), Once({"slow"}), Once({"cancel"}), Once({"crash"}),
   Once({"break", "raise"}), Once({"stop", "raise"}), [Once({}) EXCEPT !["raise"] = 2]}
=============================================================================
