--------------------------- MODULE MCAbsurdWorker ---------------------------
(* A worker of either kind on one queue, and what may happen to them.       *)
EXTENDS AbsurdWorker, TLC

CONSTANTS w1, w2, t1, t2

MCOneWorker == {w2}
MCWorkers == {w1, w2}
MCTasks == {t1, t2}

\* w1 executes its batches in order, w2 refills a window.
MCConcurrency == w1 :> 1 @@ w2 :> 2
MCBatchSize == w1 :> 2 @@ w2 :> 2
MCOneConcurrency == w2 :> 2
MCOneBatchSize == w2 :> 2

Once(S) == [e \in Rare |-> IF e \in S THEN 1 ELSE 0]

MCFleet == {Once({"crash"}), Once({"stop"}), Once({"suspend"})}
MCWindow == {Once({"crash", "stop"}), Once({"cancel"}), Once({"break"}), Once({"client"}),
             Once({"retry"})}
=============================================================================
