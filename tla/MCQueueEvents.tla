---------------------------- MODULE MCQueueEvents ----------------------------
(* Events, waits and checkpoints of suspended runs, with emissions, timeouts *)
(* and cleanup in any order.                                                 *)
EXTENDS AbsurdQueue, TLC

CONSTANTS t1, r1, r2, e1, s1, s2, b1, p1, p2

MCTask == {t1}
MCRun == {r1, r2}
MCEvent == {e1}
MCPayload == {p1, p2}
MCAwaitStep == {s1, s2}
MCBodyStep == {b1}

MCOptions == {[maxAttempts |-> 2, delay |-> 0, maxDelay |-> Null,
               maxDuration |-> Null, key |-> Null]}
MCRetryAt == {Null}
MCAwaitTimeout == {Null, 1}

Symmetry == Permutations(MCRun) \cup Permutations(MCPayload) \cup Permutations(MCAwaitStep)
=============================================================================
