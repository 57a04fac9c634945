-------------------------- MODULE MCQueueLifecycle --------------------------
(* Attempts, leases, retries, cancellation and cleanup: no events, so the   *)
(* waits stay empty, and no checkpoints.                                    *)
EXTENDS AbsurdQueue, TLC

CONSTANTS t1, t2, r1, r2, r3, k1

MCTask == {t1, t2}
MCRun == {r1, r2, r3}
MCKey == {k1}

Opt(max, delay, maxDelay, maxDuration, key) ==
  [maxAttempts |-> max, delay |-> delay, maxDelay |-> maxDelay,
   maxDuration |-> maxDuration, key |-> key]

MCOptions == {Opt(2, 0, Null, Null, k1), Opt(2, 1, Null, Null, Null),
              Opt(Null, 1, 1, 2, Null)}
MCRetryAt == {Null, 0}
MCRetryMax == {Null, 2}

Symmetry == Permutations(MCTask) \cup Permutations(MCRun)
=============================================================================
