------------------------- MODULE MCDeferredEnqueue -------------------------
(* A deferral with a key, one without and an immediate enqueue of the key.  *)
EXTENDS DeferredEnqueue, TLC

CONSTANTS keyed, plain, direct, k

MCCalls == {keyed, plain, direct}
MCRunAfter == keyed :> 1 @@ plain :> 1 @@ direct :> 0

Options(attempts, duration, key) ==
  [f \in Fields |-> CASE f = "max_attempts" -> attempts
                      [] f = "max_duration" -> duration
                      [] OTHER -> key]

MCPerCall == keyed :> Options(Unset, 1, k) @@ plain :> Options(3, Unset, Unset)
               @@ direct :> Options(Unset, Unset, k)
MCScenarios == { keyed :> 2 @@ plain :> 0 @@ direct :> 0,
                 keyed :> 1 @@ plain :> 0 @@ direct :> 1,
                 keyed :> 0 @@ plain :> 1 @@ direct :> 0 }
MCDefaults == Options(Unset, 2, Unset)
=============================================================================
