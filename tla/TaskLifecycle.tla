---------------------------- MODULE TaskLifecycle ----------------------------
(***************************************************************************)
(* What the queue promises to the clients of a task, with no runs, leases,  *)
(* waits or clock: the states backends.py maps to Django's task statuses    *)
(* (STATE_TO_STATUS), the attempt number it reports, and max_attempts.      *)
(* One transaction of the queue may move several tasks, and each at most    *)
(* once: claim_task cancels, fails and starts whole batches.                *)
(***************************************************************************)
EXTENDS Integers

CONSTANTS Task, Null
VARIABLES state, attempts, limit

Live == {"pending", "running", "sleeping"}

Init == \A t \in Task : state[t] = "none" /\ attempts[t] = 0 /\ limit[t] = Null

Goes(t, from, to) == state[t] \in from /\ state'[t] \in to
SameAttempt(t) == attempts'[t] = attempts[t] /\ limit'[t] = limit[t]

Enqueue(t) == Goes(t, {"none"}, {"pending"}) /\ attempts'[t] = 1

Start(t) == Goes(t, {"pending", "sleeping"}, {"running"}) /\ SameAttempt(t)

Suspend(t) == Goes(t, {"running"}, {"sleeping"}) /\ SameAttempt(t)

\* An event wakes the task: a wake-up is not a retry.
WakeUp(t) == Goes(t, {"sleeping"}, {"pending"}) /\ SameAttempt(t)

Complete(t) == Goes(t, {"running"}, {"completed"}) /\ SameAttempt(t)

\* An attempt that began failed; the next one is queued, and perhaps started.
NextAttempt(t) ==
  /\ Goes(t, {"running", "sleeping"}, Live)
  /\ attempts'[t] = attempts[t] + 1
  /\ limit'[t] = limit[t]
  /\ limit[t] # Null => attempts'[t] <= limit[t]

\* The task fails only when its last attempt did.
GiveUp(t) ==
  /\ Goes(t, {"running", "sleeping"}, {"failed"})
  /\ SameAttempt(t)
  /\ limit[t] # Null /\ attempts[t] >= limit[t]

Cancel(t) == Goes(t, Live, {"cancelled"}) /\ SameAttempt(t)

Reopen(t) ==
  /\ Goes(t, {"failed"}, {"pending"})
  /\ attempts'[t] = attempts[t] + 1
  /\ limit'[t] # Null /\ attempts'[t] <= limit'[t]

Forget(t) == Goes(t, {"completed", "failed", "cancelled"}, {"deleted"})

Move(t) ==
  \/ Enqueue(t) \/ Start(t) \/ Suspend(t) \/ WakeUp(t) \/ Complete(t)
  \/ NextAttempt(t) \/ GiveUp(t) \/ Cancel(t) \/ Reopen(t) \/ Forget(t)

Next == \A t \in Task : Move(t) \/ (state'[t] = state[t] /\ SameAttempt(t))

Spec == Init /\ [][Next]_<<state, attempts, limit>>
=============================================================================
