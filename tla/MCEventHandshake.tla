-------------------------- MODULE MCEventHandshake --------------------------
(* Runs that await, emitters and cleanups of one event.                     *)
EXTENDS EventHandshake, TLC

CONSTANTS r1, r2, m1, m2, c1, c2, p1, p2

MCRuns == {r1, r2}
MCEmitters == {m1, m2}
MCCleaners == {c1, c2}
MCPayload == {p1, p2}
=============================================================================
