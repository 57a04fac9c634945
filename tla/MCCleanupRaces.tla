--------------------------- MODULE MCCleanupRaces ---------------------------
(* Clients of one key, cleanups, and retries of the tasks.                  *)
EXTENDS CleanupRaces

CONSTANTS k1, k2, k3, x1, x2, c1, c2

MCClients == {k1, k2, k3}
MCTwoClients == {k1, k2}
MCCleaners == {c1, c2}
MCRetriers == {x1, x2}
=============================================================================
