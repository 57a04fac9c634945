------------------------- MODULE MCPgCronSchedules -------------------------
(* Two processes, one name in two lanes, two releases, four environments.   *)
EXTENDS PgCronSchedules, TLC

CONSTANTS n1, c1, c2

MCProcess == {"p1", "p2"}
MCNames == {n1}
MCCrons == {c1, c2}
MCReleases == { [schedule |-> n1 :> c1, cleanup |-> c1],
                [schedule |-> n1 :> None, cleanup |-> None] }

Environment(env, db, opt, sync) ==
  [test_environment |-> env, test_database |-> db, PG_CRON_ON_TEST_DB |-> opt,
   SYNC_SCHEDULES_ON_MIGRATE |-> TRUE, SYNC_SCHEDULES_ON_TEST_DB |-> sync]

MCBudgets == { [writes |-> 1, faults |-> 1, runs |-> 2],
               [writes |-> 2, faults |-> 0, runs |-> 2],
               [writes |-> 0, faults |-> 0, runs |-> 3] }

MCDeployments == { Environment(FALSE, FALSE, FALSE, FALSE),
                   Environment(TRUE, FALSE, FALSE, FALSE),
                   Environment(TRUE, TRUE, TRUE, FALSE),
                   Environment(TRUE, TRUE, FALSE, TRUE) }
=============================================================================
