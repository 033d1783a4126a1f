------------------------------ MODULE MCSweepLoop ------------------------------
(***************************************************************************)
(* A reservation used by two tasks, a sweeper that loops and a cron job.   *)
(***************************************************************************)
EXTENDS SweepLoop, TLC

CONSTANTS t1, t2

tenant == [entity |-> "tenant", window |-> "lifetime"]
user == [entity |-> "user", window |-> "lifetime"]

MCEntities == {"tenant", "user"}
MCWindows == {"lifetime"}
MCBoundaries == [w \in MCWindows |-> {0}]

Composite == {<<tenant, user>>}
MCCalls == {[scopes |-> <<tenant, user>>, est |-> 2, request |-> NoRequest, ttl |-> 1]}

UserCap == {[scope |-> user, cap |-> 3, grace |-> 0]}

(* The second task uses the handle of the first, as a shielded settlement  *)
(* does.                                                                   *)
SharedHandle == {<<t2, t1>>}

================================================================================
