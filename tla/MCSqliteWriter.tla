---------------------------- MODULE MCSqliteWriter ----------------------------
(***************************************************************************)
(* Instances of SqliteWriter: a process with two tasks and another with    *)
(* one, on a file that is empty, half-way up, or complete.                 *)
(***************************************************************************)
EXTENDS SqliteWriter, TLC

CONSTANTS t1, t2, u1, P, Q

MCHome == [t \in Tasks |-> IF t = u1 THEN Q ELSE P]

Scenario(call1, call2, call3, version) ==
  [call |-> (t1 :> call1 @@ t2 :> call2 @@ u1 :> call3), version |-> version]

MCScenarios == {Scenario("write", "write", "write", 3),
                Scenario("write", "close", "write", 3),
                Scenario("migrate", "write", "migrate", 0),
                Scenario("migrate", "migrate", "migrate", 2)}

================================================================================
