------------------------------- MODULE MCBudget -------------------------------
(***************************************************************************)
(* Small instances of Budget: two tasks on a user's lifetime cap.          *)
(***************************************************************************)
EXTENDS Budget, TLC

CONSTANTS t1, t2

user == [entity |-> "user", window |-> "lifetime"]

MCEntities == {"user"}
MCWindows == {"lifetime"}
MCBoundaries == [w \in MCWindows |-> {0}]

Single == {<<user>>}

Cap == {[scope |-> user, cap |-> 3, grace |-> 0]}

CallOf(scopes, est, request) ==
  [scopes |-> scopes, est |-> est, request |-> request, ttl |-> 1]

(* Callers that retry one request, or reserve without a request id.        *)
MixedCalls == {CallOf(<<user>>, 2, "q"), CallOf(<<user>>, 1, NoRequest)}

NoSharing == {}

Symmetry == Permutations(Reservations)

================================================================================
