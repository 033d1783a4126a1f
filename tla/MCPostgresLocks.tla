--------------------------- MODULE MCPostgresLocks ----------------------------
(***************************************************************************)
(* Small instances of PostgresLocks: a tenant and a user with lifetime     *)
(* windows, in composite reservations and alone.                           *)
(***************************************************************************)
EXTENDS PostgresLocks, TLC

CONSTANTS r1, r2, s1, s2

tenantLife == [entity |-> "tenant", window |-> "lifetime"]
userLife == [entity |-> "user", window |-> "lifetime"]

MCEntities == {"user", "tenant"}
MCWindows == {"lifetime"}
MCBoundaries == [w \in MCWindows |-> {0}]

(* Scope tuples as Python sorts them.                                      *)
Composite == {<<tenantLife, userLife>>}
CompositeAndSingle == Composite \cup {<<userLife>>}

(* The order of the database's collation: Python's.                        *)
PythonOrder == <<"tenant", "user">>

(* Plans that visit the rows of one reservation either way.                *)
PlansThatDiffer == {<<<<r1, 1>>, <<r1, 2>>>>, <<<<r1, 2>>, <<r1, 1>>>>}
PlansOfTwo == {<<<<r1, 1>>, <<r1, 2>>, <<r2, 1>>, <<r2, 2>>>>,
               <<<<r2, 1>>, <<r2, 2>>, <<r1, 1>>, <<r1, 2>>>>}

UserCap == {[scope |-> userLife, cap |-> 4, grace |-> 0]}
BothCaps == UserCap \cup {[scope |-> tenantLife, cap |-> 4, grace |-> 0]}

SessionSymmetry == Permutations({s1, s2})
Symmetry == SessionSymmetry \cup Permutations({r1, r2})

================================================================================
