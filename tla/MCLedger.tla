------------------------------- MODULE MCLedger -------------------------------
(***************************************************************************)
(* Small instances of Ledger: a user with a daily cap and a tenant with a  *)
(* lifetime cap. The day turns over at instant 1.                          *)
(***************************************************************************)
EXTENDS Ledger, TLC

CONSTANTS r1, r2, r3

userDay == [entity |-> "user", window |-> "day"]
tenantLife == [entity |-> "tenant", window |-> "lifetime"]

MCEntities == {"user", "tenant"}
MCWindows == {"day", "lifetime"}
MCBoundaries == [w \in MCWindows |-> IF w = "day" THEN {0, 1} ELSE {0}]

(* Scope tuples as sorted by Budget.reserve.                               *)
SingleAndComposite == {<<userDay>>, <<tenantLife, userDay>>}
OneDay == {<<userDay>>}

(* Caps are whole micro-cents: two units each.                             *)
DayCap == {[scope |-> userDay, cap |-> 4, grace |-> 0]}
GraceCaps == {[scope |-> userDay, cap |-> 4, grace |-> 50],
              [scope |-> tenantLife, cap |-> 6, grace |-> 0]}

Symmetry == Permutations({r1, r2, r3})

================================================================================
