------------------------------ MODULE SpendTotals ------------------------------
(***************************************************************************)
(* The arithmetic of spend: window buckets (ledger.py), the contribution   *)
(* of a ledger row to its scope, and the running totals kept on the rows   *)
(* of snipz_limits (storage/spend.py).                                     *)
(*                                                                         *)
(* Amounts of money given by callers are whole numbers of a unit of which  *)
(* Quantum make one micro-cent, so that rounding to the stored precision   *)
(* is visible; stored amounts are whole micro-cents.                       *)
(*                                                                         *)
(* A ledger row is a record                                                *)
(*   [entity, state, late, est, actual, request, expires, created]         *)
(* where entity stands for the columns (scope_type, scope_id).             *)
(***************************************************************************)
EXTENDS Integers, FiniteSetsExt

CONSTANTS
  Entities,     \* the pairs (scope_type, scope_id)
  Windows,      \* the window names: minute, hour, day, month, lifetime
  Boundaries,   \* Boundaries[w]: the instants at which a bucket of w begins
  MaxTime,      \* bound: the last instant of the clock
  Quantum,      \* caller's units of money in one stored micro-cent
  Unknown,      \* window_start_at = NULL: rebuild the total before use
  NoCost        \* actual_cents = NULL: no cost observed yet

Time == 0..MaxTime

ASSUME TimeAssumption ==
  /\ MaxTime \in Nat
  /\ Boundaries \in [Windows -> SUBSET Time]
  /\ \A w \in Windows : 0 \in Boundaries[w]

ASSUME QuantumAssumption == Quantum \in Nat \ {0}

ASSUME NullAssumption == Unknown \notin Int /\ NoCost \notin Int

(* A scope is the unit of enforcement: (type, id, window).                 *)
Scopes == [entity : Entities, window : Windows]

--------------------------------------------------------------------------------
(* ledger.window_start: the start of the bucket that contains instant t.   *)
WindowStart(w, t) == Max({b \in Boundaries[w] : b <= t})

(* spend._to_micros over spend.quantize_cents: round half up.              *)
ToMicros(units) == (2 * units + Quantum) \div (2 * Quantum)

(* spend.from_micros: a stored amount in the caller's units.               *)
FromMicros(micros) == micros * Quantum

(* Mutant of Contribution: an observed cost replaces the estimate instead  *)
(* of raising it.                                                          *)
ContributionOfObserved(row) ==
  IF row.state = "released" THEN 0
  ELSE IF row.actual # NoCost THEN row.actual
  ELSE IF row.state = "committed" THEN 0 ELSE row.est

(* spend.contribution_micros: what a row adds to its scope's spend.        *)
Contribution(row) ==
  LET actual == IF row.actual = NoCost THEN 0 ELSE row.actual
  IN  CASE row.state = "released"  -> 0
        [] row.state = "committed" -> actual
        [] row.state = "reserved"  -> IF actual > row.est THEN actual ELSE row.est

--------------------------------------------------------------------------------
(* A running total is a record with the fields start and spent.            *)
UnknownTotal == [start |-> Unknown, spent |-> 0]

(* spend.spent_in_window: the spend of the bucket containing now, or       *)
(* Unknown when the total must be rebuilt first.                           *)
SpentInWindow(total, w, now) ==
  LET current == WindowStart(w, now)
  IN  IF total.start = Unknown THEN Unknown
      ELSE IF total.start = current THEN total.spent
      ELSE IF total.start < current THEN 0
      ELSE Unknown

(* Mutant of Absorb: the settlement of a row of an older bucket is counted *)
(* in the current one.                                                     *)
AbsorbAnyBucket(total, w, created, delta, inserted) ==
  IF total.start = Unknown THEN total
  ELSE IF inserted /\ WindowStart(w, created) > total.start
       THEN [start |-> WindowStart(w, created), spent |-> delta]
  ELSE [total EXCEPT !.spent = @ + delta]

(* spend._absorb: one row's change of contribution meets one total.        *)
Absorb(total, w, created, delta, inserted) ==
  LET bucket == WindowStart(w, created)
  IN  IF total.start = Unknown THEN total
      ELSE IF bucket = total.start
           THEN [total EXCEPT !.spent = @ + delta]
      ELSE IF inserted /\ bucket > total.start
           THEN [total EXCEPT !.start = bucket, !.spent = delta]
      ELSE IF ~inserted /\ bucket < total.start THEN total
      ELSE [total EXCEPT !.start = Unknown, !.spent = 0]

(* spend.apply_row_changes, for the total of one scope: before and after   *)
(* map row ids to rows; an id of after that before lacks is an insertion.  *)
ApplyRowChanges(total, scope, before, after) ==
  LET Old(id) == IF id \in DOMAIN before THEN Contribution(before[id]) ELSE 0
      Delta(id) == Contribution(after[id]) - Old(id)
      changed == {id \in DOMAIN after : /\ after[id].entity = scope.entity
                                        /\ Delta(id) # 0}
      AbsorbRow(id, acc) == Absorb(acc, scope.window, after[id].created,
                                   Delta(id), id \notin DOMAIN before)
  IN  FoldSet(AbsorbRow, total, changed)

(* The canonical spend formula: the sum of what the rows ids contribute.   *)
SpendOf(rows, ids) ==
  SumFunctionOnSet([id \in DOMAIN rows |-> Contribution(rows[id])], ids)

(* The rows of scope s whose bucket begins at start.                       *)
Bucket(rows, s, start) ==
  {id \in DOMAIN rows : /\ rows[id].entity = s.entity
                        /\ WindowStart(s.window, rows[id].created) = start}

(* The query SCOPE_SPEND_MICROS_SINCE: the spend formula over the rows     *)
(* created at or after start. Released rows add nothing.                   *)
SpendSince(rows, entity, start) ==
  SpendOf(rows, {id \in DOMAIN rows : /\ rows[id].entity = entity
                                      /\ rows[id].created >= start})

(* Mutant of RebuiltTotal: the rows of every bucket are summed.            *)
RebuiltTotalOfAll(rows, scope, now) ==
  [start |-> WindowStart(scope.window, now), spent |-> SpendSince(rows, scope.entity, 0)]

(* _rebuild_total: the total recomputed for the bucket containing now.     *)
RebuiltTotal(rows, scope, now) ==
  LET start == WindowStart(scope.window, now)
  IN  [start |-> start, spent |-> SpendSince(rows, scope.entity, start)]

================================================================================
