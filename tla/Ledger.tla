-------------------------------- MODULE Ledger --------------------------------
(***************************************************************************)
(* The ledger database: the tables snipz_limits and snipz_ledger, and the  *)
(* transactions that core.Budget runs on them through a LedgerConnection.  *)
(*                                                                         *)
(* Every transaction is one step. SQLite runs it under BEGIN IMMEDIATE;    *)
(* Postgres runs it under the locks of every scope it reads or writes.     *)
(* A transaction that raises is rolled back and is not a step.             *)
(*                                                                         *)
(* Budget.reserve reads its clock before it waits for the transaction, so  *)
(* a reservation is checked and stamped with an instant that may be up to  *)
(* MaxLag in the past, and a sweep may use one; MaxLag also stands for the *)
(* skew between writers' clocks.                                           *)
(***************************************************************************)
EXTENDS SpendTotals, Sequences

CONSTANTS
  Reservations,   \* reservation ids (fresh UUIDs)
  RequestIds,     \* caller's idempotency keys
  NoRequest,      \* request_id = None
  Requests,       \* the tuples of scopes that callers reserve against
  Estimates,      \* bound: estimates, in the caller's units
  Costs,          \* bound: observed and actual costs, in the caller's units
  TTLs,           \* bound: times to live
  LimitChoices,   \* bound: the limits [scope, cap, grace] that set_limit sets
  MaxLag          \* bound: age of the clock reading a transaction uses

VARIABLES
  clock,          \* the present instant
  limits,         \* snipz_limits: scope -> [cap, grace, total]
  ledger          \* snipz_ledger: row id -> row

vars == <<clock, limits, ledger>>

ASSUME LedgerAssumption ==
  /\ Requests \subseteq Seq(Scopes) \ {<<>>}
  /\ Estimates \subseteq Nat /\ Costs \subseteq Nat
  /\ TTLs \subseteq Nat \ {0}
  /\ NoRequest \notin RequestIds
  /\ \A l \in LimitChoices :
       l.scope \in Scopes /\ l.cap \in Nat /\ l.grace \in Nat
  /\ MaxLag \in Nat

(* The n-th row of a reservation has the id <<reservation, n>>.            *)
RowIds == Reservations \X (Nat \ {0})

RowsOf(r) == {id \in DOMAIN ledger : id[1] = r}

(* Mutant of RowsIn: the first row of a reservation instead of all.        *)
FirstRowIn(r, state) == {id \in RowsOf(r) : id[2] = 1 /\ ledger[id].state = state}

RowsIn(r, state) == {id \in RowsOf(r) : ledger[id].state = state}

(* Mutant of LapsedRows: rows released by their caller count as lapsed.    *)
ReleasedRows(r) == RowsIn(r, "released")

(* The rows that COMMIT_LATE matches: released by the sweeper.             *)
LapsedRows(r) == {id \in RowsIn(r, "released") : ledger[id].late}

(* Mutant of ExpiredRows: rows already settled match as well.              *)
PastRows(now) == {id \in DOMAIN ledger : ledger[id].expires < now}

(* The rows that EXPIRED_ROWS and SWEEP_EXPIRED match.                     *)
ExpiredRows(now) == {id \in DOMAIN ledger : /\ ledger[id].state = "reserved"
                                            /\ ledger[id].expires < now}

--------------------------------------------------------------------------------
(* The cap check.                                                          *)

(* The limit row of s after current_spend has read it at instant now.      *)
Refreshed(s, now) ==
  IF SpentInWindow(limits[s].total, s.window, now) = Unknown
  THEN [limits[s] EXCEPT !.total = RebuiltTotal(ledger, s, now)]
  ELSE limits[s]

(* current_spend, in the caller's units.                                   *)
CurrentSpend(s, now) ==
  FromMicros(SpentInWindow(Refreshed(s, now).total, s.window, now))

(* cap_with_grace is cap * (100 + grace) / 100; compared without dividing. *)
WithinCap(amount, limit) == 100 * amount <= limit.cap * (100 + limit.grace)

(* No limit row means tracker mode: the scope is recorded, never refused.  *)
Fits(scopes, est, now) ==
  \A i \in DOMAIN scopes :
    scopes[i] \in DOMAIN limits =>
      WithinCap(CurrentSpend(scopes[i], now) + est, limits[scopes[i]])

(* The unique index on request_id refuses the insertion: the key is in the *)
(* table, or a second row of the same group carries it again.              *)
Conflicts(scopes, request) ==
  /\ request # NoRequest
  /\ \/ Len(scopes) > 1
     \/ \E id \in DOMAIN ledger : ledger[id].request = request

(* The limits after _track has folded changed rows into the totals of      *)
(* every window of their scopes.                                           *)
Track(lims, before, after) ==
  [s \in DOMAIN lims |->
     [lims[s] EXCEPT !.total = ApplyRowChanges(@, s, before, after)]]

--------------------------------------------------------------------------------
(* Transactions.                                                           *)

(* Mutant of SetLimit: a changed limit starts counting from nothing.       *)
SetLimitFromNothing(s, cap, grace) ==
  /\ limits' = [x \in DOMAIN limits \cup {s} |->
                  IF x = s
                  THEN [cap |-> cap, grace |-> grace,
                        total |-> [start |-> WindowStart(s.window, clock), spent |-> 0]]
                  ELSE limits[x]]
  /\ UNCHANGED <<clock, ledger>>

(* upsert_limit: a new or changed limit starts with an unknown total.      *)
SetLimit(s, cap, grace) ==
  /\ limits' = [x \in DOMAIN limits \cup {s} |->
                  IF x = s
                  THEN [cap |-> cap, grace |-> grace, total |-> UnknownTotal]
                  ELSE limits[x]]
  /\ UNCHANGED <<clock, ledger>>

NewRow(s, est, request, now, ttl) ==
  [entity |-> s.entity, state |-> "reserved", late |-> FALSE,
   est |-> ToMicros(est), actual |-> NoCost, request |-> request,
   expires |-> now + ttl, created |-> now]

NewRows(r, scopes, est, request, now, ttl) ==
  [id \in {r} \X DOMAIN scopes |-> NewRow(scopes[id[2]], est, request, now, ttl)]

(* The limits after the cap checks, which may rebuild totals.              *)
Checked(scopes, now) ==
  [s \in DOMAIN limits |->
     IF \E i \in DOMAIN scopes : scopes[i] = s THEN Refreshed(s, now) ELSE limits[s]]

(* _reserve_tx when it succeeds: every cap is checked, then one row per    *)
(* scope is inserted and counted.                                          *)
Reserve(r, scopes, est, request, now, ttl) ==
  LET new == NewRows(r, scopes, est, request, now, ttl)
  IN  /\ RowsOf(r) = {}
      /\ Fits(scopes, est, now)
      /\ ~Conflicts(scopes, request)
      /\ ledger' = [id \in DOMAIN ledger \cup DOMAIN new |->
                      IF id \in DOMAIN new THEN new[id] ELSE ledger[id]]
      /\ limits' = Track(Checked(scopes, now), <<>>, new)
      /\ UNCHANGED clock

(* The changes that the UPDATE statements make to a row.                   *)
Observed(row, cost) == [row EXCEPT !.actual = ToMicros(cost)]
Paid(row, cost) == [row EXCEPT !.state = "committed", !.actual = ToMicros(cost)]
PaidLate(row, cost) == [Paid(row, cost) EXCEPT !.late = TRUE]
Refunded(row) == [row EXCEPT !.state = "released"]
Lapsed(row) == [row EXCEPT !.state = "released", !.late = TRUE]

(* An UPDATE of the rows ids, followed by _track.                          *)
Update(ids, Set(_)) ==
  LET after == [id \in ids |-> Set(ledger[id])]
  IN  /\ ledger' = [id \in DOMAIN ledger |->
                      IF id \in ids THEN after[id] ELSE ledger[id]]
      /\ limits' = Track(limits, ledger, after)
      /\ UNCHANGED clock

(* update_observation.                                                     *)
Observe(r, cost) ==
  Update(RowsIn(r, "reserved"), LAMBDA row : Observed(row, cost))

(* commit_reservation: the normal transition, or the late one when no row  *)
(* is reserved any more.                                                   *)
Commit(r, cost) ==
  \/ /\ RowsIn(r, "reserved") # {}
     /\ Update(RowsIn(r, "reserved"), LAMBDA row : Paid(row, cost))
  \/ /\ RowsIn(r, "reserved") = {}
     /\ Update(LapsedRows(r), LAMBDA row : PaidLate(row, cost))

(* release_reservation: rows already settled are left alone.               *)
Release(r) ==
  Update(RowsIn(r, "reserved"), LAMBDA row : Refunded(row))

(* sweep_expired.                                                          *)
SweepAt(now) ==
  Update(ExpiredRows(now), LAMBDA row : Lapsed(row))

Tick ==
  /\ clock < MaxTime
  /\ clock' = clock + 1
  /\ UNCHANGED <<limits, ledger>>

--------------------------------------------------------------------------------
Init ==
  /\ clock = 0
  /\ limits = <<>>
  /\ ledger = <<>>

(* The clock readings in use.                                              *)
Recent == {now \in Time : now <= clock /\ clock - now <= MaxLag}

SetSomeLimit == \E l \in LimitChoices : SetLimit(l.scope, l.cap, l.grace)

ReserveAt(r, scopes, now) ==
  \E est \in Estimates, request \in RequestIds \cup {NoRequest}, ttl \in TTLs :
    Reserve(r, scopes, est, request, now, ttl)

ReserveSome ==
  \E r \in Reservations, scopes \in Requests, now \in Recent : ReserveAt(r, scopes, now)

ObserveSome == \E r \in Reservations, cost \in Costs : Observe(r, cost)
(* A commit that names no cost pays the estimate.                          *)
CommitSome == \E r \in Reservations, cost \in Costs \cup Estimates : Commit(r, cost)
ReleaseSome == \E r \in Reservations : Release(r)

Sweep == \E now \in Recent : SweepAt(now)

Next ==
  \/ SetSomeLimit
  \/ ReserveSome
  \/ ObserveSome
  \/ CommitSome
  \/ ReleaseSome
  \/ Sweep
  \/ Tick

Spec == Init /\ [][Next]_vars

--------------------------------------------------------------------------------
(* Properties.                                                             *)

Row == [entity : Entities, state : {"reserved", "committed", "released"},
        late : BOOLEAN, est : Nat, actual : Nat \cup {NoCost},
        request : RequestIds \cup {NoRequest}, expires : Nat, created : Time]

LedgerTyped == DOMAIN ledger \subseteq RowIds /\ ledger \in [DOMAIN ledger -> Row]

LimitsTyped ==
  /\ DOMAIN limits \subseteq Scopes
  /\ \A s \in DOMAIN limits :
       /\ DOMAIN limits[s] = {"cap", "grace", "total"}
       /\ limits[s].cap \in Nat /\ limits[s].grace \in Nat

TotalsTyped ==
  \A s \in DOMAIN limits :
    limits[s].total \in [start : Boundaries[s.window] \cup {Unknown}, spent : Nat]

TablesTyped == clock \in Time /\ LedgerTyped /\ LimitsTyped

(* The tables hold what their columns allow, and no running total is ever  *)
(* negative or stands at an instant that begins no bucket of its window.   *)
TypeOK == TablesTyped /\ TotalsTyped

(* The rows of one reservation are settled, expire and are swept together. *)
GroupsAgree ==
  \A id \in DOMAIN ledger :
    LET first == ledger[<<id[1], 1>>]
    IN  /\ <<id[1], 1>> \in DOMAIN ledger
        /\ ledger[id].state = first.state
        /\ ledger[id].late = first.late
        /\ ledger[id].expires = first.expires
        /\ ledger[id].late => ledger[id].state # "reserved"

(* A known running total is the sum of its bucket's rows, whatever order   *)
(* inserts, settlements, sweeps and changes of limit came in: "a total     *)
(* MUST always equal" the formula (protocol 7.2; spend.py).                *)
TotalsMatchLedger ==
  \A s \in DOMAIN limits :
    LET total == limits[s].total
    IN  total.start # Unknown =>
          total.spent = SpendOf(ledger, Bucket(ledger, s, total.start))

(* The spend of scope s in the bucket that contains instant t.             *)
BucketSpend(rows, s, t) == SpendOf(rows, Bucket(rows, s, WindowStart(s.window, t)))

(* A reservation that is granted leaves every capped scope it names within *)
(* its cap and grace, by the ledger's own rows in the bucket the           *)
(* reservation is stamped with (core._reserve_tx; protocol section 3).     *)
GrantsWithinCap ==
  [][\A r \in Reservations, scopes \in Requests :
       LET now == ledger'[<<r, 1>>].created
       IN  RowsOf(r) = {} /\ RowsOf(r)' # {} /\ ReserveAt(r, scopes, now) =>
             \A i \in DOMAIN scopes :
               scopes[i] \in DOMAIN limits =>
                 WithinCap(FromMicros(BucketSpend(ledger', scopes[i], now)),
                           limits[scopes[i]])]_vars

(* The phase of a reservation: that of all its rows.                       *)
PhaseOf(row) ==
  CASE row.state = "released" /\ row.late -> "lapsed"
    [] row.state = "committed" /\ row.late -> "committedLate"
    [] OTHER -> row.state

Phase(r) ==
  IF RowsOf(r) = {} THEN "none"
  ELSE IF \A id \in RowsOf(r) : PhaseOf(ledger[id]) = PhaseOf(ledger[<<r, 1>>])
       THEN PhaseOf(ledger[<<r, 1>>])
       ELSE "torn"

LifecycleOf == INSTANCE Lifecycle WITH phase <- [r \in Reservations |-> Phase(r)]

(* Every reservation, however many rows it has, moves as one through the   *)
(* state machine: commit, release, sweep and late commit in any order      *)
(* settle it whole and at most once (protocol section 8; sql COMMIT_*,     *)
(* RELEASE_BY_CALLER, SWEEP_EXPIRED).                                      *)
FollowsLifecycle == LifecycleOf!Spec

(* A reservation as a booking: its rows all carry the same amounts.        *)
Booking(r) ==
  LET row == ledger[<<r, 1>>]
  IN  [entities |-> {ledger[id].entity : id \in RowsOf(r)},
       phase |-> CASE row.state = "reserved" -> "held"
                   [] row.state = "committed" -> "paid"
                   [] row.state = "released" /\ row.late -> "lapsed"
                   [] OTHER -> "refunded",
       floor |-> row.est, charge |-> Contribution(row),
       created |-> row.created, expires |-> row.expires]

SpendCapOf ==
  INSTANCE SpendCap WITH
    caps <- [s \in DOMAIN limits |-> [cap |-> limits[s].cap, grace |-> limits[s].grace]],
    book <- [r \in {x \in Reservations : RowsOf(x) # {}} |-> Booking(r)]

(* Checking the cap against running totals is as good as summing the       *)
(* ledger at every reservation: no booking is made that the formula of     *)
(* protocol section 7 refuses.                                             *)
ImplementsSpendCap == SpendCapOf!Spec

================================================================================
