----------------------------- MODULE PostgresLocks -----------------------------
(***************************************************************************)
(* storage/postgres.py: the transactions of Ledger as sequences of         *)
(* statements of concurrent sessions, under READ COMMITTED and the locks   *)
(* that PostgresLedgerConnection takes.                                    *)
(*                                                                         *)
(* For each entity, in order, a session takes its advisory lock (shared;   *)
(* exclusive for upsert_limit) and then the entity's limit rows; after all *)
(* entities, the ledger rows it will change. It reads and writes, and      *)
(* commits. What it writes is invisible, and what it locked is held, until *)
(* then. The server rolls a transaction back at lock_timeout, when it      *)
(* detects a deadlock, and when the client is cancelled or gone.           *)
(*                                                                         *)
(* A lock is a pair: <<"shared", e>>, <<"exclusive", e>>, <<"limits", e>>  *)
(* for an entity e, <<"row", id>> for a ledger row, and <<"key", q>> for a *)
(* request_id just inserted into the unique index.                         *)
(***************************************************************************)
EXTENDS Ledger

CONSTANTS
  Sessions,    \* connections of the pool
  NoTx,        \* a session without a transaction
  DbOrder,     \* the entities as ORDER BY scope_type, scope_id sorts them
  RowOrders    \* the orders in which query plans may visit ledger rows

VARIABLE tx    \* session -> its transaction

pgVars == <<clock, limits, ledger, tx>>

ASSUME PostgresAssumption ==
  /\ DbOrder \in Seq(Entities)
  /\ \A e \in Entities : \E i \in DOMAIN DbOrder : DbOrder[i] = e
  /\ RowOrders \subseteq Seq(RowIds)

Active(s) == tx[s] # NoTx
At(s, at) == Active(s) /\ tx[s].at = at
Granted(s) == tx[s].todo = <<>>

--------------------------------------------------------------------------------
(* Locks.                                                                  *)

(* Mutant of ScopeLocks: the advisory locks alone.                         *)
AdvisoryLocks(entities) == [i \in DOMAIN entities |-> <<"shared", entities[i]>>]

(* lock_scope for each entity in turn.                                     *)
ScopeLocks(entities) ==
  [i \in 1..2 * Len(entities) |->
     <<IF i % 2 = 1 THEN "shared" ELSE "limits", entities[(i + 1) \div 2]>>]

(* The list names nothing before something that the order names earlier.   *)
Follows(list, order) ==
  \A i, j \in DOMAIN list :
    i < j => \A k, l \in DOMAIN order : order[k] = list[j] /\ order[l] = list[i] => k >= l

(* The lists of a set, each element once, that follow an order. What the   *)
(* order leaves out may come anywhere.                                     *)
Listings(S, order) ==
  {list \in [1..Cardinality(S) -> S] : Range(list) = S /\ Follows(list, order)}

(* Mutant of SortedEntities: the order is turned round.                    *)
SortedBackwards(ids) ==
  Listings({ledger[id].entity : id \in ids},
           [i \in DOMAIN DbOrder |-> DbOrder[Len(DbOrder) + 1 - i]])

(* The entities of the rows ids, as the database sorts them.               *)
SortedEntities(ids) == Listings({ledger[id].entity : id \in ids}, DbOrder)

(* Mutant of Clash: upsert_limit does not wait for writers.                *)
ClashOfRows(a, b) == a = b /\ a[1] # "shared"

Clash(a, b) ==
  \/ a = b /\ a[1] # "shared"
  \/ {a[1], b[1]} = {"shared", "exclusive"} /\ a[2] = b[2]

(* The sessions that a session waits for. Requests are not queued: a       *)
(* waiting exclusive request does not hold up shared ones.                 *)
Blockers(s) ==
  {u \in Sessions \ {s} :
     Active(u) /\ \E lock \in tx[u].held : Clash(Head(tx[s].todo), lock)}

(* A scope in tracker mode has no limit rows to lock.                      *)
Exists(lock) == lock[1] = "limits" => \E s \in DOMAIN limits : s.entity = lock[2]

Lock(s) ==
  /\ Active(s)
  /\ ~Granted(s)
  /\ Blockers(s) = {}
  /\ tx' = [tx EXCEPT ![s].todo = Tail(@),
                      ![s].held = @ \cup {l \in {Head(tx[s].todo)} : Exists(l)}]
  /\ UNCHANGED vars

--------------------------------------------------------------------------------
(* Beginnings. Budget reads its clock before it has a connection.          *)

NoWrites == [rows |-> <<>>, totals |-> <<>>]

Begin(s, at, work, locks) ==
  /\ tx' = [tx EXCEPT ![s] = [at |-> at, work |-> work, now |-> clock, todo |-> locks,
                              held |-> {}, out |-> NoWrites]]
  /\ UNCHANGED vars

(* _reserve_tx locks its scopes as Python sorted them.                     *)
BeginReserve(s) ==
  \E r \in Reservations, scopes \in Requests, est \in Estimates,
     request \in RequestIds \cup {NoRequest}, ttl \in TTLs :
    /\ RowsOf(r) = {}
    /\ \A u \in Sessions : Active(u) /\ tx[u].work.name = "reserve" => tx[u].work.r # r
    /\ Begin(s, "locking",
             [name |-> "reserve", r |-> r, scopes |-> scopes, est |-> est,
              request |-> request, ttl |-> ttl],
             ScopeLocks([i \in DOMAIN scopes |-> scopes[i].entity]))

(* _lock_reservation reads the scopes of a reservation, which never change.*)
BeginSettle(s) ==
  \E r \in Reservations, cost \in Costs, name \in {"observe", "commit", "release"} :
    /\ RowsOf(r) # {}
    /\ \E entities \in SortedEntities(RowsOf(r)) :
         Begin(s, "locking", [name |-> name, r |-> r, cost |-> cost], ScopeLocks(entities))

BeginSweep(s) == Begin(s, "scanning", [name |-> "sweep"], <<>>)

BeginSetLimit(s) ==
  \E l \in LimitChoices :
    Begin(s, "locking", [name |-> "limit", limit |-> l],
          <<<<"exclusive", l.scope.entity>>, <<"limits", l.scope.entity>>>>)

--------------------------------------------------------------------------------
(* Statements.                                                             *)

(* Mutant of ScanExpired: the scopes are in another order.                 *)
ScanExpiredUnsorted(s) ==
  /\ At(s, "scanning")
  /\ \E entities \in SortedBackwards(ExpiredRows(tx[s].now)) :
       tx' = [tx EXCEPT ![s].at = "locking", ![s].todo = ScopeLocks(entities)]
  /\ UNCHANGED vars

(* EXPIRED_SCOPES: the scopes that a sweep will lock.                      *)
ScanExpired(s) ==
  /\ At(s, "scanning")
  /\ \E entities \in SortedEntities(ExpiredRows(tx[s].now)) :
       tx' = [tx EXCEPT ![s].at = "locking", ![s].todo = ScopeLocks(entities)]
  /\ UNCHANGED vars

(* The rows that ..._ROWS_FOR_UPDATE finds once the scopes are locked.     *)
MatchingRows(s) ==
  IF tx[s].work.name = "sweep"
  THEN {id \in ExpiredRows(tx[s].now) : <<"shared", ledger[id].entity>> \in tx[s].held}
  ELSE RowsOf(tx[s].work.r)

(* Mutant of SelectForUpdate: rows are selected but not locked.            *)
SelectRows(s) ==
  /\ At(s, "locking") /\ Granted(s)
  /\ tx[s].work.name \in {"observe", "commit", "release", "sweep"}
  /\ tx' = [tx EXCEPT ![s].at = "updating"]
  /\ UNCHANGED vars

(* FOR UPDATE locks its rows one by one, in the order the plan visits them.*)
SelectForUpdate(s) ==
  /\ At(s, "locking") /\ Granted(s)
  /\ tx[s].work.name \in {"observe", "commit", "release", "sweep"}
  /\ \E plan \in RowOrders : \E visited \in Listings(MatchingRows(s), plan) :
       tx' = [tx EXCEPT ![s].at = "updating",
                        ![s].todo = [i \in DOMAIN visited |-> <<"row", visited[i]>>]]
  /\ UNCHANGED vars

(* The rows that the UPDATE of a transaction changes, with their new       *)
(* contents. A row that another session settled while it was waited for    *)
(* no longer matches.                                                      *)
Updated(s) ==
  LET w == tx[s].work
  IN  CASE w.name = "observe" ->
             [id \in RowsIn(w.r, "reserved") |-> Observed(ledger[id], w.cost)]
        [] w.name = "commit" /\ RowsIn(w.r, "reserved") # {} ->
             [id \in RowsIn(w.r, "reserved") |-> Paid(ledger[id], w.cost)]
        [] w.name = "commit" /\ RowsIn(w.r, "reserved") = {} ->
             [id \in LapsedRows(w.r) |-> PaidLate(ledger[id], w.cost)]
        [] w.name = "release" ->
             [id \in RowsIn(w.r, "reserved") |-> Refunded(ledger[id])]
        [] w.name = "sweep" ->
             [id \in {x \in ExpiredRows(tx[s].now) : <<"row", x>> \in tx[s].held} |->
                Lapsed(ledger[id])]

(* STORE_WINDOW_TOTAL stores the changed totals, as absolute values.       *)
ChangedTotals(lims) ==
  [x \in {y \in DOMAIN limits : lims[y].total # limits[y].total} |-> lims[x].total]

Written(s, before, read, after, lock) ==
  /\ tx' = [tx EXCEPT ![s].at = "writing",
                      ![s].held = @ \cup lock,
                      ![s].out = [rows |-> after,
                                  totals |-> ChangedTotals(Track(read, before, after))]]
  /\ UNCHANGED vars

WriteUpdate(s) ==
  /\ At(s, "updating") /\ Granted(s)
  /\ Written(s, ledger, limits, Updated(s), {})

(* An insertion waits for a transaction that has inserted the same key.    *)
KeyIsFree(s, q) == \A u \in Sessions \ {s} : Active(u) => <<"key", q>> \notin tx[u].held

(* The cap checks, then the insertions; a refusal or a conflict rolls back.*)
WriteReservation(s) ==
  LET w == tx[s].work
      new == NewRows(w.r, w.scopes, w.est, w.request, tx[s].now, w.ttl)
      fits == Fits(w.scopes, w.est, tx[s].now)
  IN  /\ At(s, "locking") /\ Granted(s) /\ w.name = "reserve"
      /\ fits => KeyIsFree(s, w.request)
      /\ IF fits /\ ~Conflicts(w.scopes, w.request)
         THEN Written(s, <<>>, Checked(w.scopes, tx[s].now), new,
                      {<<"key", q>> : q \in {w.request} \ {NoRequest}})
         ELSE tx' = [tx EXCEPT ![s] = NoTx] /\ UNCHANGED vars

--------------------------------------------------------------------------------
(* Endings.                                                                *)

(* A reading older than MaxLag, kept alive by waits, is left out: a bound. *)
CommitWrites(s) ==
  LET out == tx[s].out
  IN  /\ At(s, "writing")
      /\ tx[s].work.name \in {"reserve", "sweep"} => tx[s].now \in Recent
      /\ ledger' = [id \in DOMAIN ledger \cup DOMAIN out.rows |->
                      IF id \in DOMAIN out.rows THEN out.rows[id] ELSE ledger[id]]
      /\ limits' = [x \in DOMAIN limits |->
                      IF x \in DOMAIN out.totals
                      THEN [limits[x] EXCEPT !.total = out.totals[x]] ELSE limits[x]]
      /\ tx' = [tx EXCEPT ![s] = NoTx]
      /\ UNCHANGED clock

(* UPSERT_LIMIT and its commit.                                            *)
CommitLimit(s) ==
  LET w == tx[s].work
  IN  /\ At(s, "locking") /\ Granted(s) /\ w.name = "limit"
      /\ SetLimit(w.limit.scope, w.limit.cap, w.limit.grace)
      /\ tx' = [tx EXCEPT ![s] = NoTx]

Rollback(s) ==
  /\ Active(s)
  /\ tx' = [tx EXCEPT ![s] = NoTx]
  /\ UNCHANGED vars

PgInit == Init /\ tx = [s \in Sessions |-> NoTx]

PgNext ==
  \/ \E s \in Sessions :
       \/ /\ ~Active(s)
          /\ BeginReserve(s) \/ BeginSettle(s) \/ BeginSweep(s) \/ BeginSetLimit(s)
       \/ Lock(s) \/ ScanExpired(s) \/ SelectForUpdate(s)
       \/ WriteUpdate(s) \/ WriteReservation(s)
       \/ CommitWrites(s) \/ CommitLimit(s) \/ Rollback(s)
  \/ Tick /\ UNCHANGED tx

PgSpec == PgInit /\ [][PgNext]_pgVars

--------------------------------------------------------------------------------
(* Properties.                                                             *)

(* The transactions of concurrent sessions, cut into statements and rolled *)
(* back anywhere, change the tables as if each ran alone: no total loses   *)
(* an update, no row is settled twice, no limit appears unnoticed          *)
(* (storage/__init__.py, LedgerConnection; postgres.py).                   *)
ImplementsLedger == Spec

Waiting(s) == Active(s) /\ ~Granted(s)
Awaited(s) == Head(tx[s].todo)
Circle(S) == S # {} /\ \A s \in S : Waiting(s) /\ Blockers(s) \cap S # {}

(* Sessions never wait for one another in a circle: "One global order      *)
(* means concurrent writers cannot deadlock" (sql/postgres.py).            *)
NoDeadlock == ~ \E S \in SUBSET Sessions : Circle(S)

WaitsForBareRow(s) ==
  Awaited(s)[1] = "row" /\ ~Exists(<<"limits", ledger[Awaited(s)[2]].entity>>)

(* Nothing orders the rows that FOR UPDATE locks, so settlements and sweeps*)
(* of scopes without a limit, which meet nowhere else, may deadlock over   *)
(* them. But that is all: the sessions of any circle that wait for such    *)
(* rows form a circle of their own.                                        *)
CirclesAreOverBareRows ==
  \A S \in SUBSET Sessions :
    Circle(S) => \E T \in SUBSET S : Circle(T) /\ \A s \in T : WaitsForBareRow(s)

(* A transaction writes only what it has locked: existing ledger rows, and *)
(* totals under the limit rows of their scope (sql/postgres.py: scopes are *)
(* locked "before touching ledger rows").                                  *)
WritesAreLocked ==
  \A s \in Sessions :
    At(s, "writing") =>
      /\ \A id \in DOMAIN tx[s].out.rows \cap DOMAIN ledger : <<"row", id>> \in tx[s].held
      /\ \A x \in DOMAIN tx[s].out.totals : <<"limits", x.entity>> \in tx[s].held

(* A commit charges every row of its reservation, those that a sweep       *)
(* released included (core.Budget.sweep: a later commit is honored as a    *)
(* late commit).                                                           *)
CommitsWhole ==
  \A id, other \in DOMAIN ledger :
    id[1] = other[1] /\ ledger[id].state = "committed"
      => ledger[other].state = "committed"

================================================================================
