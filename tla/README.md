# Snipz in TLA+

Snipz enforces spending caps on calls to language-model providers. A caller
*reserves* an estimated cost against one or more scopes, does the call, and
*commits* the actual cost or *releases* the reservation; a sweeper releases what
nobody settles in time. Everything rests on two promises that are hard to test:
no interleaving of callers exceeds a cap, and no interleaving of callers, retries
and sweepers settles a reservation twice, or half.

This directory holds a TLA+ model of that code, the TLC configurations that check
it on small instances, and proofs checked by TLAPS. Source paths below are
relative to `src/snipz/`; `snipz-protocol.md` is at the root of the repository.

## The system

| Component | Source | State it keeps | Operations |
|---|---|---|---|
| Ledger database | `storage/__init__.py`, `storage/sqlite.py`, `storage/sql/sqlite.py` | tables `snipz_limits`, `snipz_ledger` | `upsert_limit`, `insert_ledger_row`, `update_observation`, `commit_reservation`, `release_reservation`, `sweep_expired`, `find_by_request_id`, each inside a transaction |
| Spend arithmetic | `storage/spend.py`, `ledger.py` | none; the totals it computes are columns of `snipz_limits` | contribution of a row, reading, rolling over and rebuilding a running total, window starts, cap with grace |
| Budget, Reservation | `core.py` | the `Reservation` objects (handles) callers hold: a copy of a row's state | `reserve`, `observe`, `commit`, `release`, the context manager, `set_limit`, `sweep` |
| Events | `events.py` | handlers per event | `fire`: reserved, committed, released, overrun |
| Sweeper | `sweep.py`, `cli.py` (`snipz sweep`) | a counter and a stop event | `sweep_once`, `sweep_loop`, the signal handlers |
| SQLite writer | `SqliteBackend` in `storage/sqlite.py` | an `asyncio.Lock`, one connection, its open transaction | `transaction`, `connect`, `migrate`, `close` |
| Postgres backend | `storage/postgres.py`, `storage/sql/postgres.py` | a pool; advisory and row locks | the same operations, under locks per scope |
| Provider integrations | `integrations/` | one reservation per call or stream | reserve, call, settle success, settle failure |
| Decorator | `decorator.py` | one reservation per call | reserve, call, observe, exit |
| Synchronous wrapper | `sync.py` | a background event loop and its thread | start, run, shut down |
| Pricing | `pricing.py`, the pricing half of `integrations/` | a price book | load, override, look up, tiers, cost, estimate, usage of a response |
| Estimators, rest of the command line, benchmarks | `estimators/`, `cli.py`, `benchmarks/` | none | pure functions and I/O |
| Migrations | `storage/migrations/` | schema version | apply pending scripts |

How they meet: the integrations, the decorator and the synchronous wrapper call
`Budget` and the handles it returns; these run one transaction each on the ledger
database; every write folds its row changes into the running totals through
`spend.py`; the sweeper is one more writer. Handles are not refreshed: what a
handle says may have been overtaken by another handle or by the sweeper.

What is hard, and what must hold of it:

- *Totals are a cache.* A cap check reads a running total of one bucket, kept by
  every insert, settlement and sweep, rolled over and rebuilt. It must equal the
  sum over the ledger, or caps drift.
- *Time is read early.* `reserve` reads its clock before it waits for its
  transaction; writers have clocks of their own.
- *Reservations are groups of rows.* They must be settled together.
- *Settlements race.* Commit, release, sweep and late commit of one reservation
  come in any order, from handles that do not know of each other.
- *Retries race.* Callers with one `request_id` converge through a pre-check, a
  unique index and a re-query.
- *Tasks stop anywhere.* A coroutine can be cancelled at every await, and a
  process can die between two transactions.
- *Postgres runs statements, not transactions.* Locks taken scope by scope must
  make them look like one step, without circular waits.
- *A connection outlives its transaction.* SQLite has one writer connection per
  process; a statement that fails, or whose waiter is cancelled, leaves it in a
  state the next writer meets.
- *Money is spent outside.* The provider may bill a call after its caller gave up,
  and the settlement of a paid call can itself be cancelled, fail, or come after
  the sweeper.
- *Two kinds of concurrency meet.* The synchronous wrapper lets threads share an
  event loop that the first of them starts and the end of the process stops.

`PROJECT.json` lists every hazard at its line with the properties that cover it.

## Modules

| Module | Models | Shape |
|---|---|---|
| `SpendTotals` | `ledger.py`, `storage/spend.py`, the spend query | operators over amounts, windows, rows and totals |
| `Ledger` | the two tables and the transactions `core.py` runs on them | one action per transaction |
| `Budget` | `core.py` above the ledger, and which events `events.py` fires | EXTENDS `Ledger`; one action per stretch of a coroutine between two awaits |
| `Lifecycle` | section 8 of the protocol, over whole reservations | abstract specification |
| `SpendCap` | section 7 of the protocol: a book of charges, summed afresh at each booking | abstract specification |
| `PostgresLocks` | `storage/postgres.py`: the transactions of `Ledger` as locking, reading and writing statements of concurrent sessions | EXTENDS `Ledger`; one action per statement |
| `SqliteWriter` | `transaction`, `migrate` and `close` of `storage/sqlite.py` | tasks that wait for statements, connections that run them, processes on one file |
| `SweepLoop` | `sweep.py` and `snipz sweep` | EXTENDS `Budget`, whose one-step sweep it replaces by sweepers |
| `Pricing` | `pricing.py` and what the integrations reserve and settle with | operators over rates, tiers, usages |
| `GuardedCall` | `integrations/` and `decorator.py` over reservations, a provider and a sweeper | EXTENDS `Pricing`; refines `Lifecycle` |
| `SyncLoop` | `sync.py` | threads, a lock, event loops, the main thread |
| `MC*` | small instances | constants for the runs |
| `*_proofs` | theorems about the module of that name; `Ledger_proofs` shows that `Ledger` implements `Lifecycle` and `SpendCap`, `Budget_proofs` and `PostgresLocks_proofs` that `Budget` and `PostgresLocks` implement `Ledger`, `SweepLoop_proofs` that `SweepLoop` implements `Budget` | theorems |

**Ledger.** `limits` is `snipz_limits` as a function from scope to cap, grace and
running total; `ledger` is `snipz_ledger` as a function from row id to row. The
n-th row of reservation `r` is `<<r, n>>`; `entity` stands for the columns
`(scope_type, scope_id)`. A transaction is one step: SQLite runs it under
`BEGIN IMMEDIATE`, and one that raises is rolled back and is no step. `Update` is
the pattern of every settlement: the rows a statement matches, their new values,
and `_track`, which folds the changes into the totals of *every* window of their
entities. `MaxLag` bounds how old the clock reading
of a reservation or a sweep may be.

**Budget.** `op` is where each task's coroutine is; `handle` is the
`Reservation` object that its `reserve` returned; `answer` and `fired` record
what callers and listeners were told. `ReserveTx`, `CommitTx`, `ReleaseTx` and
`ObserveTx` are the transactions; the `Return` actions are the code after the
await, which works with what the transaction answered while others move on.
`CommitAnnounce` is separate because async handlers of `overrun` are awaited
before `committed` is fired. `Abandon` is cancellation or death at an await.
`Sharing` lets a second task use a handle. `__aexit__` is `Exit`.

**PostgresLocks.** `tx` is each session's open transaction: what it is for, the
clock reading it uses, the locks it holds and still has to take, and what it has
written but not committed. `Lock` takes the next lock when no other session holds
one that clashes (`Blockers`): the advisory lock of a scope, its limit rows, then
ledger rows. `WriteUpdate` and `WriteReservation` read the committed tables, as
READ COMMITTED does, and keep the new rows and the totals as absolute values;
`CommitWrites` makes them visible. `Rollback` may happen anywhere: cancellation,
`lock_timeout`, a detected deadlock, a lost connection. `DbOrder` is the order of
`ORDER BY scope_type, scope_id`; requests carry the order of Python's `sorted`.
`RowOrders` are the orders in which query plans visit rows. The scopes or rows that
a query returns are one of the `Listings` of their set: each once, in a list that
`Follows` an order. Lock requests are not
queued, which allows more interleavings than the server does. The limit rows of
one scope are locked together: every writer locks them by the same query, in
window order. `ImplementsLedger` closes the gap that `Ledger` leaves by taking a
transaction as one step.

**SqliteWriter.** A task waits for one thing at a time (`pc`): the process's queue
(`_write_queue`), or the reply to a statement. Statements are jobs of the
connection's thread, run in order by `Execute`. This is external, aiosqlite and
SQLite, and has one property everything turns on: cancelling a waiter does not
cancel its statement (`Orphaned`), while `in_transaction` is read at once.
`Unwind` is the outer handler of `transaction`, which discards a connection that is
in a transaction; `CloseWriter` is `close`. `file` keeps which writes have landed
and how far the schema is. `FirstScript` runs 0001 in autocommit, tables before
version; `LaterScript` is a script with its own `BEGIN`, left open when it fails, and
with the `ALTER` and the lock in it (`Altered`) when it fails late.
Processes contend for `lock` and may `Crash`.

**SweepLoop.** `sweeper` is where each sweeper is. An iteration reads its clock,
runs its transaction, learns the count; it may fail before the commit
(`IterationFails`) or lose the answer after it (`AnswerLost`). A one-shot does the
same once and exits, with its clock and its transaction in one step (`SweepOnce`)
and any reading that is not too old. `CheckStop`,
`WokenByStop` and `IntervalOver` are the ends of the wait, `Signal` the handler of
SIGINT and SIGTERM, `CancelSweeper` a cancellation, which the wait swallows and an
iteration does not. `found` is the count under way, `total` what the loop will
return, `missed` what a lost answer hid.

**Pricing.** A rate is an amount per token, or `NoRate`; a tier replaces the rates
it names. `Cost` is `Pricing.cost`, `Unpriceable` its `ValueError`; `EstimateCents`
and `SettledCents` are the integrations' `_estimate_cents` and their pricing of a
response of which nothing, the start or all was read. `ProviderBill` is the other
side: what the provider charges. `Allowed` says which usages a request can have,
`Bounded` what must hold of rates for the estimate to be a bound.

**GuardedCall.** A caller (`job`) is a guarded `create`, a guarded `stream` or a
decorated call. `Reserve` makes or finds the reservation; `Begin` refuses a
duplicate, unless the caller is decorated; `wire` is the request as the provider
sees it, billed or rejected at any time after it was sent; `LoseTouch`,
`SeeRejection` and `FailOtherwise` are the three ways `settle_failure` classifies
an exception; `settling` is the shielded task that settles then, which goes on when
its caller is cancelled (`Reraise`). `Lapse` is the sweeper. The step `Reserve`
stands for what `Budget` does in several; `PaidOnce` is what justifies it.

**SyncLoop.** `_run` and `_ensure_loop` are cut at each read and write of the
module's globals, which `_lock` protects only in part; a loop is a queue of
callbacks with a state; `main` goes through the atexit handler. The interpreter's
rule that atexit handlers run when all other than daemon threads have ended is
external.

**Mutants.** A definition introduced by "Mutant of X" is a faulty version of `X`,
used by no specification: `PROJECT.json` names, for each property, the mutant
that breaks it. They show that the properties depend on the code's details.

## Runs

Runs that pass:

| Run | Question |
|---|---|
| `ledger_caps` | With one clock for all writers (`MaxLag = 0`), is every known total the sum of its bucket (`TotalsMatchLedger`), does every grant stay within its caps by the ledger's own rows (`GrantsWithinCap`), and is the whole a behaviour of `SpendCap`, which has no totals at all (`ImplementsSpendCap`)? Do the rows of a reservation agree (`GroupsAgree`) and move through the protocol's state machine as one (`FollowsLifecycle`)? |
| `sweep_loop` | A loop and a cron job sweep while two tasks settle one composite reservation through one handle. Does abandoned budget return through errors and lost answers (`AbandonedBudgetReturns`), is every released row counted once (`ReportsAddUp`), does a signal end the loop (`SignalEndsTheLoop`), is a committed handle right (`CommittedHandlesAreTrue`)? |
| `budget_retries` | Two callers retry one request or make their own, with sweeps, changes of limit and cancellation anywhere: `PaidOnce`, `ConflictsConverge`, `CommittedHandlesAreTrue`, `CommittedHandlesShowTheCharge`, `EventsMatchLedger`, and every step is a step of `Ledger` (`ImplementsLedger`). |
| `postgres_settle` | Two sessions observe, commit, release, sweep and limit a composite reservation, with a clock that moves and lags by one: is every interleaving of statements one of whole transactions (`ImplementsLedger`), does each write only what it has locked (`WritesAreLocked`)? Two plans visit the rows of the reservation in opposite orders; do sessions wait for each other over nothing else than rows without a limit (`CirclesAreOverBareRows`)? |
| `postgres_reserve` | The same for two sessions that reserve and settle, alone or in composites, with an idempotency key, while caps appear: no total misses a reservation in flight, an insertion waits for a key in flight, and no two wait for each other (`NoDeadlock`): the scope orders of reservations and settlements do not cross, and plans visit the rows of a reservation alike. |
| `guarded_calls` | Two callers of every pair of kinds, at both providers, below and above a tier. Is one request paid once (`GuardedPaidOnce`), is what was billed charged (`ChargeCoversBill`) and never more than was reserved (`ChargeWithinReservation`), is a call in doubt charged although its caller is cancelled again (`DoubtIsCharged`), and do reservations follow the protocol (`ImplementsLifecycle`)? |
| `sqlite_writer` | Two tasks of a process and one of another write, migrate or close, with a statement that fails, a task that is cancelled and processes that die. Does the file hold what the callers were told (`AnswersMatchFile`), does no writer inherit another's writes (`NoInheritedWrites`), has a migration that returns applied every script (`MigrateCompletes`), and does every call come back (`WritersReturn`)? |
| `sync_loop` | Three threads, one a daemon, make their first call together and the process ends: do all calls run on one loop (`OneLoop`), does every call return (`SyncCallsReturn`)? |

Runs that show where the code and its documents disagree; each checks one
property, which the document states, and TLC finds the counterexample:

| Run | What happens |
|---|---|
| `ledger_lag` | Allow a clock reading one instant old. Reservation A reads the clock before midnight and lands after B, which read it after midnight. The total of the day then leaves rows out or counts rows of both days, and a third reservation exceeds the cap. Within one process on SQLite the writer's queue is first come first served, so readings land in the order they were taken; the inversion needs two processes, two hosts, Postgres, or a clock set back. |
| `postgres_sweep` | A sweep scans; a composite reservation that waited longer than its time to live commits; the sweep releases it in the scanned scope only; the commit that follows charges only the other row. |
| `guarded_decorator` | Two decorated calls with one `request_id`: the second gets the first one's reservation, runs the paid function, and its commit finds nothing to charge. |
| `sqlite_begin` | A task is cancelled while it waits for `BEGIN IMMEDIATE`. The statement stays queued, `in_transaction` is still false, the connection is kept; then `BEGIN` runs, and nobody is left to end its transaction. The next call of the process fails and replaces the connection (`WritersReturn` holds); until then every other process is locked out. |

**Disagreements without a run.** Each is one step of an action, or a change of one
constant.

- The same entity under two windows in one reservation is checked once per window
  and inserted twice, and each window counts both rows (`Fits` and `NewRows`;
  `core.py:519`), so the cap can be exceeded, against `snipz-protocol.md:75`. Give
  `Requests` a tuple such as user per day, user per lifetime: `GrantsWithinCap`
  fails in two steps, with `MaxLag = 0`. `GrantsStayWithinCap` excludes it by
  `DistinctEntities`; the attempt to prove it without is what found this.
- A composite reservation with a `request_id` meets the unique index on its own
  second row, and the re-query finds nothing (`Conflicts`;
  `migrations/sqlite/0001_initial.sql:70`), where `storage/__init__.py:213` expects
  "all ledger rows sharing a ``request_id`` (one per scope)". Give `Calls` one:
  `ConflictsConverge` fails. `ConflictsAreRecovered` proves it otherwise.
- An exception in the block releases a reservation with observed cost (`Exit`,
  `core.py:187`), where `snipz-protocol.md:417-419` says that a client "**MUST NOT**
  auto-release a reservation whose `actual_cents > 0` on exception".
- With a database collation that sorts two scopes otherwise than Python (`DbOrder`),
  a reservation holds the limit rows of one and a settlement those of the other
  (`core.py:418`); `sql/postgres.py:22-23` says "One global order means concurrent
  writers cannot deadlock." `NoDeadlock` then fails, and so does
  `CirclesAreOverBareRows`: the circle is one of limit rows.
- The order ends at the ledger rows: `FOR UPDATE` locks them as the plan visits them
  (`SelectForUpdate`; `sql/postgres.py:117`). A commit and a sweep of a composite
  whose scopes have no limit meet nowhere before, and deadlock if their plans differ.
  Give `postgres_settle` the invariant `NoDeadlock`: it fails.
  `OnlyBareRowsDeadlock` proves that, with one order of scopes, nothing else can.
- Of two parallel retries near the cap one can get `BudgetExceededError` because of
  the room the other has taken (`ReserveTx`), where `snipz-protocol.md:360`
  promises "the same reservation, or the same `BudgetExceededError`".
- `release()` through a handle that another has overtaken changes no row but fires
  `released` (`ReleaseReturn`).
- An iteration counts rows, so a composite counts once per scope
  (`SweptRows`), where `sweep.py:54-55` speaks of "the cumulative count of released
  reservations".
- A process that dies inside 0001 leaves tables without a version, and no later
  `migrate` gets past them; of two that migrate together one raises; a failed 0002
  leaves its `BEGIN` behind, which fails one later call (`FirstScript`,
  `LaterScript`). `storage/__init__.py:324` says "Apply pending schema migrations
  idempotently."
- If a statement of 0002 fails after an `ALTER`, the file stays locked by the shared
  connection, and a second `migrate` on it commits the `ALTER` without its version
  (`ImplicitCommit`: `executescript` commits what is open); the script fails for ever
  after. `0002_pricing_tiers.sql:10-11` says that its transaction is there "so a
  partial apply cannot leave the table altered without the version bump".
- An operation after `close()` opens a new connection (`OpenWriter`), where
  `storage/__init__.py:330-332` asks for a clear error "rather than silently
  reconnecting".
- An exception that is neither a status error nor a lost connection, such as a
  response that cannot be parsed, releases a call that was billed
  (`FailOtherwise`).
- An Anthropic request that asks for a 1-hour cache against an entry with a
  5-minute rate and no 1-hour rate can be billed above its reservation; an OpenAI
  entry whose cache rates exist only in a tier is charged at the input rate.
  `Bounded` excludes the first.
- A daemon thread that calls while `_shutdown` runs may hand its coroutine to a
  stopped loop, or start a second loop, and waits until the process is gone
  (`Submit`, `JoinAndReset`).

**Bounds.** Two reservations (three in `ledger_lag`) are enough for every pairwise
race; composites have two rows.

- In `MCLedger` a day turns over at instant 1 and there is a lifetime window, so
  rows lie before and after a boundary and a total is rolled over, rebuilt and
  ignored; caps are small enough to be met by two estimates; `Quantum = 2` makes
  half a micro-cent expressible, so rounding happens at the cap. Limits can be set,
  raised to grace and reset at any time. Caps are assumed to be whole micro-cents.
- In `MCBudget` a single lifetime window is used and `Quantum = 1`: windows and
  rounding are the subject of `Ledger`, which every step of `Budget` implements.
  `MCSweepLoop` has one composite reservation, used by two tasks; two sweepers are
  enough for one to find what the other has left.
- In `MCPostgresLocks` there are two sessions, which suffice for a circular wait
  between two orders. `postgres_settle` has one composite reservation and four
  instants, so that sweeps, late commits and old clock readings happen; its time to
  live exceeds `MaxLag`, the condition (`TtlOutlivesLag`) that `postgres_sweep` drops;
  its scopes are without limits at first, and get them. `postgres_reserve` has a
  clock that stands still, so sweeps find nothing there, and plans that visit the rows
  of one reservation in one order, but reservations in either. A
  transaction whose reading is older than `MaxLag` can only roll back.
- In `MCGuardedCall` there are two callers, since a `request_id` is shared pairwise;
  one price entry without cache rates and one with all and two tiers, which a row
  of the database may put in the place of the first; one or two tokens of a prompt,
  which lie at and above the threshold of a tier; and usages that read, write or do
  not use the cache.
- In `MCSqliteWriter` `MaxFaults` and `MaxCancels` are one each: one fault and one
  cancellation, with the contention, crashes and errors they cause, which are not
  bounded (`sqlite_begin` needs no fault). Four connections are more than the calls can
  open. The scenarios start from an empty file, one that lacks a script, which all
  three tasks migrate, and a complete one.
- In `MCSyncLoop` three threads and three loops, one more loop than the code can
  make: one before the reset and one after it.

Deadlock is checked where the system never stops: in `ledger_caps`, `ledger_lag`,
`budget_retries` and the `postgres` runs. It is off in the others, where calls end
and processes exit; there liveness properties say what must be reached.

**Fairness.**

- `FairSweepSpec`: an event loop resumes a looping sweeper whose await is over
  (`Advance`); and strongly, `SweepTx`: the database may refuse an iteration, but
  not every one for ever. Of callers and one-shots nothing is assumed, and no task
  is assumed not to be cancelled.
- `FairGuardSpec`: the event loop runs callers and shielded tasks. None is assumed
  of the provider, of the block of a stream, or of the sweeper.
- `FairSpec` of `SqliteWriter`: tasks resume, an attempt to open a connection ends,
  and threads run their statements; `busy_timeout` ends a wait for the file.
- `FairSyncSpec`: threads are scheduled, loops run their callbacks and coroutines
  end, because their database calls do (`WritersReturn`); strongly, `Acquire`: a
  lock that is released for ever is got in the end.

## Proofs

The theorems hold for every value of the constants, from the assumptions their
modules name (`TimeAssumption`, `QuantumAssumption`, `NullAssumption`,
`LedgerAssumption`, `BudgetAssumption`, `HandleAssumption`, `PricingAssumption`,
`SweeperAssumption`, `PostgresAssumption`, `GuardAssumption`, `SqliteAssumption`,
`SyncAssumption`), which TLC evaluates for the instances.

**Ledger.** `TablesStayTyped`, `CompositesStayWhole` (`GroupsAgree`) and
`LedgerFollowsLifecycle` (`FollowsLifecycle`). The inductive invariant is
`IInv == TablesTyped /\ GroupsAgree`. Neither half suffices alone: that a statement
such as `COMMIT_NORMAL` matches *all* rows of a reservation or none follows from
`GroupsAgree` (same state, late mark and expiry as the first row), and that a row it
changes is still a row needs the types. Every settlement is an `Update`; lemma
`UpdateInvariant` says that an update of whole groups that leaves them in agreement
preserves `IInv`, and each transaction has a lemma that shows it is one. For the
refinement, lemma `PhaseOfFirstRow` reduces the phase of a reservation to that of
its first row, each transaction is shown to move at most one reservation (a sweep,
a set of them), and the moves are matched with those of `Lifecycle`.

**Running totals.** `TotalsAreExact` (`TotalsMatchLedger`), `TypesAreCorrect`
(`TypeOK`) and `GrantsStayWithinCap` (`GrantsWithinCap`). `SpendTotals_proofs` has
the arithmetic. `Exact(total, s, rows)` says that a known total is the sum of its
bucket and that rows of later buckets add nothing. Sums over sets are folds, and what a fold computes cannot
be proved by the induction rules of the library, which take an operator; the lemmas
prove it by induction over the *set* of those subsets for which the statement
holds (`SubsetInduction`), which is first-order. The step that matters is
`RowChangesAreExact`: to fold the changes of a transaction into an exact total, one row at
a time and in any order, yields an exact total, because each intermediate total is
exact for the ledger in which the rows folded so far have changed and the others
have not. `TInv` lifts this to the limit table: totals are `Exact` for every window
that is `Steady`, the ledger is finite, and no row is dated ahead of the clock.
`Steady(w)` is `MaxLag = 0` or `w` has one bucket; `ledger_lag` shows what happens
otherwise. Under it `TypeOK` is provable and not without: a total rebuilt for a
stale reading and a refund after it can leave a negative total. For the cap, the
check compares an unrounded estimate with the sum and the insertion adds a rounded
one for every row of the entity; it suffices that no request names an entity twice
(`DistinctEntities`; see "Disagreements without a run") and that a cap with its grace is a whole
number of micro-cents (`WholeCaps`), for which rounding half up cannot cross it.

**The book of charges** (in `Ledger_proofs`). `LedgerKeepsTheBook`
(`ImplementsSpendCap`): with `MaxLag = 0`, `DistinctEntities` and `WholeCaps`, every
transaction is a step of `SpendCap` or changes nothing it sees. `SpendCap` sums one
charge for each reservation, the ledger one contribution for each row. They agree
(`SpendIsBucketSpend`) because rows of a reservation agree on their amounts
(`AmountsAgree`), an entity has one row of it (`RowsDistinct`), and renaming the terms
of a sum does not change it (`SumRenamed`). A settlement recharges exactly one booking
or none (`SettlesRecharge`, `SettlesNothing`), a sweep all it finds held and expired;
and what the cap check says of running totals carries over to the fresh sum
(`ReserveHasRoom`), by `GrantOvershootsByRounding` above. `MaxLag = 0` is needed: a
booking is dated with the present instant.

**Budget.** `OneIsToldToSpend` (`PaidOnce`). `BInv` adds to `IInv` that a
`request_id` is in the table once, that a handle stands for rows that carry its
`request_id`, that a handle which says `created` stands for its own task's rows, and
that these rows are there already when `ReserveReturn` is about to build the handle:
the gap between the transaction and the code after it. Two handles with one
`request_id` then meet in one row. `ConflictsAreRecovered` (`ConflictsConverge`)
needs `SingleScopes`, that no call with a `request_id` is composite, and an invariant
about the other gap: a task on its way to the re-query will find a row, because
rows are never deleted.

*Handles and events.* `CommittedHandlesTell` (`CommittedHandlesAreTrue`) and
`EventsAddUp` (`EventsMatchLedger`). `EInv` relates four places that hold what
happened to a reservation: the phase in the ledger, the handles, the commits under
way and the events fired. A commit whose statement has matched rows and whose
coroutine has not resumed (`landed`) is the only one of its reservation (`OneLands`),
so it can be announced only once; a commit that has announced `overrun` and not yet
`committed` has landed (`AnnouncesLanded`). The phases of `Ledger_proofs` say what
a transaction does to other reservations: nothing.

*Refinement.* `CallersFollowLedger` (`ImplementsLedger`): every step of `Budget` is a
transaction of `Ledger` or leaves the tables alone. `MInv` says that the amounts a
coroutine carries to its transaction are ones a caller can name, which needs that a
stored amount read back and stored again is the same (`StoredStaysStored`); `AnyLag`
(`MaxLag >= MaxTime`) that a coroutine may wait for its transaction as long as it
likes. `CallersStayWithinCap` carries the caps over to interleaved callers along
this refinement; since with `AnyLag` only one-bucket windows are `Steady`, it is
about lifetime caps (`LifetimeCaps`). `BudgetTypesAreCorrect` is `BudgetTypeOK` under
the same two conditions.

*Charges.* `CommittedHandlesShow` (`CommittedHandlesShowTheCharge`): `SInv` adds that
rows of a reservation agree on estimate, actual cost and date (`AmountsAgree`), and
that a commit that has landed and not resumed has left its cost in the ledger. It
needs `OwnHandles`, that no task observes through another's handle: an `observe`
that resumes after another task's `commit` overwrites the amount (`core.py:128`).

**SweepLoop.** `SweepersFollowBudget`: `SweepSpec` implements `BudgetSpec`, so what is
proved of `Budget` holds beside sweepers that fail, stop and are cancelled anywhere;
`CommittedHandlesSurviveSweeps` (`CommittedHandlesAreTrue`) is one instance. It needs
that a sweeper's clock reading is past (`SweepersKnow`) and, since it may then wait
for its locks as long as it likes, `AnyLag`. `SweepReportsAddUp` (`ReportsAddUp`):
`SweeperSteps` shows that each step of a sweeper either leaves the ledger and every
account alone or sweeps, and then its own account grows by the rows it releases
(`Books`); `SweepsMark` that a sweep marks those rows and that none of them was marked
before, because a row that is reserved is not late (`GroupsAgree`);
`TransactionsKeepMarks` that no caller sets or clears a mark, not even a late commit.
That a sum changes with its one term is `SumOfOneChange`.

**PostgresLocks.** For any number of sessions. The inductive invariant is `PgInv`
(`SessionsKeepTheirLocks`): what each session holds and still has to take
(`LockPhases`, `ScopeOrder`, `ExclusiveFirst`), that this includes all it will touch
(`ScopesCovered`, `RowsCovered`), that locks held by two sessions do not clash
(`Exclusion`), and, the part all others are there for, that what a session has written
and not committed is what the tables *as they are now* would have it write
(`RowsCurrent`, `TotalsCurrent`). `UndisturbedStays` says when that survives a step of
another session: when the step leaves alone the rows, the limit rows and the set of
limits that the session has locked (`Undisturbed`). The two steps that change tables
do so: `CommitDisturbsNobody`, by its own locks, and `LimitDisturbsNobody`, by the
exclusive lock of its scope, which keeps a limit from appearing beside a writer that
found none to lock. `WritesHaveLocks` (`WritesAreLocked`) follows at once.

*Refinement.* `PostgresImplementsLedger` (`ImplementsLedger`): a `CommitWrites` whose
rows and totals are current is the transaction of `Ledger` at that instant
(`CommitImplements`). For a sweep this needs `SweepsCover` (`SweepsLockWhatExpires`),
that no row has expired of which the scope was not scanned, hence `TtlOutlivesLag`: no
reservation is past its time to live when it is committed. Nothing in the code
enforces it; `postgres_sweep` is a run without it. Under it the theorems of `Ledger`
hold of interleaved statements: `PostgresFollowsLifecycle`, `PostgresCommitsWhole`
(`CommitsWhole`, the property that the run violates), and `PostgresStaysWithinCap`
(`GrantsWithinCap`, with the conditions of `GrantsStayWithinCap`).

*Deadlock.* `OnlyBareRowsDeadlock` (`CirclesAreOverBareRows`) and
`LimitedScopesNeverDeadlock` (`NoDeadlock`). Every session asks for the locks of scopes
in ascending order (`ScopesAscend`), so along a circle of waits for scopes the lock
waited for rises (`ScopeWaits`), which it cannot do for ever (`NothingRisesForever`,
by the well-foundedness of the naturals). The order is the place of the entity, with
the advisory lock below the limit rows (`Level`); it is the same for all if requests
are sorted as the database sorts (`RequestsSorted`). A session that has begun to lock
rows waits for no scope, and if the row's scope has limits, it holds them and waits
for nobody (`RowWaits`). What is left are rows without a limit, in whatever order the
plans visit them. A circle over those takes two of them (`CirclesTakeTwoRows`): as
long as all ledger rows but one belong to scopes with a limit (`OneBareRow`, of the
tables as they are, not of the constants), there is no deadlock. Two bare rows can
deadlock, as the list above says, and nothing stronger is true of the code. (The run
`postgres_reserve` checks `NoDeadlock` with bare rows too: its sweeps find nothing,
and its plans agree about the rows of one reservation.)

**Pricing** (in `GuardedCall_proofs`). `SettledWithinEstimate`: whatever was
read of a response, and whatever usage the provider may report for the counted
prompt, the amount settled is a natural number and at most the estimate. The
estimate is the prompt at one rate plus the output; that rate bounds the rate of
every kind of token the usage can contain, in the tier of the prompt, which is
the same for both because cached tokens count into the prompt. That a highest
tier exists, for any set of tiers, comes from the well-foundedness of the
naturals. `SettledCoversBill` is the other bound: what is settled is at least
what the provider bills. It needs that two tiers of an entry do not begin at the
same prompt (`TiersDiffer`, which `_parse_tiers` enforces), since otherwise the
provider and the package could pick different ones, and that a tier prices cache
writes only if the entry does (`WritesInBase`): OpenAI's usage is split by what
the entry's own rates say.

**GuardedCall.** `GuardsPayOnce` (`GuardedPaidOnce`) and `CallsFollowLifecycle`
(`ImplementsLifecycle`) rest on `CallInv`: nothing is sent before `Begin`, a guard
sends only if its handle says `created`, and such a handle is on the caller's own
reservation. `GuardTypes` and `ChargesWithinReservations`
(`ChargeWithinReservation`) add `ChargeInv`: the book holds price entries, and what
a settlement will commit is at most the estimate, by `SettledWithinEstimate`.
`BillsAreCharged` (`ChargeCoversBill`) rests on `BillInv` (`BillSpecInvariant`), in
three parts: where a call is determines what its handle, its reservation and its
request can be (`Course`); a billed request is paid for, will be paid for by a
settlement under way whose cost covers the bill, or leaves a reservation that its
own caller has yet to settle (`Fate`); and only that caller can settle it
(`OwnUnsettled`), so that no retry takes a reservation from under a call. The
hypothesis `BooksPriceWrites` is `WritesInBase` of every entry a book can hold.

**SqliteWriter.** `AnswersAreTrue` (`AnswersMatchFile`), `WritersInheritNothing`
(`NoInheritedWrites`), `MigrationsComplete` (`MigrateCompletes`) and
`SqliteTypesAreCorrect` (`SqliteTypeOK`), for any number of processes, tasks and
connections and without a bound on faults or cancellations. The inductive invariant is
`QInv` (`SqliteSpecInvariant`), a part for each task and one for each connection.
`TaskWaits`: the statement a task waits for is the last of its connection, and when it
has its reply none is left; so whatever a cancelled task leaves behind runs before
anything that a later holder of the queue asks for. `ConnWrites` is the reason why
nothing is inherited: a connection that has writes of `t`, or a statement that will
make some, has only statements of `t`, none of which begins a transaction, and either
`t` still uses it or no process will. `JobsAwaited` keeps what became of the
statements nobody waits for: a `COMMIT` among them belongs to a task that was told its
transaction is in doubt. `ConnMentions`, that a task uses one connection in its life,
makes the steps of different connections independent. For `MigrateCompletes`,
`JobsMigrate` says that a script which is to run has something to do and that the
two halves of 0001 are under way on one connection at most (`OneInsert`). A step of a
task is shown to move only its own connection (`Moves`), a statement to run the first
job of its own (`Runs`); two lemmas for each (`OtherTasksStay`, `OtherConnsStay`,
`RunsTasks`, `RunsOthers`) say that everything else stays, and one lemma per action
what happens to its own task and connection. That whoever leaves a queue leaves the
others in their order is `WithoutFacts`.

**SyncLoop.** `AllCallsOnOneLoop` (`OneLoop`): as long as the main thread runs, a
loop in use is the published one, and only the thread that holds `_lock`, having
found none, publishes. After the atexit handler has begun the statement is false,
and `SyncInv` says nothing then.

**Only model-checked:** liveness under fairness, which TLAPS cannot prove
(`AbandonedBudgetReturns`, `SignalEndsTheLoop`, `DoubtIsCharged`, `WritersReturn`,
`SyncCallsReturn`). Every safety property of a passing run is the
subject of a theorem, under the hypotheses named above; where a run's instance meets
them, the run checks what the theorem says.

## Not modelled

- Model names, providers, token counts and metadata of ledger rows: no decision
  depends on them. Errors of arguments (negative amounts, empty scopes), which raise
  before any state changes. `enabled` of a limit, which nothing in the package
  changes.
- The Postgres pool, its `close` and its `migrate`. Two first calls may both make a
  pool, of which one is never closed (`storage/postgres.py:573`); what a pool then
  does is asyncpg's, and no row depends on it. The Postgres scripts run in a
  transaction each.
- Estimators: counts of tokens are inputs of `Pricing`, taken to be exact. With
  `input_tokens="estimate"` they are not, and `ChargeWithinReservation` does not
  hold of that mode.
- The command line but for `snipz sweep`, exit codes, parsing of TOML and JSON but
  for what makes a price book refuse to load, and the benchmarks.
- The registry of event handlers, which only grows; a handler that raises is logged.
- The methods of the synchronous classes: each hands one coroutine to the loop. Its
  `__exit__` looks at the handle's state in the caller's thread, which is the stale
  state of `Budget`.

## Plan

Done: every component with state, each with a run, except the pool of the Postgres
backend, and a theorem for every safety property of those runs. What could follow is
the pool, if its behaviour when closed is pinned down.
