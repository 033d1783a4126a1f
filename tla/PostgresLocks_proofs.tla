-------------------------- MODULE PostgresLocks_proofs --------------------------
(***************************************************************************)
(* Theorems about PostgresLocks, for every number of sessions, entities    *)
(* and rows: what a transaction writes it has locked; the transactions,    *)
(* cut into statements, implement those of Ledger; sessions wait in a      *)
(* circle only for rows without a limit, and for at least two of those.    *)
(***************************************************************************)
EXTENDS PostgresLocks, Ledger_proofs, WellFoundedInduction

--------------------------------------------------------------------------------
(* The inductive invariant. Asked(s) are the locks that a session has yet  *)
(* to take, Guarded(s, e) says that it holds the advisory lock of e.       *)

ScopeLevels == {"shared", "exclusive", "limits"}
AllLocks == (ScopeLevels \X Entities) \cup ({"row"} \X RowIds) \cup ({"key"} \X RequestIds)
Settlements == {"observe", "commit", "release"}
TxFields == {"at", "work", "now", "todo", "held", "out"}

Asked(s) == {tx[s].todo[i] : i \in DOMAIN tx[s].todo}
Wanted(s) == Asked(s) \cup tx[s].held
Guarded(s, e) == <<"shared", e>> \in tx[s].held \/ <<"exclusive", e>> \in tx[s].held

TxTyped(s) ==
  /\ DOMAIN tx[s] = TxFields
  /\ tx[s].now \in Time /\ tx[s].now <= clock
  /\ tx[s].todo \in Seq(AllLocks)
  /\ tx[s].held \subseteq AllLocks

(* What a transaction does determines how far it can be.                   *)
WorkTyped(s) ==
  LET w == tx[s].work
  IN  \/ /\ w.name = "reserve" /\ tx[s].at \in {"locking", "writing"}
         /\ w.r \in Reservations /\ w.scopes \in Requests /\ w.est \in Estimates
         /\ w.request \in RequestIds \cup {NoRequest} /\ w.ttl \in TTLs
      \/ /\ w.name \in Settlements /\ tx[s].at \in {"locking", "updating", "writing"}
         /\ w.r \in Reservations /\ w.cost \in Costs
      \/ w.name = "sweep" /\ tx[s].at \in {"scanning", "locking", "updating", "writing"}
      \/ w.name = "limit" /\ tx[s].at = "locking" /\ w.limit \in LimitChoices

(* Scopes are locked first, then rows, and the key comes with the writing. *)
LockPhases(s) ==
  /\ tx[s].at = "scanning" => tx[s].todo = <<>> /\ tx[s].held = {}
  /\ tx[s].at = "locking" => \A lock \in Wanted(s) : lock[1] \in ScopeLevels
  /\ tx[s].at = "updating" => \A lock \in Asked(s) : lock[1] = "row"
  /\ tx[s].at = "writing" => tx[s].todo = <<>>
  /\ \A lock \in tx[s].held : lock[1] = "key" => tx[s].at = "writing"

(* The advisory lock of an entity comes before its limit rows, and whoever *)
(* has the advisory lock and has asked for the limit rows has them all.    *)
ScopeOrder(s) ==
  LET todo == tx[s].todo
  IN  /\ \A j \in DOMAIN todo : \A e \in Entities :
           todo[j] = <<"limits", e>> =>
             \/ Guarded(s, e)
             \/ \E i \in DOMAIN todo :
                  i < j /\ todo[i] \in {<<"shared", e>>, <<"exclusive", e>>}
      /\ \A i \in DOMAIN todo : \A e \in Entities :
           todo[i] = <<"shared", e>> =>
             \E j \in DOMAIN todo : i < j /\ todo[j] = <<"limits", e>>
      /\ \A e \in Entities :
           /\ <<"limits", e>> \in tx[s].held => Guarded(s, e) /\ Exists(<<"limits", e>>)
           /\ <<"shared", e>> \in tx[s].held =>
                \/ <<"limits", e>> \in Asked(s)
                \/ Exists(<<"limits", e>>) => <<"limits", e>> \in tx[s].held

(* Only upsert_limit takes an exclusive lock, and it takes it first.       *)
ExclusiveFirst(s) ==
  LET w == tx[s].work
  IN  IF w.name = "limit"
      THEN LET e == w.limit.scope.entity
           IN  /\ Wanted(s) \subseteq {<<"exclusive", e>>, <<"limits", e>>}
               /\ \/ /\ tx[s].held = {}
                     /\ tx[s].todo = <<<<"exclusive", e>>, <<"limits", e>>>>
                  \/ <<"exclusive", e>> \in tx[s].held /\ <<"exclusive", e>> \notin Asked(s)
      ELSE \A lock \in Wanted(s) : lock[1] # "exclusive"

(* The scopes and rows that a transaction will write are among its locks.  *)
ScopesCovered(s) ==
  LET w == tx[s].work
  IN  /\ w.name = "reserve" =>
           /\ RowsOf(w.r) = {}
           /\ \A i \in DOMAIN w.scopes : <<"shared", w.scopes[i].entity>> \in Wanted(s)
      /\ w.name \in Settlements =>
           /\ RowsOf(w.r) # {}
           /\ \A id \in RowsOf(w.r) : <<"shared", ledger[id].entity>> \in Wanted(s)

RowsCovered(s) ==
  LET w == tx[s].work
  IN  /\ \A lock \in Wanted(s) :
           lock[1] = "row" =>
             lock[2] \in DOMAIN ledger /\ <<"shared", ledger[lock[2]].entity>> \in tx[s].held
      /\ w.name \in Settlements /\ tx[s].at # "locking" =>
           \A id \in RowsOf(w.r) : <<"row", id>> \in Wanted(s)

(* What a transaction is about to commit is what the tables, as they are,  *)
(* would have it write.                                                    *)
RowsCurrent(s) ==
  LET w == tx[s].work
      out == tx[s].out
  IN  IF w.name = "reserve"
      THEN /\ out.rows = NewRows(w.r, w.scopes, w.est, w.request, tx[s].now, w.ttl)
           /\ Fits(w.scopes, w.est, tx[s].now)
           /\ ~Conflicts(w.scopes, w.request)
           /\ w.request # NoRequest => <<"key", w.request>> \in tx[s].held
      ELSE out.rows = Updated(s)

NewTotal(s, x) ==
  LET w == tx[s].work
      rows == tx[s].out.rows
  IN  IF w.name = "reserve"
      THEN ApplyRowChanges(Checked(w.scopes, tx[s].now)[x].total, x, <<>>, rows)
      ELSE ApplyRowChanges(limits[x].total, x, ledger, rows)

TotalsCurrent(s) ==
  LET totals == tx[s].out.totals
  IN  /\ DOMAIN totals \subseteq DOMAIN limits
      /\ \A x \in DOMAIN totals : <<"limits", x.entity>> \in tx[s].held
      /\ \A x \in DOMAIN limits :
           NewTotal(s, x) = IF x \in DOMAIN totals THEN totals[x] ELSE limits[x].total

SessionInv(s) ==
  Active(s) =>
    /\ TxTyped(s) /\ WorkTyped(s) /\ LockPhases(s) /\ ScopeOrder(s) /\ ExclusiveFirst(s)
    /\ ScopesCovered(s) /\ RowsCovered(s)
    /\ tx[s].at = "writing" => RowsCurrent(s) /\ TotalsCurrent(s)

(* Locks of two sessions do not clash, nor are two sessions about to       *)
(* insert the rows of one reservation.                                     *)
Exclusion ==
  \A s, u \in Sessions :
    s # u /\ Active(s) /\ Active(u) =>
      /\ \A a \in tx[s].held, b \in tx[u].held : ~Clash(a, b)
      /\ tx[s].work.name = "reserve" /\ tx[u].work.name = "reserve" =>
           tx[s].work.r # tx[u].work.r

LimitsAreRecords ==
  \A x \in DOMAIN limits :
    limits[x] = [cap |-> limits[x].cap, grace |-> limits[x].grace, total |-> limits[x].total]

TablesInv == TablesTyped /\ IsFiniteSet(DOMAIN ledger) /\ LimitsAreRecords

PgInv ==
  /\ TablesInv
  /\ DOMAIN tx = Sessions
  /\ \A s \in Sessions : SessionInv(s)
  /\ Exclusion

(* A sweep has, or will have, locked every row that it finds expired.      *)
SweepsCover ==
  \A s \in Sessions :
    Active(s) /\ tx[s].work.name = "sweep" /\ tx[s].at # "scanning" =>
      \A id \in ExpiredRows(tx[s].now) :
        /\ <<"shared", ledger[id].entity>> \in Wanted(s)
        /\ tx[s].at # "locking" => <<"row", id>> \in Wanted(s)

--------------------------------------------------------------------------------
(* Sequences of locks.                                                     *)

(* The head of a list of locks, and what its tail keeps.                   *)
LEMMA TailFacts ==
  ASSUME NEW S, NEW q \in Seq(S), q # <<>>
  PROVE  /\ 1 \in DOMAIN q /\ Head(q) = q[1] /\ Head(q) \in S
         /\ Tail(q) \in Seq(S)
         /\ \A i \in DOMAIN Tail(q) :
              i \in Nat /\ i + 1 \in DOMAIN q /\ Tail(q)[i] = q[i + 1]
         /\ \A i \in DOMAIN q :
              i \in Nat /\ (i = 1 \/ (i - 1 \in DOMAIN Tail(q) /\ Tail(q)[i - 1] = q[i]))
  OBVIOUS

(* lock_scope for each entity: its advisory lock, then its limit rows.     *)
LEMMA ScopeLocksFacts ==
  ASSUME NEW entities \in Seq(Entities)
  PROVE  /\ ScopeLocks(entities) \in Seq(AllLocks)
         /\ \A i \in DOMAIN entities :
              /\ 2 * i - 1 \in DOMAIN ScopeLocks(entities)
              /\ ScopeLocks(entities)[2 * i - 1] = <<"shared", entities[i]>>
              /\ 2 * i \in DOMAIN ScopeLocks(entities)
              /\ ScopeLocks(entities)[2 * i] = <<"limits", entities[i]>>
         /\ \A j \in DOMAIN ScopeLocks(entities) : \E i \in DOMAIN entities :
              \/ j = 2 * i - 1 /\ ScopeLocks(entities)[j] = <<"shared", entities[i]>>
              \/ j = 2 * i /\ ScopeLocks(entities)[j] = <<"limits", entities[i]>>
  <1> DEFINE n == Len(entities)
             Name(i) == IF i % 2 = 1 THEN "shared" ELSE "limits"
             Item(i) == <<Name(i), entities[(i + 1) \div 2]>>
  <1>1. n \in Nat /\ DOMAIN entities = 1..n /\ \A i \in 1..n : entities[i] \in Entities
    OBVIOUS
  <1>2. ScopeLocks(entities) = [i \in 1..2 * n |-> Item(i)]
    BY DEF ScopeLocks
  <1>3. \A i \in 1..2 * n : (i + 1) \div 2 \in 1..n
    BY <1>1
  <1>4. \A i \in 1..n : /\ 2 * i - 1 \in 1..2 * n /\ (2 * i - 1) % 2 = 1
                        /\ ((2 * i - 1) + 1) \div 2 = i
                        /\ 2 * i \in 1..2 * n /\ (2 * i) % 2 = 0 /\ (2 * i + 1) \div 2 = i
    BY <1>1
  <1>5. \A j \in 1..2 * n : \/ j % 2 = 1 /\ j = 2 * ((j + 1) \div 2) - 1
                            \/ j % 2 = 0 /\ j = 2 * ((j + 1) \div 2)
    BY <1>1
  <1>6. \A i \in 1..2 * n : Item(i) \in AllLocks
    BY <1>1, <1>3 DEF AllLocks, ScopeLevels
  <1>7. ScopeLocks(entities) \in Seq(AllLocks)
    <2> HIDE DEF Item
    <2>1. 2 * n \in Nat
      BY <1>1
    <2> QED
      BY <1>2, <1>6, <2>1
  <1> HIDE DEF n
  <1>8. DOMAIN ScopeLocks(entities) = 1..2 * n
    BY <1>2
  <1>9. \A i \in 1..n : /\ ScopeLocks(entities)[2 * i - 1] = <<"shared", entities[i]>>
                        /\ ScopeLocks(entities)[2 * i] = <<"limits", entities[i]>>
    <2> SUFFICES ASSUME NEW i \in 1..n
                 PROVE  /\ ScopeLocks(entities)[2 * i - 1] = <<"shared", entities[i]>>
                        /\ ScopeLocks(entities)[2 * i] = <<"limits", entities[i]>>
      OBVIOUS
    <2>1. ScopeLocks(entities)[2 * i - 1] = Item(2 * i - 1)
          /\ ScopeLocks(entities)[2 * i] = Item(2 * i)
      <3> HIDE DEF Item
      <3> QED
        BY <1>2, <1>4
    <2>2. Item(2 * i - 1) = <<"shared", entities[i]>>
      <3> DEFINE k == 2 * i - 1
      <3>1. k % 2 = 1 /\ (k + 1) \div 2 = i
        BY <1>4
      <3> HIDE DEF k
      <3> QED
        BY <3>1
    <2>3. Item(2 * i) = <<"limits", entities[i]>>
      <3> DEFINE k == 2 * i
      <3>1. k % 2 = 0 /\ (k + 1) \div 2 = i
        BY <1>4
      <3> HIDE DEF k
      <3> QED
        BY <3>1
    <2> QED
      BY <2>1, <2>2, <2>3
  <1>10. \A j \in 1..2 * n : \E i \in 1..n :
           \/ j = 2 * i - 1 /\ ScopeLocks(entities)[j] = <<"shared", entities[i]>>
           \/ j = 2 * i /\ ScopeLocks(entities)[j] = <<"limits", entities[i]>>
    <2> SUFFICES ASSUME NEW j \in 1..2 * n
                 PROVE  \E i \in 1..n :
                          \/ j = 2 * i - 1 /\ ScopeLocks(entities)[j] = <<"shared", entities[i]>>
                          \/ j = 2 * i /\ ScopeLocks(entities)[j] = <<"limits", entities[i]>>
      OBVIOUS
    <2>1. (j + 1) \div 2 \in 1..n
      BY <1>3
    <2>2. CASE j % 2 = 1 /\ j = 2 * ((j + 1) \div 2) - 1
      BY <1>2, <2>1, <2>2
    <2>3. CASE j % 2 = 0 /\ j = 2 * ((j + 1) \div 2)
      BY <1>2, <2>1, <2>3
    <2> QED
      BY <1>5, <2>2, <2>3
  <1> QED
    BY <1>1, <1>4, <1>7, <1>8, <1>9, <1>10

(* A listing of a finite set is a sequence that has each of its elements.  *)
LEMMA ListingFacts ==
  ASSUME NEW S, IsFiniteSet(S), NEW order, NEW list \in Listings(S, order)
  PROVE  /\ list \in Seq(S)
         /\ \A x \in S : \E i \in DOMAIN list : list[i] = x
         /\ Follows(list, order)
  <1>1. Cardinality(S) \in Nat
    BY FS_CardinalityType
  <1>2. list \in [1..Cardinality(S) -> S] /\ Range(list) = S /\ Follows(list, order)
    BY DEF Listings
  <1>3. list \in Seq(S)
    BY <1>1, <1>2
  <1> QED
    BY <1>2, <1>3 DEF Range

(* A request names its entities in a sequence.                             *)
LEMMA RequestEntities ==
  ASSUME NEW scopes \in Requests
  PROVE  [i \in DOMAIN scopes |-> scopes[i].entity] \in Seq(Entities)
  <1>1. scopes \in Seq(Scopes)
    BY LedgerAssumption
  <1> DEFINE n == Len(scopes)
             Entity(i) == scopes[i].entity
  <1>2. n \in Nat /\ DOMAIN scopes = 1..n /\ \A i \in 1..n : Entity(i) \in Entities
    <2>1. n \in Nat /\ DOMAIN scopes = 1..n
      BY <1>1
    <2>2. \A s \in Scopes : s.entity \in Entities
      BY DEF Scopes
    <2> HIDE DEF n
    <2> QED
      BY <2>1, <2>2, RequestsAreTuples
  <1> HIDE DEF n, Entity
  <1>3. [i \in 1..n |-> Entity(i)] \in Seq(Entities)
    <2> DEFINE list == [i \in 1..n |-> Entity(i)]
    <2>1. list \in [1..n -> Entities]
      BY <1>2
    <2> HIDE DEF list
    <2>2. list \in Seq(Entities)
      BY <1>2, <2>1
    <2> QED
      BY <2>2 DEF list
  <1>4. [i \in DOMAIN scopes |-> Entity(i)] \in Seq(Entities)
    BY <1>2, <1>3
  <1> QED
    BY <1>4, Zenon DEF Entity

--------------------------------------------------------------------------------
(* Rows and totals.                                                        *)

(* A total does not see how rows changed that belong to another entity.    *)
LEMMA OtherEntity ==
  ASSUME NEW total, NEW scope, NEW before, NEW after,
         \A id \in DOMAIN after : after[id].entity # scope.entity
  PROVE  ApplyRowChanges(total, scope, before, after) = total
  <1> DEFINE Delta(id) == Contribution(after[id])
                            - (IF id \in DOMAIN before THEN Contribution(before[id]) ELSE 0)
             changed == {id \in DOMAIN after : after[id].entity = scope.entity /\ Delta(id) # 0}
             Value(id, v) == Absorb(v, scope.window, after[id].created, Delta(id),
                                    id \notin DOMAIN before)
             Body(g) == [T \in SUBSET changed |->
                           IF T = {} THEN total ELSE Value(Pick(T), g[T \ {Pick(T)}])]
             fold == CHOOSE g : g = Body(g)
  <1>1. ApplyRowChanges(total, scope, before, after) = fold[changed]
    BY DEF ApplyRowChanges, FoldSet, MapThenFoldSet, Pick
  <1>2. changed = {}
    <2> HIDE DEF Delta
    <2> QED
      OBVIOUS
  <1> HIDE DEF changed
  <1>3. \A g : Body(g) = [T \in {{}} |-> total]
    <2> HIDE DEF Value
    <2> QED
      BY <1>2
  <1>4. fold = Body(fold)
    <2> HIDE DEF Body
    <2>1. \E g : g = Body(g)
      BY <1>3
    <2> QED
      BY <2>1
  <1>5. fold[{}] = total
    <2> HIDE DEF fold, Body
    <2> QED
      BY <1>3, <1>4
  <1> QED
    BY <1>1, <1>2, <1>5

(* It takes from the former contents only the rows that changed.           *)
LEMMA SameChanges ==
  ASSUME NEW total, NEW scope, NEW before, NEW other, NEW after,
         \A id \in DOMAIN after : /\ id \in DOMAIN before <=> id \in DOMAIN other
                                  /\ id \in DOMAIN before => other[id] = before[id]
  PROVE  ApplyRowChanges(total, scope, other, after)
           = ApplyRowChanges(total, scope, before, after)
  <1> DEFINE Delta(rows, id) == Contribution(after[id])
                                  - (IF id \in DOMAIN rows THEN Contribution(rows[id]) ELSE 0)
             Changed(rows) == {id \in DOMAIN after : /\ after[id].entity = scope.entity
                                                     /\ Delta(rows, id) # 0}
             Value(rows, id, v) == Absorb(v, scope.window, after[id].created,
                                          Delta(rows, id), id \notin DOMAIN rows)
             Body(rows, g) == [T \in SUBSET Changed(rows) |->
                                 IF T = {} THEN total
                                 ELSE Value(rows, Pick(T), g[T \ {Pick(T)}])]
             Fold(rows) == CHOOSE g : g = Body(rows, g)
  <1>1. \A rows : ApplyRowChanges(total, scope, rows, after) = Fold(rows)[Changed(rows)]
    BY DEF ApplyRowChanges, FoldSet, MapThenFoldSet, Pick
  <1>2. \A id \in DOMAIN after : /\ Delta(other, id) = Delta(before, id)
                                 /\ id \notin DOMAIN other <=> id \notin DOMAIN before
    OBVIOUS
  <1>3. Changed(other) = Changed(before)
    <2> HIDE DEF Delta
    <2> QED
      BY <1>2
  <1>4. \A v : \A id \in Changed(before) : Value(other, id, v) = Value(before, id, v)
    <2>1. \A id \in Changed(before) : id \in DOMAIN after
      OBVIOUS
    <2> HIDE DEF Delta, Changed
    <2> QED
      BY <1>2, <2>1
  <1>5. \A T \in SUBSET Changed(before) : T # {} => Pick(T) \in Changed(before)
    <2> HIDE DEF Changed
    <2> QED
      BY DEF Pick
  <1>6. \A g : Body(other, g) = Body(before, g)
    <2> HIDE DEF Value, Changed
    <2> QED
      BY <1>3, <1>4, <1>5
  <1>7. Fold(other) = Fold(before)
    <2>1. \A g : g = Body(other, g) <=> g = Body(before, g)
      <3> HIDE DEF Body
      <3> QED
        BY <1>6
    <2> HIDE DEF Body
    <2> QED
      BY <2>1, Zenon
  <1> HIDE DEF Fold, Changed
  <1> QED
    BY <1>1, <1>3, <1>7

(* A total rebuilt from rows of the same contents is the same.             *)
LEMMA SameRebuilt ==
  ASSUME NEW rows, NEW others, Countable(rows), NEW x, NEW now,
         \A id : (id \in DOMAIN rows /\ rows[id].entity = x.entity)
                   <=> (id \in DOMAIN others /\ others[id].entity = x.entity),
         \A id \in DOMAIN rows : rows[id].entity = x.entity => others[id] = rows[id]
  PROVE  RebuiltTotal(others, x, now) = RebuiltTotal(rows, x, now)
  <1> DEFINE start == WindowStart(x.window, now)
             Since(t) == {id \in DOMAIN t : t[id].entity = x.entity /\ t[id].created >= start}
  <1>1. Since(others) = Since(rows)
    <2> HIDE DEF start
    <2> QED
      OBVIOUS
  <1>2. Since(rows) \in SUBSET (DOMAIN rows \cap DOMAIN others)
    <2> HIDE DEF start
    <2> QED
      OBVIOUS
  <1>3. \A id \in Since(rows) : Contribution(others[id]) = Contribution(rows[id])
    <2> HIDE DEF start
    <2> QED
      OBVIOUS
  <1> HIDE DEF Since
  <1>4. SpendOf(others, Since(rows)) = SpendOf(rows, Since(rows))
    BY <1>2, <1>3, SpendAgrees
  <1> QED
    BY <1>1, <1>4 DEF RebuiltTotal, SpendSince, Since

--------------------------------------------------------------------------------
(* What a transaction writes.                                              *)

(* The rows of an UPDATE are rows of the ledger, and stay rows of the same *)
(* entity, request and dates.                                              *)
LEMMA UpdatedFacts ==
  ASSUME TablesTyped, NEW s, WorkTyped(s),
         tx[s].work.name \in Settlements \cup {"sweep"}
  PROVE  \A id \in DOMAIN Updated(s) :
           /\ id \in DOMAIN ledger /\ Updated(s)[id] \in Row
           /\ Updated(s)[id].entity = ledger[id].entity
           /\ Updated(s)[id].request = ledger[id].request
           /\ Updated(s)[id].created = ledger[id].created
           /\ Updated(s)[id].expires = ledger[id].expires
           /\ tx[s].work.name \in Settlements => id \in RowsOf(tx[s].work.r)
           /\ tx[s].work.name = "sweep" => <<"row", id>> \in tx[s].held
  <1> DEFINE w == tx[s].work
             Kept(new, id) ==
               /\ new \in Row
               /\ new.entity = ledger[id].entity /\ new.request = ledger[id].request
               /\ new.created = ledger[id].created /\ new.expires = ledger[id].expires
  <1>1. \A id \in DOMAIN ledger : ledger[id] \in Row
    BY DEF TablesTyped, LedgerTyped
  <1>2. w.name \in Settlements => w.cost \in Nat
    BY LedgerAssumption DEF WorkTyped, Settlements
  <1>3. \A row \in Row : /\ Refunded(row) \in Row /\ Lapsed(row) \in Row
                         /\ \A cost \in Nat : /\ Observed(row, cost) \in Row
                                              /\ Paid(row, cost) \in Row
                                              /\ PaidLate(row, cost) \in Row
    BY MicrosAreNat DEF Row, Refunded, Lapsed, Observed, Paid, PaidLate
  <1>4. ASSUME NEW id \in DOMAIN ledger
        PROVE  /\ Kept(Refunded(ledger[id]), id) /\ Kept(Lapsed(ledger[id]), id)
               /\ \A cost \in Nat : /\ Kept(Observed(ledger[id], cost), id)
                                    /\ Kept(Paid(ledger[id], cost), id)
                                    /\ Kept(PaidLate(ledger[id], cost), id)
    <2> DEFINE row == ledger[id]
    <2>1. row \in Row
      BY <1>1
    <2> HIDE DEF row
    <2>2. /\ Refunded(row).entity = row.entity /\ Refunded(row).request = row.request
          /\ Refunded(row).created = row.created /\ Refunded(row).expires = row.expires
          /\ Lapsed(row).entity = row.entity /\ Lapsed(row).request = row.request
          /\ Lapsed(row).created = row.created /\ Lapsed(row).expires = row.expires
      BY <2>1 DEF Row, Refunded, Lapsed
    <2>3. \A cost :
            LET new == Observed(row, cost)
            IN  /\ new.entity = row.entity /\ new.request = row.request
                /\ new.created = row.created /\ new.expires = row.expires
      BY <2>1 DEF Row, Observed
    <2>4. \A cost :
            LET new == Paid(row, cost)
            IN  /\ new.entity = row.entity /\ new.request = row.request
                /\ new.created = row.created /\ new.expires = row.expires
      BY <2>1 DEF Row, Paid
    <2>5. \A cost :
            LET new == PaidLate(row, cost)
            IN  /\ new.entity = row.entity /\ new.request = row.request
                /\ new.created = row.created /\ new.expires = row.expires
      BY <2>1 DEF Row, Paid, PaidLate
    <2> QED
      BY <1>3, <2>1, <2>2, <2>3, <2>4, <2>5 DEF row
  <1>5. /\ RowsIn(w.r, "reserved") \subseteq RowsOf(w.r)
        /\ LapsedRows(w.r) \subseteq RowsOf(w.r)
        /\ RowsOf(w.r) \subseteq DOMAIN ledger
        /\ ExpiredRows(tx[s].now) \subseteq DOMAIN ledger
    BY DEF RowsIn, LapsedRows, RowsOf, ExpiredRows
  <1> HIDE DEF Kept
  <1>6. CASE w.name = "observe"
    <2>1. Updated(s) = [id \in RowsIn(w.r, "reserved") |-> Observed(ledger[id], w.cost)]
      BY <1>6 DEF Updated
    <2> QED
      BY <1>2, <1>4, <1>5, <1>6, <2>1 DEF Kept, Settlements
  <1>7. CASE w.name = "commit" /\ RowsIn(w.r, "reserved") # {}
    <2>1. Updated(s) = [id \in RowsIn(w.r, "reserved") |-> Paid(ledger[id], w.cost)]
      BY <1>7 DEF Updated
    <2> QED
      BY <1>2, <1>4, <1>5, <1>7, <2>1 DEF Kept, Settlements
  <1>8. CASE w.name = "commit" /\ RowsIn(w.r, "reserved") = {}
    <2>1. Updated(s) = [id \in LapsedRows(w.r) |-> PaidLate(ledger[id], w.cost)]
      BY <1>8 DEF Updated
    <2> QED
      BY <1>2, <1>4, <1>5, <1>8, <2>1 DEF Kept, Settlements
  <1>9. CASE w.name = "release"
    <2>1. Updated(s) = [id \in RowsIn(w.r, "reserved") |-> Refunded(ledger[id])]
      BY <1>9 DEF Updated
    <2> QED
      BY <1>4, <1>5, <1>9, <2>1 DEF Kept
  <1>10. CASE w.name = "sweep"
    <2>1. Updated(s) = [id \in {x \in ExpiredRows(tx[s].now) : <<"row", x>> \in tx[s].held} |->
                          Lapsed(ledger[id])]
      BY <1>10 DEF Updated
    <2> QED
      BY <1>4, <1>5, <1>10, <2>1 DEF Kept, Settlements
  <1> QED
    BY <1>6, <1>7, <1>8, <1>9, <1>10 DEF Settlements

(* The rows of a reservation that is about to be made.                     *)
LEMMA NewRowsFacts ==
  ASSUME NEW s, WorkTyped(s), tx[s].work.name = "reserve", tx[s].now \in Time,
         NEW rows, rows = NewRows(tx[s].work.r, tx[s].work.scopes, tx[s].work.est,
                                  tx[s].work.request, tx[s].now, tx[s].work.ttl)
  PROVE  /\ DOMAIN rows = {tx[s].work.r} \X DOMAIN tx[s].work.scopes
         /\ IsFiniteSet(DOMAIN rows)
         /\ \A id \in DOMAIN rows :
              /\ id \in RowIds /\ id[1] = tx[s].work.r /\ rows[id] \in Row
              /\ id[2] \in DOMAIN tx[s].work.scopes
              /\ rows[id].entity = tx[s].work.scopes[id[2]].entity
              /\ rows[id].request = tx[s].work.request
              /\ rows[id].expires = tx[s].now + tx[s].work.ttl
  <1> DEFINE w == tx[s].work
  <1>1. /\ w.r \in Reservations /\ w.scopes \in Requests /\ w.est \in Estimates
        /\ w.request \in RequestIds \cup {NoRequest} /\ w.ttl \in TTLs
    BY DEF WorkTyped, Settlements
  <1> DEFINE ids == {w.r} \X DOMAIN w.scopes
  <1>2. rows = [id \in ids |->
                  NewRow(w.scopes[id[2]], w.est, w.request, tx[s].now, w.ttl)]
    BY DEF NewRows
  <1>3. \A id \in ids : /\ id[1] = w.r /\ id[2] \in DOMAIN w.scopes /\ id \in RowIds
                        /\ w.scopes[id[2]] \in Scopes
    BY <1>1, RequestsAreTuples DEF RowIds
  <1>4. IsFiniteSet(ids)
    <2>1. w.scopes \in Seq(Scopes)
      BY <1>1, LedgerAssumption
    <2>2. PICK n \in Nat : DOMAIN w.scopes = 1..n
      BY <2>1
    <2>3. IsFiniteSet(1..n)
      <3>1. 1 \in Int /\ n \in Int
        OBVIOUS
      <3> QED
        BY <3>1, FS_Interval, Zenon
    <2>4. IsFiniteSet({w.r})
      BY FS_Singleton, Zenon
    <2> QED
      BY <2>2, <2>3, <2>4, FS_Product, Zenon
  <1>5. \A id \in ids : NewRow(w.scopes[id[2]], w.est, w.request, tx[s].now, w.ttl) \in Row
    BY <1>1, <1>3, NewRowTyped
  <1>6. \A id \in ids : rows[id] = NewRow(w.scopes[id[2]], w.est, w.request, tx[s].now, w.ttl)
    BY <1>2
  <1>7. \A x, est, request, now, ttl :
          /\ NewRow(x, est, request, now, ttl).entity = x.entity
          /\ NewRow(x, est, request, now, ttl).request = request
          /\ NewRow(x, est, request, now, ttl).expires = now + ttl
    BY DEF NewRow
  <1>8. \A id \in ids : /\ rows[id].entity = w.scopes[id[2]].entity
                        /\ rows[id].request = w.request
                        /\ rows[id].expires = tx[s].now + w.ttl
    BY <1>6, <1>7
  <1> QED
    BY <1>2, <1>3, <1>4, <1>5, <1>6, <1>8

(* When a transaction writes, it has all its locks, and with the advisory  *)
(* lock of an entity the limit rows of it.                                 *)
LEMMA WritingLocks ==
  ASSUME TablesTyped, NEW s, Active(s), SessionInv(s), tx[s].at = "writing"
  PROVE  /\ Wanted(s) = tx[s].held
         /\ \A e : ~(<<"exclusive", e>> \in tx[s].held)
         /\ \A x \in DOMAIN limits :
              <<"shared", x.entity>> \in tx[s].held => <<"limits", x.entity>> \in tx[s].held
         /\ tx[s].work.name \in Settlements \cup {"reserve", "sweep"}
  <1>1. tx[s].todo = <<>> /\ Asked(s) = {}
    BY DEF SessionInv, LockPhases, Asked
  <1>2. tx[s].work.name # "limit" /\ tx[s].work.name \in Settlements \cup {"reserve", "sweep"}
    BY DEF SessionInv, WorkTyped, Settlements
  <1>3. \A e : ~(<<"exclusive", e>> \in tx[s].held)
    BY <1>2 DEF SessionInv, ExclusiveFirst, Wanted
  <1>4. ASSUME NEW x \in DOMAIN limits, <<"shared", x.entity>> \in tx[s].held
        PROVE  <<"limits", x.entity>> \in tx[s].held
    <2>1. x.entity \in Entities
      BY DEF TablesTyped, LimitsTyped, Scopes
    <2>2. Exists(<<"limits", x.entity>>)
      BY DEF Exists
    <2> QED
      BY <1>1, <1>4, <2>1, <2>2 DEF SessionInv, ScopeOrder
  <1> QED
    BY <1>1, <1>2, <1>3, <1>4 DEF Wanted

(* Whatever is about to be committed is locked.                            *)
LEMMA OutRows ==
  ASSUME TablesInv, NEW s, Active(s), SessionInv(s), tx[s].at = "writing"
  PROVE  /\ IsFiniteSet(DOMAIN tx[s].out.rows)
         /\ \A id \in DOMAIN tx[s].out.rows :
              /\ id \in RowIds /\ tx[s].out.rows[id] \in Row
              /\ <<"shared", tx[s].out.rows[id].entity>> \in tx[s].held
              /\ id \in DOMAIN ledger =>
                   /\ <<"row", id>> \in tx[s].held
                   /\ tx[s].work.name # "reserve"
                   /\ tx[s].out.rows[id].entity = ledger[id].entity
                   /\ tx[s].out.rows[id].request = ledger[id].request
                   /\ tx[s].out.rows[id].created = ledger[id].created
                   /\ tx[s].out.rows[id].expires = ledger[id].expires
              /\ id \notin DOMAIN ledger =>
                   /\ tx[s].work.name = "reserve"
                   /\ id[1] = tx[s].work.r
                   /\ tx[s].out.rows[id].request = tx[s].work.request
                   /\ tx[s].out.rows[id].expires = tx[s].now + tx[s].work.ttl
  <1> DEFINE rows == tx[s].out.rows
             w == tx[s].work
  <1>1. /\ TablesTyped /\ IsFiniteSet(DOMAIN ledger)
        /\ TxTyped(s) /\ WorkTyped(s) /\ ScopesCovered(s) /\ RowsCovered(s) /\ RowsCurrent(s)
    BY DEF TablesInv, SessionInv
  <1>2. Wanted(s) = tx[s].held /\ w.name \in Settlements \cup {"reserve", "sweep"}
    BY <1>1, WritingLocks
  <1>3. CASE w.name = "reserve"
    <2>1. rows = NewRows(w.r, w.scopes, w.est, w.request, tx[s].now, w.ttl)
      BY <1>1, <1>3 DEF RowsCurrent
    <2>2. RowsOf(w.r) = {}
          /\ \A i \in DOMAIN w.scopes : <<"shared", w.scopes[i].entity>> \in tx[s].held
      BY <1>1, <1>2, <1>3 DEF ScopesCovered
    <2>3. tx[s].now \in Time
      BY <1>1 DEF TxTyped
    <2>4. /\ IsFiniteSet(DOMAIN rows)
          /\ \A id \in DOMAIN rows :
               /\ id \in RowIds /\ id[1] = w.r /\ rows[id] \in Row
               /\ id[2] \in DOMAIN w.scopes
               /\ rows[id].entity = w.scopes[id[2]].entity
               /\ rows[id].request = w.request
               /\ rows[id].expires = tx[s].now + w.ttl
      BY <1>1, <1>3, <2>1, <2>3, NewRowsFacts
    <2>5. \A id \in DOMAIN rows : id \notin DOMAIN ledger
      BY <2>2, <2>4 DEF RowsOf
    <2> QED
      BY <1>3, <2>2, <2>4, <2>5
  <1>4. CASE w.name \in Settlements \cup {"sweep"}
    <2>1. rows = Updated(s) /\ w.name # "reserve"
      BY <1>1, <1>4 DEF RowsCurrent, Settlements
    <2>2. \A id \in DOMAIN rows :
            /\ id \in DOMAIN ledger /\ rows[id] \in Row
            /\ rows[id].entity = ledger[id].entity
            /\ rows[id].request = ledger[id].request
            /\ rows[id].created = ledger[id].created
            /\ rows[id].expires = ledger[id].expires
            /\ w.name \in Settlements => id \in RowsOf(w.r)
            /\ w.name = "sweep" => <<"row", id>> \in tx[s].held
      <3>1. \A id \in DOMAIN Updated(s) :
              /\ id \in DOMAIN ledger /\ Updated(s)[id] \in Row
              /\ Updated(s)[id].entity = ledger[id].entity
              /\ Updated(s)[id].request = ledger[id].request
              /\ Updated(s)[id].created = ledger[id].created
              /\ Updated(s)[id].expires = ledger[id].expires
              /\ w.name \in Settlements => id \in RowsOf(w.r)
              /\ w.name = "sweep" => <<"row", id>> \in tx[s].held
        BY <1>1, <1>4, UpdatedFacts
      <3> HIDE DEF rows, w
      <3> QED
        BY <2>1, <3>1
    <2>3. \A id \in DOMAIN rows : <<"row", id>> \in tx[s].held
      <3>1. w.name \in Settlements => \A id \in RowsOf(w.r) : <<"row", id>> \in tx[s].held
        BY <1>1, <1>2 DEF RowsCovered
      <3> QED
        BY <1>4, <2>2, <3>1
    <2>4. \A id \in DOMAIN rows : <<"shared", ledger[id].entity>> \in tx[s].held
      <3>1. \A lock \in tx[s].held :
              lock[1] = "row" => <<"shared", ledger[lock[2]].entity>> \in tx[s].held
        BY <1>1 DEF RowsCovered, Wanted
      <3> QED
        BY <2>3, <3>1
    <2>5. IsFiniteSet(DOMAIN rows)
      BY <1>1, <2>2, FS_Subset
    <2>6. DOMAIN ledger \subseteq RowIds
      BY <1>1 DEF TablesTyped, LedgerTyped
    <2> QED
      BY <2>1, <2>2, <2>3, <2>4, <2>5, <2>6
  <1> QED
    BY <1>2, <1>3, <1>4

--------------------------------------------------------------------------------
(* What other sessions may do while a session has its locks.               *)
Undisturbed(u) ==
  /\ tx'[u] = tx[u]
  /\ clock <= clock'
  /\ DOMAIN ledger \subseteq DOMAIN ledger' /\ DOMAIN limits \subseteq DOMAIN limits'
  /\ \A id \in DOMAIN ledger :
       /\ ledger'[id].entity = ledger[id].entity
       /\ <<"row", id>> \in tx[u].held => ledger'[id] = ledger[id]
  /\ tx[u].work.name \in Settlements \cup {"reserve"} =>
       \A id \in DOMAIN ledger' : id[1] = tx[u].work.r => id \in DOMAIN ledger
  /\ \A x \in DOMAIN limits' : Guarded(u, x.entity) => x \in DOMAIN limits
  /\ \A x \in DOMAIN limits :
       <<"limits", x.entity>> \in tx[u].held =>
         /\ limits'[x] = limits[x]
         /\ \A id \in DOMAIN ledger' :
              ledger'[id].entity = x.entity => id \in DOMAIN ledger /\ ledger'[id] = ledger[id]
         /\ \A id \in DOMAIN ledger :
              ledger[id].entity = x.entity => ledger'[id] = ledger[id]
  /\ \A q, id :
       <<"key", q>> \in tx[u].held /\ id \in DOMAIN ledger' /\ ledger'[id].request = q
         => id \in DOMAIN ledger /\ ledger[id].request = q

(* Its own reservation has the same rows after the step.                   *)
LEMMA SameRows ==
  ASSUME NEW u, Undisturbed(u), tx[u].work.name \in Settlements \cup {"reserve"}
  PROVE  RowsOf(tx[u].work.r)' = RowsOf(tx[u].work.r)
  <1> DEFINE r == tx[u].work.r
  <1>1. tx'[u].work.r = r
    BY DEF Undisturbed
  <1>2. {id \in DOMAIN ledger' : id[1] = r} = {id \in DOMAIN ledger : id[1] = r}
    BY DEF Undisturbed
  <1> QED
    BY <1>1, <1>2 DEF RowsOf

(* The part of the invariant that says where its locks are.                *)
LEMMA LocksStay ==
  ASSUME TablesTyped, TablesTyped', NEW u, Active(u), SessionInv(u), Undisturbed(u)
  PROVE  /\ TxTyped(u)' /\ WorkTyped(u)' /\ LockPhases(u)' /\ ScopeOrder(u)'
         /\ ExclusiveFirst(u)' /\ ScopesCovered(u)' /\ RowsCovered(u)'
  <1> DEFINE w == tx[u].work
  <1>1. tx'[u] = tx[u]
    BY DEF Undisturbed
  <1>2. /\ TxTyped(u) /\ WorkTyped(u) /\ LockPhases(u) /\ ScopeOrder(u)
        /\ ExclusiveFirst(u) /\ ScopesCovered(u) /\ RowsCovered(u)
    BY DEF SessionInv
  <1>3. Asked(u)' = Asked(u) /\ Wanted(u)' = Wanted(u)
        /\ \A e : Guarded(u, e)' <=> Guarded(u, e)
    BY <1>1 DEF Asked, Wanted, Guarded
  <1>4. TxTyped(u)'
    <2>1. clock \in Nat /\ clock' \in Nat /\ clock <= clock'
      BY TimeAssumption DEF TablesTyped, Time, Undisturbed
    <2>2. tx[u].now \in Nat
      BY <1>2, TimeAssumption DEF TxTyped, Time
    <2> QED
      BY <1>1, <1>2, <2>1, <2>2 DEF TxTyped
  <1>5. WorkTyped(u)'
    BY <1>1, <1>2 DEF WorkTyped
  <1>6. LockPhases(u)'
    BY <1>1, <1>2, <1>3 DEF LockPhases
  <1>7. ScopeOrder(u)'
    <2>1. \A e \in Entities : Exists(<<"limits", e>>) => Exists(<<"limits", e>>)'
      BY DEF Undisturbed, Exists
    <2>2. \A e \in Entities :
            Guarded(u, e) /\ Exists(<<"limits", e>>)' => Exists(<<"limits", e>>)
      BY DEF Undisturbed, Exists
    <2>3. \A e \in Entities : <<"shared", e>> \in tx[u].held => Guarded(u, e)
      BY DEF Guarded
    <2> QED
      BY <1>1, <1>2, <1>3, <2>1, <2>2, <2>3 DEF ScopeOrder
  <1>8. ExclusiveFirst(u)'
    BY <1>1, <1>2, <1>3 DEF ExclusiveFirst
  <1>9. ScopesCovered(u)'
    <2>1. tx'[u].work = w
      BY <1>1
    <2>2. w.name \in Settlements \cup {"reserve"} => RowsOf(w.r)' = RowsOf(w.r)
      BY SameRows
    <2>3. \A id \in RowsOf(w.r) : ledger'[id].entity = ledger[id].entity
      BY DEF RowsOf, Undisturbed
    <2> QED
      BY <1>2, <1>3, <2>1, <2>2, <2>3 DEF ScopesCovered
  <1>10. RowsCovered(u)'
    <2>1. tx'[u].work = w /\ tx'[u].at = tx[u].at /\ tx'[u].held = tx[u].held
      BY <1>1
    <2>2. w.name \in Settlements => RowsOf(w.r)' = RowsOf(w.r)
      BY SameRows
    <2>3. \A id \in DOMAIN ledger :
            id \in DOMAIN ledger' /\ ledger'[id].entity = ledger[id].entity
      BY DEF Undisturbed
    <2> QED
      BY <1>2, <1>3, <2>1, <2>2, <2>3 DEF RowsCovered
  <1> QED
    BY <1>4, <1>5, <1>6, <1>7, <1>8, <1>9, <1>10

(* It reads the same spend of a scope whose limit rows it has locked.      *)
LEMMA SameSpend ==
  ASSUME TablesInv, NEW u, Undisturbed(u), NEW x \in DOMAIN limits,
         <<"limits", x.entity>> \in tx[u].held
  PROVE  \A now : /\ Refreshed(x, now)' = Refreshed(x, now)
                  /\ CurrentSpend(x, now)' = CurrentSpend(x, now)
  <1> SUFFICES ASSUME NEW now
               PROVE  /\ Refreshed(x, now)' = Refreshed(x, now)
                      /\ CurrentSpend(x, now)' = CurrentSpend(x, now)
    OBVIOUS
  <1>1. limits'[x] = limits[x]
    BY DEF Undisturbed
  <1>2. Countable(ledger)
    BY LedgerIsCountable DEF TablesInv
  <1>3. /\ \A id : (id \in DOMAIN ledger /\ ledger[id].entity = x.entity)
                     <=> (id \in DOMAIN ledger' /\ ledger'[id].entity = x.entity)
        /\ \A id \in DOMAIN ledger : ledger[id].entity = x.entity => ledger'[id] = ledger[id]
    BY DEF Undisturbed
  <1>4. RebuiltTotal(ledger', x, now) = RebuiltTotal(ledger, x, now)
    BY <1>2, <1>3, SameRebuilt
  <1>5. Refreshed(x, now)' = Refreshed(x, now)
    BY <1>1, <1>4 DEF Refreshed
  <1> QED
    BY <1>5 DEF CurrentSpend

(* It changes the same rows in the same way.                               *)
LEMMA SameUpdate ==
  ASSUME TablesInv, NEW u, Active(u), SessionInv(u), tx[u].at = "writing", Undisturbed(u),
         tx[u].work.name # "reserve"
  PROVE  Updated(u)' = Updated(u)
  <1> DEFINE w == tx[u].work
             held == tx[u].held
  <1>1. /\ w.name \in Settlements \cup {"sweep"} /\ Wanted(u) = held
    BY WritingLocks DEF TablesInv
  <1>2. tx'[u] = tx[u]
    BY DEF Undisturbed
  <1>3. CASE w.name \in Settlements
    <2>1. RowsOf(w.r)' = RowsOf(w.r)
      BY <1>3, SameRows
    <2>2. \A id \in RowsOf(w.r) : ledger'[id] = ledger[id]
      <3>1. \A id \in RowsOf(w.r) : id \in DOMAIN ledger /\ <<"row", id>> \in held
        BY <1>1, <1>3 DEF RowsOf, SessionInv, RowsCovered
      <3> QED
        BY <3>1 DEF Undisturbed
    <2>3. RowsIn(w.r, "reserved")' = RowsIn(w.r, "reserved")
          /\ LapsedRows(w.r)' = LapsedRows(w.r)
      BY <1>2, <2>1, <2>2 DEF RowsIn, LapsedRows
    <2>4. RowsIn(w.r, "reserved") \subseteq RowsOf(w.r) /\ LapsedRows(w.r) \subseteq RowsOf(w.r)
      BY DEF RowsIn, LapsedRows
    <2>5. CASE w.name = "observe"
      BY <1>2, <2>2, <2>3, <2>4, <2>5 DEF Updated
    <2>6. CASE w.name = "commit" /\ RowsIn(w.r, "reserved") # {}
      BY <1>2, <2>2, <2>3, <2>4, <2>6 DEF Updated
    <2>7. CASE w.name = "commit" /\ RowsIn(w.r, "reserved") = {}
      BY <1>2, <2>2, <2>3, <2>4, <2>7 DEF Updated
    <2>8. CASE w.name = "release"
      BY <1>2, <2>2, <2>3, <2>4, <2>8 DEF Updated
    <2> QED
      BY <1>3, <2>5, <2>6, <2>7, <2>8 DEF Settlements
  <1>4. CASE w.name = "sweep"
    <2> DEFINE found == {x \in ExpiredRows(tx[u].now) : <<"row", x>> \in held}
               foundNow == {id \in DOMAIN ledger' : /\ ledger'[id].state = "reserved"
                                                    /\ ledger'[id].expires < tx[u].now
                                                    /\ <<"row", id>> \in held}
    <2>1. \A id : <<"row", id>> \in held => id \in DOMAIN ledger
      <3>1. \A lock \in held : lock[1] = "row" => lock[2] \in DOMAIN ledger
        BY <1>1 DEF SessionInv, RowsCovered
      <3> QED
        BY <3>1
    <2>2. \A id : <<"row", id>> \in held => id \in DOMAIN ledger' /\ ledger'[id] = ledger[id]
      BY <2>1 DEF Undisturbed
    <2>3. foundNow = found
      BY <2>1, <2>2 DEF ExpiredRows
    <2>4. \A id \in found : ledger'[id] = ledger[id]
      BY <2>2
    <2>5. Updated(u) = [id \in found |-> Lapsed(ledger[id])]
      BY <1>4 DEF Updated
    <2>6. Updated(u)' = [id \in foundNow |-> Lapsed(ledger'[id])]
      <3>1. {x \in ExpiredRows(tx[u].now)' : <<"row", x>> \in held} = foundNow
        BY <1>2 DEF ExpiredRows
      <3> QED
        BY <1>2, <1>4, <3>1 DEF Updated
    <2> HIDE DEF found, foundNow
    <2> QED
      BY <2>3, <2>4, <2>5, <2>6
  <1> QED
    BY <1>1, <1>3, <1>4


(* What it is about to insert is still what it would insert.               *)
LEMMA SameReservation ==
  ASSUME TablesInv, NEW u, Active(u), SessionInv(u), tx[u].at = "writing", Undisturbed(u),
         tx[u].work.name = "reserve"
  PROVE  RowsCurrent(u)'
  <1> DEFINE w == tx[u].work
             now == tx[u].now
  <1>1. tx'[u] = tx[u]
    BY DEF Undisturbed
  <1>2. /\ tx[u].out.rows = NewRows(w.r, w.scopes, w.est, w.request, now, w.ttl)
        /\ Fits(w.scopes, w.est, now) /\ ~Conflicts(w.scopes, w.request)
        /\ w.request # NoRequest => <<"key", w.request>> \in tx[u].held
    BY DEF SessionInv, RowsCurrent
  <1>3. ASSUME NEW x \in DOMAIN limits', <<"shared", x.entity>> \in tx[u].held
        PROVE  /\ x \in DOMAIN limits /\ limits'[x] = limits[x]
               /\ \A t : CurrentSpend(x, t)' = CurrentSpend(x, t)
    <2>1. x \in DOMAIN limits
      BY <1>3 DEF Undisturbed, Guarded
    <2>2. <<"limits", x.entity>> \in tx[u].held
      BY <1>3, <2>1, WritingLocks DEF TablesInv
    <2>3. limits'[x] = limits[x]
      BY <2>1, <2>2 DEF Undisturbed
    <2>4. \A t : CurrentSpend(x, t)' = CurrentSpend(x, t)
      BY <2>1, <2>2, SameSpend
    <2> QED
      BY <2>1, <2>3, <2>4
  <1>4. Fits(w.scopes, w.est, now)'
    <2>1. \A i \in DOMAIN w.scopes : <<"shared", w.scopes[i].entity>> \in tx[u].held
      BY WritingLocks DEF TablesInv, SessionInv, ScopesCovered
    <2>2. PICK scopes, est, t : scopes = w.scopes /\ est = w.est /\ t = now
      OBVIOUS
    <2>3. Fits(scopes, est, t)'
      BY <1>2, <1>3, <2>1, <2>2 DEF Fits
    <2>4. scopes = tx'[u].work.scopes /\ est = tx'[u].work.est /\ t = tx'[u].now
      BY <1>1, <2>2
    <2> QED
      BY <2>3, <2>4 DEF Fits, CurrentSpend, Refreshed
  <1>5. ~Conflicts(w.scopes, w.request)'
    BY <1>1, <1>2 DEF Conflicts, Undisturbed
  <1>6. tx'[u].out.rows
          = NewRows(tx'[u].work.r, tx'[u].work.scopes, tx'[u].work.est, tx'[u].work.request,
                    tx'[u].now, tx'[u].work.ttl)
    BY <1>1, <1>2
  <1>7. tx'[u].work.name = "reserve"
        /\ (tx'[u].work.request # NoRequest => <<"key", tx'[u].work.request>> \in tx'[u].held)
    BY <1>1, <1>2
  <1> QED
    BY <1>4, <1>5, <1>6, <1>7 DEF RowsCurrent

(* The totals that it will store are still those its rows make.            *)
LEMMA SameTotals ==
  ASSUME TablesInv, TablesTyped', NEW u, Active(u), SessionInv(u), tx[u].at = "writing",
         Undisturbed(u)
  PROVE  TotalsCurrent(u)'
  <1> DEFINE w == tx[u].work
             now == tx[u].now
             rows == tx[u].out.rows
             totals == tx[u].out.totals
  <1>1. tx'[u] = tx[u]
    BY DEF Undisturbed
  <1>2. /\ DOMAIN totals \subseteq DOMAIN limits
        /\ \A x \in DOMAIN totals : <<"limits", x.entity>> \in tx[u].held
        /\ \A x \in DOMAIN limits :
             NewTotal(u, x) = IF x \in DOMAIN totals THEN totals[x] ELSE limits[x].total
    BY DEF SessionInv, TotalsCurrent
  <1>3. \A x \in DOMAIN limits' :
          <<"shared", x.entity>> \in tx[u].held =>
            x \in DOMAIN limits /\ <<"limits", x.entity>> \in tx[u].held
    BY WritingLocks DEF TablesInv, Undisturbed, Guarded
  <1>4. ASSUME NEW x \in DOMAIN limits', <<"limits", x.entity>> \in tx[u].held
        PROVE  x \in DOMAIN limits /\ limits'[x] = limits[x] /\ NewTotal(u, x)' = NewTotal(u, x)
    <2>1. x.entity \in Entities
      BY DEF TablesTyped, LimitsTyped, Scopes
    <2>2. x \in DOMAIN limits
      BY <1>4, <2>1 DEF SessionInv, ScopeOrder, Undisturbed
    <2>3. limits'[x] = limits[x]
      BY <1>4, <2>2 DEF Undisturbed
    <2>4. CASE w.name = "reserve"
      <3>1. Refreshed(x, now)' = Refreshed(x, now)
        <4>1. \A t : Refreshed(x, t)' = Refreshed(x, t)
          BY <1>4, <2>2, SameSpend
        <4> QED
          BY <1>1, <4>1
      <3>2. Checked(w.scopes, now)'[x] = Checked(w.scopes, now)[x]
        BY <1>1, <2>2, <2>3, <3>1 DEF Checked, Refreshed
      <3> QED
        BY <1>1, <2>2, <2>3, <2>4, <3>2 DEF NewTotal
    <2>5. CASE w.name # "reserve"
      <3>1. \A id \in DOMAIN rows : /\ id \in DOMAIN ledger /\ id \in DOMAIN ledger'
                                    /\ ledger'[id] = ledger[id]
        BY <2>5, OutRows DEF Undisturbed
      <3>2. ApplyRowChanges(limits[x].total, x, ledger', rows)
              = ApplyRowChanges(limits[x].total, x, ledger, rows)
        BY <3>1, SameChanges
      <3> QED
        BY <1>1, <2>2, <2>3, <2>5, <3>2 DEF NewTotal
    <2> QED
      BY <2>2, <2>3, <2>4, <2>5
  <1>5. ASSUME NEW x \in DOMAIN limits', ~(<<"limits", x.entity>> \in tx[u].held)
        PROVE  x \notin DOMAIN totals /\ NewTotal(u, x)' = limits'[x].total
    <2>1. \A id \in DOMAIN rows : rows[id].entity # x.entity
      BY <1>3, <1>5, OutRows
    <2>2. \A total, before : ApplyRowChanges(total, x, before, rows) = total
      BY <2>1, OtherEntity
    <2>3. CASE w.name = "reserve"
      <3>1. \A i \in DOMAIN w.scopes : w.scopes[i] # x
        <4>1. \A i \in DOMAIN w.scopes : <<"shared", w.scopes[i].entity>> \in tx[u].held
          BY <2>3, WritingLocks DEF TablesInv, SessionInv, ScopesCovered
        <4> QED
          BY <1>3, <1>5, <4>1
      <3>2. Checked(w.scopes, now)'[x] = limits'[x]
        BY <1>1, <3>1 DEF Checked
      <3> QED
        BY <1>1, <1>2, <1>5, <2>2, <2>3, <3>2 DEF NewTotal
    <2>4. CASE w.name # "reserve"
      BY <1>1, <1>2, <1>5, <2>2, <2>4 DEF NewTotal
    <2> QED
      BY <2>3, <2>4
  <1>6. \A x \in DOMAIN limits' :
          NewTotal(u, x)' = IF x \in DOMAIN totals THEN totals[x] ELSE limits'[x].total
    BY <1>2, <1>4, <1>5
  <1>7. DOMAIN totals \subseteq DOMAIN limits'
    BY <1>2 DEF Undisturbed
  <1> HIDE DEF totals
  <1>8. tx'[u].out.totals = totals /\ tx'[u].held = tx[u].held
    BY <1>1 DEF totals
  <1> QED
    BY <1>2, <1>6, <1>7, <1>8 DEF TotalsCurrent

(* A session is where it was after a step that leaves what it locked.      *)
LEMMA UndisturbedStays ==
  ASSUME TablesInv, TablesInv', NEW u, Active(u) => SessionInv(u) /\ Undisturbed(u),
         tx'[u] = tx[u]
  PROVE  SessionInv(u)'
  <1> SUFFICES ASSUME Active(u)
               PROVE  SessionInv(u)'
    BY DEF SessionInv, Active
  <1>1. /\ TxTyped(u)' /\ WorkTyped(u)' /\ LockPhases(u)' /\ ScopeOrder(u)'
        /\ ExclusiveFirst(u)' /\ ScopesCovered(u)' /\ RowsCovered(u)'
    BY LocksStay DEF TablesInv
  <1>2. ASSUME tx[u].at = "writing"
        PROVE  RowsCurrent(u)' /\ TotalsCurrent(u)'
    <2>1. TotalsCurrent(u)'
      BY <1>2, SameTotals DEF TablesInv
    <2>2. CASE tx[u].work.name = "reserve"
      BY <1>2, <2>1, <2>2, SameReservation
    <2>3. CASE tx[u].work.name # "reserve"
      <3>1. tx[u].out.rows = Updated(u)
        BY <1>2, <2>3 DEF SessionInv, RowsCurrent
      <3>2. Updated(u)' = Updated(u)
        BY <1>2, <2>3, SameUpdate
      <3> QED
        BY <2>1, <2>3, <3>1, <3>2 DEF RowsCurrent
    <2> QED
      BY <2>2, <2>3
  <1> QED
    BY <1>1, <1>2 DEF SessionInv

--------------------------------------------------------------------------------
(* Endings, as the other sessions see them.                                *)

(* A step that leaves the tables alone disturbs nobody.                    *)
LEMMA TablesLeft ==
  ASSUME TablesInv, UNCHANGED <<limits, ledger>>, clock' \in Time, clock <= clock'
  PROVE  /\ TablesInv'
         /\ \A u : tx'[u] = tx[u] => Undisturbed(u)
  <1>1. TablesInv'
    BY DEF TablesInv, TablesTyped, LedgerTyped, LimitsTyped, LimitsAreRecords
  <1>2. \A u : tx'[u] = tx[u] => Undisturbed(u)
    BY DEF Undisturbed
  <1> QED
    BY <1>1, <1>2

(* What clashes.                                                           *)
LEMMA Clashes ==
  /\ \A k, e : k # "shared" => Clash(<<k, e>>, <<k, e>>)
  /\ \A e : Clash(<<"exclusive", e>>, <<"shared", e>>)
  /\ \A e : Clash(<<"shared", e>>, <<"exclusive", e>>)
  BY DEF Clash

(* upsert_limit has the advisory lock of its entity for itself.            *)
LEMMA LimitHasItsEntity ==
  ASSUME PgInv, NEW s \in Sessions, CommitLimit(s)
  PROVE  /\ tx[s].work.limit \in LimitChoices
         /\ <<"exclusive", tx[s].work.limit.scope.entity>> \in tx[s].held
  <1>1. SessionInv(s) /\ Active(s) /\ tx[s].work.name = "limit" /\ tx[s].todo = <<>>
    BY DEF PgInv, CommitLimit, At, Granted
  <1>2. WorkTyped(s) /\ ExclusiveFirst(s)
    BY <1>1 DEF SessionInv
  <1>3. tx[s].todo # <<<<"exclusive", tx[s].work.limit.scope.entity>>,
                       <<"limits", tx[s].work.limit.scope.entity>>>>
    BY <1>1
  <1> QED
    BY <1>1, <1>2, <1>3 DEF WorkTyped, Settlements, ExclusiveFirst

LEMMA LimitKeepsTables ==
  ASSUME PgInv, NEW s \in Sessions, CommitLimit(s)
  PROVE  TablesInv'
  <1> DEFINE l == tx[s].work.limit
  <1>1. l.scope \in Scopes /\ l.cap \in Nat /\ l.grace \in Nat
    BY LimitHasItsEntity, LedgerAssumption
  <1>2. /\ limits' = [x \in DOMAIN limits \cup {l.scope} |->
                        IF x = l.scope
                        THEN [cap |-> l.cap, grace |-> l.grace, total |-> UnknownTotal]
                        ELSE limits[x]]
        /\ UNCHANGED <<clock, ledger>>
    BY DEF CommitLimit, SetLimit
  <1>3. TablesTyped /\ IsFiniteSet(DOMAIN ledger) /\ LimitsAreRecords
    BY DEF PgInv, TablesInv
  <1>4. LimitsTyped'
    BY <1>1, <1>2, <1>3 DEF TablesTyped, LimitsTyped
  <1>5. LimitsAreRecords'
    <2> SUFFICES ASSUME NEW x \in DOMAIN limits'
                 PROVE  limits'[x] = [cap |-> limits'[x].cap, grace |-> limits'[x].grace,
                                      total |-> limits'[x].total]
      BY DEF LimitsAreRecords
    <2>1. CASE x = l.scope
      <3>1. limits'[x] = [cap |-> l.cap, grace |-> l.grace, total |-> UnknownTotal]
        BY <1>2, <2>1
      <3> QED
        BY <3>1
    <2>2. CASE x # l.scope
      <3>1. x \in DOMAIN limits /\ limits'[x] = limits[x]
        BY <1>2, <2>2
      <3> QED
        BY <1>3, <3>1 DEF LimitsAreRecords
    <2> QED
      BY <2>1, <2>2
  <1> QED
    BY <1>2, <1>3, <1>4, <1>5 DEF TablesInv, TablesTyped, LedgerTyped

LEMMA LimitDisturbsNobody ==
  ASSUME PgInv, NEW s \in Sessions, CommitLimit(s),
         NEW u \in Sessions, u # s, Active(u), tx'[u] = tx[u]
  PROVE  Undisturbed(u)
  <1> DEFINE l == tx[s].work.limit
             e == l.scope.entity
  <1>1. /\ DOMAIN limits' = DOMAIN limits \cup {l.scope}
        /\ \A x \in DOMAIN limits : x # l.scope => limits'[x] = limits[x]
        /\ UNCHANGED <<clock, ledger>>
    BY DEF CommitLimit, SetLimit
  <1>2. <<"exclusive", e>> \in tx[s].held /\ e \in Entities
    BY LimitHasItsEntity, LedgerAssumption DEF Scopes
  <1>3. ~Guarded(u, e)
    <2>1. \A b \in tx[u].held : ~Clash(<<"exclusive", e>>, b)
      BY <1>2 DEF PgInv, Exclusion, CommitLimit, At
    <2> QED
      BY <2>1, Clashes DEF Guarded
  <1>4. <<"limits", e>> \notin tx[u].held
    BY <1>2, <1>3 DEF PgInv, SessionInv, ScopeOrder
  <1>5. clock <= clock'
    BY <1>1, TimeAssumption DEF PgInv, TablesInv, TablesTyped, Time
  <1> QED
    BY <1>1, <1>3, <1>4, <1>5 DEF Undisturbed

(* What CommitWrites does, with the locks its transaction has.             *)
Stored(s) ==
  /\ DOMAIN ledger' = DOMAIN ledger \cup DOMAIN tx[s].out.rows
  /\ \A id \in DOMAIN tx[s].out.rows : ledger'[id] = tx[s].out.rows[id]
  /\ \A id \in DOMAIN ledger :
       id \notin DOMAIN tx[s].out.rows => ledger'[id] = ledger[id]
  /\ DOMAIN limits' = DOMAIN limits
  /\ \A x \in DOMAIN limits :
       x \notin DOMAIN tx[s].out.totals => limits'[x] = limits[x]
  /\ UNCHANGED clock

LEMMA CommitStores ==
  ASSUME NEW s, CommitWrites(s)
  PROVE  Stored(s) /\ Active(s) /\ tx[s].at = "writing"
  BY DEF CommitWrites, Stored, At

LEMMA CommitKeepsTables ==
  ASSUME PgInv, NEW s \in Sessions, CommitWrites(s)
  PROVE  TablesInv'
  <1> DEFINE out == tx[s].out
  <1>1. /\ TablesInv /\ SessionInv(s) /\ Stored(s) /\ Active(s) /\ tx[s].at = "writing"
        /\ TablesTyped /\ IsFiniteSet(DOMAIN ledger) /\ LimitsAreRecords
    BY CommitStores DEF PgInv, TablesInv
  <1>2. \A x \in DOMAIN limits :
          limits'[x] = IF x \in DOMAIN out.totals
                       THEN [limits[x] EXCEPT !.total = out.totals[x]] ELSE limits[x]
    BY DEF CommitWrites
  <1>3. IsFiniteSet(DOMAIN out.rows)
        /\ \A id \in DOMAIN out.rows : id \in RowIds /\ out.rows[id] \in Row
    BY <1>1, OutRows
  <1>4. LedgerTyped'
    <2>1. ledger' = [id \in DOMAIN ledger' |-> ledger'[id]]
      BY DEF CommitWrites
    <2>2. \A id \in DOMAIN ledger' : id \in RowIds /\ ledger'[id] \in Row
      BY <1>1, <1>3 DEF Stored, TablesTyped, LedgerTyped
    <2> QED
      BY <2>1, <2>2 DEF LedgerTyped
  <1>5. IsFiniteSet(DOMAIN ledger')
    <2>1. IsFiniteSet(DOMAIN ledger \cup DOMAIN out.rows)
      BY <1>1, <1>3, FS_Union
    <2> QED
      BY <1>1, <2>1 DEF Stored
  <1>6. ASSUME NEW x \in DOMAIN limits'
        PROVE  /\ x \in DOMAIN limits
               /\ DOMAIN limits'[x] = {"cap", "grace", "total"}
               /\ limits'[x].cap = limits[x].cap /\ limits'[x].grace = limits[x].grace
               /\ limits'[x] = [cap |-> limits'[x].cap, grace |-> limits'[x].grace,
                                total |-> limits'[x].total]
    <2>1. x \in DOMAIN limits
      BY <1>1 DEF Stored
    <2>2. limits[x] = [cap |-> limits[x].cap, grace |-> limits[x].grace,
                       total |-> limits[x].total]
      BY <1>1, <2>1 DEF LimitsAreRecords
    <2>3. \E cap, grace, total, new :
            /\ limits[x] = [cap |-> cap, grace |-> grace, total |-> total]
            /\ limits'[x] = [cap |-> cap, grace |-> grace, total |-> new]
      <3>1. CASE x \in DOMAIN out.totals
        <4>1. limits'[x] = [limits[x] EXCEPT !.total = out.totals[x]]
          BY <1>2, <2>1, <3>1
        <4>2. limits'[x] = [cap |-> limits[x].cap, grace |-> limits[x].grace,
                            total |-> out.totals[x]]
          BY <2>2, <4>1
        <4> QED
          BY <2>2, <4>2
      <3>2. CASE x \notin DOMAIN out.totals
        <4>1. limits'[x] = limits[x]
          BY <1>2, <2>1, <3>2
        <4> QED
          BY <2>2, <4>1
      <3> QED
        BY <3>1, <3>2
    <2>4. PICK cap, grace, total, new :
            /\ limits[x] = [cap |-> cap, grace |-> grace, total |-> total]
            /\ limits'[x] = [cap |-> cap, grace |-> grace, total |-> new]
      BY <2>3
    <2> QED
      BY <2>1, <2>4
  <1>7. LimitsTyped'
    BY <1>1, <1>6 DEF TablesTyped, LimitsTyped
  <1>8. LimitsAreRecords'
    BY <1>6 DEF LimitsAreRecords
  <1> QED
    BY <1>1, <1>4, <1>5, <1>7, <1>8 DEF TablesInv, TablesTyped, Stored

LEMMA CommitDisturbsNobody ==
  ASSUME PgInv, NEW s \in Sessions, CommitWrites(s),
         NEW u \in Sessions, u # s, Active(u), tx'[u] = tx[u]
  PROVE  Undisturbed(u)
  <1> DEFINE out == tx[s].out
             r == tx[u].work.r
  <1>1. /\ TablesInv /\ TablesTyped /\ SessionInv(s) /\ SessionInv(u)
        /\ Stored(s) /\ Active(s) /\ tx[s].at = "writing"
    BY CommitStores DEF PgInv, TablesInv
  <1>2. /\ \A a \in tx[s].held, b \in tx[u].held : ~Clash(a, b)
        /\ tx[s].work.name = "reserve" /\ tx[u].work.name = "reserve" =>
             tx[s].work.r # tx[u].work.r
    BY <1>1 DEF PgInv, Exclusion
  <1>3. \A k, e : <<k, e>> \in tx[s].held /\ <<k, e>> \in tx[u].held => k = "shared"
    BY <1>2, Clashes
  <1>4. \A id \in DOMAIN out.rows :
          /\ <<"shared", out.rows[id].entity>> \in tx[s].held
          /\ id \in DOMAIN ledger =>
               /\ <<"row", id>> \in tx[s].held
               /\ out.rows[id].entity = ledger[id].entity
               /\ out.rows[id].request = ledger[id].request
          /\ id \notin DOMAIN ledger =>
               /\ tx[s].work.name = "reserve" /\ id[1] = tx[s].work.r
               /\ out.rows[id].request = tx[s].work.request
    BY <1>1, OutRows
  <1>5. \A id \in DOMAIN ledger :
          /\ ledger'[id].entity = ledger[id].entity
          /\ <<"row", id>> \in tx[u].held => ledger'[id] = ledger[id]
    BY <1>1, <1>3, <1>4 DEF Stored
  <1>6. ASSUME tx[u].work.name \in Settlements \cup {"reserve"},
               NEW id \in DOMAIN ledger', id[1] = r
        PROVE  id \in DOMAIN ledger
    <2> SUFFICES ASSUME id \notin DOMAIN ledger
                 PROVE  FALSE
      OBVIOUS
    <2>1. id \in DOMAIN out.rows /\ tx[s].work.name = "reserve" /\ tx[s].work.r = r
      BY <1>1, <1>4, <1>6 DEF Stored
    <2>2. RowsOf(tx[s].work.r) = {}
      BY <1>1, <2>1 DEF SessionInv, ScopesCovered
    <2>3. tx[u].work.name \in Settlements
      BY <1>2, <1>6, <2>1
    <2>4. RowsOf(r) # {}
      BY <1>1, <2>3 DEF SessionInv, ScopesCovered
    <2> QED
      BY <2>1, <2>2, <2>4
  <1>7. ASSUME NEW x \in DOMAIN limits, <<"limits", x.entity>> \in tx[u].held
        PROVE  /\ limits'[x] = limits[x]
               /\ \A id \in DOMAIN ledger' :
                    ledger'[id].entity = x.entity => id \in DOMAIN ledger /\ ledger'[id] = ledger[id]
               /\ \A id \in DOMAIN ledger :
                    ledger[id].entity = x.entity => ledger'[id] = ledger[id]
    <2>1. <<"limits", x.entity>> \notin tx[s].held
      BY <1>3, <1>7
    <2>2. x \notin DOMAIN out.totals
      BY <1>1, <2>1 DEF SessionInv, TotalsCurrent
    <2>3. <<"shared", x.entity>> \notin tx[s].held
      BY <1>1, <2>1, WritingLocks
    <2>4. \A id \in DOMAIN out.rows : out.rows[id].entity # x.entity
      BY <1>4, <2>3
    <2> QED
      BY <1>1, <1>4, <2>2, <2>4 DEF Stored
  <1>8. ASSUME NEW q, NEW id \in DOMAIN ledger',
               <<"key", q>> \in tx[u].held, ledger'[id].request = q
        PROVE  id \in DOMAIN ledger /\ ledger[id].request = q
    <2>1. CASE id \in DOMAIN ledger
      BY <1>1, <1>4, <1>8, <2>1 DEF Stored
    <2>2. CASE id \notin DOMAIN ledger
      <3>1. id \in DOMAIN out.rows /\ tx[s].work.name = "reserve" /\ tx[s].work.request = q
        BY <1>1, <1>4, <1>8, <2>2 DEF Stored
      <3>2. <<"key", q>> \in AllLocks
        BY <1>1, <1>8 DEF SessionInv, TxTyped
      <3>3. q \in RequestIds
        BY <3>2 DEF AllLocks, ScopeLevels
      <3>4. q # NoRequest
        BY <3>3, LedgerAssumption
      <3>5. <<"key", q>> \in tx[s].held
        BY <1>1, <3>1, <3>4 DEF SessionInv, RowsCurrent
      <3> QED
        BY <1>3, <1>8, <3>5
    <2> QED
      BY <2>1, <2>2
  <1>9. clock <= clock'
    BY <1>1, TimeAssumption DEF TablesTyped, Time, Stored
  <1> QED
    BY <1>1, <1>5, <1>6, <1>7, <1>8, <1>9 DEF Undisturbed, Stored

--------------------------------------------------------------------------------
(* Steps of a session that leave the tables alone.                         *)

LEMMA ClashSymmetric == \A a, b : Clash(a, b) <=> Clash(b, a)
  BY DEF Clash

(* The locks of the others stay apart from those of the session that moves.*)
LEMMA ExclusionKept ==
  ASSUME Exclusion, NEW s \in Sessions, \A u \in Sessions \ {s} : tx'[u] = tx[u],
         Active(s)' =>
           \A u \in Sessions \ {s} :
             Active(u) =>
               /\ \A a \in tx'[s].held, b \in tx[u].held : ~Clash(a, b)
               /\ tx'[s].work.name = "reserve" /\ tx[u].work.name = "reserve" =>
                    tx'[s].work.r # tx[u].work.r
  PROVE  Exclusion'
  <1> DEFINE Apart(t, v) ==
               /\ \A a \in t.held, b \in v.held : ~Clash(a, b)
               /\ t.work.name = "reserve" /\ v.work.name = "reserve" => t.work.r # v.work.r
  <1>1. \A t, v : Apart(t, v) => Apart(v, t)
    BY ClashSymmetric
  <1>2. \A a, b \in Sessions : a # b /\ Active(a) /\ Active(b) => Apart(tx[a], tx[b])
    BY DEF Exclusion
  <1>3. \A u \in Sessions \ {s} : Active(s)' /\ Active(u) => Apart(tx'[s], tx[u])
    OBVIOUS
  <1>4. \A u \in Sessions \ {s} : Active(u)' <=> Active(u)
    BY DEF Active
  <1> HIDE DEF Apart
  <1>5. \A a, b \in Sessions : a # b /\ Active(a)' /\ Active(b)' => Apart(tx'[a], tx'[b])
    BY <1>1, <1>2, <1>3, <1>4
  <1> QED
    BY <1>5 DEF Exclusion, Apart

(* The transaction of a session that moves on.                             *)
LEMMA MovedOn ==
  ASSUME PgInv, NEW s \in Sessions, Active(s), NEW at, NEW todo, NEW held, NEW out,
         tx' = [tx EXCEPT ![s].at = at, ![s].todo = todo, ![s].held = held, ![s].out = out]
  PROVE  /\ \A u \in Sessions \ {s} : tx'[u] = tx[u]
         /\ DOMAIN tx' = Sessions
         /\ DOMAIN tx'[s] = TxFields
         /\ tx'[s].at = at /\ tx'[s].todo = todo /\ tx'[s].held = held /\ tx'[s].out = out
         /\ tx'[s].work = tx[s].work /\ tx'[s].now = tx[s].now
  <1>1. DOMAIN tx = Sessions /\ DOMAIN tx[s] = TxFields
    BY DEF PgInv, SessionInv, TxTyped
  <1> QED
    BY <1>1 DEF TxFields

(* A session that has asked for its scopes and has none of them yet.       *)
LEMMA AsksForScopes ==
  ASSUME NEW s, NEW entities \in Seq(Entities),
         tx'[s].at = "locking", tx'[s].todo = ScopeLocks(entities), tx'[s].held = {},
         tx'[s].work.name # "limit"
  PROVE  /\ LockPhases(s)' /\ ScopeOrder(s)' /\ ExclusiveFirst(s)' /\ RowsCovered(s)'
         /\ \A i \in DOMAIN entities : <<"shared", entities[i]>> \in Wanted(s)'
  <1> DEFINE todo == ScopeLocks(entities)
  <1>1. /\ todo \in Seq(AllLocks)
        /\ \A i \in DOMAIN entities :
             /\ 2 * i - 1 \in DOMAIN todo /\ todo[2 * i - 1] = <<"shared", entities[i]>>
             /\ 2 * i \in DOMAIN todo /\ todo[2 * i] = <<"limits", entities[i]>>
        /\ \A j \in DOMAIN todo : \E i \in DOMAIN entities :
             \/ j = 2 * i - 1 /\ todo[j] = <<"shared", entities[i]>>
             \/ j = 2 * i /\ todo[j] = <<"limits", entities[i]>>
    BY ScopeLocksFacts
  <1>2. DOMAIN entities \subseteq Nat
    OBVIOUS
  <1> HIDE DEF todo
  <1>3. tx'[s].todo = todo
    BY DEF todo
  <1>4. Wanted(s)' = {todo[j] : j \in DOMAIN todo} /\ Asked(s)' = Wanted(s)'
    BY <1>3 DEF Wanted, Asked
  <1>5. \A lock \in Wanted(s)' : lock[1] = "shared" \/ lock[1] = "limits"
    <2> SUFFICES ASSUME NEW j \in DOMAIN todo
                 PROVE  todo[j][1] = "shared" \/ todo[j][1] = "limits"
      BY <1>4
    <2>1. PICK i \in DOMAIN entities :
            todo[j] = <<"shared", entities[i]>> \/ todo[j] = <<"limits", entities[i]>>
      BY <1>1, Zenon
    <2> QED
      BY <2>1
  <1>6. LockPhases(s)'
    BY <1>5 DEF LockPhases, ScopeLevels
  <1>7. ScopeOrder(s)'
    <2>1. ASSUME NEW j \in DOMAIN todo, NEW e, todo[j] = <<"limits", e>>
          PROVE  \E i \in DOMAIN todo : i < j /\ todo[i] = <<"shared", e>>
      <3>1. PICK i \in DOMAIN entities :
              \/ j = 2 * i - 1 /\ todo[j] = <<"shared", entities[i]>>
              \/ j = 2 * i /\ todo[j] = <<"limits", entities[i]>>
        BY <1>1, Zenon
      <3>2. j = 2 * i /\ entities[i] = e
        BY <2>1, <3>1
      <3>3. 2 * i - 1 < j
        BY <1>2, <3>2
      <3>4. 2 * i - 1 \in DOMAIN todo /\ todo[2 * i - 1] = <<"shared", entities[i]>>
        BY <1>1
      <3> QED
        BY <3>2, <3>3, <3>4
    <2>2. ASSUME NEW i \in DOMAIN todo, NEW e, todo[i] = <<"shared", e>>
          PROVE  \E j \in DOMAIN todo : i < j /\ todo[j] = <<"limits", e>>
      <3>1. PICK n \in DOMAIN entities :
              \/ i = 2 * n - 1 /\ todo[i] = <<"shared", entities[n]>>
              \/ i = 2 * n /\ todo[i] = <<"limits", entities[n]>>
        BY <1>1, Zenon
      <3>2. i = 2 * n - 1 /\ entities[n] = e
        BY <2>2, <3>1
      <3>3. i < 2 * n
        BY <1>2, <3>2
      <3>4. 2 * n \in DOMAIN todo /\ todo[2 * n] = <<"limits", entities[n]>>
        BY <1>1
      <3> QED
        BY <3>2, <3>3, <3>4
    <2> QED
      BY <1>3, <2>1, <2>2 DEF ScopeOrder
  <1>8. ExclusiveFirst(s)'
    BY <1>5 DEF ExclusiveFirst
  <1>9. RowsCovered(s)'
    BY <1>5 DEF RowsCovered
  <1> QED
    BY <1>1, <1>4, <1>6, <1>7, <1>8, <1>9

(* The locks of a session that has none yet clash with nobody's.           *)
LEMMA NothingHeld ==
  ASSUME PgInv, NEW s \in Sessions, \A u \in Sessions \ {s} : tx'[u] = tx[u],
         tx'[s].held = {},
         \A u \in Sessions \ {s} :
           Active(u) /\ tx'[s].work.name = "reserve" /\ tx[u].work.name = "reserve" =>
             tx'[s].work.r # tx[u].work.r
  PROVE  Exclusion'
  BY ExclusionKept DEF PgInv

LEMMA BegunTx ==
  ASSUME PgInv, NEW s \in Sessions, NEW at, NEW work, NEW locks, Begin(s, at, work, locks)
  PROVE  /\ \A u \in Sessions \ {s} : tx'[u] = tx[u]
         /\ DOMAIN tx' = Sessions
         /\ DOMAIN tx'[s] = TxFields
         /\ tx'[s].at = at /\ tx'[s].work = work /\ tx'[s].now = clock
         /\ tx'[s].todo = locks /\ tx'[s].held = {}
         /\ UNCHANGED vars
  <1>1. DOMAIN tx = Sessions
    BY DEF PgInv
  <1> DEFINE new == [at |-> at, work |-> work, now |-> clock, todo |-> locks,
                     held |-> {}, out |-> NoWrites]
  <1>2. tx'[s] = new /\ \A u \in Sessions \ {s} : tx'[u] = tx[u]
    BY <1>1 DEF Begin
  <1>3. DOMAIN tx' = Sessions /\ UNCHANGED vars
    BY <1>1 DEF Begin
  <1> QED
    BY <1>2, <1>3 DEF TxFields

(* What a step of a session has to establish.                              *)
Moved(s) ==
  /\ DOMAIN tx' = Sessions /\ \A u \in Sessions \ {s} : tx'[u] = tx[u]
  /\ SessionInv(s)' /\ Exclusion'

LEMMA BeginReserveMoves ==
  ASSUME PgInv, NEW s \in Sessions, BeginReserve(s)
  PROVE  Moved(s) /\ UNCHANGED vars
  <1>1. PICK r \in Reservations, scopes \in Requests, est \in Estimates,
             request \in RequestIds \cup {NoRequest}, ttl \in TTLs :
          /\ RowsOf(r) = {}
          /\ \A u \in Sessions : Active(u) /\ tx[u].work.name = "reserve" => tx[u].work.r # r
          /\ Begin(s, "locking",
                   [name |-> "reserve", r |-> r, scopes |-> scopes, est |-> est,
                    request |-> request, ttl |-> ttl],
                   ScopeLocks([i \in DOMAIN scopes |-> scopes[i].entity]))
    BY DEF BeginReserve
  <1> DEFINE work == [name |-> "reserve", r |-> r, scopes |-> scopes, est |-> est,
                      request |-> request, ttl |-> ttl]
             entities == [i \in DOMAIN scopes |-> scopes[i].entity]
  <1>2. entities \in Seq(Entities)
    BY RequestEntities
  <1>3. /\ DOMAIN entities = DOMAIN scopes
        /\ \A i \in DOMAIN scopes : entities[i] = scopes[i].entity
    OBVIOUS
  <1>4. /\ work.name = "reserve" /\ work.r = r /\ work.scopes = scopes /\ work.est = est
        /\ work.request = request /\ work.ttl = ttl
    OBVIOUS
  <1>5. Begin(s, "locking", work, ScopeLocks(entities))
    BY <1>1
  <1> HIDE DEF work, entities
  <1>6. /\ \A u \in Sessions \ {s} : tx'[u] = tx[u]
        /\ DOMAIN tx' = Sessions /\ DOMAIN tx'[s] = TxFields
        /\ tx'[s].at = "locking" /\ tx'[s].work = work /\ tx'[s].now = clock
        /\ tx'[s].todo = ScopeLocks(entities) /\ tx'[s].held = {}
        /\ UNCHANGED vars
    BY <1>5, BegunTx
  <1>7. /\ LockPhases(s)' /\ ScopeOrder(s)' /\ ExclusiveFirst(s)' /\ RowsCovered(s)'
        /\ \A i \in DOMAIN entities : <<"shared", entities[i]>> \in Wanted(s)'
    BY <1>2, <1>4, <1>6, AsksForScopes
  <1>8. TxTyped(s)'
    BY <1>2, <1>6, ScopeLocksFacts, TimeAssumption
       DEF TxTyped, vars, PgInv, TablesInv, TablesTyped, Time
  <1>9. WorkTyped(s)'
    BY <1>4, <1>6 DEF WorkTyped
  <1>10. ScopesCovered(s)'
    <2>1. RowsOf(r)' = {}
      BY <1>1, <1>6 DEF RowsOf, vars
    <2> QED
      BY <1>3, <1>4, <1>6, <1>7, <2>1 DEF ScopesCovered, Settlements, RowsOf
  <1>11. Exclusion'
    BY <1>1, <1>4, <1>6, NothingHeld
  <1> QED
    BY <1>6, <1>7, <1>8, <1>9, <1>10, <1>11 DEF Moved, SessionInv

(* The entities of some rows, listed.                                      *)
LEMMA ListedEntities ==
  ASSUME TablesInv, NEW ids \in SUBSET DOMAIN ledger, NEW entities \in SortedEntities(ids)
  PROVE  /\ entities \in Seq(Entities) /\ Follows(entities, DbOrder)
         /\ \A id \in ids : \E i \in DOMAIN entities : entities[i] = ledger[id].entity
  <1> DEFINE S == {ledger[id].entity : id \in ids}
  <1>1. IsFiniteSet(ids)
    BY FS_Subset DEF TablesInv
  <1>2. IsFiniteSet(S)
    <2>1. [id \in ids |-> ledger[id].entity] \in Surjection(ids, S)
      BY DEF Surjection
    <2> HIDE DEF S
    <2> QED
      BY <1>1, <2>1, FS_Surjection
  <1>3. \A id \in ids : ledger[id].entity \in S /\ ledger[id].entity \in Entities
    BY DEF TablesInv, TablesTyped, LedgerTyped, Row
  <1>4. S \subseteq Entities
    BY <1>3
  <1>5. entities \in Listings(S, DbOrder)
    BY DEF SortedEntities
  <1> HIDE DEF S
  <1>6. /\ entities \in Seq(S) /\ Follows(entities, DbOrder)
        /\ \A x \in S : \E i \in DOMAIN entities : entities[i] = x
    BY <1>2, <1>5, ListingFacts
  <1> QED
    BY <1>3, <1>4, <1>6

LEMMA BeginSettleMoves ==
  ASSUME PgInv, NEW s \in Sessions, BeginSettle(s)
  PROVE  Moved(s) /\ UNCHANGED vars
  <1>1. PICK r \in Reservations, cost \in Costs, name \in {"observe", "commit", "release"} :
          /\ RowsOf(r) # {}
          /\ \E entities \in SortedEntities(RowsOf(r)) :
               Begin(s, "locking", [name |-> name, r |-> r, cost |-> cost],
                     ScopeLocks(entities))
    BY DEF BeginSettle
  <1>2. PICK entities \in SortedEntities(RowsOf(r)) :
          Begin(s, "locking", [name |-> name, r |-> r, cost |-> cost], ScopeLocks(entities))
    BY <1>1
  <1> DEFINE work == [name |-> name, r |-> r, cost |-> cost]
  <1>3. /\ entities \in Seq(Entities)
        /\ \A id \in RowsOf(r) : \E i \in DOMAIN entities : entities[i] = ledger[id].entity
    <2>1. RowsOf(r) \subseteq DOMAIN ledger
      BY DEF RowsOf
    <2> QED
      BY <2>1, ListedEntities DEF PgInv
  <1>4. work.name \in Settlements /\ work.r = r /\ work.cost = cost
    BY DEF Settlements
  <1>5. Begin(s, "locking", work, ScopeLocks(entities))
    BY <1>2
  <1>6. work.name # "reserve" /\ work.name # "limit"
    OBVIOUS
  <1> HIDE DEF work
  <1>7. /\ \A u \in Sessions \ {s} : tx'[u] = tx[u]
        /\ DOMAIN tx' = Sessions /\ DOMAIN tx'[s] = TxFields
        /\ tx'[s].at = "locking" /\ tx'[s].work = work /\ tx'[s].now = clock
        /\ tx'[s].todo = ScopeLocks(entities) /\ tx'[s].held = {}
        /\ UNCHANGED vars
    BY <1>5, BegunTx
  <1>8. /\ LockPhases(s)' /\ ScopeOrder(s)' /\ ExclusiveFirst(s)' /\ RowsCovered(s)'
        /\ \A i \in DOMAIN entities : <<"shared", entities[i]>> \in Wanted(s)'
    BY <1>3, <1>6, <1>7, AsksForScopes
  <1>9. TxTyped(s)'
    BY <1>3, <1>7, ScopeLocksFacts, TimeAssumption
       DEF TxTyped, vars, PgInv, TablesInv, TablesTyped, Time
  <1>10. WorkTyped(s)'
    BY <1>4, <1>7 DEF WorkTyped
  <1>11. ScopesCovered(s)'
    <2>1. RowsOf(r)' = RowsOf(r)
      BY <1>7 DEF RowsOf, vars
    <2> QED
      BY <1>1, <1>3, <1>4, <1>6, <1>7, <1>8, <2>1 DEF ScopesCovered, RowsOf, vars
  <1>12. Exclusion'
    BY <1>6, <1>7, NothingHeld
  <1> QED
    BY <1>7, <1>8, <1>9, <1>10, <1>11, <1>12 DEF Moved, SessionInv

LEMMA BeginSweepMoves ==
  ASSUME PgInv, NEW s \in Sessions, BeginSweep(s)
  PROVE  Moved(s) /\ UNCHANGED vars
  <1> DEFINE work == [name |-> "sweep"]
  <1>1. /\ \A u \in Sessions \ {s} : tx'[u] = tx[u]
        /\ DOMAIN tx' = Sessions /\ DOMAIN tx'[s] = TxFields
        /\ tx'[s].at = "scanning" /\ tx'[s].work = work /\ tx'[s].now = clock
        /\ tx'[s].todo = <<>> /\ tx'[s].held = {}
        /\ UNCHANGED vars
    BY BegunTx DEF BeginSweep
  <1>2. tx'[s].work.name = "sweep"
    BY <1>1
  <1>3. Asked(s)' = {} /\ Wanted(s)' = {}
    BY <1>1 DEF Asked, Wanted
  <1>4. TxTyped(s)'
    BY <1>1, TimeAssumption DEF TxTyped, vars, PgInv, TablesInv, TablesTyped, Time
  <1>5. LockPhases(s)' /\ ScopeOrder(s)'
    BY <1>1, <1>3 DEF LockPhases, ScopeOrder
  <1>6. /\ WorkTyped(s)' /\ ExclusiveFirst(s)' /\ ScopesCovered(s)' /\ RowsCovered(s)'
    BY <1>1, <1>2, <1>3
       DEF WorkTyped, ExclusiveFirst, ScopesCovered, RowsCovered, Settlements
  <1>7. Exclusion'
    BY <1>1, <1>2, NothingHeld
  <1> QED
    BY <1>1, <1>4, <1>5, <1>6, <1>7 DEF Moved, SessionInv

LEMMA BeginSetLimitMoves ==
  ASSUME PgInv, NEW s \in Sessions, BeginSetLimit(s)
  PROVE  Moved(s) /\ UNCHANGED vars
  <1>1. PICK l \in LimitChoices :
          Begin(s, "locking", [name |-> "limit", limit |-> l],
                <<<<"exclusive", l.scope.entity>>, <<"limits", l.scope.entity>>>>)
    BY DEF BeginSetLimit
  <1> DEFINE work == [name |-> "limit", limit |-> l]
             e == l.scope.entity
             todo == <<<<"exclusive", e>>, <<"limits", e>>>>
  <1>2. /\ \A u \in Sessions \ {s} : tx'[u] = tx[u]
        /\ DOMAIN tx' = Sessions /\ DOMAIN tx'[s] = TxFields
        /\ tx'[s].at = "locking" /\ tx'[s].work = work /\ tx'[s].now = clock
        /\ tx'[s].todo = todo /\ tx'[s].held = {}
        /\ UNCHANGED vars
    BY <1>1, BegunTx
  <1>3. tx'[s].work.name = "limit" /\ tx'[s].work.limit = l
    BY <1>2
  <1>4. e \in Entities
    BY LedgerAssumption DEF Scopes
  <1>5. /\ todo \in Seq(AllLocks)
        /\ DOMAIN todo = {1, 2} /\ todo[1] = <<"exclusive", e>> /\ todo[2] = <<"limits", e>>
    BY <1>4 DEF AllLocks, ScopeLevels
  <1> HIDE DEF todo, e
  <1>6. Wanted(s)' = {<<"exclusive", e>>, <<"limits", e>>}
    BY <1>2, <1>5 DEF Wanted, Asked
  <1>7. TxTyped(s)'
    BY <1>2, <1>5, TimeAssumption DEF TxTyped, vars, PgInv, TablesInv, TablesTyped, Time
  <1>8. LockPhases(s)'
    BY <1>2, <1>6 DEF LockPhases, ScopeLevels
  <1>9. ScopeOrder(s)'
    <2>1. 1 < 2
      OBVIOUS
    <2> QED
      BY <1>2, <1>5, <2>1 DEF ScopeOrder
  <1>10. ExclusiveFirst(s)'
    BY <1>2, <1>3, <1>6 DEF ExclusiveFirst, e, todo
  <1>11. WorkTyped(s)' /\ ScopesCovered(s)' /\ RowsCovered(s)'
    BY <1>2, <1>3, <1>6 DEF WorkTyped, ScopesCovered, RowsCovered, Settlements
  <1>12. Exclusion'
    BY <1>2, <1>3, NothingHeld
  <1> QED
    BY <1>2, <1>7, <1>8, <1>9, <1>10, <1>11, <1>12 DEF Moved, SessionInv

(* A session that takes the next of its locks.                             *)
LEMMA LockMoves ==
  ASSUME PgInv, NEW s \in Sessions, Lock(s)
  PROVE  /\ Moved(s) /\ UNCHANGED vars
         /\ tx'[s].at = tx[s].at /\ tx'[s].work = tx[s].work /\ tx'[s].now = tx[s].now
         /\ tx'[s].todo = Tail(tx[s].todo)
         /\ tx[s].held \subseteq tx'[s].held
         /\ tx'[s].held \subseteq tx[s].held \cup {Head(tx[s].todo)}
         /\ \A lock \in Wanted(s) : lock[1] # "limits" => lock \in Wanted(s)'
  <1> DEFINE todo == tx[s].todo
             h == Head(todo)
             held == tx[s].held
             new == {l \in {h} : Exists(l)}
  <1>1. /\ Active(s) /\ todo # <<>> /\ Blockers(s) = {} /\ UNCHANGED vars
        /\ tx' = [tx EXCEPT ![s].todo = Tail(@),
                            ![s].held = @ \cup {l \in {Head(tx[s].todo)} : Exists(l)}]
    BY DEF Lock, Granted
  <1>2. /\ TxTyped(s) /\ WorkTyped(s) /\ LockPhases(s) /\ ScopeOrder(s) /\ ExclusiveFirst(s)
        /\ ScopesCovered(s) /\ RowsCovered(s) /\ DOMAIN tx = Sessions
    BY <1>1 DEF PgInv, SessionInv
  <1>3. todo \in Seq(AllLocks)
    BY <1>2 DEF TxTyped
  <1>4. /\ 1 \in DOMAIN todo /\ h = todo[1] /\ h \in AllLocks /\ Tail(todo) \in Seq(AllLocks)
        /\ \A i \in DOMAIN Tail(todo) :
             i \in Nat /\ i + 1 \in DOMAIN todo /\ Tail(todo)[i] = todo[i + 1]
        /\ \A i \in DOMAIN todo :
             i \in Nat /\ (i = 1 \/ (i - 1 \in DOMAIN Tail(todo) /\ Tail(todo)[i - 1] = todo[i]))
    BY <1>1, <1>3, TailFacts
  <1> DEFINE rest == Tail(todo)
  <1>5. /\ \A u \in Sessions \ {s} : tx'[u] = tx[u]
        /\ DOMAIN tx' = Sessions /\ DOMAIN tx'[s] = TxFields
        /\ tx'[s].at = tx[s].at /\ tx'[s].work = tx[s].work /\ tx'[s].now = tx[s].now
        /\ tx'[s].todo = rest /\ tx'[s].held = held \cup new
    BY <1>1, <1>2 DEF TxTyped, TxFields
  <1> HIDE DEF h, new, held, rest
  <1>6. /\ new \subseteq {h} /\ (Exists(h) => h \in new)
        /\ held = tx[s].held /\ rest = Tail(todo)
    BY DEF new, held, rest, h
  <1> HIDE DEF todo
  <1>7. todo = tx[s].todo
    BY DEF todo
  <1>8. /\ \A lock \in Asked(s)' : lock \in Asked(s)
        /\ h \in Asked(s)
        /\ \A lock \in Asked(s) : lock = h \/ lock \in Asked(s)'
    <2>1. Asked(s) = {todo[i] : i \in DOMAIN todo} /\ Asked(s)' = {rest[i] : i \in DOMAIN rest}
      BY <1>5, <1>7 DEF Asked
    <2>2. \A i \in DOMAIN rest : \E j \in DOMAIN todo : rest[i] = todo[j]
      BY <1>4, <1>6
    <2>3. \A i \in DOMAIN todo : todo[i] = h \/ \E j \in DOMAIN rest : rest[j] = todo[i]
      BY <1>4, <1>6
    <2>4. h \in {todo[i] : i \in DOMAIN todo}
      BY <1>4
    <2> QED
      BY <2>1, <2>2, <2>3, <2>4
  <1>9. /\ Wanted(s)' \subseteq Wanted(s)
        /\ held \subseteq tx'[s].held
        /\ \A lock \in Wanted(s) : lock \in Wanted(s)' \/ (lock = h /\ ~Exists(h))
    BY <1>5, <1>6, <1>8 DEF Wanted
  <1>10. \A lock : lock[1] # "limits" => Exists(lock)
    BY DEF Exists
  <1>11. \A e : Guarded(s, e) => Guarded(s, e)'
    BY <1>6, <1>9 DEF Guarded
  <1>12. TxTyped(s)'
    BY <1>1, <1>2, <1>4, <1>5, <1>6 DEF TxTyped, vars
  <1>13. WorkTyped(s)'
    BY <1>2, <1>5 DEF WorkTyped
  <1>14. LockPhases(s)'
    <2>1. tx[s].at # "scanning" /\ tx[s].at # "writing"
      BY <1>1, <1>2, <1>7 DEF LockPhases
    <2>2. h[1] # "key"
      BY <1>2, <1>8, <2>1 DEF LockPhases, Wanted, WorkTyped, Settlements, ScopeLevels
    <2> QED
      BY <1>2, <1>5, <1>6, <1>8, <1>9, <2>1, <2>2 DEF LockPhases
  <1>15. ScopeOrder(s)'
    <2>1. ASSUME NEW j \in DOMAIN rest, NEW e \in Entities, rest[j] = <<"limits", e>>
          PROVE  \/ Guarded(s, e)'
                 \/ \E i \in DOMAIN rest :
                      i < j /\ rest[i] \in {<<"shared", e>>, <<"exclusive", e>>}
      <3>1. j \in Nat /\ j + 1 \in DOMAIN todo /\ todo[j + 1] = <<"limits", e>>
        BY <1>4, <1>6, <2>1
      <3>2. CASE Guarded(s, e)
        BY <1>11, <3>2
      <3>3. CASE \E i \in DOMAIN todo :
                   i < j + 1 /\ todo[i] \in {<<"shared", e>>, <<"exclusive", e>>}
        <4>1. PICK i \in DOMAIN todo :
                i < j + 1 /\ todo[i] \in {<<"shared", e>>, <<"exclusive", e>>}
          BY <3>3
        <4>2. CASE i = 1
          <5>1. h \in {<<"shared", e>>, <<"exclusive", e>>}
            BY <1>4, <4>1, <4>2
          <5>2. h \in tx'[s].held
            BY <1>5, <1>6, <1>10, <5>1
          <5> QED
            BY <5>1, <5>2 DEF Guarded
        <4>3. CASE i # 1
          <5>1. i \in Nat /\ i - 1 \in DOMAIN rest /\ rest[i - 1] = todo[i]
            BY <1>4, <1>6, <4>3
          <5>2. i - 1 < j
            BY <3>1, <4>1, <5>1
          <5> QED
            BY <4>1, <5>1, <5>2
        <4> QED
          BY <4>2, <4>3
      <3> QED
        BY <1>2, <1>7, <3>1, <3>2, <3>3 DEF ScopeOrder
    <2>2. ASSUME NEW i \in DOMAIN rest, NEW e \in Entities, rest[i] = <<"shared", e>>
          PROVE  \E j \in DOMAIN rest : i < j /\ rest[j] = <<"limits", e>>
      <3>1. i \in Nat /\ i + 1 \in DOMAIN todo /\ todo[i + 1] = <<"shared", e>>
        BY <1>4, <1>6, <2>2
      <3>2. PICK j \in DOMAIN todo : i + 1 < j /\ todo[j] = <<"limits", e>>
        BY <1>2, <1>7, <3>1 DEF ScopeOrder
      <3>3. j \in Nat /\ j # 1
        BY <1>4, <3>1, <3>2
      <3>4. j - 1 \in DOMAIN rest /\ rest[j - 1] = todo[j]
        BY <1>4, <1>6, <3>3
      <3>5. i < j - 1
        BY <3>1, <3>2, <3>3
      <3> QED
        BY <3>2, <3>4, <3>5
    <2>3. ASSUME NEW e \in Entities, <<"limits", e>> \in tx'[s].held
          PROVE  Guarded(s, e)' /\ Exists(<<"limits", e>>)'
      <3>1. CASE <<"limits", e>> \in held
        BY <1>1, <1>2, <1>6, <1>11, <3>1 DEF ScopeOrder, Exists, vars
      <3>2. CASE <<"limits", e>> \notin held
        <4>1. <<"limits", e>> = h /\ Exists(h)
          BY <1>5, <1>6, <2>3, <3>2 DEF new
        <4>2. ~ \E i \in DOMAIN todo : i < 1
          BY <1>4
        <4>3. Guarded(s, e)
          BY <1>2, <1>4, <1>7, <4>1, <4>2 DEF ScopeOrder
        <4>4. Exists(<<"limits", e>>)'
          BY <1>1, <4>1 DEF Exists, vars
        <4> QED
          BY <1>11, <4>3, <4>4
      <3> QED
        BY <3>1, <3>2
    <2>4. ASSUME NEW e \in Entities, <<"shared", e>> \in tx'[s].held
          PROVE  \/ <<"limits", e>> \in Asked(s)'
                 \/ Exists(<<"limits", e>>)' => <<"limits", e>> \in tx'[s].held
      <3>1. Exists(<<"limits", e>>)' <=> Exists(<<"limits", e>>)
        BY <1>1 DEF Exists, vars
      <3>2. CASE <<"shared", e>> \in held
        <4>1. \/ <<"limits", e>> \in Asked(s)
              \/ Exists(<<"limits", e>>) => <<"limits", e>> \in held
          BY <1>2, <1>6, <3>2 DEF ScopeOrder
        <4> QED
          BY <1>5, <1>6, <1>8, <1>9, <3>1, <4>1
      <3>3. CASE <<"shared", e>> \notin held
        <4>1. h = <<"shared", e>>
          BY <1>5, <1>6, <2>4, <3>3
        <4>2. PICK j \in DOMAIN todo : 1 < j /\ todo[j] = <<"limits", e>>
          BY <1>2, <1>4, <1>7, <4>1 DEF ScopeOrder
        <4>3. <<"limits", e>> \in Asked(s) /\ <<"limits", e>> # h
          BY <1>7, <4>1, <4>2 DEF Asked
        <4> QED
          BY <1>8, <4>3
      <3> QED
        BY <3>2, <3>3
    <2> QED
      BY <1>5, <2>1, <2>2, <2>3, <2>4 DEF ScopeOrder
  <1>16. ExclusiveFirst(s)'
    <2>1. CASE tx[s].work.name # "limit"
      BY <1>2, <1>5, <1>9, <2>1 DEF ExclusiveFirst
    <2>2. CASE tx[s].work.name = "limit"
      <3> DEFINE e == tx[s].work.limit.scope.entity
      <3>1. Wanted(s)' \subseteq {<<"exclusive", e>>, <<"limits", e>>}
        BY <1>2, <1>9, <2>2 DEF ExclusiveFirst
      <3>2. <<"exclusive", e>> \in tx'[s].held /\ <<"exclusive", e>> \notin Asked(s)'
        <4>1. CASE <<"exclusive", e>> \in held /\ <<"exclusive", e>> \notin Asked(s)
          BY <1>8, <1>9, <4>1
        <4>2. CASE todo = <<<<"exclusive", e>>, <<"limits", e>>>>
          <5>1. h = <<"exclusive", e>>
            BY <1>4, <4>2
          <5>2. rest = <<<<"limits", e>>>>
            BY <1>6, <4>2
          <5>3. h \in tx'[s].held
            BY <1>5, <1>6, <1>10, <5>1
          <5>4. \A i \in DOMAIN rest : rest[i] = <<"limits", e>>
            BY <5>2
          <5> QED
            BY <1>5, <5>1, <5>3, <5>4 DEF Asked
        <4> QED
          BY <1>2, <1>6, <1>7, <2>2, <4>1, <4>2 DEF ExclusiveFirst
      <3> QED
        BY <1>5, <2>2, <3>1, <3>2 DEF ExclusiveFirst
    <2> QED
      BY <2>1, <2>2
  <1>17. \A e : <<"shared", e>> \in Wanted(s) => <<"shared", e>> \in Wanted(s)'
    BY <1>9, <1>10
  <1>18. ScopesCovered(s)'
    BY <1>1, <1>2, <1>5, <1>17 DEF ScopesCovered, RowsOf, vars
  <1>19. RowsCovered(s)'
    <2>1. \A id : <<"row", id>> \in Wanted(s) => <<"row", id>> \in Wanted(s)'
      BY <1>9, <1>10
    <2> QED
      BY <1>1, <1>2, <1>5, <1>6, <1>9, <2>1 DEF RowsCovered, RowsOf, vars
  <1>20. tx[s].at # "writing"
    BY <1>1, <1>2, <1>7 DEF LockPhases
  <1>21. Exclusion'
    <2>1. \A u \in Sessions \ {s} : Active(u) => \A b \in tx[u].held : ~Clash(h, b)
      BY <1>1, <1>7 DEF Blockers, h
    <2>2. \A u \in Sessions \ {s} :
            Active(u) => /\ \A a \in held, b \in tx[u].held : ~Clash(a, b)
                         /\ tx[s].work.name = "reserve" /\ tx[u].work.name = "reserve" =>
                              tx[s].work.r # tx[u].work.r
      BY <1>1, <1>6 DEF PgInv, Exclusion
    <2> QED
      BY <1>5, <1>6, <2>1, <2>2, ExclusionKept DEF PgInv
  <1>22. Moved(s)
    BY <1>1, <1>5, <1>12, <1>13, <1>14, <1>15, <1>16, <1>18, <1>19, <1>20, <1>21
       DEF Moved, SessionInv
  <1>23. h = Head(tx[s].todo) /\ rest = Tail(tx[s].todo)
    BY <1>6, <1>7 DEF h
  <1> QED
    BY <1>1, <1>5, <1>6, <1>9, <1>10, <1>22, <1>23

LEMMA ScanExpiredMoves ==
  ASSUME PgInv, NEW s \in Sessions, ScanExpired(s)
  PROVE  /\ Moved(s) /\ UNCHANGED vars
         /\ \A id \in ExpiredRows(tx[s].now) : <<"shared", ledger[id].entity>> \in Wanted(s)'
  <1>1. PICK entities \in SortedEntities(ExpiredRows(tx[s].now)) :
          tx' = [tx EXCEPT ![s].at = "locking", ![s].todo = ScopeLocks(entities)]
    BY DEF ScanExpired
  <1>2. /\ Active(s) /\ tx[s].at = "scanning" /\ UNCHANGED vars
    BY DEF ScanExpired, At
  <1>3. /\ TxTyped(s) /\ WorkTyped(s) /\ LockPhases(s) /\ DOMAIN tx = Sessions
    BY <1>2 DEF PgInv, SessionInv
  <1>4. tx[s].work.name = "sweep" /\ tx[s].held = {}
    BY <1>2, <1>3 DEF WorkTyped, LockPhases, Settlements
  <1>5. /\ entities \in Seq(Entities)
        /\ \A id \in ExpiredRows(tx[s].now) :
             \E i \in DOMAIN entities : entities[i] = ledger[id].entity
    <2>1. ExpiredRows(tx[s].now) \subseteq DOMAIN ledger
      BY DEF ExpiredRows
    <2> QED
      BY <2>1, ListedEntities DEF PgInv
  <1>6. /\ \A u \in Sessions \ {s} : tx'[u] = tx[u]
        /\ DOMAIN tx' = Sessions /\ DOMAIN tx'[s] = TxFields
        /\ tx'[s].at = "locking" /\ tx'[s].work = tx[s].work /\ tx'[s].now = tx[s].now
        /\ tx'[s].todo = ScopeLocks(entities) /\ tx'[s].held = {}
    BY <1>1, <1>3, <1>4 DEF TxTyped, TxFields
  <1>7. /\ LockPhases(s)' /\ ScopeOrder(s)' /\ ExclusiveFirst(s)' /\ RowsCovered(s)'
        /\ \A i \in DOMAIN entities : <<"shared", entities[i]>> \in Wanted(s)'
    BY <1>4, <1>5, <1>6, AsksForScopes
  <1>8. TxTyped(s)'
    BY <1>2, <1>3, <1>5, <1>6, ScopeLocksFacts DEF TxTyped, vars
  <1>9. WorkTyped(s)' /\ ScopesCovered(s)'
    BY <1>4, <1>6 DEF WorkTyped, ScopesCovered, Settlements
  <1>10. Exclusion'
    BY <1>4, <1>6, NothingHeld
  <1> QED
    BY <1>2, <1>5, <1>6, <1>7, <1>8, <1>9, <1>10 DEF Moved, SessionInv

(* A session that goes on and keeps what it holds.                         *)
LEMMA HeldKept ==
  ASSUME PgInv, NEW s \in Sessions, Active(s), \A u \in Sessions \ {s} : tx'[u] = tx[u],
         tx'[s].held = tx[s].held, tx'[s].work = tx[s].work
  PROVE  Exclusion'
  <1>1. \A u \in Sessions \ {s} :
          Active(u) =>
            /\ \A a \in tx[s].held, b \in tx[u].held : ~Clash(a, b)
            /\ tx[s].work.name = "reserve" /\ tx[u].work.name = "reserve" =>
                 tx[s].work.r # tx[u].work.r
    BY DEF PgInv, Exclusion
  <1> QED
    BY <1>1, ExclusionKept DEF PgInv

LEMMA SelectMoves ==
  ASSUME PgInv, NEW s \in Sessions, SelectForUpdate(s)
  PROVE  /\ Moved(s) /\ UNCHANGED vars
         /\ \A id \in MatchingRows(s) : <<"row", id>> \in Wanted(s)'
  <1>0. PICK plan \in RowOrders : \E visited \in Listings(MatchingRows(s), plan) :
          tx' = [tx EXCEPT ![s].at = "updating",
                           ![s].todo = [i \in DOMAIN visited |-> <<"row", visited[i]>>]]
    BY DEF SelectForUpdate
  <1>1. PICK visited \in Listings(MatchingRows(s), plan) :
          tx' = [tx EXCEPT ![s].at = "updating",
                           ![s].todo = [i \in DOMAIN visited |-> <<"row", visited[i]>>]]
    BY <1>0
  <1> DEFINE w == tx[s].work
             held == tx[s].held
             rows == [i \in DOMAIN visited |-> <<"row", visited[i]>>]
  <1>2. /\ Active(s) /\ tx[s].at = "locking" /\ tx[s].todo = <<>> /\ UNCHANGED vars
        /\ w.name \in Settlements \cup {"sweep"}
    BY DEF SelectForUpdate, At, Granted, Settlements
  <1>3. /\ TxTyped(s) /\ WorkTyped(s) /\ LockPhases(s) /\ ScopeOrder(s) /\ ExclusiveFirst(s)
        /\ ScopesCovered(s) /\ RowsCovered(s) /\ DOMAIN tx = Sessions
        /\ IsFiniteSet(DOMAIN ledger) /\ DOMAIN ledger \subseteq RowIds
    BY <1>2 DEF PgInv, SessionInv, TablesInv, TablesTyped, LedgerTyped
  <1>4. Asked(s) = {} /\ Wanted(s) = held
    BY <1>2 DEF Asked, Wanted
  <1>5. /\ MatchingRows(s) \subseteq DOMAIN ledger
        /\ \A id \in MatchingRows(s) : <<"shared", ledger[id].entity>> \in held
    <2>1. CASE w.name = "sweep"
      BY <2>1 DEF MatchingRows, ExpiredRows
    <2>2. CASE w.name \in Settlements
      <3>1. MatchingRows(s) = RowsOf(w.r)
        BY <2>2 DEF MatchingRows, Settlements
      <3> QED
        BY <1>3, <1>4, <2>2, <3>1 DEF ScopesCovered, RowsOf
    <2> QED
      BY <1>2, <2>1, <2>2
  <1>6. /\ visited \in Seq(MatchingRows(s))
        /\ \A id \in MatchingRows(s) : \E i \in DOMAIN visited : visited[i] = id
    <2>1. IsFiniteSet(MatchingRows(s))
      BY <1>3, <1>5, FS_Subset
    <2> QED
      BY <2>1, ListingFacts
  <1>7. rows \in Seq(AllLocks)
    <2>1. visited \in Seq(RowIds)
      BY <1>3, <1>5, <1>6
    <2>2. \A id \in RowIds : <<"row", id>> \in AllLocks
      BY DEF AllLocks
    <2>3. Len(visited) \in Nat /\ DOMAIN visited = 1..Len(visited)
          /\ \A i \in 1..Len(visited) : visited[i] \in RowIds
      BY <2>1
    <2>4. rows \in [1..Len(visited) -> AllLocks]
      BY <2>2, <2>3
    <2> HIDE DEF rows
    <2> QED
      BY <2>3, <2>4
  <1>8. /\ DOMAIN rows = DOMAIN visited
        /\ \A i \in DOMAIN visited : rows[i] = <<"row", visited[i]>>
    OBVIOUS
  <1>9. /\ \A u \in Sessions \ {s} : tx'[u] = tx[u]
        /\ DOMAIN tx' = Sessions /\ DOMAIN tx'[s] = TxFields
        /\ tx'[s].at = "updating" /\ tx'[s].work = w /\ tx'[s].now = tx[s].now
        /\ tx'[s].todo = rows /\ tx'[s].held = held
    BY <1>1, <1>3 DEF TxTyped, TxFields
  <1> HIDE DEF rows
  <1>10. /\ \A lock \in Asked(s)' : \E id \in MatchingRows(s) : lock = <<"row", id>>
         /\ \A id \in MatchingRows(s) : <<"row", id>> \in Asked(s)'
    <2>1. Asked(s)' = {rows[i] : i \in DOMAIN rows}
      BY <1>9 DEF Asked
    <2>2. \A i \in DOMAIN rows : \E id \in MatchingRows(s) : rows[i] = <<"row", id>>
      BY <1>6, <1>8
    <2>3. \A id \in MatchingRows(s) : \E i \in DOMAIN rows : rows[i] = <<"row", id>>
      BY <1>6, <1>8
    <2> QED
      BY <2>1, <2>2, <2>3
  <1>11. Wanted(s)' = Asked(s)' \cup held
    BY <1>9 DEF Wanted, Asked
  <1>12. \A lock \in held : lock[1] \in ScopeLevels
    BY <1>2, <1>3, <1>4 DEF LockPhases
  <1>13. TxTyped(s)'
    BY <1>2, <1>3, <1>7, <1>9 DEF TxTyped, vars
  <1>14. WorkTyped(s)'
    BY <1>2, <1>3, <1>9 DEF WorkTyped, Settlements
  <1>15. LockPhases(s)'
    BY <1>9, <1>10, <1>12 DEF LockPhases, ScopeLevels
  <1>16. ScopeOrder(s)'
    <2>1. \A i \in DOMAIN rows : rows[i][1] = "row"
      BY <1>8
    <2>2. \A e : Exists(<<"limits", e>>)' <=> Exists(<<"limits", e>>)
      BY <1>2 DEF Exists, vars
    <2>3. \A e : Guarded(s, e)' <=> Guarded(s, e)
      BY <1>9 DEF Guarded
    <2> QED
      BY <1>3, <1>4, <1>9, <2>1, <2>2, <2>3 DEF ScopeOrder
  <1>17. ExclusiveFirst(s)'
    <2>1. w.name # "limit"
      BY <1>2 DEF Settlements
    <2>2. \A lock \in held : lock[1] # "exclusive"
      BY <1>3, <1>4, <2>1 DEF ExclusiveFirst
    <2> QED
      BY <1>9, <1>10, <1>11, <2>1, <2>2 DEF ExclusiveFirst
  <1>18. ScopesCovered(s)'
    BY <1>2, <1>3, <1>4, <1>9, <1>11 DEF ScopesCovered, RowsOf, vars
  <1>19. RowsCovered(s)'
    <2>1. w.name \in Settlements => RowsOf(w.r) \subseteq MatchingRows(s)
      BY DEF MatchingRows, Settlements
    <2>2. \A lock \in held : lock[1] # "row"
      BY <1>12 DEF ScopeLevels
    <2>3. \A id \in MatchingRows(s) : <<"row", id>>[2] = id
      OBVIOUS
    <2> QED
      BY <1>2, <1>5, <1>9, <1>10, <1>11, <2>1, <2>2, <2>3 DEF RowsCovered, RowsOf, vars
  <1>20. Exclusion'
    BY <1>2, <1>9, HeldKept
  <1> QED
    BY <1>2, <1>9, <1>10, <1>11, <1>13, <1>14, <1>15, <1>16, <1>17, <1>18, <1>19, <1>20
       DEF Moved, SessionInv

(* A session that has all it asked for has the limit rows of its scopes.   *)
LEMMA GrantedLocks ==
  ASSUME TablesTyped, NEW s, Active(s), SessionInv(s), tx[s].todo = <<>>
  PROVE  /\ Asked(s) = {} /\ Wanted(s) = tx[s].held
         /\ \A x \in DOMAIN limits :
              <<"shared", x.entity>> \in tx[s].held => <<"limits", x.entity>> \in tx[s].held
  <1>1. Asked(s) = {} /\ Wanted(s) = tx[s].held
    BY DEF Asked, Wanted
  <1>2. ASSUME NEW x \in DOMAIN limits, <<"shared", x.entity>> \in tx[s].held
        PROVE  <<"limits", x.entity>> \in tx[s].held
    <2>1. x.entity \in Entities
      BY DEF TablesTyped, LimitsTyped, Scopes
    <2>2. Exists(<<"limits", x.entity>>)
      BY DEF Exists
    <2> QED
      BY <1>1, <1>2, <2>1, <2>2 DEF SessionInv, ScopeOrder
  <1> QED
    BY <1>1, <1>2

(* The totals after _track.                                                *)
LEMMA TrackedTotals ==
  ASSUME NEW lims, NEW before, NEW after,
         \A x \in DOMAIN lims : DOMAIN lims[x] = {"cap", "grace", "total"}
  PROVE  \A x \in DOMAIN lims :
           Track(lims, before, after)[x].total
             = ApplyRowChanges(lims[x].total, x, before, after)
  <1> DEFINE tracked == Track(lims, before, after)
             New(x) == ApplyRowChanges(lims[x].total, x, before, after)
  <1>1. \A x \in DOMAIN lims : tracked[x] = [lims[x] EXCEPT !.total = New(x)]
    <2> HIDE DEF New
    <2>1. \A x \in DOMAIN lims :
            [lims[x] EXCEPT !.total = ApplyRowChanges(@, x, before, after)]
              = [lims[x] EXCEPT !.total = New(x)]
      BY DEF New
    <2> QED
      BY <2>1 DEF Track
  <1> HIDE DEF tracked, New
  <1>2. \A x \in DOMAIN lims : tracked[x].total = New(x)
    BY <1>1
  <1> QED
    BY <1>2 DEF New, tracked

(* What holds of a session at its locks still holds when it has written.   *)
LEMMA WrittenLocks ==
  ASSUME PgInv, NEW s \in Sessions, Active(s), tx[s].todo = <<>>, UNCHANGED vars,
         tx[s].at \in {"locking", "updating"}, tx[s].work.name # "limit",
         tx[s].at = "locking" => tx[s].work.name = "reserve",
         NEW keys \in SUBSET ({"key"} \X RequestIds),
         DOMAIN tx'[s] = TxFields, tx'[s].at = "writing", tx'[s].todo = <<>>,
         tx'[s].held = tx[s].held \cup keys,
         tx'[s].work = tx[s].work, tx'[s].now = tx[s].now
  PROVE  /\ TxTyped(s)' /\ WorkTyped(s)' /\ LockPhases(s)' /\ ScopeOrder(s)'
         /\ ExclusiveFirst(s)' /\ ScopesCovered(s)' /\ RowsCovered(s)'
  <1> DEFINE held == tx[s].held
  <1>1. /\ TxTyped(s) /\ WorkTyped(s) /\ LockPhases(s) /\ ScopeOrder(s) /\ ExclusiveFirst(s)
        /\ ScopesCovered(s) /\ RowsCovered(s)
    BY DEF PgInv, SessionInv
  <1>2. Asked(s) = {} /\ Wanted(s) = held /\ Asked(s)' = {} /\ Wanted(s)' = held \cup keys
    BY DEF Asked, Wanted
  <1>3. \A key \in keys : key[1] = "key" /\ key \in AllLocks
    BY DEF AllLocks
  <1>4. TxTyped(s)'
    BY <1>1, <1>3 DEF TxTyped, vars
  <1>5. WorkTyped(s)'
    BY <1>1 DEF WorkTyped, Settlements
  <1>6. LockPhases(s)'
    BY <1>2 DEF LockPhases
  <1>7. ScopeOrder(s)'
    <2>1. \A e : Exists(<<"limits", e>>)' <=> Exists(<<"limits", e>>)
      BY DEF Exists, vars
    <2>2. \A e : /\ <<"shared", e>> \in held \cup keys <=> <<"shared", e>> \in held
                 /\ <<"exclusive", e>> \in held \cup keys <=> <<"exclusive", e>> \in held
                 /\ <<"limits", e>> \in held \cup keys <=> <<"limits", e>> \in held
      BY <1>3
    <2>3. \A e : Guarded(s, e)' <=> Guarded(s, e)
      BY <2>2 DEF Guarded
    <2> QED
      BY <1>1, <1>2, <2>1, <2>2, <2>3 DEF ScopeOrder
  <1>8. ExclusiveFirst(s)'
    BY <1>1, <1>2, <1>3 DEF ExclusiveFirst
  <1>9. ScopesCovered(s)'
    BY <1>1, <1>2 DEF ScopesCovered, RowsOf, vars
  <1>10. RowsCovered(s)'
    <2>1. tx[s].work.name \in Settlements => tx[s].at # "locking"
      BY DEF Settlements
    <2> QED
      BY <1>1, <1>2, <1>3, <2>1 DEF RowsCovered, RowsOf, vars
  <1> QED
    BY <1>4, <1>5, <1>6, <1>7, <1>8, <1>9, <1>10

LEMMA LimitRows ==
  ASSUME TablesInv
  PROVE  \A x \in DOMAIN limits : DOMAIN limits[x] = {"cap", "grace", "total"}
  BY DEF TablesInv, TablesTyped, LimitsTyped

LEMMA WriteUpdateMoves ==
  ASSUME PgInv, NEW s \in Sessions, WriteUpdate(s)
  PROVE  Moved(s) /\ UNCHANGED vars
  <1> DEFINE w == tx[s].work
             held == tx[s].held
             rows == Updated(s)
             tracked == Track(limits, ledger, rows)
             stored == [x \in {y \in DOMAIN limits : tracked[y].total # limits[y].total} |->
                          tracked[x].total]
             out == [rows |-> rows, totals |-> stored]
             New(x) == ApplyRowChanges(limits[x].total, x, ledger, rows)
  <1>1. /\ Active(s) /\ tx[s].at = "updating" /\ tx[s].todo = <<>> /\ UNCHANGED vars
        /\ tx' = [tx EXCEPT ![s].at = "writing", ![s].held = @ \cup {}, ![s].out = out]
    BY DEF WriteUpdate, At, Granted, Written, ChangedTotals
  <1>2. /\ TablesInv /\ TablesTyped /\ SessionInv(s) /\ WorkTyped(s)
        /\ ScopesCovered(s) /\ RowsCovered(s) /\ TxTyped(s) /\ DOMAIN tx = Sessions
    BY <1>1 DEF PgInv, SessionInv, TablesInv
  <1>3. w.name \in Settlements \cup {"sweep"} /\ w.name # "reserve" /\ w.name # "limit"
    BY <1>1, <1>2 DEF WorkTyped, Settlements
  <1>4. /\ Wanted(s) = held
        /\ \A x \in DOMAIN limits : <<"shared", x.entity>> \in held => <<"limits", x.entity>> \in held
    BY <1>1, <1>2, GrantedLocks
  <1>5. \A id \in DOMAIN rows : <<"shared", rows[id].entity>> \in held
    <2>1. \A id \in DOMAIN rows :
            /\ id \in DOMAIN ledger /\ rows[id].entity = ledger[id].entity
            /\ w.name \in Settlements => id \in RowsOf(w.r)
            /\ w.name = "sweep" => <<"row", id>> \in held
      BY <1>2, <1>3, UpdatedFacts
    <2>2. \A id \in DOMAIN rows : <<"row", id>> \in held
      <3> HIDE DEF rows
      <3> QED
        BY <1>1, <1>2, <1>3, <1>4, <2>1 DEF RowsCovered
    <2>3. \A id : <<"row", id>> \in held => <<"shared", ledger[id].entity>> \in held
      <3>1. \A lock \in held :
              lock[1] = "row" => <<"shared", ledger[lock[2]].entity>> \in held
        BY <1>2, <1>4 DEF RowsCovered
      <3> QED
        BY <3>1
    <2> HIDE DEF rows
    <2> QED
      BY <2>1, <2>2, <2>3
  <1>6. rows = Updated(s) /\ tracked = Track(limits, ledger, rows)
        /\ stored = [x \in {y \in DOMAIN limits : tracked[y].total # limits[y].total} |->
                       tracked[x].total]
        /\ out.rows = rows /\ out.totals = stored
    OBVIOUS
  <1> HIDE DEF rows, tracked, stored, out
  <1>7. /\ \A u \in Sessions \ {s} : tx'[u] = tx[u]
        /\ DOMAIN tx' = Sessions /\ DOMAIN tx'[s] = TxFields
        /\ tx'[s].at = "writing" /\ tx'[s].work = w /\ tx'[s].now = tx[s].now
        /\ tx'[s].todo = <<>> /\ tx'[s].held = held \cup {}
        /\ tx'[s].out.rows = rows /\ tx'[s].out.totals = stored /\ UNCHANGED vars
    BY <1>1, <1>2, <1>6 DEF TxTyped, TxFields
  <1>8. tx'[s].held = held /\ {} \in SUBSET ({"key"} \X RequestIds)
    BY <1>7
  <1>9. /\ TxTyped(s)' /\ WorkTyped(s)' /\ LockPhases(s)' /\ ScopeOrder(s)'
        /\ ExclusiveFirst(s)' /\ ScopesCovered(s)' /\ RowsCovered(s)'
    BY <1>1, <1>3, <1>7, <1>8, WrittenLocks
  <1>10. RowsCurrent(s)'
    <2>1. Updated(s)' = Updated(s)
      BY <1>7, <1>8 DEF Updated, RowsIn, RowsOf, LapsedRows, ExpiredRows, vars
    <2> QED
      BY <1>3, <1>6, <1>7, <2>1 DEF RowsCurrent
  <1>11. TotalsCurrent(s)'
    <2>1. /\ \A x \in DOMAIN limits :
               New(x) = IF x \in DOMAIN stored THEN stored[x] ELSE limits[x].total
          /\ DOMAIN stored = {x \in DOMAIN limits : New(x) # limits[x].total}
      <3>1. \A x \in DOMAIN limits : tracked[x].total = New(x)
        BY <1>2, <1>6, LimitRows, TrackedTotals
      <3> HIDE DEF New
      <3> QED
        BY <1>6, <3>1
    <2>2. \A x \in DOMAIN limits : <<"limits", x.entity>> \in held \/ New(x) = limits[x].total
      <3> SUFFICES ASSUME NEW x \in DOMAIN limits, <<"limits", x.entity>> \notin held
                   PROVE  New(x) = limits[x].total
        OBVIOUS
      <3>1. \A id \in DOMAIN rows : rows[id].entity # x.entity
        BY <1>4, <1>5
      <3> QED
        BY <3>1, OtherEntity
    <2>3. \A x \in DOMAIN limits : NewTotal(s, x)' = New(x)
      BY <1>3, <1>7 DEF NewTotal, vars
    <2> HIDE DEF New
    <2> QED
      BY <1>7, <1>8, <2>1, <2>2, <2>3 DEF TotalsCurrent, vars
  <1>12. Exclusion'
    BY <1>1, <1>7, <1>8, HeldKept
  <1> QED
    BY <1>7, <1>9, <1>10, <1>11, <1>12 DEF Moved, SessionInv

(* A transaction that ends.                                                *)
LEMMA EndMoves ==
  ASSUME PgInv, NEW s \in Sessions, tx' = [tx EXCEPT ![s] = NoTx]
  PROVE  Moved(s)
  <1>1. /\ \A u \in Sessions \ {s} : tx'[u] = tx[u]
        /\ DOMAIN tx' = Sessions /\ tx'[s] = NoTx
    BY DEF PgInv
  <1>2. ~Active(s)'
    BY <1>1 DEF Active
  <1>3. Exclusion'
    BY <1>1, <1>2, ExclusionKept DEF PgInv
  <1> QED
    BY <1>1, <1>2, <1>3 DEF Moved, SessionInv

LEMMA WriteReservationMoves ==
  ASSUME PgInv, NEW s \in Sessions, WriteReservation(s)
  PROVE  Moved(s) /\ UNCHANGED vars
  <1> DEFINE w == tx[s].work
             held == tx[s].held
             now == tx[s].now
             rows == NewRows(w.r, w.scopes, w.est, w.request, now, w.ttl)
             lims == Checked(w.scopes, now)
             tracked == Track(lims, <<>>, rows)
             stored == [x \in {y \in DOMAIN limits : tracked[y].total # limits[y].total} |->
                          tracked[x].total]
             out == [rows |-> rows, totals |-> stored]
             keys == {<<"key", q>> : q \in {w.request} \ {NoRequest}}
             New(x) == ApplyRowChanges(lims[x].total, x, <<>>, rows)
  <1>1. /\ Active(s) /\ tx[s].at = "locking" /\ tx[s].todo = <<>> /\ w.name = "reserve"
        /\ Fits(w.scopes, w.est, now) => KeyIsFree(s, w.request)
    BY DEF WriteReservation, At, Granted
  <1>2. CASE ~(Fits(w.scopes, w.est, now) /\ ~Conflicts(w.scopes, w.request))
    BY <1>2, EndMoves DEF WriteReservation
  <1>3. CASE Fits(w.scopes, w.est, now) /\ ~Conflicts(w.scopes, w.request)
    <2>1. /\ UNCHANGED vars
          /\ tx' = [tx EXCEPT ![s].at = "writing", ![s].held = @ \cup keys, ![s].out = out]
      BY <1>3 DEF WriteReservation, Written, ChangedTotals
    <2>2. /\ TablesInv /\ TablesTyped /\ SessionInv(s) /\ WorkTyped(s) /\ TxTyped(s)
          /\ ScopesCovered(s) /\ DOMAIN tx = Sessions
      BY <1>1 DEF PgInv, SessionInv, TablesInv
    <2>3. /\ Wanted(s) = held
          /\ \A x \in DOMAIN limits :
               <<"shared", x.entity>> \in held => <<"limits", x.entity>> \in held
      BY <1>1, <2>2, GrantedLocks
    <2>4. \A i \in DOMAIN w.scopes : <<"shared", w.scopes[i].entity>> \in held
      BY <1>1, <2>2, <2>3 DEF ScopesCovered
    <2>5. \A id \in DOMAIN rows : <<"shared", rows[id].entity>> \in held
      <3>1. now \in Time
        BY <2>2 DEF TxTyped
      <3>2. rows = NewRows(w.r, w.scopes, w.est, w.request, now, w.ttl)
        OBVIOUS
      <3> HIDE DEF rows
      <3>3. \A id \in DOMAIN rows : /\ id[2] \in DOMAIN w.scopes
                                    /\ rows[id].entity = w.scopes[id[2]].entity
        <4>1. WorkTyped(s) /\ tx[s].work.name = "reserve"
          BY <1>1, <2>2
        <4>2. /\ DOMAIN rows = {tx[s].work.r} \X DOMAIN tx[s].work.scopes
              /\ IsFiniteSet(DOMAIN rows)
              /\ \A id \in DOMAIN rows :
                   /\ id \in RowIds /\ id[1] = tx[s].work.r /\ rows[id] \in Row
                   /\ id[2] \in DOMAIN tx[s].work.scopes
                   /\ rows[id].entity = tx[s].work.scopes[id[2]].entity
                   /\ rows[id].request = tx[s].work.request
                   /\ rows[id].expires = tx[s].now + tx[s].work.ttl
          BY <3>1, <3>2, <4>1, NewRowsFacts, SMTT(30)
        <4> QED
          BY <4>2
      <3> QED
        BY <2>4, <3>3
    <2>6. keys \in SUBSET ({"key"} \X RequestIds)
          /\ (w.request # NoRequest => <<"key", w.request>> \in keys)
          /\ \A key \in keys : key = <<"key", w.request>> /\ w.request # NoRequest
      <3>1. w.request \in RequestIds \cup {NoRequest}
        BY <1>1, <2>2 DEF WorkTyped, Settlements
      <3> QED
        BY <3>1
    <2>7. /\ DOMAIN lims = DOMAIN limits
          /\ \A x \in DOMAIN limits : DOMAIN lims[x] = {"cap", "grace", "total"}
      <3>1. \A x \in DOMAIN limits : DOMAIN limits[x] = {"cap", "grace", "total"}
        BY <2>2, LimitRows
      <3>2. \A x \in DOMAIN limits : DOMAIN Refreshed(x, now) = {"cap", "grace", "total"}
        BY <3>1 DEF Refreshed
      <3> QED
        BY <3>1, <3>2 DEF Checked
    <2>8. \A x \in DOMAIN limits : <<"limits", x.entity>> \in held \/ New(x) = limits[x].total
      <3> SUFFICES ASSUME NEW x \in DOMAIN limits, <<"limits", x.entity>> \notin held
                   PROVE  New(x) = limits[x].total
        OBVIOUS
      <3>1. \A id \in DOMAIN rows : rows[id].entity # x.entity
        BY <2>3, <2>5
      <3>2. \A i \in DOMAIN w.scopes : w.scopes[i] # x
        BY <2>3, <2>4
      <3>3. lims[x] = limits[x]
        BY <3>2 DEF Checked
      <3> HIDE DEF rows, lims
      <3> QED
        BY <3>1, <3>3, OtherEntity
    <2>9. \A x \in DOMAIN limits : tracked[x].total = New(x)
      <3> HIDE DEF lims, rows
      <3>1. \A x \in DOMAIN lims : DOMAIN lims[x] = {"cap", "grace", "total"}
        BY <2>7
      <3>2. \A x \in DOMAIN lims : tracked[x].total = New(x)
        BY <3>1, TrackedTotals, Zenon
      <3> QED
        BY <2>7, <3>2
    <2>10. /\ rows = NewRows(w.r, w.scopes, w.est, w.request, now, w.ttl)
           /\ stored = [x \in {y \in DOMAIN limits : tracked[y].total # limits[y].total} |->
                          tracked[x].total]
           /\ out.rows = rows /\ out.totals = stored
           /\ lims = Checked(w.scopes, now)
      OBVIOUS
    <2> HIDE DEF rows, lims, tracked, stored, out, keys
    <2>11. /\ \A u \in Sessions \ {s} : tx'[u] = tx[u]
           /\ DOMAIN tx' = Sessions /\ DOMAIN tx'[s] = TxFields
           /\ tx'[s].at = "writing" /\ tx'[s].work = w /\ tx'[s].now = now
           /\ tx'[s].todo = <<>> /\ tx'[s].held = held \cup keys
           /\ tx'[s].out.rows = rows /\ tx'[s].out.totals = stored
      BY <1>1, <2>1, <2>2, <2>10 DEF TxTyped, TxFields
    <2>12. /\ TxTyped(s)' /\ WorkTyped(s)' /\ LockPhases(s)' /\ ScopeOrder(s)'
           /\ ExclusiveFirst(s)' /\ ScopesCovered(s)' /\ RowsCovered(s)'
      BY <1>1, <2>1, <2>6, <2>11, WrittenLocks
    <2>13. RowsCurrent(s)'
      <3>1. Fits(w.scopes, w.est, now)'
        BY <1>3, <2>1, <2>11 DEF Fits, CurrentSpend, Refreshed, vars
      <3>2. ~Conflicts(w.scopes, w.request)'
        BY <1>3, <2>1, <2>11 DEF Conflicts, vars
      <3>3. tx'[s].work.request # NoRequest => <<"key", tx'[s].work.request>> \in tx'[s].held
        BY <2>6, <2>11
      <3>4. /\ tx'[s].work.name = "reserve"
            /\ tx'[s].out.rows
                 = NewRows(tx'[s].work.r, tx'[s].work.scopes, tx'[s].work.est,
                           tx'[s].work.request, tx'[s].now, tx'[s].work.ttl)
        BY <1>1, <2>10, <2>11
      <3> QED
        BY <3>1, <3>2, <3>3, <3>4 DEF RowsCurrent
    <2>14. TotalsCurrent(s)'
      <3>1. /\ \A x \in DOMAIN limits :
                 New(x) = IF x \in DOMAIN stored THEN stored[x] ELSE limits[x].total
            /\ DOMAIN stored = {x \in DOMAIN limits : New(x) # limits[x].total}
        <4> HIDE DEF New
        <4> QED
          BY <2>9, <2>10
      <3>2. \A x \in DOMAIN limits : NewTotal(s, x)' = New(x)
        <4>1. Checked(w.scopes, now)' = lims
          BY <2>1, <2>10, <2>11 DEF Checked, Refreshed, vars
        <4> QED
          BY <1>1, <2>1, <2>11, <4>1 DEF NewTotal, vars
      <3> HIDE DEF New
      <3> QED
        BY <2>1, <2>8, <2>11, <3>1, <3>2 DEF TotalsCurrent, vars
    <2>15. Exclusion'
      <3>1. \A u \in Sessions \ {s} : Active(u) => \A b \in tx[u].held :
              \A key \in keys : ~Clash(key, b)
        <4>1. KeyIsFree(s, w.request)
          BY <1>1, <1>3
        <4> QED
          BY <2>6, <4>1 DEF KeyIsFree, Clash
      <3>2. \A u \in Sessions \ {s} :
              Active(u) => /\ \A a \in held, b \in tx[u].held : ~Clash(a, b)
                           /\ w.name = "reserve" /\ tx[u].work.name = "reserve" =>
                                w.r # tx[u].work.r
        BY <1>1 DEF PgInv, Exclusion
      <3> QED
        BY <2>11, <3>1, <3>2, ExclusionKept DEF PgInv
    <2> QED
      BY <2>1, <2>11, <2>12, <2>13, <2>14, <2>15 DEF Moved, SessionInv
  <1> QED
    BY <1>2, <1>3

--------------------------------------------------------------------------------
(* The invariant holds.                                                    *)

(* It is enough that the tables stay tables and that the others are left   *)
(* what they locked.                                                       *)
LEMMA StepKeepsInv ==
  ASSUME PgInv, NEW s \in Sessions, Moved(s), TablesInv',
         \A u \in Sessions \ {s} : Active(u) => Undisturbed(u)
  PROVE  PgInv'
  <1>1. ASSUME NEW u \in Sessions \ {s}
        PROVE  SessionInv(u)'
    <2>1. tx'[u] = tx[u]
      BY DEF Moved
    <2>2. Active(u) => SessionInv(u) /\ Undisturbed(u)
      BY DEF PgInv
    <2> QED
      BY <2>1, <2>2, UndisturbedStays DEF PgInv
  <1>2. SessionInv(s)'
    BY DEF Moved
  <1>3. \A u \in Sessions : SessionInv(u)'
    BY <1>1, <1>2
  <1> QED
    BY <1>3 DEF PgInv, Moved

LEMMA PrivateStepKeepsInv ==
  ASSUME PgInv, NEW s \in Sessions, Moved(s), UNCHANGED vars
  PROVE  PgInv'
  <1>1. clock' \in Time /\ clock <= clock' /\ UNCHANGED <<limits, ledger>>
    BY TimeAssumption DEF PgInv, TablesInv, TablesTyped, Time, vars
  <1>2. TablesInv' /\ \A u : tx'[u] = tx[u] => Undisturbed(u)
    BY <1>1, TablesLeft DEF PgInv
  <1>3. \A u \in Sessions \ {s} : Undisturbed(u)
    BY <1>2 DEF Moved
  <1> QED
    BY <1>2, <1>3, StepKeepsInv

(* Time passing, or nothing at all.                                        *)
LEMMA QuietKeepsInv ==
  ASSUME PgInv, UNCHANGED <<limits, ledger, tx>>, clock' \in Time, clock <= clock'
  PROVE  PgInv'
  <1>1. TablesInv' /\ \A u : tx'[u] = tx[u] => Undisturbed(u)
    BY TablesLeft DEF PgInv
  <1>2. \A u \in Sessions : SessionInv(u)'
    <2> SUFFICES ASSUME NEW u \in Sessions
                 PROVE  SessionInv(u)'
      OBVIOUS
    <2>1. tx'[u] = tx[u] /\ (Active(u) => SessionInv(u) /\ Undisturbed(u))
      BY <1>1 DEF PgInv
    <2> QED
      BY <1>1, <2>1, UndisturbedStays DEF PgInv
  <1>3. Exclusion'
    BY DEF PgInv, Exclusion, Active
  <1> QED
    BY <1>1, <1>2, <1>3 DEF PgInv

LEMMA InitGivesInv ==
  ASSUME PgInit
  PROVE  PgInv
  <1>1. TablesInv
    <2>1. TablesTyped
      BY InitInvariant DEF PgInit, IInv
    <2>2. limits = <<>> /\ ledger = <<>>
      BY DEF PgInit, Init
    <2>3. DOMAIN ledger = {} /\ DOMAIN limits = {}
      BY <2>2
    <2> QED
      BY <2>1, <2>3, FS_EmptySet DEF TablesInv, LimitsAreRecords
  <1>2. DOMAIN tx = Sessions /\ \A s \in Sessions : ~Active(s)
    BY DEF PgInit, Active
  <1> QED
    BY <1>1, <1>2 DEF PgInv, SessionInv, Exclusion

LEMMA NextKeepsInv ==
  ASSUME PgInv, [PgNext]_pgVars
  PROVE  PgInv'
  <1>1. ASSUME UNCHANGED tx, UNCHANGED vars \/ Tick
        PROVE  PgInv'
    <2>1. /\ clock \in 0..MaxTime /\ MaxTime \in Nat
          /\ clock' = clock \/ (clock' = clock + 1 /\ clock < MaxTime)
      BY <1>1, TimeAssumption DEF PgInv, TablesInv, TablesTyped, Time, Tick, vars
    <2>2. clock' \in Time /\ clock <= clock'
      BY <2>1 DEF Time
    <2>3. UNCHANGED <<limits, ledger>>
      BY <1>1 DEF Tick, vars
    <2> QED
      BY <1>1, <2>2, <2>3, QuietKeepsInv
  <1>2. ASSUME NEW s \in Sessions, CommitWrites(s)
        PROVE  PgInv'
    <2>1. Moved(s)
      BY <1>2, EndMoves DEF CommitWrites
    <2>2. \A u \in Sessions \ {s} : Active(u) => Undisturbed(u)
      BY <1>2, <2>1, CommitDisturbsNobody DEF Moved
    <2> QED
      BY <1>2, <2>1, <2>2, CommitKeepsTables, StepKeepsInv
  <1>3. ASSUME NEW s \in Sessions, CommitLimit(s)
        PROVE  PgInv'
    <2>1. Moved(s)
      BY <1>3, EndMoves DEF CommitLimit
    <2>2. \A u \in Sessions \ {s} : Active(u) => Undisturbed(u)
      BY <1>3, <2>1, LimitDisturbsNobody DEF Moved
    <2> QED
      BY <1>3, <2>1, <2>2, LimitKeepsTables, StepKeepsInv
  <1>4. ASSUME NEW s \in Sessions,
               \/ BeginReserve(s) \/ BeginSettle(s) \/ BeginSweep(s) \/ BeginSetLimit(s)
               \/ Lock(s) \/ ScanExpired(s) \/ SelectForUpdate(s)
               \/ WriteUpdate(s) \/ WriteReservation(s) \/ Rollback(s)
        PROVE  PgInv'
    <2>1. Moved(s) /\ UNCHANGED vars
      <3>1. CASE Rollback(s)
        BY <3>1, EndMoves DEF Rollback
      <3> QED
        BY <1>4, <3>1, BeginReserveMoves, BeginSettleMoves, BeginSweepMoves,
           BeginSetLimitMoves, LockMoves, ScanExpiredMoves, SelectMoves, WriteUpdateMoves,
           WriteReservationMoves
    <2> QED
      BY <2>1, PrivateStepKeepsInv
  <1> QED
    BY <1>1, <1>2, <1>3, <1>4 DEF PgNext, pgVars, vars

(* Every session holds the locks of what it reads and writes, no two hold  *)
(* locks that clash, and what one is about to commit is what the tables    *)
(* would have it write now.                                                *)
THEOREM SessionsKeepTheirLocks == PgSpec => []PgInv
  BY InitGivesInv, NextKeepsInv, PTL DEF PgSpec

(* A transaction writes only rows and totals that it has locked, whatever  *)
(* the entities, their order and the plans of the database.                *)
THEOREM WritesHaveLocks == PgSpec => []WritesAreLocked
  <1>1. PgInv => WritesAreLocked
    <2> SUFFICES ASSUME PgInv, NEW s \in Sessions, At(s, "writing")
                 PROVE  /\ \A id \in DOMAIN tx[s].out.rows \cap DOMAIN ledger :
                             <<"row", id>> \in tx[s].held
                        /\ \A x \in DOMAIN tx[s].out.totals :
                             <<"limits", x.entity>> \in tx[s].held
      BY DEF WritesAreLocked
    <2>1. TablesInv /\ Active(s) /\ SessionInv(s) /\ tx[s].at = "writing"
      BY DEF PgInv, At
    <2>2. TotalsCurrent(s)
      BY <2>1 DEF SessionInv
    <2> QED
      BY <2>1, <2>2, OutRows DEF TotalsCurrent
  <1> QED
    BY <1>1, SessionsKeepTheirLocks, PTL

--------------------------------------------------------------------------------
(* The transactions implement those of Ledger. A sweep settles the rows of *)
(* the scopes it has locked, and the rows that expired when it began must  *)
(* be all of them: no row may be inserted that has expired already. A row  *)
(* is stamped with a clock reading that is at most MaxLag old.             *)
TtlOutlivesLag == \A ttl \in TTLs : ttl >= MaxLag

(* Rows that a transaction leaves reserved were reserved.                  *)
LEMMA UpdateReservesNothing ==
  ASSUME TablesTyped, NEW s, WorkTyped(s),
         tx[s].work.name \in Settlements \cup {"sweep"},
         NEW id \in DOMAIN Updated(s), Updated(s)[id].state = "reserved"
  PROVE  ledger[id].state = "reserved"
  <1> DEFINE w == tx[s].work
  <1>1. \A x \in DOMAIN ledger : ledger[x] \in Row
    BY DEF TablesTyped, LedgerTyped
  <1>2. \A x \in DOMAIN ledger :
          /\ Refunded(ledger[x]).state = "released" /\ Lapsed(ledger[x]).state = "released"
          /\ Paid(ledger[x], w.cost).state = "committed"
          /\ PaidLate(ledger[x], w.cost).state = "committed"
    BY <1>1 DEF Row, Refunded, Lapsed, Paid, PaidLate
  <1>3. /\ \A x \in RowsIn(w.r, "reserved") : x \in DOMAIN ledger /\ ledger[x].state = "reserved"
        /\ LapsedRows(w.r) \subseteq DOMAIN ledger
        /\ \A x \in ExpiredRows(tx[s].now) : x \in DOMAIN ledger /\ ledger[x].state = "reserved"
    BY DEF RowsIn, RowsOf, LapsedRows, ExpiredRows
  <1>4. CASE w.name = "commit" /\ RowsIn(w.r, "reserved") = {}
    <2>1. Updated(s) = [x \in LapsedRows(w.r) |-> PaidLate(ledger[x], w.cost)]
      BY <1>4 DEF Updated
    <2> QED
      BY <1>2, <1>3, <2>1
  <1>5. CASE w.name = "sweep"
    <2>1. Updated(s) = [x \in {y \in ExpiredRows(tx[s].now) : <<"row", y>> \in tx[s].held} |->
                          Lapsed(ledger[x])]
      BY <1>5 DEF Updated
    <2> QED
      BY <1>3, <2>1
  <1>6. CASE \/ w.name \in {"observe", "release"}
             \/ w.name = "commit" /\ RowsIn(w.r, "reserved") # {}
    <2>1. DOMAIN Updated(s) = RowsIn(w.r, "reserved")
      BY <1>6 DEF Updated
    <2> QED
      BY <1>3, <2>1
  <1> QED
    BY <1>4, <1>5, <1>6 DEF Settlements

(* A row that has expired for a sweep has expired for it before.           *)
LEMMA NothingExpiresLate ==
  ASSUME TtlOutlivesLag, PgInv, [PgNext]_pgVars, NEW u \in Sessions, Active(u),
         NEW id \in DOMAIN ledger', ledger'[id].state = "reserved",
         ledger'[id].expires < tx[u].now
  PROVE  id \in ExpiredRows(tx[u].now) /\ ledger'[id].entity = ledger[id].entity
  <1>1. CASE ledger' = ledger
    BY <1>1 DEF ExpiredRows
  <1>2. ASSUME NEW s \in Sessions, CommitWrites(s)
        PROVE  id \in ExpiredRows(tx[u].now) /\ ledger'[id].entity = ledger[id].entity
    <2>1. /\ TablesInv /\ TablesTyped /\ SessionInv(s) /\ WorkTyped(s)
          /\ Stored(s) /\ Active(s) /\ tx[s].at = "writing" /\ RowsCurrent(s) /\ TxTyped(s)
      BY <1>2, CommitStores DEF PgInv, TablesInv, SessionInv
    <2>2. CASE id \notin DOMAIN tx[s].out.rows
      BY <2>1, <2>2 DEF Stored, ExpiredRows
    <2>3. CASE id \in DOMAIN tx[s].out.rows /\ id \in DOMAIN ledger
      <3>1. /\ ledger'[id] = tx[s].out.rows[id] /\ tx[s].work.name # "reserve"
            /\ tx[s].out.rows[id].entity = ledger[id].entity
            /\ tx[s].out.rows[id].expires = ledger[id].expires
        BY <2>1, <2>3, OutRows DEF Stored
      <3>2. tx[s].work.name \in Settlements \cup {"sweep"}
        BY <2>1, <3>1, WritingLocks
      <3>3. id \in DOMAIN Updated(s) /\ Updated(s)[id].state = "reserved"
        BY <2>1, <2>3, <3>1 DEF RowsCurrent
      <3>4. ledger[id].state = "reserved"
        BY <2>1, <3>2, <3>3, UpdateReservesNothing
      <3> QED
        BY <2>3, <3>1, <3>4 DEF ExpiredRows
    <2>4. CASE id \in DOMAIN tx[s].out.rows /\ id \notin DOMAIN ledger
      <3> DEFINE ttl == tx[s].work.ttl
      <3>1. /\ tx[s].work.name = "reserve"
            /\ ledger'[id].expires = tx[s].now + ttl
        <4>1. ledger'[id] = tx[s].out.rows[id]
          BY <2>1, <2>4 DEF Stored
        <4>2. /\ tx[s].work.name = "reserve"
              /\ tx[s].out.rows[id].expires = tx[s].now + tx[s].work.ttl
          BY <2>1, <2>4, OutRows
        <4> QED
          BY <4>1, <4>2
      <3>2. ttl \in TTLs
        BY <2>1, <3>1 DEF WorkTyped, Settlements
      <3>3. ttl \in Nat /\ MaxLag \in Nat /\ ttl >= MaxLag
        BY <3>2, LedgerAssumption DEF TtlOutlivesLag
      <3>4. tx[s].now \in Recent
        BY <1>2, <3>1 DEF CommitWrites
      <3>5. tx[s].now \in Nat /\ clock \in Nat /\ clock - tx[s].now <= MaxLag
        BY <2>1, <3>4, TimeAssumption DEF Recent, TablesTyped, Time
      <3>6. tx[u].now \in Nat /\ tx[u].now <= clock
        BY TimeAssumption DEF PgInv, SessionInv, TxTyped, Time
      <3> HIDE DEF ttl
      <3> QED
        BY <3>1, <3>3, <3>5, <3>6
    <2> QED
      BY <2>1, <2>2, <2>3, <2>4 DEF Stored
  <1>3. ASSUME ~ \E s \in Sessions : CommitWrites(s)
        PROVE  ledger' = ledger
    <2>1. CASE UNCHANGED pgVars
      BY <2>1 DEF pgVars
    <2>2. CASE Tick
      BY <2>2 DEF Tick
    <2>3. ASSUME NEW s \in Sessions, CommitLimit(s)
          PROVE  ledger' = ledger
      BY <2>3 DEF CommitLimit, SetLimit
    <2>4. ASSUME NEW s \in Sessions,
                 \/ BeginReserve(s) \/ BeginSettle(s) \/ BeginSweep(s) \/ BeginSetLimit(s)
                 \/ Lock(s) \/ ScanExpired(s) \/ SelectForUpdate(s)
                 \/ WriteUpdate(s) \/ WriteReservation(s) \/ Rollback(s)
          PROVE  ledger' = ledger
      <3>1. CASE Rollback(s)
        BY <3>1 DEF Rollback, vars
      <3> QED
        BY <2>4, <3>1, BeginReserveMoves, BeginSettleMoves, BeginSweepMoves,
           BeginSetLimitMoves, LockMoves, ScanExpiredMoves, SelectMoves, WriteUpdateMoves,
           WriteReservationMoves DEF vars
    <2> QED
      BY <1>3, <2>1, <2>2, <2>3, <2>4 DEF PgNext
  <1> QED
    BY <1>1, <1>2, <1>3

(* The locks of the rows that have expired are never given up.             *)
Covers(u) ==
  Active(u) /\ tx[u].work.name = "sweep" /\ tx[u].at # "scanning" =>
    \A id \in ExpiredRows(tx[u].now) :
      /\ <<"shared", ledger[id].entity>> \in Wanted(u)
      /\ tx[u].at # "locking" => <<"row", id>> \in Wanted(u)

(* A session whose transaction is not moved covers what it covered.        *)
LEMMA CoversStays ==
  ASSUME TtlOutlivesLag, PgInv, [PgNext]_pgVars, NEW u \in Sessions, Covers(u), tx'[u] = tx[u]
  PROVE  Covers(u)'
  <1> SUFFICES ASSUME Active(u), tx[u].work.name = "sweep", tx[u].at # "scanning",
                      NEW id \in DOMAIN ledger', ledger'[id].state = "reserved",
                      ledger'[id].expires < tx[u].now
               PROVE  /\ <<"shared", ledger'[id].entity>> \in Wanted(u)'
                      /\ tx[u].at # "locking" => <<"row", id>> \in Wanted(u)'
    BY DEF Covers, ExpiredRows, Active
  <1>1. id \in ExpiredRows(tx[u].now) /\ ledger'[id].entity = ledger[id].entity
    BY NothingExpiresLate
  <1>2. Wanted(u)' = Wanted(u)
    BY DEF Wanted, Asked
  <1> QED
    BY <1>1, <1>2 DEF Covers

(* A session that moves on within its sweep keeps the locks it wanted.     *)
LEMMA CoversMoves ==
  ASSUME PgInv, NEW s \in Sessions, Active(s), Covers(s), UNCHANGED vars,
         tx'[s].work = tx[s].work, tx'[s].now = tx[s].now, tx[s].at # "scanning",
         \A lock \in Wanted(s) : lock[1] # "limits" => lock \in Wanted(s)',
         tx'[s].at = tx[s].at \/ tx[s].at # "locking"
  PROVE  Covers(s)'
  <1> SUFFICES ASSUME tx[s].work.name = "sweep", NEW id \in ExpiredRows(tx[s].now)
               PROVE  /\ <<"shared", ledger[id].entity>> \in Wanted(s)'
                      /\ tx'[s].at # "locking" => <<"row", id>> \in Wanted(s)'
    BY DEF Covers, ExpiredRows, Active, vars
  <1>1. /\ <<"shared", ledger[id].entity>> \in Wanted(s)
        /\ tx[s].at # "locking" => <<"row", id>> \in Wanted(s)
    BY DEF Covers
  <1> QED
    BY <1>1

(* The moving session of any step, and the sweep it may be in.             *)
LEMMA CoversNext ==
  ASSUME TtlOutlivesLag, PgInv, SweepsCover, [PgNext]_pgVars
  PROVE  SweepsCover'
  <1>1. \A u \in Sessions : Covers(u)
    BY DEF SweepsCover, Covers
  <1>2. ASSUME NEW s \in Sessions, Moved(s), Covers(s)'
        PROVE  SweepsCover'
    <2>1. \A u \in Sessions \ {s} : Covers(u)'
      BY <1>1, <1>2, CoversStays DEF Moved
    <2>2. \A u \in Sessions : Covers(u)'
      BY <1>2, <2>1, Zenon
    <2> QED
      BY <2>2 DEF SweepsCover, Covers
  <1>3. CASE UNCHANGED tx
    <2>1. \A u \in Sessions : tx'[u] = tx[u]
      BY <1>3
    <2>2. \A u \in Sessions : Covers(u)'
      BY <1>1, <2>1, CoversStays
    <2> QED
      BY <2>2 DEF SweepsCover, Covers
  <1>4. ASSUME NEW s \in Sessions,
               CommitWrites(s) \/ CommitLimit(s) \/ Rollback(s)
                 \/ BeginReserve(s) \/ BeginSettle(s) \/ BeginSweep(s) \/ BeginSetLimit(s)
        PROVE  SweepsCover'
    <2>1. CASE CommitWrites(s) \/ CommitLimit(s) \/ Rollback(s)
      <3>1. tx' = [tx EXCEPT ![s] = NoTx]
        BY <2>1 DEF CommitWrites, CommitLimit, Rollback
      <3>2. ~Active(s)'
        BY <3>1 DEF Active, PgInv
      <3> QED
        BY <1>2, <3>1, <3>2, EndMoves DEF Covers
    <2>2. CASE BeginReserve(s) \/ BeginSettle(s) \/ BeginSweep(s) \/ BeginSetLimit(s)
      <3>1. Moved(s)
        BY <2>2, BeginReserveMoves, BeginSettleMoves, BeginSweepMoves, BeginSetLimitMoves
      <3>2. \E at, work, locks :
              Begin(s, at, work, locks) /\ (work.name = "sweep" => at = "scanning")
        <4>1. CASE BeginReserve(s)
          <5>1. PICK r \in Reservations, scopes \in Requests, est \in Estimates,
                     request \in RequestIds \cup {NoRequest}, ttl \in TTLs :
                  Begin(s, "locking",
                        [name |-> "reserve", r |-> r, scopes |-> scopes, est |-> est,
                         request |-> request, ttl |-> ttl],
                        ScopeLocks([i \in DOMAIN scopes |-> scopes[i].entity]))
            BY <4>1 DEF BeginReserve
          <5> DEFINE work == [name |-> "reserve", r |-> r, scopes |-> scopes, est |-> est,
                              request |-> request, ttl |-> ttl]
          <5>2. work.name # "sweep"
            OBVIOUS
          <5> QED
            BY <5>1, <5>2
        <4>2. CASE BeginSettle(s)
          <5>1. PICK r \in Reservations, cost \in Costs, name \in {"observe", "commit", "release"} :
                  \E entities \in SortedEntities(RowsOf(r)) :
                    Begin(s, "locking", [name |-> name, r |-> r, cost |-> cost],
                          ScopeLocks(entities))
            BY <4>2 DEF BeginSettle
          <5> DEFINE work == [name |-> name, r |-> r, cost |-> cost]
          <5>2. work.name # "sweep"
            OBVIOUS
          <5> QED
            BY <5>1, <5>2
        <4>3. CASE BeginSweep(s)
          BY <4>3 DEF BeginSweep
        <4>4. CASE BeginSetLimit(s)
          <5>1. PICK l \in LimitChoices :
                  Begin(s, "locking", [name |-> "limit", limit |-> l],
                        <<<<"exclusive", l.scope.entity>>, <<"limits", l.scope.entity>>>>)
            BY <4>4 DEF BeginSetLimit
          <5> DEFINE work == [name |-> "limit", limit |-> l]
          <5>2. work.name # "sweep"
            OBVIOUS
          <5> QED
            BY <5>1, <5>2
        <4> QED
          BY <2>2, <4>1, <4>2, <4>3, <4>4
      <3>3. tx'[s].work.name = "sweep" => tx'[s].at = "scanning"
        BY <3>2, BegunTx
      <3> QED
        BY <1>2, <3>1, <3>3 DEF Covers
    <2> QED
      BY <1>4, <2>1, <2>2
  <1>5. ASSUME NEW s \in Sessions, Lock(s)
        PROVE  SweepsCover'
    <2>1. /\ Moved(s) /\ UNCHANGED vars
          /\ tx'[s].at = tx[s].at /\ tx'[s].work = tx[s].work /\ tx'[s].now = tx[s].now
          /\ \A lock \in Wanted(s) : lock[1] # "limits" => lock \in Wanted(s)'
      BY <1>5, LockMoves
    <2>2. Active(s) /\ tx[s].at # "scanning"
      BY <1>5 DEF Lock, Granted, PgInv, SessionInv, LockPhases
    <2>3. Covers(s)'
      BY <1>1, <2>1, <2>2, CoversMoves
    <2> QED
      BY <1>2, <2>1, <2>3
  <1>6. ASSUME NEW s \in Sessions, ScanExpired(s)
        PROVE  SweepsCover'
    <2>1. /\ Moved(s) /\ UNCHANGED vars
          /\ \A id \in ExpiredRows(tx[s].now) : <<"shared", ledger[id].entity>> \in Wanted(s)'
      BY <1>6, ScanExpiredMoves
    <2>2. tx'[s].at = "locking" /\ tx'[s].now = tx[s].now
      BY <1>6 DEF ScanExpired, At, PgInv, SessionInv, TxTyped, TxFields
    <2>3. Covers(s)'
      BY <2>1, <2>2 DEF Covers, ExpiredRows, vars
    <2> QED
      BY <1>2, <2>1, <2>3
  <1>7. ASSUME NEW s \in Sessions, SelectForUpdate(s)
        PROVE  SweepsCover'
    <2>1. /\ Moved(s) /\ UNCHANGED vars
          /\ \A id \in MatchingRows(s) : <<"row", id>> \in Wanted(s)'
      BY <1>7, SelectMoves
    <2>2. /\ Active(s) /\ tx[s].at = "locking" /\ tx[s].todo = <<>>
          /\ DOMAIN tx = Sessions /\ DOMAIN tx[s] = TxFields
      BY <1>7 DEF SelectForUpdate, At, Granted, PgInv, SessionInv, TxTyped
    <2>3. /\ tx'[s].held = tx[s].held /\ tx'[s].work = tx[s].work /\ tx'[s].now = tx[s].now
      BY <1>7, <2>2 DEF SelectForUpdate, TxFields
    <2>4. Wanted(s) = tx[s].held
      BY <2>2 DEF Wanted, Asked
    <2>5. ASSUME tx[s].work.name = "sweep", NEW id \in ExpiredRows(tx[s].now)
          PROVE  <<"shared", ledger[id].entity>> \in tx[s].held /\ id \in MatchingRows(s)
      BY <1>1, <2>2, <2>4, <2>5 DEF Covers, MatchingRows
    <2>6. Covers(s)'
      BY <2>1, <2>3, <2>5 DEF Covers, ExpiredRows, vars, Wanted
    <2> QED
      BY <1>2, <2>1, <2>6
  <1>8. ASSUME NEW s \in Sessions, WriteUpdate(s)
        PROVE  SweepsCover'
    <2>1. Moved(s) /\ UNCHANGED vars
      BY <1>8, WriteUpdateMoves
    <2>2. /\ Active(s) /\ tx[s].at = "updating" /\ tx[s].todo = <<>>
          /\ DOMAIN tx = Sessions /\ DOMAIN tx[s] = TxFields
      BY <1>8 DEF WriteUpdate, At, Granted, PgInv, SessionInv, TxTyped
    <2>3. /\ tx'[s].held = tx[s].held \cup {} /\ tx'[s].todo = tx[s].todo
          /\ tx'[s].work = tx[s].work /\ tx'[s].now = tx[s].now
      BY <1>8, <2>2 DEF WriteUpdate, Written, TxFields
    <2>4. Wanted(s)' = Wanted(s)
      BY <2>3 DEF Wanted, Asked
    <2>5. Covers(s)'
      BY <1>1, <2>1, <2>2, <2>3, <2>4, CoversMoves
    <2> QED
      BY <1>2, <2>1, <2>5
  <1>9. ASSUME NEW s \in Sessions, WriteReservation(s)
        PROVE  SweepsCover'
    <2>1. Moved(s) /\ UNCHANGED vars
      BY <1>9, WriteReservationMoves
    <2>2. /\ tx[s].work.name = "reserve" /\ DOMAIN tx = Sessions /\ DOMAIN tx[s] = TxFields
      BY <1>9 DEF WriteReservation, At, PgInv, SessionInv, TxTyped
    <2>3. ~Active(s)' \/ tx'[s].work = tx[s].work
      <3> DEFINE w == tx[s].work
                 Writes == Fits(w.scopes, w.est, tx[s].now) /\ ~Conflicts(w.scopes, w.request)
      <3>1. CASE ~Writes
        <4>1. tx' = [tx EXCEPT ![s] = NoTx]
          BY <1>9, <3>1 DEF WriteReservation
        <4> QED
          BY <2>2, <4>1 DEF Active
      <3>2. CASE Writes
        <4>1. \E keys, out :
                tx' = [tx EXCEPT ![s].at = "writing", ![s].held = @ \cup keys, ![s].out = out]
          BY <1>9, <3>2 DEF WriteReservation, Written
        <4> QED
          BY <2>2, <4>1 DEF TxFields
      <3> QED
        BY <3>1, <3>2
    <2>4. Covers(s)'
      BY <2>2, <2>3 DEF Covers
    <2> QED
      BY <1>2, <2>1, <2>4
  <1> QED
    BY <1>3, <1>4, <1>5, <1>6, <1>7, <1>8, <1>9 DEF PgNext, pgVars

(* The totals that a commit leaves are those that its rows make.           *)
LEMMA CommittedTotals ==
  ASSUME PgInv, NEW s \in Sessions, CommitWrites(s)
  PROVE  /\ DOMAIN limits' = DOMAIN limits
         /\ limits' = [x \in DOMAIN limits |-> limits'[x]]
         /\ \A x \in DOMAIN limits :
              limits'[x] = [limits[x] EXCEPT !.total = NewTotal(s, x)]
  <1> DEFINE totals == tx[s].out.totals
  <1>1. /\ LimitsAreRecords /\ TotalsCurrent(s)
    BY CommitStores DEF PgInv, TablesInv, SessionInv
  <1>2. /\ DOMAIN limits' = DOMAIN limits
        /\ limits' = [x \in DOMAIN limits |-> limits'[x]]
        /\ \A x \in DOMAIN limits :
             limits'[x] = IF x \in DOMAIN totals
                          THEN [limits[x] EXCEPT !.total = totals[x]] ELSE limits[x]
    BY DEF CommitWrites
  <1>3. ASSUME NEW x \in DOMAIN limits
        PROVE  limits'[x] = [limits[x] EXCEPT !.total = NewTotal(s, x)]
    <2>1. NewTotal(s, x) = IF x \in DOMAIN totals THEN totals[x] ELSE limits[x].total
      BY <1>1 DEF TotalsCurrent
    <2>2. CASE x \in DOMAIN totals
      BY <1>2, <2>1, <2>2
    <2>3. CASE x \notin DOMAIN totals
      <3>1. limits'[x] = limits[x] /\ NewTotal(s, x) = limits[x].total
        BY <1>2, <2>1, <2>3
      <3>2. limits[x] = [cap |-> limits[x].cap, grace |-> limits[x].grace,
                         total |-> limits[x].total]
        BY <1>1 DEF LimitsAreRecords
      <3>3. [limits[x] EXCEPT !.total = limits[x].total] = limits[x]
        BY <3>2
      <3> QED
        BY <3>1, <3>3
    <2> QED
      BY <2>2, <2>3
  <1> QED
    BY <1>2, <1>3

(* The commit of an UPDATE is Ledger's.                                    *)
LEMMA CommittedUpdate ==
  ASSUME PgInv, NEW s \in Sessions, CommitWrites(s), tx[s].work.name # "reserve"
  PROVE  /\ ledger' = [id \in DOMAIN ledger |->
                         IF id \in DOMAIN Updated(s) THEN Updated(s)[id] ELSE ledger[id]]
         /\ limits' = Track(limits, ledger, Updated(s))
         /\ UNCHANGED clock
  <1> DEFINE rows == tx[s].out.rows
  <1>1. /\ TablesInv /\ SessionInv(s) /\ Active(s) /\ tx[s].at = "writing" /\ RowsCurrent(s)
    BY CommitStores DEF PgInv, SessionInv
  <1>2. rows = Updated(s)
    BY <1>1 DEF RowsCurrent
  <1>3. DOMAIN rows \subseteq DOMAIN ledger
    BY <1>1, OutRows
  <1>4. ledger' = [id \in DOMAIN ledger |-> IF id \in DOMAIN rows THEN rows[id] ELSE ledger[id]]
    <2>1. DOMAIN ledger \cup DOMAIN rows = DOMAIN ledger
      BY <1>3
    <2> QED
      BY <2>1 DEF CommitWrites
  <1>5. limits' = Track(limits, ledger, rows)
    <2>1. \A x \in DOMAIN limits : NewTotal(s, x) = ApplyRowChanges(limits[x].total, x, ledger, rows)
      BY DEF NewTotal
    <2>2. \A x \in DOMAIN limits :
            limits'[x] = [limits[x] EXCEPT !.total = ApplyRowChanges(@, x, ledger, rows)]
      BY <2>1, CommittedTotals
    <2> QED
      BY <2>2, CommittedTotals DEF Track
  <1> QED
    BY <1>2, <1>4, <1>5 DEF CommitWrites

(* The commit of a reservation is Ledger's.                                *)
LEMMA CommittedReservation ==
  ASSUME PgInv, NEW s \in Sessions, CommitWrites(s), tx[s].work.name = "reserve"
  PROVE  ReserveSome
  <1> DEFINE w == tx[s].work
             now == tx[s].now
             rows == tx[s].out.rows
             lims == Checked(w.scopes, now)
  <1>1. /\ TablesInv /\ SessionInv(s) /\ Active(s) /\ tx[s].at = "writing" /\ RowsCurrent(s)
        /\ WorkTyped(s) /\ ScopesCovered(s)
    BY CommitStores DEF PgInv, SessionInv
  <1>2. /\ w.r \in Reservations /\ w.scopes \in Requests /\ w.est \in Estimates
        /\ w.request \in RequestIds \cup {NoRequest} /\ w.ttl \in TTLs /\ now \in Recent
    BY <1>1 DEF WorkTyped, Settlements, CommitWrites
  <1>3. /\ rows = NewRows(w.r, w.scopes, w.est, w.request, now, w.ttl)
        /\ RowsOf(w.r) = {} /\ Fits(w.scopes, w.est, now) /\ ~Conflicts(w.scopes, w.request)
    BY <1>1 DEF RowsCurrent, ScopesCovered
  <1>4. /\ ledger' = [id \in DOMAIN ledger \cup DOMAIN rows |->
                        IF id \in DOMAIN rows THEN rows[id] ELSE ledger[id]]
        /\ UNCHANGED clock
    BY DEF CommitWrites
  <1>5. limits' = Track(lims, <<>>, rows)
    <2>1. DOMAIN lims = DOMAIN limits
      BY DEF Checked
    <2>2. \A x \in DOMAIN limits : NewTotal(s, x) = ApplyRowChanges(lims[x].total, x, <<>>, rows)
      BY DEF NewTotal
    <2>3. \A x \in DOMAIN limits : \A total :
            [lims[x] EXCEPT !.total = total] = [limits[x] EXCEPT !.total = total]
      <3> SUFFICES ASSUME NEW x \in DOMAIN limits, NEW total
                   PROVE  [lims[x] EXCEPT !.total = total] = [limits[x] EXCEPT !.total = total]
        OBVIOUS
      <3>1. lims[x] = limits[x] \/ lims[x] = Refreshed(x, now)
        BY DEF Checked
      <3>2. \/ Refreshed(x, now) = limits[x]
            \/ Refreshed(x, now) = [limits[x] EXCEPT !.total = RebuiltTotal(ledger, x, now)]
        BY DEF Refreshed
      <3> HIDE DEF lims
      <3>3. PICK other : \/ lims[x] = limits[x]
                         \/ lims[x] = [limits[x] EXCEPT !.total = other]
        BY <3>1, <3>2
      <3>4. limits[x] = [cap |-> limits[x].cap, grace |-> limits[x].grace,
                         total |-> limits[x].total]
        BY <1>1 DEF TablesInv, LimitsAreRecords
      <3>5. \A l, t : l = [cap |-> l.cap, grace |-> l.grace, total |-> l.total] =>
              [[l EXCEPT !.total = t] EXCEPT !.total = total] = [l EXCEPT !.total = total]
        OBVIOUS
      <3> QED
        BY <3>3, <3>4, <3>5
    <2>4. \A x \in DOMAIN limits :
            limits'[x] = [lims[x] EXCEPT !.total = ApplyRowChanges(@, x, <<>>, rows)]
      <3> SUFFICES ASSUME NEW x \in DOMAIN limits
                   PROVE  limits'[x] = [lims[x] EXCEPT !.total = ApplyRowChanges(@, x, <<>>, rows)]
        OBVIOUS
      <3> DEFINE total == NewTotal(s, x)
      <3>1. limits'[x] = [limits[x] EXCEPT !.total = total]
        BY CommittedTotals
      <3> HIDE DEF lims, rows, total
      <3>2. limits'[x] = [lims[x] EXCEPT !.total = total]
        BY <2>3, <3>1
      <3>3. total = ApplyRowChanges(lims[x].total, x, <<>>, rows)
        BY <2>2 DEF total
      <3> QED
        BY <3>2, <3>3
    <2> HIDE DEF lims
    <2> QED
      BY <2>1, <2>4, CommittedTotals DEF Track
  <1>6. Reserve(w.r, w.scopes, w.est, w.request, now, w.ttl)
    <2> HIDE DEF rows
    <2> QED
      BY <1>3, <1>4, <1>5 DEF Reserve
  <1> QED
    BY <1>2, <1>6 DEF ReserveSome, ReserveAt

(* Every commit is a transaction of Ledger.                                *)
LEMMA CommitImplements ==
  ASSUME PgInv, SweepsCover, NEW s \in Sessions, CommitWrites(s)
  PROVE  Next
  <1> DEFINE w == tx[s].work
  <1>1. /\ TablesInv /\ TablesTyped /\ SessionInv(s) /\ WorkTyped(s)
        /\ Active(s) /\ tx[s].at = "writing"
    BY CommitStores DEF PgInv, SessionInv, TablesInv
  <1>2. CASE w.name = "reserve"
    BY <1>2, CommittedReservation DEF Next
  <1>3. ASSUME w.name # "reserve"
        PROVE  /\ ledger' = [id \in DOMAIN ledger |->
                               IF id \in DOMAIN Updated(s) THEN Updated(s)[id] ELSE ledger[id]]
               /\ limits' = Track(limits, ledger, Updated(s))
               /\ UNCHANGED clock
    BY <1>3, CommittedUpdate
  <1>4. w.name \in Settlements => w.r \in Reservations /\ w.cost \in Costs
    BY <1>1 DEF WorkTyped, Settlements
  <1>5. CASE w.name = "observe"
    <2> DEFINE after == [id \in RowsIn(w.r, "reserved") |-> Observed(ledger[id], w.cost)]
    <2>1. Updated(s) = after /\ DOMAIN after = RowsIn(w.r, "reserved")
      BY <1>5 DEF Updated
    <2>2. Observe(w.r, w.cost)
      <3>1. /\ ledger' = [id \in DOMAIN ledger |->
                            IF id \in RowsIn(w.r, "reserved") THEN after[id] ELSE ledger[id]]
            /\ limits' = Track(limits, ledger, after) /\ UNCHANGED clock
        <4> HIDE DEF after
        <4> QED
          BY <1>3, <1>5, <2>1
      <3> QED
        BY <3>1, Zenon DEF Observe, Update
    <2> QED
      BY <1>4, <1>5, <2>2 DEF Next, ObserveSome, Settlements
  <1>6. CASE w.name = "commit" /\ RowsIn(w.r, "reserved") # {}
    <2> DEFINE after == [id \in RowsIn(w.r, "reserved") |-> Paid(ledger[id], w.cost)]
    <2>1. Updated(s) = after /\ DOMAIN after = RowsIn(w.r, "reserved")
      BY <1>6 DEF Updated
    <2>2. Update(RowsIn(w.r, "reserved"), LAMBDA row : Paid(row, w.cost))
      <3>1. /\ ledger' = [id \in DOMAIN ledger |->
                            IF id \in RowsIn(w.r, "reserved") THEN after[id] ELSE ledger[id]]
            /\ limits' = Track(limits, ledger, after) /\ UNCHANGED clock
        <4> HIDE DEF after
        <4> QED
          BY <1>3, <1>6, <2>1
      <3> QED
        BY <3>1, Zenon DEF Update
    <2>3. Commit(w.r, w.cost)
      BY <1>6, <2>2 DEF Commit
    <2> QED
      BY <1>4, <1>6, <2>3 DEF Next, CommitSome, Settlements
  <1>7. CASE w.name = "commit" /\ RowsIn(w.r, "reserved") = {}
    <2> DEFINE after == [id \in LapsedRows(w.r) |-> PaidLate(ledger[id], w.cost)]
    <2>1. Updated(s) = after /\ DOMAIN after = LapsedRows(w.r)
      BY <1>7 DEF Updated
    <2>2. Update(LapsedRows(w.r), LAMBDA row : PaidLate(row, w.cost))
      <3>1. /\ ledger' = [id \in DOMAIN ledger |->
                            IF id \in LapsedRows(w.r) THEN after[id] ELSE ledger[id]]
            /\ limits' = Track(limits, ledger, after) /\ UNCHANGED clock
        <4> HIDE DEF after
        <4> QED
          BY <1>3, <1>7, <2>1
      <3> QED
        BY <3>1, Zenon DEF Update
    <2>3. Commit(w.r, w.cost)
      BY <1>7, <2>2 DEF Commit
    <2> QED
      BY <1>4, <1>7, <2>3 DEF Next, CommitSome, Settlements
  <1>8. CASE w.name = "release"
    <2> DEFINE after == [id \in RowsIn(w.r, "reserved") |-> Refunded(ledger[id])]
    <2>1. Updated(s) = after /\ DOMAIN after = RowsIn(w.r, "reserved")
      BY <1>8 DEF Updated
    <2>2. Release(w.r)
      <3>1. /\ ledger' = [id \in DOMAIN ledger |->
                            IF id \in RowsIn(w.r, "reserved") THEN after[id] ELSE ledger[id]]
            /\ limits' = Track(limits, ledger, after) /\ UNCHANGED clock
        <4> HIDE DEF after
        <4> QED
          BY <1>3, <1>8, <2>1
      <3> QED
        BY <3>1, Zenon DEF Release, Update
    <2> QED
      BY <1>4, <1>8, <2>2 DEF Next, ReleaseSome, Settlements
  <1>9. CASE w.name = "sweep"
    <2> DEFINE now == tx[s].now
               after == [id \in ExpiredRows(now) |-> Lapsed(ledger[id])]
    <2>1. Wanted(s) = tx[s].held
      BY <1>1, WritingLocks
    <2>2. {x \in ExpiredRows(now) : <<"row", x>> \in tx[s].held} = ExpiredRows(now)
      BY <1>1, <1>9, <2>1 DEF SweepsCover
    <2>3. Updated(s) = after /\ DOMAIN after = ExpiredRows(now)
      BY <1>9, <2>2 DEF Updated
    <2>4. SweepAt(now)
      <3>1. /\ ledger' = [id \in DOMAIN ledger |->
                            IF id \in ExpiredRows(now) THEN after[id] ELSE ledger[id]]
            /\ limits' = Track(limits, ledger, after) /\ UNCHANGED clock
        <4> HIDE DEF after
        <4> QED
          BY <1>3, <1>9, <2>3
      <3> QED
        BY <3>1, Zenon DEF SweepAt, Update
    <2>5. now \in Recent
      BY <1>9 DEF CommitWrites
    <2> QED
      BY <2>4, <2>5 DEF Next, Sweep
  <1>10. w.name \in Settlements \cup {"reserve", "sweep"}
    BY <1>1, WritingLocks
  <1> QED
    BY <1>2, <1>5, <1>6, <1>7, <1>8, <1>9, <1>10 DEF Settlements

LEMMA NextImplements ==
  ASSUME PgInv, SweepsCover, [PgNext]_pgVars
  PROVE  [Next]_vars
  <1>1. CASE UNCHANGED pgVars
    BY <1>1 DEF pgVars, vars
  <1>2. CASE Tick
    BY <1>2 DEF Next
  <1>3. ASSUME NEW s \in Sessions, CommitWrites(s)
        PROVE  Next
    BY <1>3, CommitImplements
  <1>4. ASSUME NEW s \in Sessions, CommitLimit(s)
        PROVE  Next
    <2>1. tx[s].work.limit \in LimitChoices
      BY <1>4, LimitHasItsEntity
    <2> QED
      BY <1>4, <2>1 DEF CommitLimit, SetSomeLimit, Next
  <1>5. ASSUME NEW s \in Sessions,
               \/ BeginReserve(s) \/ BeginSettle(s) \/ BeginSweep(s) \/ BeginSetLimit(s)
               \/ Lock(s) \/ ScanExpired(s) \/ SelectForUpdate(s)
               \/ WriteUpdate(s) \/ WriteReservation(s) \/ Rollback(s)
        PROVE  UNCHANGED vars
    <2>1. CASE Rollback(s)
      BY <2>1 DEF Rollback
    <2> QED
      BY <1>5, <2>1, BeginReserveMoves, BeginSettleMoves, BeginSweepMoves, BeginSetLimitMoves,
         LockMoves, ScanExpiredMoves, SelectMoves, WriteUpdateMoves, WriteReservationMoves
  <1> QED
    BY <1>1, <1>2, <1>3, <1>4, <1>5 DEF PgNext

LEMMA InitCovers == PgInit => SweepsCover
  BY DEF PgInit, SweepsCover, Active

(* A sweep settles every row that has expired, as long as no reservation   *)
(* can have expired when it is committed.                                  *)
THEOREM SweepsLockWhatExpires ==
  ASSUME TtlOutlivesLag
  PROVE  PgSpec => []SweepsCover
  <1>1. PgInv /\ SweepsCover /\ [PgNext]_pgVars => SweepsCover'
    BY CoversNext
  <1> QED
    BY <1>1, InitCovers, SessionsKeepTheirLocks, PTL DEF PgSpec

(* The transactions of any number of sessions, cut into statements and     *)
(* rolled back anywhere, change the tables as if each ran alone, if times  *)
(* to live outlast the age of clock readings. Without that, a composite    *)
(* reservation can be swept in part.                                       *)
THEOREM PostgresImplementsLedger ==
  ASSUME TtlOutlivesLag
  PROVE  PgSpec => ImplementsLedger
  <1>1. PgInit => Init
    BY DEF PgInit
  <1>2. PgInv /\ SweepsCover /\ [PgNext]_pgVars => [Next]_vars
    BY NextImplements
  <1> QED
    BY <1>1, <1>2, SessionsKeepTheirLocks, SweepsLockWhatExpires, PTL
       DEF PgSpec, Spec, ImplementsLedger

(* So a commit charges every row of its reservation.                       *)
THEOREM PostgresCommitsWhole ==
  ASSUME TtlOutlivesLag
  PROVE  PgSpec => []CommitsWhole
  <1>1. GroupsAgree => CommitsWhole
    <2> SUFFICES ASSUME GroupsAgree, NEW id \in DOMAIN ledger, NEW other \in DOMAIN ledger,
                        id[1] = other[1], ledger[id].state = "committed"
                 PROVE  ledger[other].state = "committed"
      BY DEF CommitsWhole
    <2>1. \A x \in DOMAIN ledger : ledger[x].state = ledger[<<x[1], 1>>].state
      BY DEF GroupsAgree
    <2>2. <<id[1], 1>> = <<other[1], 1>>
      OBVIOUS
    <2> QED
      BY <2>1, <2>2
  <1> QED
    BY <1>1, PostgresImplementsLedger, CompositesStayWhole, PTL DEF ImplementsLedger

(* Nor do statements that interleave settle a reservation twice or in part *)
(* (protocol section 8).                                                   *)
THEOREM PostgresFollowsLifecycle ==
  ASSUME TtlOutlivesLag
  PROVE  PgSpec => FollowsLifecycle
  <1> QED
    BY PostgresImplementsLedger, LedgerFollowsLifecycle, PTL DEF ImplementsLedger

(* And no interleaving of statements gets a grant past a cap: "The cap     *)
(* MUST NOT be exceeded under any concurrent execution" (protocol section  *)
(* 3), under the conditions of Ledger.                                     *)
THEOREM PostgresStaysWithinCap ==
  ASSUME TtlOutlivesLag, \A w \in Windows : Steady(w), DistinctEntities, WholeCaps
  PROVE  PgSpec => GrantsWithinCap
  <1>1. Spec => GrantsWithinCap
    BY GrantsStayWithinCap
  <1>2. PgSpec => Spec
    BY PostgresImplementsLedger DEF ImplementsLedger
  <1> QED
    BY <1>1, <1>2, PTL

--------------------------------------------------------------------------------
(* Deadlock. Sessions in a circle wait for one another; the locks they     *)
(* wait for come one after the other in the order of the entities, up to   *)
(* the rows, which no order binds.                                         *)

(* Python sorts the scopes of a request as the database does.              *)
RequestsSorted ==
  \A scopes \in Requests : Follows([i \in DOMAIN scopes |-> scopes[i].entity], DbOrder)

EntityPlace == [e \in Entities |-> CHOOSE k \in DOMAIN DbOrder : DbOrder[k] = e]

(* A transaction t asks for the locks of a scope after those of scopes with*)
(* an earlier place.                                                       *)
Ascending(t) ==
  /\ \A i, j \in DOMAIN t.todo :
       i < j /\ t.todo[i][1] \in ScopeLevels /\ t.todo[j][1] \in ScopeLevels
         => EntityPlace[t.todo[i][2]] <= EntityPlace[t.todo[j][2]]
  /\ \A lock \in t.held : \A j \in DOMAIN t.todo :
       lock[1] \in ScopeLevels /\ t.todo[j][1] \in ScopeLevels
         => EntityPlace[lock[2]] <= EntityPlace[t.todo[j][2]]

ScopesAscend == \A s \in Sessions : Active(s) => Ascending(tx[s])

LEMMA EntityPlaces ==
  \A e \in Entities :
    EntityPlace[e] \in DOMAIN DbOrder /\ DbOrder[EntityPlace[e]] = e
      /\ EntityPlace[e] \in 1..Len(DbOrder)
  <1>1. DOMAIN DbOrder = 1..Len(DbOrder)
    BY PostgresAssumption
  <1> QED
    BY <1>1, PostgresAssumption DEF EntityPlace

(* A list that follows an order takes no step back in it.                  *)
LEMMA FollowersAscend ==
  ASSUME NEW list, NEW order, Follows(list, order), NEW place,
         \A i \in DOMAIN list :
           place[list[i]] \in DOMAIN order /\ order[place[list[i]]] = list[i],
         \A k, l \in DOMAIN order : k >= l <=> l <= k
  PROVE  \A i, j \in DOMAIN list : i < j => place[list[i]] <= place[list[j]]
  BY DEF Follows

(* The locks of a list of entities are of scopes, in the order of the list.*)
LEMMA ScopeLocksAscend ==
  ASSUME NEW entities \in Seq(Entities)
  PROVE  /\ \A i \in DOMAIN ScopeLocks(entities) : ScopeLocks(entities)[i][1] \in ScopeLevels
         /\ Follows(entities, DbOrder) =>
              \A i, j \in DOMAIN ScopeLocks(entities) :
                i < j => EntityPlace[ScopeLocks(entities)[i][2]]
                           <= EntityPlace[ScopeLocks(entities)[j][2]]
  <1> DEFINE todo == ScopeLocks(entities)
  <1>1. \A j \in DOMAIN todo : \E i \in DOMAIN entities :
          \/ j = 2 * i - 1 /\ todo[j] = <<"shared", entities[i]>>
          \/ j = 2 * i /\ todo[j] = <<"limits", entities[i]>>
    BY ScopeLocksFacts
  <1>2. DOMAIN entities \subseteq Nat /\ \A i \in DOMAIN entities : entities[i] \in Entities
    OBVIOUS
  <1> HIDE DEF todo
  <1>3. \A j \in DOMAIN todo : todo[j][1] \in ScopeLevels
    <2> SUFFICES ASSUME NEW j \in DOMAIN todo
                 PROVE  todo[j][1] \in ScopeLevels
      OBVIOUS
    <2>1. PICK i \in DOMAIN entities :
            todo[j] = <<"shared", entities[i]>> \/ todo[j] = <<"limits", entities[i]>>
      BY <1>1, Zenon
    <2> QED
      BY <2>1 DEF ScopeLevels
  <1>4. ASSUME Follows(entities, DbOrder), NEW i \in DOMAIN todo, NEW j \in DOMAIN todo, i < j
        PROVE  EntityPlace[todo[i][2]] <= EntityPlace[todo[j][2]]
    <2>1. PICK a \in DOMAIN entities :
            /\ i = 2 * a - 1 \/ i = 2 * a
            /\ todo[i] = <<"shared", entities[a]>> \/ todo[i] = <<"limits", entities[a]>>
      BY <1>1
    <2>2. PICK b \in DOMAIN entities :
            /\ j = 2 * b - 1 \/ j = 2 * b
            /\ todo[j] = <<"shared", entities[b]>> \/ todo[j] = <<"limits", entities[b]>>
      BY <1>1
    <2>3. a = b \/ a < b
      BY <1>2, <1>4, <2>1, <2>2
    <2>4. todo[i][2] = entities[a] /\ todo[j][2] = entities[b]
      BY <2>1, <2>2
    <2>5. \A k, l \in DOMAIN DbOrder : k >= l <=> l <= k
      BY PostgresAssumption
    <2>6. \A x, y \in DOMAIN entities : x < y => EntityPlace[entities[x]] <= EntityPlace[entities[y]]
      <3>1. \A x \in DOMAIN entities :
              /\ EntityPlace[entities[x]] \in DOMAIN DbOrder
              /\ DbOrder[EntityPlace[entities[x]]] = entities[x]
        BY <1>2, EntityPlaces
      <3> QED
        BY <1>4, <2>5, <3>1, FollowersAscend
    <2>7. EntityPlace[entities[a]] \in 1..Len(DbOrder) /\ Len(DbOrder) \in Nat
      BY <1>2, EntityPlaces, PostgresAssumption
    <2>8. EntityPlace[entities[a]] <= EntityPlace[entities[a]]
      BY <2>7
    <2> QED
      BY <2>3, <2>4, <2>6, <2>8
  <1> QED
    BY <1>3, <1>4 DEF todo

(* Taking the next lock of a list that ascends.                            *)
LEMMA TakingAscends ==
  ASSUME NEW S, NEW t, NEW u, Ascending(t),
         t.todo \in Seq(S), t.todo # <<>>, u.todo = Tail(t.todo),
         u.held \subseteq t.held \cup {Head(t.todo)}
  PROVE  Ascending(u)
  <1> DEFINE todo == t.todo
             rest == Tail(todo)
  <1>1. /\ 1 \in DOMAIN todo /\ Head(todo) = todo[1]
        /\ \A i \in DOMAIN rest : i \in Nat /\ i + 1 \in DOMAIN todo /\ rest[i] = todo[i + 1]
        /\ DOMAIN rest = 1..Len(rest) /\ Len(rest) \in Nat
    BY TailFacts
  <1>2. u.todo = rest
    OBVIOUS
  <1> HIDE DEF rest
  <1>3. ASSUME NEW i \in DOMAIN rest, NEW j \in DOMAIN rest, i < j,
               rest[i][1] \in ScopeLevels, rest[j][1] \in ScopeLevels
        PROVE  EntityPlace[rest[i][2]] <= EntityPlace[rest[j][2]]
    <2>1. i + 1 \in DOMAIN todo /\ j + 1 \in DOMAIN todo /\ i + 1 < j + 1
          /\ rest[i] = todo[i + 1] /\ rest[j] = todo[j + 1]
      BY <1>1, <1>3
    <2> QED
      BY <1>3, <2>1 DEF Ascending
  <1>4. ASSUME NEW lock \in u.held, NEW j \in DOMAIN rest,
               lock[1] \in ScopeLevels, rest[j][1] \in ScopeLevels
        PROVE  EntityPlace[lock[2]] <= EntityPlace[rest[j][2]]
    <2>1. j + 1 \in DOMAIN todo /\ 1 < j + 1 /\ rest[j] = todo[j + 1]
      BY <1>1
    <2>2. CASE lock \in t.held
      BY <1>4, <2>1, <2>2 DEF Ascending
    <2>3. CASE lock = todo[1]
      BY <1>1, <1>4, <2>1, <2>3 DEF Ascending
    <2> QED
      BY <1>1, <2>2, <2>3
  <1> QED
    BY <1>2, <1>3, <1>4 DEF Ascending

(* Sessions that draw up their list of locks.                              *)
Listing(s) ==
  BeginReserve(s) \/ BeginSettle(s) \/ BeginSetLimit(s) \/ ScanExpired(s) \/ SelectForUpdate(s)

(* Only the drawing up of lists can break their order.                     *)
LEMMA StepAscends ==
  ASSUME PgInv, [PgNext]_pgVars,
         \A s \in Sessions : Active(s) => Ascending(tx[s]),
         \A s \in Sessions : Listing(s) => Ascending(tx'[s])
  PROVE  \A s \in Sessions : Active(s)' => Ascending(tx'[s])
  <1>1. ASSUME NEW s \in Sessions, \A u \in Sessions \ {s} : tx'[u] = tx[u],
               Active(s)' => Ascending(tx'[s])
        PROVE  \A u \in Sessions : Active(u)' => Ascending(tx'[u])
    BY <1>1 DEF Active
  <1>2. CASE UNCHANGED tx
    BY <1>2 DEF Active
  <1>3. ASSUME NEW s \in Sessions, Listing(s)
        PROVE  \A u \in Sessions : Active(u)' => Ascending(tx'[u])
    <2>1. Moved(s)
      BY <1>3, BeginReserveMoves, BeginSettleMoves, BeginSetLimitMoves, ScanExpiredMoves,
         SelectMoves DEF Listing
    <2> QED
      BY <1>1, <1>3, <2>1 DEF Moved
  <1>4. ASSUME NEW s \in Sessions, Lock(s)
        PROVE  \A u \in Sessions : Active(u)' => Ascending(tx'[u])
    <2>1. /\ Moved(s) /\ tx'[s].todo = Tail(tx[s].todo)
          /\ tx'[s].held \subseteq tx[s].held \cup {Head(tx[s].todo)}
      BY <1>4, LockMoves
    <2>2. Active(s) /\ tx[s].todo # <<>> /\ tx[s].todo \in Seq(AllLocks)
      BY <1>4 DEF Lock, Granted, PgInv, SessionInv, TxTyped
    <2>3. Ascending(tx'[s])
      BY <2>1, <2>2, TakingAscends
    <2> QED
      BY <1>1, <2>1, <2>3 DEF Moved
  <1>5. ASSUME NEW s \in Sessions, tx' = [tx EXCEPT ![s] = NoTx]
        PROVE  \A u \in Sessions : Active(u)' => Ascending(tx'[u])
    <2>1. tx'[s] = NoTx /\ \A u \in Sessions \ {s} : tx'[u] = tx[u]
      BY <1>5 DEF PgInv
    <2> QED
      BY <1>1, <2>1 DEF Active
  <1>6. ASSUME NEW s \in Sessions, Moved(s), tx'[s].todo = <<>>
        PROVE  \A u \in Sessions : Active(u)' => Ascending(tx'[u])
    <2>1. Ascending(tx'[s])
      BY <1>6 DEF Ascending
    <2> QED
      BY <1>1, <1>6, <2>1 DEF Moved
  <1>7. ASSUME NEW s \in Sessions, BeginSweep(s)
        PROVE  \A u \in Sessions : Active(u)' => Ascending(tx'[u])
    <2>1. Moved(s) /\ tx'[s].todo = <<>>
      BY <1>7, BeginSweepMoves, BegunTx DEF BeginSweep
    <2> QED
      BY <1>6, <2>1
  <1>8. ASSUME NEW s \in Sessions, WriteUpdate(s) \/ WriteReservation(s)
        PROVE  \A u \in Sessions : Active(u)' => Ascending(tx'[u])
    <2>1. Moved(s) /\ Active(s) /\ tx[s].todo = <<>>
      BY <1>8, WriteUpdateMoves, WriteReservationMoves
         DEF WriteUpdate, WriteReservation, At, Granted
    <2>2. CASE tx' = [tx EXCEPT ![s] = NoTx]
      BY <1>5, <2>2
    <2>3. CASE \E held, out :
                 tx' = [tx EXCEPT ![s].at = "writing", ![s].held = held, ![s].out = out]
      <3>1. tx'[s].todo = tx[s].todo
        BY <2>1, <2>3 DEF PgInv, SessionInv, TxTyped, TxFields
      <3> QED
        BY <1>6, <2>1, <3>1
    <2>4. \A before, read, after, lock :
            Written(s, before, read, after, lock) =>
              \E held, out :
                tx' = [tx EXCEPT ![s].at = "writing", ![s].held = held, ![s].out = out]
      BY DEF Written
    <2>5. \/ tx' = [tx EXCEPT ![s] = NoTx]
          \/ \E before, read, after, lock : Written(s, before, read, after, lock)
      BY <1>8, Zenon DEF WriteUpdate, WriteReservation
    <2> QED
      BY <2>2, <2>3, <2>4, <2>5
  <1>9. ASSUME NEW s \in Sessions, CommitWrites(s) \/ CommitLimit(s) \/ Rollback(s)
        PROVE  \A u \in Sessions : Active(u)' => Ascending(tx'[u])
    BY <1>5, <1>9 DEF CommitWrites, CommitLimit, Rollback
  <1>10. PgNext \/ UNCHANGED tx
    BY DEF pgVars
  <1>11. CASE PgNext
    BY <1>2, <1>3, <1>4, <1>7, <1>8, <1>9, <1>11 DEF PgNext, Listing
  <1> QED
    BY <1>2, <1>10, <1>11

(* The scopes that a session lists are in order, and no lock of theirs is  *)
(* a row.                                                                  *)
LEMMA ListedScopes ==
  ASSUME PgInv, NEW s \in Sessions, BeginReserve(s) \/ BeginSettle(s) \/ ScanExpired(s)
  PROVE  \E entities \in Seq(Entities) :
           /\ tx'[s].todo = ScopeLocks(entities) /\ tx'[s].held = {}
           /\ RequestsSorted => Follows(entities, DbOrder)
  <1>1. CASE BeginReserve(s)
    <2>1. PICK r \in Reservations, scopes \in Requests, est \in Estimates,
               request \in RequestIds \cup {NoRequest}, ttl \in TTLs :
            Begin(s, "locking",
                  [name |-> "reserve", r |-> r, scopes |-> scopes, est |-> est,
                   request |-> request, ttl |-> ttl],
                  ScopeLocks([i \in DOMAIN scopes |-> scopes[i].entity]))
      BY <1>1 DEF BeginReserve
    <2> DEFINE entities == [i \in DOMAIN scopes |-> scopes[i].entity]
    <2>2. entities \in Seq(Entities) /\ (RequestsSorted => Follows(entities, DbOrder))
      BY RequestEntities DEF RequestsSorted
    <2> HIDE DEF entities
    <2>3. tx'[s].todo = ScopeLocks(entities) /\ tx'[s].held = {}
      BY <2>1, BegunTx DEF entities
    <2> QED
      BY <2>2, <2>3
  <1>2. CASE BeginSettle(s)
    <2>1. PICK r, cost, name :
            \E entities \in SortedEntities(RowsOf(r)) :
              Begin(s, "locking", [name |-> name, r |-> r, cost |-> cost],
                    ScopeLocks(entities))
      BY <1>2 DEF BeginSettle
    <2>2. PICK entities \in SortedEntities(RowsOf(r)) :
            Begin(s, "locking", [name |-> name, r |-> r, cost |-> cost], ScopeLocks(entities))
      BY <2>1
    <2>3. RowsOf(r) \subseteq DOMAIN ledger
      BY DEF RowsOf
    <2>4. entities \in Seq(Entities) /\ Follows(entities, DbOrder)
      BY <2>2, <2>3, ListedEntities DEF PgInv
    <2>5. tx'[s].todo = ScopeLocks(entities) /\ tx'[s].held = {}
      BY <2>2, BegunTx
    <2> QED
      BY <2>4, <2>5
  <1>3. CASE ScanExpired(s)
    <2>1. PICK entities \in SortedEntities(ExpiredRows(tx[s].now)) :
            tx' = [tx EXCEPT ![s].at = "locking", ![s].todo = ScopeLocks(entities)]
      BY <1>3 DEF ScanExpired
    <2>2. Active(s) /\ tx[s].at = "scanning"
      BY <1>3 DEF ScanExpired, At
    <2>3. tx[s].held = {} /\ DOMAIN tx[s] = TxFields /\ DOMAIN tx = Sessions
      BY <2>2 DEF PgInv, SessionInv, LockPhases, TxTyped
    <2>4. ExpiredRows(tx[s].now) \subseteq DOMAIN ledger
      BY DEF ExpiredRows
    <2>5. entities \in Seq(Entities) /\ Follows(entities, DbOrder)
      BY <2>1, <2>4, ListedEntities DEF PgInv
    <2>6. tx'[s].todo = ScopeLocks(entities) /\ tx'[s].held = {}
      BY <2>1, <2>3 DEF TxFields
    <2> QED
      BY <2>5, <2>6
  <1> QED
    BY <1>1, <1>2, <1>3

LEMMA ListedLimit ==
  ASSUME PgInv, NEW s \in Sessions, BeginSetLimit(s)
  PROVE  \E e \in Entities :
           tx'[s].todo = <<<<"exclusive", e>>, <<"limits", e>>>> /\ tx'[s].held = {}
  <1>1. PICK l \in LimitChoices :
          Begin(s, "locking", [name |-> "limit", limit |-> l],
                <<<<"exclusive", l.scope.entity>>, <<"limits", l.scope.entity>>>>)
    BY DEF BeginSetLimit
  <1>2. l.scope.entity \in Entities
    BY LedgerAssumption DEF Scopes
  <1> QED
    BY <1>1, <1>2, BegunTx

(* A session that lists rows lists nothing else.                           *)
LEMMA ListedRows ==
  ASSUME PgInv, NEW s \in Sessions, SelectForUpdate(s)
  PROVE  \A i \in DOMAIN tx'[s].todo : tx'[s].todo[i][1] = "row"
  <1>1. PICK plan \in RowOrders : \E visited \in Listings(MatchingRows(s), plan) :
          tx' = [tx EXCEPT ![s].at = "updating",
                           ![s].todo = [i \in DOMAIN visited |-> <<"row", visited[i]>>]]
    BY DEF SelectForUpdate
  <1>2. PICK visited \in Listings(MatchingRows(s), plan) :
          tx' = [tx EXCEPT ![s].at = "updating",
                           ![s].todo = [i \in DOMAIN visited |-> <<"row", visited[i]>>]]
    BY <1>1
  <1>3. DOMAIN tx = Sessions /\ DOMAIN tx[s] = TxFields
    BY DEF SelectForUpdate, At, PgInv, SessionInv, TxTyped
  <1> DEFINE rows == [i \in DOMAIN visited |-> <<"row", visited[i]>>]
  <1>4. \A i \in DOMAIN rows : rows[i][1] = "row"
    OBVIOUS
  <1> HIDE DEF rows
  <1>5. tx'[s].todo = rows
    BY <1>2, <1>3 DEF rows, TxFields
  <1> QED
    BY <1>4, <1>5

LEMMA ScopesAscendNext ==
  ASSUME RequestsSorted, PgInv, ScopesAscend, [PgNext]_pgVars
  PROVE  ScopesAscend'
  <1>1. ASSUME NEW s \in Sessions, BeginReserve(s) \/ BeginSettle(s) \/ ScanExpired(s)
        PROVE  Ascending(tx'[s])
    <2>1. PICK entities \in Seq(Entities) :
            /\ tx'[s].todo = ScopeLocks(entities) /\ tx'[s].held = {}
            /\ Follows(entities, DbOrder)
      BY <1>1, ListedScopes
    <2>2. \A i, j \in DOMAIN ScopeLocks(entities) :
            i < j => EntityPlace[ScopeLocks(entities)[i][2]]
                       <= EntityPlace[ScopeLocks(entities)[j][2]]
      BY <2>1, ScopeLocksAscend
    <2> QED
      BY <2>1, <2>2 DEF Ascending
  <1>2. ASSUME NEW s \in Sessions, BeginSetLimit(s)
        PROVE  Ascending(tx'[s])
    <2>1. PICK e \in Entities :
            tx'[s].todo = <<<<"exclusive", e>>, <<"limits", e>>>> /\ tx'[s].held = {}
      BY <1>2, ListedLimit
    <2> DEFINE todo == <<<<"exclusive", e>>, <<"limits", e>>>>
    <2>2. \A i \in DOMAIN todo : todo[i][2] = e
      OBVIOUS
    <2>3. EntityPlace[e] <= EntityPlace[e]
      <3>1. EntityPlace[e] \in 1..Len(DbOrder) /\ Len(DbOrder) \in Nat
        BY EntityPlaces, PostgresAssumption
      <3> QED
        BY <3>1
    <2> HIDE DEF todo
    <2>4. tx'[s].todo = todo
      BY <2>1 DEF todo
    <2> QED
      BY <2>1, <2>2, <2>3, <2>4 DEF Ascending
  <1>3. ASSUME NEW s \in Sessions, SelectForUpdate(s)
        PROVE  Ascending(tx'[s])
    BY <1>3, ListedRows DEF Ascending, ScopeLevels
  <1>4. \A s \in Sessions : Listing(s) => Ascending(tx'[s])
    BY <1>1, <1>2, <1>3 DEF Listing
  <1>5. \A s \in Sessions : Active(s)' => Ascending(tx'[s])
    BY <1>4, StepAscends DEF ScopesAscend
  <1> QED
    BY <1>5 DEF ScopesAscend

(* No circle waits only for what some list of places puts one after the    *)
(* other.                                                                  *)
LEMMA NothingRisesForever ==
  ASSUME NEW S, S # {}, NEW n \in Nat, NEW level \in [S -> 0..n],
         \A s \in S : \E u \in S : level[s] < level[u]
  PROVE  FALSE
  <1> DEFINE T == {n - level[s] : s \in S}
             R == OpToRel(<, Nat)
  <1>1. \A x, y \in Nat : <<x, y>> \in R <=> x < y
    BY DEF OpToRel
  <1>2. IsWellFoundedOn(R, Nat)
    BY NatLessThanWellFounded
  <1>3. T \subseteq Nat /\ T # {}
    OBVIOUS
  <1>4. \A s \in S : n - level[s] \in T
    OBVIOUS
  <1> HIDE DEF R
  <1>5. \E x \in T : \A y \in T : ~ (<<y, x>> \in R)
    <2> HIDE DEF T
    <2> QED
      BY <1>2, <1>3, WFMin
  <1>6. PICK s \in S : \A y \in T : ~ (<<y, n - level[s]>> \in R)
    BY <1>5
  <1>7. PICK u \in S : level[s] < level[u]
    OBVIOUS
  <1>8. n - level[u] \in Nat /\ n - level[s] \in Nat /\ n - level[u] < n - level[s]
    BY <1>7
  <1> QED
    BY <1>1, <1>4, <1>6, <1>8

(* What a waiting session and one that it waits for have and ask for.      *)
LEMMA WaitingFacts ==
  ASSUME PgInv, NEW s \in Sessions, Waiting(s)
  PROVE  /\ SessionInv(s) /\ tx[s].todo \in Seq(AllLocks)
         /\ 1 \in DOMAIN tx[s].todo /\ Awaited(s) = tx[s].todo[1]
         /\ Awaited(s) \in Asked(s) /\ Awaited(s) \in AllLocks
         /\ \/ tx[s].at = "locking" /\ Awaited(s)[1] \in ScopeLevels
            \/ tx[s].at = "updating" /\ Awaited(s)[1] = "row"
  <1>1. Active(s) /\ tx[s].todo # <<>>
    BY DEF Waiting, Granted
  <1>2. SessionInv(s)
    BY <1>1 DEF PgInv
  <1>3. TxTyped(s) /\ WorkTyped(s) /\ LockPhases(s)
    BY <1>1, <1>2 DEF SessionInv
  <1>4. tx[s].todo \in Seq(AllLocks)
    BY <1>3 DEF TxTyped
  <1>5. 1 \in DOMAIN tx[s].todo /\ Awaited(s) = tx[s].todo[1] /\ Awaited(s) \in AllLocks
    BY <1>1, <1>4, TailFacts DEF Awaited
  <1>6. Awaited(s) \in Asked(s)
    BY <1>5 DEF Asked
  <1>7. tx[s].at \in {"locking", "updating"}
    BY <1>1, <1>3 DEF WorkTyped, LockPhases
  <1>8. \/ tx[s].at = "locking" /\ Awaited(s)[1] \in ScopeLevels
        \/ tx[s].at = "updating" /\ Awaited(s)[1] = "row"
    BY <1>3, <1>6, <1>7 DEF LockPhases, Wanted
  <1> QED
    BY <1>2, <1>4, <1>5, <1>6, <1>8

LEMMA BlockerFacts ==
  ASSUME PgInv, NEW s \in Sessions, NEW u \in Blockers(s)
  PROVE  /\ u \in Sessions /\ u # s /\ Active(u) /\ SessionInv(u)
         /\ \E lock \in tx[u].held :
              /\ Clash(Awaited(s), lock) /\ lock[2] = Awaited(s)[2]
              /\ lock = Awaited(s)
                 \/ {Awaited(s)[1], lock[1]} = {"shared", "exclusive"}
  <1>1. u \in Sessions /\ u # s /\ Active(u)
    BY DEF Blockers
  <1>2. PICK lock \in tx[u].held : Clash(Awaited(s), lock)
    BY DEF Blockers, Awaited
  <1>3. /\ lock[2] = Awaited(s)[2]
        /\ lock = Awaited(s) \/ {Awaited(s)[1], lock[1]} = {"shared", "exclusive"}
    BY <1>2 DEF Clash
  <1> QED
    BY <1>1, <1>2, <1>3 DEF PgInv

(* A session that waits for a row is waited on only by such sessions, and  *)
(* no entity of theirs has a limit.                                        *)
LEMMA RowWaits ==
  ASSUME PgInv, NEW s \in Sessions, Waiting(s), Awaited(s)[1] = "row",
         NEW u \in Blockers(s)
  PROVE  /\ Awaited(s) \in tx[u].held /\ Awaited(s)[2] \in DOMAIN ledger
         /\ Waiting(u) => tx[u].at = "updating" /\ Awaited(u)[1] = "row"
         /\ Waiting(u) => ~Exists(<<"limits", ledger[Awaited(s)[2]].entity>>)
  <1> DEFINE id == Awaited(s)[2]
             e == ledger[id].entity
  <1>1. /\ SessionInv(s) /\ tx[s].at = "updating" /\ Awaited(s) \in Asked(s) /\ Active(s)
    BY WaitingFacts DEF ScopeLevels, Waiting
  <1>2. /\ u \in Sessions /\ u # s /\ Active(u) /\ SessionInv(u) /\ Awaited(s) \in tx[u].held
    BY BlockerFacts
  <1>3. id \in DOMAIN ledger /\ <<"shared", e>> \in tx[s].held
    BY <1>1 DEF SessionInv, RowsCovered, Wanted
  <1>4. <<"shared", e>> \in tx[u].held
    BY <1>2 DEF SessionInv, RowsCovered, Wanted
  <1>5. e \in Entities
    BY <1>3 DEF PgInv, TablesInv, TablesTyped, LedgerTyped, Row
  <1>6. ASSUME Waiting(u)
        PROVE  tx[u].at = "updating" /\ Awaited(u)[1] = "row"
    <2>1. tx[u].at # "locking"
      BY <1>2 DEF SessionInv, LockPhases, Wanted, ScopeLevels
    <2> QED
      BY <1>2, <1>6, <2>1, WaitingFacts
  <1>7. ASSUME Waiting(u), Exists(<<"limits", e>>)
        PROVE  FALSE
    <2>1. tx[u].at = "updating"
      BY <1>6, <1>7
    <2>2. ASSUME NEW x \in {s, u}
          PROVE  <<"limits", e>> \in tx[x].held
      <3>1. tx[x].at = "updating" /\ SessionInv(x) /\ Active(x) /\ <<"shared", e>> \in tx[x].held
        BY <1>1, <1>2, <1>3, <1>4, <2>1
      <3>2. \A lock \in Asked(x) : lock[1] = "row"
        BY <3>1 DEF SessionInv, LockPhases
      <3>3. <<"limits", e>> \notin Asked(x)
        BY <3>2
      <3> QED
        BY <1>5, <1>7, <3>1, <3>3 DEF SessionInv, ScopeOrder
    <2>3. ~Clash(<<"limits", e>>, <<"limits", e>>)
      BY <1>1, <1>2, <2>2 DEF PgInv, Exclusion
    <2> QED
      BY <2>3, Clashes
  <1> QED
    BY <1>2, <1>3, <1>6, <1>7

(* Where a lock of a scope comes: limit rows after the advisory lock.      *)
Level(lock) == 2 * EntityPlace[lock[2]] + (IF lock[1] = "limits" THEN 1 ELSE 0)

(* Who holds any lock of an entity holds its advisory lock, or is          *)
(* upsert_limit and has the exclusive one.                                 *)
LEMMA HoldersGuard ==
  ASSUME NEW u, Active(u), SessionInv(u), NEW e \in Entities, NEW kind \in ScopeLevels,
         <<kind, e>> \in tx[u].held
  PROVE  /\ <<"shared", e>> \in tx[u].held \/ <<"exclusive", e>> \in tx[u].held
         /\ <<"exclusive", e>> \in tx[u].held =>
              \A lock \in Asked(u) : lock = <<"limits", e>>
         /\ <<"shared", e>> \in tx[u].held => \A lock \in Asked(u) : lock[1] # "exclusive"
  <1>1. ScopeOrder(u) /\ ExclusiveFirst(u)
    BY DEF SessionInv
  <1>2. <<"shared", e>> \in tx[u].held \/ <<"exclusive", e>> \in tx[u].held
    BY <1>1 DEF ScopeOrder, Guarded, ScopeLevels
  <1>3. ASSUME <<"exclusive", e>> \in tx[u].held, NEW lock \in Asked(u)
        PROVE  lock = <<"limits", e>>
    <2>1. tx[u].work.name = "limit"
      BY <1>1, <1>3 DEF ExclusiveFirst, Wanted
    <2> DEFINE f == tx[u].work.limit.scope.entity
    <2>2. Wanted(u) \subseteq {<<"exclusive", f>>, <<"limits", f>>}
          /\ <<"exclusive", f>> \notin Asked(u)
      BY <1>1, <1>3, <2>1 DEF ExclusiveFirst
    <2>3. f = e
      BY <1>3, <2>2 DEF Wanted
    <2> QED
      BY <1>3, <2>2, <2>3 DEF Wanted
  <1>4. ASSUME <<"shared", e>> \in tx[u].held, NEW lock \in Asked(u), lock[1] = "exclusive"
        PROVE  FALSE
    <2>1. <<"shared", e>> \in Wanted(u) /\ lock \in Wanted(u)
      BY <1>4 DEF Wanted
    <2>2. CASE tx[u].work.name = "limit"
      <3>1. Wanted(u) \subseteq {<<"exclusive", tx[u].work.limit.scope.entity>>,
                                 <<"limits", tx[u].work.limit.scope.entity>>}
        BY <1>1, <2>2 DEF ExclusiveFirst
      <3> QED
        BY <2>1, <3>1
    <2>3. CASE tx[u].work.name # "limit"
      BY <1>1, <1>4, <2>1, <2>3 DEF ExclusiveFirst
    <2> QED
      BY <2>2, <2>3
  <1> QED
    BY <1>2, <1>3, <1>4

(* A session that waits for a scope waits for one that is past it.         *)
LEMMA ScopeWaits ==
  ASSUME PgInv, ScopesAscend, NEW s \in Sessions, Waiting(s), Awaited(s)[1] \in ScopeLevels,
         NEW u \in Blockers(s), Waiting(u), Blockers(u) # {},
         Awaited(u)[1] # "row"
  PROVE  Level(Awaited(s)) < Level(Awaited(u))
  <1> DEFINE h == Awaited(s)
             g == Awaited(u)
             e == h[2]
  <1>1. h \in AllLocks
    BY WaitingFacts
  <1>2. u \in Sessions /\ Active(u) /\ SessionInv(u)
    BY BlockerFacts
  <1>3. g \in AllLocks /\ g \in Asked(u) /\ g[1] \in ScopeLevels
        /\ 1 \in DOMAIN tx[u].todo /\ g = tx[u].todo[1]
    BY <1>2, WaitingFacts
  <1>4. PICK l \in tx[u].held :
          Clash(h, l) /\ l[2] = e /\ (l = h \/ {h[1], l[1]} = {"shared", "exclusive"})
    BY BlockerFacts
  <1>5. h[1] \in ScopeLevels /\ e \in Entities /\ h = <<h[1], e>>
    BY <1>1 DEF AllLocks, ScopeLevels
  <1>6. g[2] \in Entities /\ g = <<g[1], g[2]>>
    BY <1>3 DEF AllLocks, ScopeLevels
  <1> HIDE DEF h, g, e
  <1>7. l \in AllLocks /\ l[1] \in ScopeLevels /\ l = <<l[1], e>>
    <2>1. l \in AllLocks
      BY <1>2 DEF SessionInv, TxTyped
    <2>2. l[1] \in ScopeLevels
      BY <1>4, <1>5 DEF ScopeLevels
    <2> QED
      BY <1>4, <2>1, <2>2 DEF AllLocks, ScopeLevels
  <1>8. EntityPlace[e] <= EntityPlace[g[2]]
    BY <1>2, <1>3, <1>4, <1>7 DEF ScopesAscend, Ascending
  <1>9. /\ EntityPlace[e] \in Nat /\ EntityPlace[g[2]] \in Nat
        /\ DbOrder[EntityPlace[e]] = e /\ DbOrder[EntityPlace[g[2]]] = g[2]
    <2>1. Len(DbOrder) \in Nat
      BY PostgresAssumption
    <2> QED
      BY <1>5, <1>6, <2>1, EntityPlaces
  <1>10. CASE g[2] # e
    <2>1. EntityPlace[e] < EntityPlace[g[2]]
      BY <1>8, <1>9, <1>10
    <2> DEFINE x == EntityPlace[e]
               y == EntityPlace[g[2]]
    <2>2. \A a, b \in {0, 1} : 2 * x + a < 2 * y + b
      <3>1. x \in Nat /\ y \in Nat /\ x < y
        BY <1>9, <2>1
      <3> HIDE DEF x, y
      <3> QED
        BY <3>1
    <2>3. \A lock : \E a \in {0, 1} : Level(lock) = 2 * EntityPlace[lock[2]] + a
      BY DEF Level
    <2>4. PICK a \in {0, 1} : Level(h) = 2 * x + a
      BY <2>3 DEF e
    <2>5. PICK b \in {0, 1} : Level(g) = 2 * y + b
      BY <2>3
    <2> HIDE DEF x, y
    <2> QED
      BY <2>2, <2>4, <2>5 DEF h, g
  <1>11. CASE g[2] = e
    <2>1. PICK v \in Blockers(u) : TRUE
      OBVIOUS
    <2>2. /\ v \in Sessions /\ v # u /\ Active(v) /\ SessionInv(v)
          /\ \E lock \in tx[v].held :
               lock[2] = e /\ (lock = g \/ {g[1], lock[1]} = {"shared", "exclusive"})
      BY <1>2, <1>11, BlockerFacts DEF g
    <2>3. PICK m \in tx[v].held :
            m[2] = e /\ (m = g \/ {g[1], m[1]} = {"shared", "exclusive"})
      BY <2>2
    <2>4. m[1] \in ScopeLevels /\ m = <<m[1], e>>
      <3>1. m \in AllLocks
        BY <2>2 DEF SessionInv, TxTyped
      <3>2. m[1] \in ScopeLevels
        BY <1>3, <2>3 DEF ScopeLevels
      <3> QED
        BY <2>3, <3>1, <3>2 DEF AllLocks, ScopeLevels
    <2>5. \A a \in tx[u].held, b \in tx[v].held : ~Clash(a, b)
      BY <1>2, <2>2 DEF PgInv, Exclusion
    <2>6. /\ <<"shared", e>> \in tx[u].held \/ <<"exclusive", e>> \in tx[u].held
          /\ <<"exclusive", e>> \in tx[u].held => g = <<"limits", e>>
          /\ <<"shared", e>> \in tx[u].held => g[1] # "exclusive"
      BY <1>2, <1>3, <1>4, <1>5, <1>7, HoldersGuard
    <2>7. <<"shared", e>> \in tx[v].held \/ <<"exclusive", e>> \in tx[v].held
      BY <1>5, <2>2, <2>3, <2>4, HoldersGuard
    <2>8. <<"exclusive", e>> \notin tx[u].held
      BY <2>5, <2>7, Clashes
    <2>9. g = <<"limits", e>>
      <3>1. g[1] = "shared" \/ g[1] = "limits"
        BY <1>3, <2>6, <2>8 DEF ScopeLevels
      <3>2. g[1] # "shared"
        <4>1. ASSUME g[1] = "shared"
              PROVE  <<"exclusive", e>> \in tx[v].held
          <5>1. PICK lock \in tx[v].held : Clash(g, lock)
            BY <2>1 DEF Blockers, g, Awaited
          <5>2. lock = <<"exclusive", e>>
            <6>1. lock \in AllLocks
              BY <2>2 DEF SessionInv, TxTyped
            <6>2. lock[1] = "exclusive" /\ lock[2] = e
              BY <1>11, <4>1, <5>1 DEF Clash
            <6> QED
              BY <6>1, <6>2 DEF AllLocks, ScopeLevels
          <5> QED
            BY <5>1, <5>2
        <4> QED
          BY <2>5, <2>6, <2>8, <4>1, Clashes
      <3> QED
        BY <1>6, <1>11, <3>1, <3>2
    <2>10. m = <<"limits", e>>
      BY <2>3, <2>9
    <2>11. l # <<"limits", e>>
      BY <2>5, <2>10, Clashes
    <2>12. h[1] # "limits"
      BY <1>4, <1>5, <2>11
    <2>13. Level(h) = 2 * EntityPlace[e] /\ Level(g) = 2 * EntityPlace[e] + 1
      BY <1>9, <2>9, <2>12 DEF Level, e
    <2> QED
      BY <1>9, <2>13 DEF h, g
  <1> QED
    BY <1>10, <1>11

LEMMA CirclesReachRows ==
  ASSUME PgInv, ScopesAscend
  PROVE  CirclesAreOverBareRows
  <1> SUFFICES ASSUME NEW S \in SUBSET Sessions, Circle(S)
               PROVE  \E T \in SUBSET S : Circle(T) /\ \A s \in T : WaitsForBareRow(s)
    BY DEF CirclesAreOverBareRows
  <1> DEFINE T == {s \in S : Awaited(s)[1] = "row"}
  <1>1. ASSUME NEW s \in S
        PROVE  s \in Sessions /\ Waiting(s) /\ \E u \in S : u \in Blockers(s)
    BY DEF Circle
  <1>2. ASSUME NEW s \in T
        PROVE  WaitsForBareRow(s) /\ \E u \in T : u \in Blockers(s)
    <2>1. PICK u \in S : u \in Blockers(s) /\ Waiting(u)
      BY <1>1
    <2>2. Awaited(u)[1] = "row" /\ ~Exists(<<"limits", ledger[Awaited(s)[2]].entity>>)
      BY <1>1, <2>1, RowWaits
    <2> QED
      BY <2>1, <2>2 DEF WaitsForBareRow
  <1>3. T # {}
    <2> SUFFICES ASSUME T = {}
                 PROVE  FALSE
      OBVIOUS
    <2>1. ASSUME NEW s \in S
          PROVE  Awaited(s) \in AllLocks /\ Awaited(s)[1] \in ScopeLevels
      BY <1>1, WaitingFacts
    <2>2. ASSUME NEW s \in S
          PROVE  \E u \in S : Level(Awaited(s)) < Level(Awaited(u))
      <3>1. PICK u \in S : u \in Blockers(s)
        BY <1>1
      <3>2. Waiting(u) /\ Blockers(u) # {} /\ Awaited(u)[1] # "row"
        BY <1>1
      <3> QED
        BY <1>1, <2>1, <3>1, <3>2, ScopeWaits
    <2> DEFINE level == [s \in S |-> Level(Awaited(s))]
               n == 2 * Len(DbOrder) + 1
    <2>3. ASSUME NEW s \in S
          PROVE  Level(Awaited(s)) \in 0..n
      <3>1. Awaited(s)[2] \in Entities
        BY <2>1 DEF AllLocks, ScopeLevels
      <3>2. EntityPlace[Awaited(s)[2]] \in 1..Len(DbOrder)
        BY <3>1, EntityPlaces, Zenon
      <3>3. Len(DbOrder) \in Nat
        BY PostgresAssumption
      <3> QED
        BY <3>2, <3>3 DEF Level
    <2>4. n \in Nat
      BY PostgresAssumption
    <2>5. S # {}
      BY DEF Circle
    <2> HIDE DEF n
    <2>6. level \in [S -> 0..n]
      BY <2>3
    <2>7. \A s \in S : \E u \in S : level[s] < level[u]
      BY <2>2
    <2> HIDE DEF level
    <2> QED
      BY <2>4, <2>5, <2>6, <2>7, NothingRisesForever
  <1>4. Circle(T)
    BY <1>1, <1>2, <1>3 DEF Circle
  <1> QED
    BY <1>2, <1>4

(* The rows of scopes that have no limit.                                  *)
BareRows == {id \in DOMAIN ledger : ~Exists(<<"limits", ledger[id].entity>>)}
OneBareRow == \A id, jd \in BareRows : id = jd

LEMMA CirclesTakeTwoRows ==
  ASSUME PgInv, OneBareRow, NEW T \in SUBSET Sessions, Circle(T),
         \A s \in T : WaitsForBareRow(s)
  PROVE  FALSE
  <1>1. ASSUME NEW s \in T
        PROVE  s \in Sessions /\ Waiting(s) /\ Active(s) /\ \E u \in T : u \in Blockers(s)
    BY DEF Circle, Waiting
  <1>2. ASSUME NEW s \in T, NEW u \in T, u \in Blockers(s)
        PROVE  Awaited(s) \in tx[u].held /\ Awaited(s)[2] \in BareRows
    <2>1. Awaited(s)[1] = "row" /\ ~Exists(<<"limits", ledger[Awaited(s)[2]].entity>>)
      BY DEF WaitsForBareRow
    <2> QED
      BY <1>1, <1>2, <2>1, RowWaits DEF BareRows
  <1>3. PICK s \in T : TRUE
    BY DEF Circle
  <1>4. PICK u \in T : u \in Blockers(s)
    BY <1>1
  <1>5. PICK v \in T : v \in Blockers(u)
    BY <1>1
  <1>6. Awaited(s) = Awaited(u)
    <2>1. Awaited(s)[2] = Awaited(u)[2]
      BY <1>2, <1>4, <1>5 DEF OneBareRow
    <2>2. /\ Awaited(s) \in AllLocks /\ Awaited(u) \in AllLocks
          /\ Awaited(s)[1] = "row" /\ Awaited(u)[1] = "row"
      BY <1>1, WaitingFacts DEF WaitsForBareRow
    <2> QED
      BY <2>1, <2>2 DEF AllLocks, ScopeLevels
  <1>7. u # v /\ Awaited(u) \in tx[u].held /\ Awaited(u) \in tx[v].held
    BY <1>1, <1>2, <1>4, <1>5, <1>6, BlockerFacts
  <1>8. ~Clash(Awaited(u), Awaited(u))
    BY <1>1, <1>7 DEF PgInv, Exclusion
  <1>9. Awaited(u)[1] = "row"
    BY DEF WaitsForBareRow
  <1> QED
    BY <1>8, <1>9 DEF Clash

LEMMA InitAscends == PgInit => ScopesAscend
  BY DEF PgInit, Init, ScopesAscend, Active

(* Where requests list their scopes as the database sorts them, whatever   *)
(* waits in a circle waits, in part, for ledger rows of entities without a *)
(* limit: the global order of scopes does keep writers that have limits    *)
(* from deadlock (sql/postgres.py).                                        *)
THEOREM OnlyBareRowsDeadlock ==
  ASSUME RequestsSorted
  PROVE  PgSpec => []CirclesAreOverBareRows
  <1>1. PgInv /\ ScopesAscend /\ [PgNext]_pgVars => ScopesAscend'
    BY ScopesAscendNext
  <1>2. PgInv /\ ScopesAscend => CirclesAreOverBareRows
    BY CirclesReachRows
  <1> QED
    BY <1>1, <1>2, InitAscends, SessionsKeepTheirLocks, PTL DEF PgSpec

(* Where every ledger row belongs to a scope with a limit, or all but one, *)
(* there is no deadlock at all, in whatever order plans visit rows: "One   *)
(* global order means concurrent writers cannot deadlock"                  *)
(* (sql/postgres.py) is true of scopes with limits.                        *)
THEOREM LimitedScopesNeverDeadlock ==
  ASSUME RequestsSorted
  PROVE  PgSpec => [](OneBareRow => NoDeadlock)
  <1>1. PgInv /\ CirclesAreOverBareRows => (OneBareRow => NoDeadlock)
    <2> SUFFICES ASSUME PgInv, OneBareRow, CirclesAreOverBareRows,
                        NEW S \in SUBSET Sessions, Circle(S)
                 PROVE  FALSE
      BY DEF NoDeadlock
    <2>1. PICK T \in SUBSET S : Circle(T) /\ \A s \in T : WaitsForBareRow(s)
      BY DEF CirclesAreOverBareRows
    <2>2. T \in SUBSET Sessions
      OBVIOUS
    <2> QED
      BY <2>1, <2>2, CirclesTakeTwoRows
  <1> QED
    BY <1>1, SessionsKeepTheirLocks, OnlyBareRowsDeadlock, PTL
================================================================================
