----------------------------- MODULE Ledger_proofs -----------------------------
(***************************************************************************)
(* Theorems about Ledger, for every set of reservations, scopes, limits    *)
(* and amounts and every lag between writers' clocks.                      *)
(***************************************************************************)
EXTENDS Ledger, SpendTotals_proofs

(* Rounding an amount to micro-cents gives a natural number.               *)
LEMMA MicrosAreNat == ASSUME NEW units \in Nat PROVE ToMicros(units) \in Nat
  <1> DEFINE n == 2 * units + Quantum
             d == 2 * Quantum
  <1>1. n \in Nat /\ d \in Nat /\ d > 0
    BY QuantumAssumption
  <1>2. \A a, b \in Nat : b > 0 => a \div b \in Nat
    OBVIOUS
  <1>3. n \div d \in Nat
    BY <1>1, <1>2
  <1> QED
    BY <1>3 DEF ToMicros

(* Every request names at least one scope.                                 *)
LEMMA RequestsAreTuples ==
  ASSUME NEW scopes \in Requests
  PROVE  /\ DOMAIN scopes \subseteq Nat \ {0}
         /\ 1 \in DOMAIN scopes
         /\ \A i \in DOMAIN scopes : scopes[i] \in Scopes
  <1>1. scopes \in Seq(Scopes) /\ scopes # <<>>
    BY LedgerAssumption
  <1>2. DOMAIN scopes = 1..Len(scopes) /\ Len(scopes) \in Nat /\ Len(scopes) > 0
    BY <1>1
  <1> QED
    BY <1>1, <1>2

(* A new row is a row of the ledger.                                       *)
LEMMA NewRowTyped ==
  ASSUME NEW s \in Scopes, NEW est \in Estimates,
         NEW request \in RequestIds \cup {NoRequest}, NEW now \in Time, NEW ttl \in TTLs
  PROVE  NewRow(s, est, request, now, ttl) \in Row
  <1>1. ToMicros(est) \in Nat
    BY MicrosAreNat, LedgerAssumption
  <1>2. now + ttl \in Nat
    BY TimeAssumption, LedgerAssumption DEF Time
  <1> QED
    BY <1>1, <1>2 DEF NewRow, Row, Scopes

--------------------------------------------------------------------------------
(* The invariant that is preserved by every step: the tables are typed and *)
(* the rows of a reservation agree. It says nothing of the amounts in the  *)
(* running totals, which are sums.                                         *)
IInv == TablesTyped /\ GroupsAgree

(* What a limit row is, apart from its running total.                      *)
IsLimit(row) ==
  DOMAIN row = {"cap", "grace", "total"} /\ row.cap \in Nat /\ row.grace \in Nat

(* Folding row changes into totals leaves caps and grace alone.            *)
LEMMA TrackKeepsLimits ==
  ASSUME NEW lims, NEW before, NEW after,
         DOMAIN lims \subseteq Scopes,
         \A s \in DOMAIN lims : IsLimit(lims[s])
  PROVE  /\ DOMAIN Track(lims, before, after) \subseteq Scopes
         /\ \A s \in DOMAIN Track(lims, before, after) :
              IsLimit(Track(lims, before, after)[s])
  <1> DEFINE tracked == Track(lims, before, after)
             Total(s) == ApplyRowChanges(lims[s].total, s, before, after)
  <1>1. tracked = [s \in DOMAIN lims |-> [lims[s] EXCEPT !.total = Total(s)]]
    BY DEF Track
  <1> HIDE DEF Total
  <1>2. \A s \in DOMAIN lims : IsLimit([lims[s] EXCEPT !.total = Total(s)])
    BY DEF IsLimit
  <1> QED
    BY <1>1, <1>2

(* The rows of a reservation are the rows that agree with its first one.   *)
LEMMA RowsAgree ==
  ASSUME GroupsAgree, TablesTyped, NEW r, NEW id \in RowsOf(r)
  PROVE  /\ <<r, 1>> \in RowsOf(r)
         /\ ledger[id].state = ledger[<<r, 1>>].state
         /\ ledger[id].late = ledger[<<r, 1>>].late
         /\ ledger[id].expires = ledger[<<r, 1>>].expires
  BY DEF GroupsAgree, RowsOf

(* An UPDATE of whole reservations, whose rows it leaves in agreement,     *)
(* preserves the invariant.                                                *)
LEMMA UpdateInvariant ==
  ASSUME IInv, NEW after, NEW ids \in SUBSET DOMAIN ledger,
         DOMAIN after = ids,
         \A id \in ids : after[id] \in Row,
         \A id \in DOMAIN ledger : id \in ids <=> <<id[1], 1>> \in ids,
         \A id \in ids : /\ after[id].state = after[<<id[1], 1>>].state
                         /\ after[id].late = after[<<id[1], 1>>].late
                         /\ after[id].expires = after[<<id[1], 1>>].expires
                         /\ after[id].late => after[id].state # "reserved",
         ledger' = [id \in DOMAIN ledger |->
                      IF id \in ids THEN after[id] ELSE ledger[id]],
         limits' = Track(limits, ledger, after),
         clock' = clock
  PROVE  IInv'
  <1>1. LedgerTyped'
    BY DEF IInv, TablesTyped, LedgerTyped
  <1>2. DOMAIN limits \subseteq Scopes /\ \A s \in DOMAIN limits : IsLimit(limits[s])
    BY DEF IInv, TablesTyped, LimitsTyped, IsLimit
  <1>3. LimitsTyped'
    BY <1>2, TrackKeepsLimits DEF LimitsTyped, IsLimit
  <1>4. GroupsAgree'
    <2> SUFFICES ASSUME NEW id \in DOMAIN ledger
                 PROVE  /\ <<id[1], 1>> \in DOMAIN ledger
                        /\ ledger'[id].state = ledger'[<<id[1], 1>>].state
                        /\ ledger'[id].late = ledger'[<<id[1], 1>>].late
                        /\ ledger'[id].expires = ledger'[<<id[1], 1>>].expires
                        /\ ledger'[id].late => ledger'[id].state # "reserved"
      BY DEF GroupsAgree
    <2>1. <<id[1], 1>> \in DOMAIN ledger
      BY DEF IInv, GroupsAgree
    <2>2. CASE id \in ids
      BY <2>1, <2>2
    <2>3. CASE id \notin ids
      BY <2>1, <2>3 DEF IInv, GroupsAgree
    <2> QED
      BY <2>1, <2>2, <2>3
  <1> QED
    BY <1>1, <1>3, <1>4 DEF IInv, TablesTyped

(* The rows that one transaction matches are whole reservations.           *)
LEMMA WholeGroups ==
  ASSUME IInv, NEW r \in Reservations, NEW id \in DOMAIN ledger
  PROVE  /\ id \in RowsIn(r, "reserved") <=> <<id[1], 1>> \in RowsIn(r, "reserved")
         /\ id \in LapsedRows(r) <=> <<id[1], 1>> \in LapsedRows(r)
         /\ \A now : id \in ExpiredRows(now) <=> <<id[1], 1>> \in ExpiredRows(now)
  BY DEF IInv, GroupsAgree, RowsOf, RowsIn, LapsedRows, ExpiredRows

(* Every step of the ledger preserves the invariant.                       *)
LEMMA InitInvariant == Init => IInv
  BY TimeAssumption
     DEF Init, IInv, TablesTyped, LedgerTyped, LimitsTyped, GroupsAgree, Time

LEMMA ReserveInvariant ==
  ASSUME IInv, NEW r \in Reservations, NEW scopes \in Requests,
         NEW est \in Estimates, NEW request \in RequestIds \cup {NoRequest},
         NEW now \in Time, NEW ttl \in TTLs,
         Reserve(r, scopes, est, request, now, ttl)
  PROVE  IInv'
  <1> DEFINE ids == {r} \X DOMAIN scopes
             new == [id \in ids |-> NewRow(scopes[id[2]], est, request, now, ttl)]
             read == [s \in DOMAIN limits |->
                        IF \E i \in DOMAIN scopes : scopes[i] = s
                        THEN Refreshed(s, now) ELSE limits[s]]
  <1>1. /\ RowsOf(r) = {}
        /\ ledger' = [id \in DOMAIN ledger \cup ids |->
                         IF id \in ids THEN new[id] ELSE ledger[id]]
        /\ limits' = Track(read, <<>>, new)
        /\ clock' = clock
    BY DEF Reserve, NewRows, Checked
  <1>2. ids \subseteq RowIds
    BY RequestsAreTuples DEF RowIds
  <1>3. \A id \in ids : new[id] \in Row
    <2> SUFFICES ASSUME NEW id \in ids PROVE new[id] \in Row
      OBVIOUS
    <2>1. scopes[id[2]] \in Scopes
      BY RequestsAreTuples
    <2> QED
      BY <2>1, NewRowTyped
  <1>4. LedgerTyped'
    BY <1>1, <1>2, <1>3 DEF IInv, TablesTyped, LedgerTyped
  <1>5. DOMAIN read \subseteq Scopes /\ \A s \in DOMAIN read : IsLimit(read[s])
    BY DEF IInv, TablesTyped, LimitsTyped, IsLimit, Refreshed
  <1>6. LimitsTyped'
    <2> HIDE DEF read, new
    <2> QED
      BY <1>1, <1>5, TrackKeepsLimits DEF LimitsTyped, IsLimit
  <1>7. GroupsAgree'
    <2> SUFFICES ASSUME NEW id \in DOMAIN ledger'
                 PROVE  /\ <<id[1], 1>> \in DOMAIN ledger'
                        /\ ledger'[id].state = ledger'[<<id[1], 1>>].state
                        /\ ledger'[id].late = ledger'[<<id[1], 1>>].late
                        /\ ledger'[id].expires = ledger'[<<id[1], 1>>].expires
                        /\ ledger'[id].late => ledger'[id].state # "reserved"
      BY DEF GroupsAgree
    <2>1. CASE id \in ids
      <3>1. id[1] = r /\ <<r, 1>> \in ids
        BY <2>1, RequestsAreTuples
      <3> QED
        BY <1>1, <2>1, <3>1 DEF NewRow
    <2>2. CASE id \notin ids
      <3>1. id \in DOMAIN ledger /\ id[1] # r
        BY <1>1, <2>2 DEF RowsOf
      <3>2. <<id[1], 1>> \notin ids
        BY <3>1
      <3> QED
        BY <1>1, <2>2, <3>1, <3>2 DEF IInv, GroupsAgree
    <2> QED
      BY <2>1, <2>2
  <1> QED
    BY <1>1, <1>4, <1>6, <1>7 DEF IInv, TablesTyped

LEMMA ObserveInvariant ==
  ASSUME IInv, NEW r \in Reservations, NEW cost \in Nat, Observe(r, cost)
  PROVE  IInv'
  <1> DEFINE ids == RowsIn(r, "reserved")
             after == [id \in ids |->
                         [ledger[id] EXCEPT !.actual = ToMicros(cost)]]
  <1>1. ids \subseteq DOMAIN ledger
    BY DEF RowsIn, RowsOf
  <1>2. \A id \in ids : ledger[id] \in Row
    BY <1>1 DEF IInv, TablesTyped, LedgerTyped
  <1>3. \A id \in ids : /\ after[id] \in Row
                        /\ after[id].state = ledger[id].state
                        /\ after[id].late = ledger[id].late
                        /\ after[id].expires = ledger[id].expires
    BY <1>2, MicrosAreNat DEF Row
  <1>4. \A id \in DOMAIN ledger : id \in ids <=> <<id[1], 1>> \in ids
    BY WholeGroups
  <1>5. \A id \in ids : /\ ledger[id].state = ledger[<<id[1], 1>>].state
                        /\ ledger[id].late = ledger[<<id[1], 1>>].late
                        /\ ledger[id].expires = ledger[<<id[1], 1>>].expires
                        /\ ledger[id].late => ledger[id].state # "reserved"
    BY <1>1 DEF IInv, GroupsAgree
  <1>6. /\ ledger' = [id \in DOMAIN ledger |->
                         IF id \in ids THEN after[id] ELSE ledger[id]]
        /\ limits' = Track(limits, ledger, after)
        /\ clock' = clock
        /\ DOMAIN after = ids
    BY DEF Observe, Update, Observed
  <1> HIDE DEF ids, after
  <1>7. ASSUME NEW id \in ids
        PROVE  /\ after[id].state = after[<<id[1], 1>>].state
               /\ after[id].late = after[<<id[1], 1>>].late
               /\ after[id].expires = after[<<id[1], 1>>].expires
               /\ after[id].late => after[id].state # "reserved"
    <2>1. id \in DOMAIN ledger /\ <<id[1], 1>> \in ids
      BY <1>1, <1>4
    <2>2. after[id].late \in BOOLEAN /\ after[<<id[1], 1>>].late \in BOOLEAN
      BY <1>3, <2>1 DEF Row
    <2> QED
      BY <1>3, <1>5, <2>1, <2>2
  <1> QED
    BY <1>1, <1>3, <1>4, <1>6, <1>7, UpdateInvariant

LEMMA ReleaseInvariant ==
  ASSUME IInv, NEW r \in Reservations, Release(r)
  PROVE  IInv'
  <1> DEFINE ids == RowsIn(r, "reserved")
             after == [id \in ids |->
                         [ledger[id] EXCEPT !.state = "released"]]
  <1>1. ids \subseteq DOMAIN ledger
    BY DEF RowsIn, RowsOf
  <1>2. \A id \in ids : ledger[id] \in Row
    BY <1>1 DEF IInv, TablesTyped, LedgerTyped
  <1>3. \A id \in ids : /\ after[id] \in Row
                        /\ after[id].state = "released"
                        /\ after[id].late = ledger[id].late
                        /\ after[id].expires = ledger[id].expires
    BY <1>2 DEF Row
  <1>4. \A id \in DOMAIN ledger : id \in ids <=> <<id[1], 1>> \in ids
    BY WholeGroups
  <1>5. \A id \in ids : /\ ledger[id].state = ledger[<<id[1], 1>>].state
                        /\ ledger[id].late = ledger[<<id[1], 1>>].late
                        /\ ledger[id].expires = ledger[<<id[1], 1>>].expires
                        /\ ledger[id].late => ledger[id].state # "reserved"
    BY <1>1 DEF IInv, GroupsAgree
  <1>6. /\ ledger' = [id \in DOMAIN ledger |->
                         IF id \in ids THEN after[id] ELSE ledger[id]]
        /\ limits' = Track(limits, ledger, after)
        /\ clock' = clock
        /\ DOMAIN after = ids
    BY DEF Release, Update, Refunded
  <1> HIDE DEF ids, after
  <1>7. ASSUME NEW id \in ids
        PROVE  /\ after[id].state = after[<<id[1], 1>>].state
               /\ after[id].late = after[<<id[1], 1>>].late
               /\ after[id].expires = after[<<id[1], 1>>].expires
               /\ after[id].late => after[id].state # "reserved"
    <2>1. id \in DOMAIN ledger /\ <<id[1], 1>> \in ids
      BY <1>1, <1>4
    <2>2. after[id].late \in BOOLEAN /\ after[<<id[1], 1>>].late \in BOOLEAN
      BY <1>3, <2>1 DEF Row
    <2> QED
      BY <1>3, <1>5, <2>1, <2>2
  <1> QED
    BY <1>1, <1>3, <1>4, <1>6, <1>7, UpdateInvariant

LEMMA SweepInvariant ==
  ASSUME IInv, NEW now, SweepAt(now)
  PROVE  IInv'
  <1> DEFINE ids == ExpiredRows(now)
             after == [id \in ids |->
                         [ledger[id] EXCEPT !.state = "released", !.late = TRUE]]
  <1>1. ids \subseteq DOMAIN ledger
    BY DEF ExpiredRows
  <1>2. \A id \in ids : ledger[id] \in Row
    BY <1>1 DEF IInv, TablesTyped, LedgerTyped
  <1>3. \A id \in ids : /\ after[id] \in Row
                        /\ after[id].state = "released"
                        /\ after[id].late = TRUE
                        /\ after[id].expires = ledger[id].expires
    BY <1>2 DEF Row
  <1>4. \A id \in DOMAIN ledger : id \in ids <=> <<id[1], 1>> \in ids
    BY DEF IInv, GroupsAgree, ExpiredRows
  <1>5. \A id \in ids : ledger[id].expires = ledger[<<id[1], 1>>].expires
    BY <1>1 DEF IInv, GroupsAgree
  <1>6. /\ ledger' = [id \in DOMAIN ledger |->
                         IF id \in ids THEN after[id] ELSE ledger[id]]
        /\ limits' = Track(limits, ledger, after)
        /\ clock' = clock
        /\ DOMAIN after = ids
    BY DEF SweepAt, Update, Lapsed
  <1> HIDE DEF ids, after
  <1>7. ASSUME NEW id \in ids
        PROVE  /\ after[id].state = after[<<id[1], 1>>].state
               /\ after[id].late = after[<<id[1], 1>>].late
               /\ after[id].expires = after[<<id[1], 1>>].expires
               /\ after[id].late => after[id].state # "reserved"
    <2>1. id \in DOMAIN ledger /\ <<id[1], 1>> \in ids
      BY <1>1, <1>4
    <2>2. after[id].late \in BOOLEAN /\ after[<<id[1], 1>>].late \in BOOLEAN
      BY <1>3, <2>1 DEF Row
    <2> QED
      BY <1>3, <1>5, <2>1, <2>2
  <1> QED
    BY <1>1, <1>3, <1>4, <1>6, <1>7, UpdateInvariant

LEMMA CommitInvariant ==
  ASSUME IInv, NEW r \in Reservations, NEW cost \in Nat, Commit(r, cost)
  PROVE  IInv'
  <1>1. ToMicros(cost) \in Nat
    BY MicrosAreNat
  <1>2. CASE RowsIn(r, "reserved") # {}
    <2> DEFINE ids == RowsIn(r, "reserved")
               after == [id \in ids |-> [ledger[id] EXCEPT !.state = "committed",
                                                          !.actual = ToMicros(cost)]]
    <2>1. ids \subseteq DOMAIN ledger
      BY DEF RowsIn, RowsOf
    <2>2. \A id \in ids : ledger[id] \in Row
      BY <2>1 DEF IInv, TablesTyped, LedgerTyped
    <2>3. \A id \in ids : /\ after[id] \in Row
                          /\ after[id].state = "committed"
                          /\ after[id].late = ledger[id].late
                          /\ after[id].expires = ledger[id].expires
      BY <1>1, <2>2 DEF Row
    <2>4. \A id \in DOMAIN ledger : id \in ids <=> <<id[1], 1>> \in ids
      BY WholeGroups
    <2>5. \A id \in ids : /\ ledger[id].late = ledger[<<id[1], 1>>].late
                          /\ ledger[id].expires = ledger[<<id[1], 1>>].expires
      BY <2>1 DEF IInv, GroupsAgree
    <2>6. /\ ledger' = [id \in DOMAIN ledger |->
                           IF id \in ids THEN after[id] ELSE ledger[id]]
          /\ limits' = Track(limits, ledger, after)
          /\ clock' = clock
          /\ DOMAIN after = ids
      BY <1>2 DEF Commit, Update, Paid, PaidLate
    <2> HIDE DEF ids, after
    <2>7. ASSUME NEW id \in ids
          PROVE  /\ after[id].state = after[<<id[1], 1>>].state
                 /\ after[id].late = after[<<id[1], 1>>].late
                 /\ after[id].expires = after[<<id[1], 1>>].expires
                 /\ after[id].late => after[id].state # "reserved"
      <3>1. id \in DOMAIN ledger /\ <<id[1], 1>> \in ids
        BY <2>1, <2>4
      <3>2. after[id].late \in BOOLEAN /\ after[<<id[1], 1>>].late \in BOOLEAN
        BY <2>3, <3>1 DEF Row
      <3> QED
        BY <2>3, <2>5, <3>1, <3>2
    <2> QED
      BY <2>1, <2>3, <2>4, <2>6, <2>7, UpdateInvariant
  <1>3. CASE RowsIn(r, "reserved") = {}
    <2> DEFINE ids == LapsedRows(r)
               after == [id \in ids |-> [ledger[id] EXCEPT !.state = "committed",
                                                          !.actual = ToMicros(cost),
                                                          !.late = TRUE]]
    <2>1. ids \subseteq DOMAIN ledger
      BY DEF LapsedRows, RowsIn, RowsOf
    <2>2. \A id \in ids : ledger[id] \in Row
      BY <2>1 DEF IInv, TablesTyped, LedgerTyped
    <2>3. \A id \in ids : /\ after[id] \in Row
                          /\ after[id].state = "committed"
                          /\ after[id].late
                          /\ after[id].expires = ledger[id].expires
      BY <1>1, <2>2 DEF Row
    <2>4. \A id \in DOMAIN ledger : id \in ids <=> <<id[1], 1>> \in ids
      BY WholeGroups
    <2>5. \A id \in ids : ledger[id].expires = ledger[<<id[1], 1>>].expires
      BY <2>1 DEF IInv, GroupsAgree
    <2>6. /\ ledger' = [id \in DOMAIN ledger |->
                           IF id \in ids THEN after[id] ELSE ledger[id]]
          /\ limits' = Track(limits, ledger, after)
          /\ clock' = clock
          /\ DOMAIN after = ids
      BY <1>3 DEF Commit, Update, Paid, PaidLate
    <2> HIDE DEF ids, after
    <2>7. ASSUME NEW id \in ids
          PROVE  /\ after[id].state = after[<<id[1], 1>>].state
                 /\ after[id].late = after[<<id[1], 1>>].late
                 /\ after[id].expires = after[<<id[1], 1>>].expires
                 /\ after[id].late => after[id].state # "reserved"
      <3>1. id \in DOMAIN ledger /\ <<id[1], 1>> \in ids
        BY <2>1, <2>4
      <3>2. after[id].late \in BOOLEAN /\ after[<<id[1], 1>>].late \in BOOLEAN
        BY <2>3, <3>1 DEF Row
      <3> QED
        BY <2>3, <2>5, <3>1, <3>2
    <2> QED
      BY <2>1, <2>3, <2>4, <2>6, <2>7, UpdateInvariant
  <1> QED
    BY <1>2, <1>3

LEMMA SetLimitInvariant ==
  ASSUME IInv, NEW l \in LimitChoices, SetLimit(l.scope, l.cap, l.grace)
  PROVE  IInv'
  <1>1. l.scope \in Scopes /\ l.cap \in Nat /\ l.grace \in Nat
    BY LedgerAssumption
  <1>2. DOMAIN limits \subseteq Scopes /\ \A s \in DOMAIN limits : IsLimit(limits[s])
    BY DEF IInv, TablesTyped, LimitsTyped, IsLimit
  <1>3. /\ DOMAIN limits' = DOMAIN limits \cup {l.scope}
        /\ \A s \in DOMAIN limits' : IsLimit(limits'[s])
    BY <1>1, <1>2 DEF SetLimit, IsLimit
  <1>4. LimitsTyped'
    BY <1>1, <1>2, <1>3 DEF LimitsTyped, IsLimit
  <1>5. clock' = clock /\ ledger' = ledger
    BY DEF SetLimit
  <1> QED
    BY <1>4, <1>5 DEF IInv, TablesTyped, LedgerTyped, GroupsAgree

LEMMA TickInvariant == ASSUME IInv, Tick PROVE IInv'
  <1>1. clock' \in Time
    BY TimeAssumption DEF IInv, TablesTyped, Tick, Time
  <1>2. limits' = limits /\ ledger' = ledger
    BY DEF Tick
  <1> QED
    BY <1>1, <1>2 DEF IInv, TablesTyped, LedgerTyped, LimitsTyped, GroupsAgree

(* The invariant is inductive: it holds at first and every step keeps it.  *)
LEMMA NextInvariant == ASSUME IInv, [Next]_vars PROVE IInv'
  <1>1. CASE SetSomeLimit
    BY <1>1, SetLimitInvariant DEF SetSomeLimit
  <1>2. CASE ReserveSome
    BY <1>2, ReserveInvariant DEF ReserveSome, ReserveAt, Recent
  <1>3. CASE ObserveSome
    BY <1>3, ObserveInvariant, LedgerAssumption DEF ObserveSome
  <1>4. CASE CommitSome
    BY <1>4, CommitInvariant, LedgerAssumption DEF CommitSome
  <1>5. CASE ReleaseSome
    BY <1>5, ReleaseInvariant DEF ReleaseSome
  <1>6. CASE Sweep
    BY <1>6, SweepInvariant DEF Sweep
  <1>7. CASE Tick
    BY <1>7, TickInvariant
  <1>8. CASE UNCHANGED vars
    BY <1>8 DEF vars, IInv, TablesTyped, LedgerTyped, LimitsTyped, GroupsAgree
  <1> QED
    BY <1>1, <1>2, <1>3, <1>4, <1>5, <1>6, <1>7, <1>8 DEF Next

THEOREM LedgerInvariant == Spec => []IInv
  <1> QED
    BY InitInvariant, NextInvariant, PTL DEF Spec

(* Whatever is reserved, observed, settled and swept, by however many      *)
(* writers with however late a clock reading, the tables hold only what    *)
(* their columns allow (the CHECK constraints of the migrations).          *)
THEOREM TablesStayTyped == Spec => []TablesTyped
  BY LedgerInvariant, PTL DEF IInv

(* No transaction settles, prices or expires half a composite reservation: *)
(* its rows agree on state, late mark and time to live at all times        *)
(* (storage: commit, release and sweep update every row of the group).     *)
THEOREM CompositesStayWhole == Spec => []GroupsAgree
  BY LedgerInvariant, PTL DEF IInv

--------------------------------------------------------------------------------
(* Running totals.                                                         *)

(* Clock readings tell the buckets of w apart: no transaction uses a stale *)
(* reading, or w has one bucket only, as a lifetime has.                   *)
Steady(w) == MaxLag = 0 \/ Boundaries[w] = {0}

(* The invariant of the totals: they are exact, in the sense of            *)
(* SpendTotals_proofs, where clock readings can be relied on, and no row   *)
(* is dated ahead of the clock.                                            *)
TInv ==
  /\ IsFiniteSet(DOMAIN ledger)
  /\ \A id \in DOMAIN ledger : ledger[id].created <= clock
  /\ \A s \in DOMAIN limits : Steady(s.window) => Exact(limits[s].total, s, ledger)

LEMMA RowCounts ==
  ASSUME NEW row \in Row
  PROVE  Contribution(row) \in Nat /\ row.created \in Time
  <1> DEFINE actual == IF row.actual = NoCost THEN 0 ELSE row.actual
  <1>1. /\ row.state \in {"reserved", "committed", "released"}
        /\ row.est \in Nat /\ row.actual \in Nat \cup {NoCost} /\ row.created \in Time
    BY DEF Row
  <1>2. actual \in Nat
    BY <1>1
  <1>3. Contribution(row) \in {0, actual, row.est}
    BY <1>1 DEF Contribution
  <1> QED
    BY <1>1, <1>2, <1>3

LEMMA LedgerIsCountable ==
  ASSUME TablesTyped, IsFiniteSet(DOMAIN ledger)
  PROVE  Countable(ledger)
  BY RowCounts DEF TablesTyped, LedgerTyped, Countable

(* At a reading that a transaction uses, no row of a steady scope belongs  *)
(* to a later bucket.                                                      *)
LEMMA NoLaterBucket ==
  ASSUME IInv, TInv, NEW s \in Scopes, Steady(s.window), NEW now \in Recent
  PROVE  \A id \in DOMAIN ledger :
           WindowStart(s.window, ledger[id].created) <= WindowStart(s.window, now)
  <1> SUFFICES ASSUME NEW id \in DOMAIN ledger
               PROVE  WindowStart(s.window, ledger[id].created) <= WindowStart(s.window, now)
    OBVIOUS
  <1>1. ledger[id].created \in Time /\ s.window \in Windows
    BY RowCounts DEF IInv, TablesTyped, LedgerTyped, Scopes
  <1>2. now \in Time /\ now <= clock /\ clock - now <= MaxLag /\ clock \in Time
    BY DEF Recent, IInv, TablesTyped
  <1>3. CASE MaxLag = 0
    <2>1. now = clock
      BY <1>2, <1>3, TimeAssumption DEF Time
    <2> QED
      BY <1>1, <1>2, <2>1, SameBucket DEF TInv
  <1>4. CASE Boundaries[s.window] = {0}
    <2>1. WindowStart(s.window, ledger[id].created) = 0 /\ WindowStart(s.window, now) = 0
      BY <1>1, <1>2, <1>4, WindowStartIsLast
    <2> QED
      BY <2>1
  <1> QED
    BY <1>3, <1>4 DEF Steady

(* Reading a scope's spend leaves its total exact, and what is read is the *)
(* spend of the bucket.                                                    *)
LEMMA ReadIsExact ==
  ASSUME IInv, TInv, NEW s \in DOMAIN limits, Steady(s.window), NEW now \in Recent
  PROVE  /\ Exact(Refreshed(s, now).total, s, ledger)
         /\ CurrentSpend(s, now) = FromMicros(BucketSpend(ledger, s, now))
  <1>1. s \in Scopes /\ now \in Time /\ Countable(ledger)
    BY LedgerIsCountable DEF IInv, TInv, TablesTyped, LimitsTyped, Recent
  <1>2. Exact(limits[s].total, s, ledger)
    BY DEF TInv
  <1> DEFINE total == Refreshed(s, now).total
  <1>3. Exact(total, s, ledger)
    <2>1. CASE SpentInWindow(limits[s].total, s.window, now) = Unknown
      <3>1. total = RebuiltTotal(ledger, s, now)
        BY <2>1 DEF Refreshed, IInv, TablesTyped, LimitsTyped
      <3> QED
        BY <1>1, <3>1, NoLaterBucket, RebuiltIsExact
    <2>2. CASE SpentInWindow(limits[s].total, s.window, now) # Unknown
      BY <1>2, <2>2 DEF Refreshed
    <2> QED
      BY <2>1, <2>2
  <1>4. SpentInWindow(total, s.window, now) # Unknown
    <2>1. CASE SpentInWindow(limits[s].total, s.window, now) = Unknown
      <3>1. total = RebuiltTotal(ledger, s, now)
        BY <2>1 DEF Refreshed, IInv, TablesTyped, LimitsTyped
      <3>2. total.start = WindowStart(s.window, now) /\ total.start # Unknown
        BY <1>1, <3>1, WindowStartIsLast, NullAssumption DEF RebuiltTotal, Scopes
      <3>3. SpentInWindow(total, s.window, now) = total.spent
        BY <3>2 DEF SpentInWindow
      <3>4. total.spent \in Int
        BY <1>3 DEF Exact
      <3> QED
        BY <3>3, <3>4, NullAssumption
    <2>2. CASE SpentInWindow(limits[s].total, s.window, now) # Unknown
      BY <2>2 DEF Refreshed
    <2> QED
      BY <2>1, <2>2
  <1>5. SpentInWindow(total, s.window, now) = BucketSpend(ledger, s, now)
    BY <1>1, <1>3, <1>4, SpentIsExact DEF BucketSpend
  <1> QED
    BY <1>3, <1>5 DEF CurrentSpend

(* _track keeps every total exact.                                         *)
LEMMA TrackIsExact ==
  ASSUME NEW lims, DOMAIN lims \subseteq Scopes, \A s \in DOMAIN lims : IsLimit(lims[s]),
         NEW rows, NEW new, NEW before, NEW after,
         Countable(rows), Countable(new), RowsChanged(rows, new, before, after),
         \A s \in DOMAIN lims : Steady(s.window) => Exact(lims[s].total, s, rows)
  PROVE  \A s \in DOMAIN Track(lims, before, after) :
           Steady(s.window) => Exact(Track(lims, before, after)[s].total, s, new)
  <1> DEFINE tracked == Track(lims, before, after)
             Total(s) == ApplyRowChanges(lims[s].total, s, before, after)
  <1>1. tracked = [s \in DOMAIN lims |-> [lims[s] EXCEPT !.total = Total(s)]]
    BY DEF Track
  <1>2. \A s \in DOMAIN lims : Steady(s.window) => Exact(Total(s), s, new)
    BY RowChangesAreExact
  <1> HIDE DEF Total
  <1>3. \A s \in DOMAIN lims : tracked[s].total = Total(s)
    BY <1>1 DEF IsLimit
  <1> QED
    BY <1>1, <1>2, <1>3

(* An UPDATE that moves no row to another scope or instant keeps the       *)
(* invariant of the totals.                                                *)
LEMMA UpdateTotals ==
  ASSUME IInv, IInv', TInv, NEW after, NEW ids \in SUBSET DOMAIN ledger,
         DOMAIN after = ids,
         \A id \in ids : /\ after[id].entity = ledger[id].entity
                         /\ after[id].created = ledger[id].created,
         ledger' = [id \in DOMAIN ledger |->
                      IF id \in ids THEN after[id] ELSE ledger[id]],
         limits' = Track(limits, ledger, after),
         clock' = clock
  PROVE  TInv'
  <1>1. DOMAIN ledger' = DOMAIN ledger /\ IsFiniteSet(DOMAIN ledger)
    BY DEF TInv
  <1>2. \A id \in DOMAIN ledger' : ledger'[id].created <= clock'
    BY DEF TInv
  <1>3. Countable(ledger)
    BY <1>1, LedgerIsCountable DEF IInv
  <1>4. Countable(ledger')
    BY <1>1, RowCounts DEF IInv, TablesTyped, LedgerTyped, Countable
  <1>5. RowsChanged(ledger, ledger', ledger, after)
    BY DOMAIN ledger \cup ids = DOMAIN ledger DEF RowsChanged
  <1>6. DOMAIN limits \subseteq Scopes /\ \A s \in DOMAIN limits : IsLimit(limits[s])
    BY DEF IInv, TablesTyped, LimitsTyped, IsLimit
  <1>7. \A s \in DOMAIN limits' : Steady(s.window) => Exact(limits'[s].total, s, ledger')
    BY <1>3, <1>4, <1>5, <1>6, TrackIsExact DEF TInv
  <1> QED
    BY <1>1, <1>2, <1>7 DEF TInv

LEMMA ReserveTotals ==
  ASSUME IInv, IInv', TInv, NEW r \in Reservations, NEW scopes \in Requests,
         NEW est \in Estimates, NEW request \in RequestIds \cup {NoRequest},
         NEW now \in Recent, NEW ttl \in TTLs,
         Reserve(r, scopes, est, request, now, ttl)
  PROVE  TInv'
  <1> DEFINE ids == {r} \X DOMAIN scopes
             new == [id \in ids |-> NewRow(scopes[id[2]], est, request, now, ttl)]
             read == Checked(scopes, now)
  <1>1. /\ RowsOf(r) = {}
        /\ ledger' = [id \in DOMAIN ledger \cup ids |->
                         IF id \in ids THEN new[id] ELSE ledger[id]]
        /\ limits' = Track(read, <<>>, new)
        /\ clock' = clock
    BY DEF Reserve, NewRows
  <1>2. DOMAIN ledger \cap ids = {}
    BY <1>1 DEF RowsOf
  <1>3. IsFiniteSet(DOMAIN ledger')
    <2>1. scopes \in Seq(Scopes)
      BY LedgerAssumption
    <2>2. DOMAIN scopes = 1..Len(scopes) /\ Len(scopes) \in Nat
      BY <2>1
    <2>3. IsFiniteSet(DOMAIN scopes)
      BY <2>2, FS_Interval
    <2>4. IsFiniteSet(ids)
      BY <2>3, FS_Singleton, FS_Product
    <2>5. DOMAIN ledger' = DOMAIN ledger \cup ids /\ IsFiniteSet(DOMAIN ledger)
      BY <1>1 DEF TInv
    <2> HIDE DEF ids
    <2> QED
      BY <2>4, <2>5, FS_Union
  <1>4. Countable(ledger)
    BY LedgerIsCountable DEF IInv, TInv
  <1>5. Countable(ledger')
    BY <1>3, RowCounts DEF IInv, TablesTyped, LedgerTyped, Countable
  <1>6. RowsChanged(ledger, ledger', <<>>, new)
    <2>1. DOMAIN new = ids /\ DOMAIN <<>> = {}
      OBVIOUS
    <2> HIDE DEF new, ids
    <2> QED
      BY <1>1, <1>2, <2>1 DEF RowsChanged
  <1>7. /\ DOMAIN read = DOMAIN limits /\ DOMAIN read \subseteq Scopes
        /\ \A s \in DOMAIN read : IsLimit(read[s])
    BY DEF IInv, TablesTyped, LimitsTyped, IsLimit, Refreshed, Checked
  <1>8. ASSUME NEW s \in DOMAIN read, Steady(s.window)
        PROVE  Exact(read[s].total, s, ledger)
    <2>1. read[s] = Refreshed(s, now) \/ read[s] = limits[s]
      BY <1>7 DEF Checked
    <2>2. s \in DOMAIN limits
      BY <1>7
    <2> HIDE DEF read
    <2> QED
      BY <1>8, <2>1, <2>2, ReadIsExact DEF TInv
  <1>9. \A s \in DOMAIN limits' : Steady(s.window) => Exact(limits'[s].total, s, ledger')
    <2> HIDE DEF read, new
    <2> QED
      BY <1>1, <1>4, <1>5, <1>6, <1>7, <1>8, TrackIsExact
  <1>10. ASSUME NEW id \in DOMAIN ledger' PROVE ledger'[id].created <= clock'
    <2>1. CASE id \in ids
      BY <1>1, <2>1 DEF NewRow, Recent
    <2>2. CASE id \notin ids
      BY <1>1, <2>2 DEF TInv
    <2> QED
      BY <2>1, <2>2
  <1> QED
    BY <1>3, <1>9, <1>10 DEF TInv

LEMMA SettleTotals ==
  ASSUME IInv, IInv', TInv, NEW r \in Reservations, NEW cost,
         Observe(r, cost) \/ Commit(r, cost) \/ Release(r)
  PROVE  TInv'
  <1>1. RowsIn(r, "reserved") \subseteq DOMAIN ledger /\ LapsedRows(r) \subseteq DOMAIN ledger
    BY DEF RowsIn, RowsOf, LapsedRows
  <1>2. \A id \in DOMAIN ledger : ledger[id] \in Row
    BY DEF IInv, TablesTyped, LedgerTyped
  <1>3. \A id \in DOMAIN ledger :
          \A row \in {Observed(ledger[id], cost), Paid(ledger[id], cost),
                      PaidLate(ledger[id], cost), Refunded(ledger[id])} :
            row.entity = ledger[id].entity /\ row.created = ledger[id].created
    BY <1>2 DEF Row, Observed, Paid, PaidLate, Refunded
  <1>4. CASE Observe(r, cost)
    <2> DEFINE ids == RowsIn(r, "reserved")
               after == [id \in ids |-> Observed(ledger[id], cost)]
    <2>1. /\ ledger' = [id \in DOMAIN ledger |->
                           IF id \in ids THEN after[id] ELSE ledger[id]]
          /\ limits' = Track(limits, ledger, after) /\ clock' = clock
      BY <1>4 DEF Observe, Update
    <2>2. \A id \in ids : /\ after[id].entity = ledger[id].entity
                          /\ after[id].created = ledger[id].created
      BY <1>1, <1>3
    <2>3. DOMAIN after = ids
      OBVIOUS
    <2> HIDE DEF after, ids
    <2> QED
      BY <1>1, <2>1, <2>2, <2>3, UpdateTotals DEF ids
  <1>5. CASE Release(r)
    <2> DEFINE ids == RowsIn(r, "reserved")
               after == [id \in ids |-> Refunded(ledger[id])]
    <2>1. /\ ledger' = [id \in DOMAIN ledger |->
                           IF id \in ids THEN after[id] ELSE ledger[id]]
          /\ limits' = Track(limits, ledger, after) /\ clock' = clock
      BY <1>5 DEF Release, Update
    <2>2. \A id \in ids : /\ after[id].entity = ledger[id].entity
                          /\ after[id].created = ledger[id].created
      BY <1>1, <1>3
    <2>3. DOMAIN after = ids
      OBVIOUS
    <2> HIDE DEF after, ids
    <2> QED
      BY <1>1, <2>1, <2>2, <2>3, UpdateTotals DEF ids
  <1>6. CASE Commit(r, cost) /\ RowsIn(r, "reserved") # {}
    <2> DEFINE ids == RowsIn(r, "reserved")
               after == [id \in ids |-> Paid(ledger[id], cost)]
    <2>1. /\ ledger' = [id \in DOMAIN ledger |->
                           IF id \in ids THEN after[id] ELSE ledger[id]]
          /\ limits' = Track(limits, ledger, after) /\ clock' = clock
      BY <1>6 DEF Commit, Update
    <2>2. \A id \in ids : /\ after[id].entity = ledger[id].entity
                          /\ after[id].created = ledger[id].created
      BY <1>1, <1>3
    <2>3. DOMAIN after = ids
      OBVIOUS
    <2> HIDE DEF after, ids
    <2> QED
      BY <1>1, <2>1, <2>2, <2>3, UpdateTotals DEF ids
  <1>7. CASE Commit(r, cost) /\ RowsIn(r, "reserved") = {}
    <2> DEFINE ids == LapsedRows(r)
               after == [id \in ids |-> PaidLate(ledger[id], cost)]
    <2>1. /\ ledger' = [id \in DOMAIN ledger |->
                           IF id \in ids THEN after[id] ELSE ledger[id]]
          /\ limits' = Track(limits, ledger, after) /\ clock' = clock
      BY <1>7 DEF Commit, Update
    <2>2. \A id \in ids : /\ after[id].entity = ledger[id].entity
                          /\ after[id].created = ledger[id].created
      BY <1>1, <1>3
    <2>3. DOMAIN after = ids
      OBVIOUS
    <2> HIDE DEF after, ids
    <2> QED
      BY <1>1, <2>1, <2>2, <2>3, UpdateTotals DEF ids
  <1> QED
    BY <1>4, <1>5, <1>6, <1>7

LEMMA SweepTotals ==
  ASSUME IInv, IInv', TInv, NEW now, SweepAt(now)
  PROVE  TInv'
  <1> DEFINE ids == ExpiredRows(now)
             after == [id \in ids |-> Lapsed(ledger[id])]
  <1>1. /\ ledger' = [id \in DOMAIN ledger |->
                         IF id \in ids THEN after[id] ELSE ledger[id]]
        /\ limits' = Track(limits, ledger, after) /\ clock' = clock
    BY DEF SweepAt, Update
  <1>2. ids \subseteq DOMAIN ledger /\ DOMAIN after = ids
    BY DEF ExpiredRows
  <1>3. \A id \in DOMAIN ledger : ledger[id] \in Row
    BY DEF IInv, TablesTyped, LedgerTyped
  <1>4. \A id \in ids : /\ after[id].entity = ledger[id].entity
                        /\ after[id].created = ledger[id].created
    BY <1>2, <1>3 DEF Row, Lapsed
  <1> HIDE DEF after, ids
  <1> QED
    BY <1>1, <1>2, <1>4, UpdateTotals

LEMMA SetLimitTotals ==
  ASSUME IInv, TInv, NEW l \in LimitChoices, SetLimit(l.scope, l.cap, l.grace)
  PROVE  TInv'
  <1>1. /\ ledger' = ledger /\ clock' = clock
        /\ \A s \in DOMAIN limits' :
             \/ limits'[s].total = UnknownTotal
             \/ s \in DOMAIN limits /\ limits'[s] = limits[s]
    BY DEF SetLimit
  <1>2. \A s : Exact(UnknownTotal, s, ledger)
    BY DEF Exact, UnknownTotal
  <1> QED
    BY <1>1, <1>2 DEF TInv

LEMMA TickTotals == ASSUME IInv, TInv, Tick PROVE TInv'
  <1>1. limits' = limits /\ ledger' = ledger /\ clock' = clock + 1
    BY DEF Tick
  <1>2. \A id \in DOMAIN ledger : ledger[id].created \in Nat /\ clock \in Nat
    BY RowCounts, TimeAssumption DEF IInv, TablesTyped, LedgerTyped, Time
  <1> QED
    BY <1>1, <1>2 DEF TInv

(* The invariant of the totals is inductive, given that of the tables.     *)
LEMMA InitTotals == Init => TInv
  BY FS_EmptySet DEF Init, TInv

LEMMA NextTotals == ASSUME IInv, TInv, [Next]_vars PROVE TInv'
  <1>0. IInv'
    BY NextInvariant
  <1>1. CASE SetSomeLimit
    BY <1>1, SetLimitTotals DEF SetSomeLimit
  <1>2. CASE ReserveSome
    BY <1>0, <1>2, ReserveTotals DEF ReserveSome, ReserveAt
  <1>3. CASE ObserveSome
    BY <1>0, <1>3, SettleTotals DEF ObserveSome
  <1>4. CASE CommitSome
    BY <1>0, <1>4, SettleTotals DEF CommitSome
  <1>5. CASE ReleaseSome
    BY <1>0, <1>5, SettleTotals DEF ReleaseSome
  <1>6. CASE Sweep
    BY <1>0, <1>6, SweepTotals DEF Sweep
  <1>7. CASE Tick
    BY <1>7, TickTotals
  <1>8. CASE UNCHANGED vars
    BY <1>8 DEF vars, TInv
  <1> QED
    BY <1>1, <1>2, <1>3, <1>4, <1>5, <1>6, <1>7, <1>8 DEF Next

THEOREM TotalsInvariant == Spec => [](IInv /\ TInv)
  <1> QED
    BY InitInvariant, NextInvariant, InitTotals, NextTotals, PTL DEF Spec

(* Where clock readings can be relied on, every known total is the sum of  *)
(* its bucket, and so no total is negative.                                *)
LEMMA ExactTotalsAreTyped ==
  ASSUME IInv, TInv, \A w \in Windows : Steady(w)
  PROVE  TotalsMatchLedger /\ TotalsTyped
  <1>1. \A s \in DOMAIN limits : s \in Scopes /\ s.window \in Windows
    BY DEF IInv, TablesTyped, LimitsTyped, Scopes
  <1>2. \A s \in DOMAIN limits : Exact(limits[s].total, s, ledger)
    BY <1>1 DEF TInv
  <1>3. Countable(ledger)
    BY LedgerIsCountable DEF IInv, TInv
  <1>4. TotalsMatchLedger
    BY <1>2 DEF Exact, TotalsMatchLedger
  <1>5. ASSUME NEW s \in DOMAIN limits
        PROVE  limits[s].total \in [start : Boundaries[s.window] \cup {Unknown}, spent : Nat]
    <2> DEFINE total == limits[s].total
    <2>1. Exact(total, s, ledger)
      BY <1>2
    <2>2. SpendOf(ledger, Bucket(ledger, s, total.start)) \in Nat
      BY <1>3, SpendIsNatural DEF Bucket
    <2> HIDE DEF total
    <2>3. total.spent \in Nat
      BY <2>1, <2>2 DEF Exact
    <2> QED
      BY <2>1, <2>3 DEF Exact, total
  <1> QED
    BY <1>4, <1>5 DEF TotalsTyped

(* Twice a stored amount is at most half a micro-cent over the amount.     *)
LEMMA RoundingAddsAtMostHalf ==
  ASSUME NEW units \in Nat
  PROVE  2 * FromMicros(ToMicros(units)) <= 2 * units + Quantum
  <1> DEFINE n == 2 * units + Quantum
             d == 2 * Quantum
             q == ToMicros(units)
  <1>1. n \in Nat /\ d \in Nat /\ d > 0 /\ Quantum \in Nat
    BY QuantumAssumption
  <1>2. \A a, b \in Nat : b > 0 => b * (a \div b) <= a
    OBVIOUS
  <1>3. d * q <= n /\ q \in Nat
    BY <1>1, <1>2, MicrosAreNat DEF ToMicros
  <1>4. 2 * (q * Quantum) = d * q
    BY <1>1, <1>3
  <1> QED
    BY <1>3, <1>4 DEF FromMicros

(* Where clock readings tell the buckets of every window apart, every      *)
(* known running total is the sum of its bucket's rows: the incremental    *)
(* folding of insertions, settlements and sweeps never drifts from the     *)
(* formula it replaces (spend.apply_row_changes; protocol section 7.2).    *)
THEOREM TotalsAreExact ==
  ASSUME \A w \in Windows : Steady(w)
  PROVE  Spec => []TotalsMatchLedger
  <1>1. IInv /\ TInv => TotalsMatchLedger
    BY ExactTotalsAreTyped
  <1> QED
    BY <1>1, TotalsInvariant, PTL

(* Under the same hypothesis no running total is ever negative. A stale    *)
(* rebuild followed by a refund can take one below zero otherwise.         *)
THEOREM TypesAreCorrect ==
  ASSUME \A w \in Windows : Steady(w)
  PROVE  Spec => []TypeOK
  <1>1. IInv /\ TInv => TypeOK
    BY ExactTotalsAreTyped DEF TypeOK, IInv
  <1> QED
    BY <1>1, TotalsInvariant, PTL

--------------------------------------------------------------------------------
(* The cap.                                                                *)

(* No request names an entity under two windows: it would have a row for   *)
(* each, and each row counts in both.                                      *)
DistinctEntities ==
  \A scopes \in Requests : \A i, j \in DOMAIN scopes :
    scopes[i].entity = scopes[j].entity => i = j

(* Every cap with its grace is a whole number of micro-cents.              *)
WholeCaps ==
  \A l \in LimitChoices : \E k \in Nat : l.cap * (100 + l.grace) = 100 * FromMicros(k)

(* The caps and graces in force are ones that set_limit was given.         *)
CapsChosen ==
  \A s \in DOMAIN limits : \E l \in LimitChoices :
    limits[s].cap = l.cap /\ limits[s].grace = l.grace

(* new has the caps of old.                                                *)
SameCaps(old, new) ==
  /\ DOMAIN new = DOMAIN old
  /\ \A s \in DOMAIN old : new[s].cap = old[s].cap /\ new[s].grace = old[s].grace

LEMMA TrackKeepsCaps ==
  ASSUME NEW lims, NEW before, NEW after, \A s \in DOMAIN lims : IsLimit(lims[s])
  PROVE  SameCaps(lims, Track(lims, before, after))
  <1> DEFINE Total(s) == ApplyRowChanges(lims[s].total, s, before, after)
  <1>1. Track(lims, before, after) = [s \in DOMAIN lims |-> [lims[s] EXCEPT !.total = Total(s)]]
    BY DEF Track
  <1> HIDE DEF Total
  <1> QED
    BY <1>1 DEF IsLimit, SameCaps

(* Only set_limit changes a cap.                                           *)
LEMMA OnlySetLimitSetsCaps ==
  ASSUME IInv, [Next]_vars, ~SetSomeLimit
  PROVE  SameCaps(limits, limits')
  <1>1. \A s \in DOMAIN limits : IsLimit(limits[s])
    BY DEF IInv, TablesTyped, LimitsTyped, IsLimit
  <1>2. CASE ReserveSome
    <2>1. PICK r \in Reservations, scopes \in Requests, est \in Estimates,
               request \in RequestIds \cup {NoRequest}, now \in Recent, ttl \in TTLs :
            Reserve(r, scopes, est, request, now, ttl)
      BY <1>2 DEF ReserveSome, ReserveAt
    <2> DEFINE read == Checked(scopes, now)
    <2>2. limits' = Track(read, <<>>, NewRows(r, scopes, est, request, now, ttl))
      BY <2>1 DEF Reserve
    <2>3. SameCaps(limits, read) /\ \A s \in DOMAIN read : IsLimit(read[s])
      BY <1>1 DEF Checked, Refreshed, IsLimit, SameCaps
    <2> HIDE DEF read
    <2>4. SameCaps(read, limits')
      BY <2>2, <2>3, TrackKeepsCaps
    <2> QED
      BY <2>3, <2>4 DEF SameCaps
  <1>3. CASE ObserveSome \/ CommitSome \/ ReleaseSome \/ Sweep
    <2>1. \E after : limits' = Track(limits, ledger, after)
      BY <1>3 DEF ObserveSome, Observe, CommitSome, Commit, ReleaseSome, Release,
                  Sweep, SweepAt, Update
    <2> QED
      BY <1>1, <2>1, TrackKeepsCaps
  <1>4. CASE Tick \/ UNCHANGED vars
    BY <1>4 DEF Tick, vars, SameCaps
  <1> QED
    BY <1>2, <1>3, <1>4 DEF Next

LEMMA CapsAreChosen == Spec => []CapsChosen
  <1>1. Init => CapsChosen
    BY DEF Init, CapsChosen
  <1>2. ASSUME IInv, CapsChosen, [Next]_vars PROVE CapsChosen'
    <2>1. CASE SetSomeLimit
      <3>1. PICK l \in LimitChoices : SetLimit(l.scope, l.cap, l.grace)
        BY <2>1 DEF SetSomeLimit
      <3> QED
        BY <1>2, <3>1 DEF SetLimit, CapsChosen
    <2>2. CASE ~SetSomeLimit
      BY <1>2, <2>2, OnlySetLimitSetsCaps DEF SameCaps, CapsChosen
    <2> QED
      BY <2>1, <2>2
  <1> QED
    BY <1>1, <1>2, LedgerInvariant, PTL DEF Spec

(* A reservation adds its rounded estimate to the bucket of each scope     *)
(* that it names, once.                                                    *)
LEMMA GrantIsCountedOnce ==
  ASSUME DistinctEntities, IInv, IInv', TInv, TInv',
         NEW r \in Reservations, NEW scopes \in Requests,
         NEW est \in Estimates, NEW request, NEW now \in Recent, NEW ttl,
         Reserve(r, scopes, est, request, now, ttl), NEW i \in DOMAIN scopes
  PROVE  BucketSpend(ledger', scopes[i], now)
           = BucketSpend(ledger, scopes[i], now) + ToMicros(est)
  <1> DEFINE s == scopes[i]
             start == WindowStart(s.window, now)
             was == Bucket(ledger, s, start)
             is == Bucket(ledger', s, start)
             id == <<r, i>>
             ids == {r} \X DOMAIN scopes
             new == [x \in ids |-> NewRow(scopes[x[2]], est, request, now, ttl)]
  <1>1. /\ RowsOf(r) = {}
        /\ ledger' = [x \in DOMAIN ledger \cup ids |->
                        IF x \in ids THEN new[x] ELSE ledger[x]]
    BY DEF Reserve, NewRows
  <1>2. DOMAIN ledger \cap ids = {}
    BY <1>1 DEF RowsOf
  <1>3. id \in DOMAIN ledger' /\ id \notin DOMAIN ledger
        /\ ledger'[id] = NewRow(s, est, request, now, ttl)
    BY <1>1, <1>2
  <1>4. \A x \in DOMAIN ledger : x \in DOMAIN ledger' /\ ledger'[x] = ledger[x]
    BY <1>1, <1>2
  <1>5. is = was \cup {id}
    <2>1. \A x \in ids : ledger'[x].entity = s.entity => x = id
      <3> SUFFICES ASSUME NEW x \in ids, ledger'[x].entity = s.entity PROVE x = id
        OBVIOUS
      <3>1. ledger'[x].entity = scopes[x[2]].entity /\ x[2] \in DOMAIN scopes
        BY <1>1 DEF NewRow
      <3>2. x[2] = i
        BY <3>1 DEF DistinctEntities
      <3> QED
        BY <3>2
    <2>2. ledger'[id].entity = s.entity /\ ledger'[id].created = now
      BY <1>3 DEF NewRow
    <2>3. \A x \in DOMAIN ledger' : x \in DOMAIN ledger \/ x \in ids
      BY <1>1
    <2> QED
      BY <1>3, <1>4, <2>1, <2>2, <2>3 DEF Bucket
  <1>6. was \subseteq DOMAIN ledger /\ was \subseteq DOMAIN ledger' /\ is \subseteq DOMAIN ledger'
    BY <1>4 DEF Bucket
  <1>7. id \in is /\ is \ {id} = was
    BY <1>3, <1>5, <1>6
  <1>8. Countable(ledger) /\ Countable(ledger')
    BY LedgerIsCountable, RowCounts DEF IInv, TInv, TablesTyped, LedgerTyped, Countable
  <1>9. SpendOf(ledger', was) = SpendOf(ledger, was) /\ SpendOf(ledger, was) \in Nat
    BY <1>4, <1>6, <1>8, SpendAgrees, SpendIsNatural
  <1>10. Contribution(ledger'[id]) = ToMicros(est) /\ ToMicros(est) \in Nat
    <2>1. ToMicros(est) \in Nat
      BY MicrosAreNat, LedgerAssumption
    <2>2. ledger'[id].state = "reserved" /\ ledger'[id].actual = NoCost
          /\ ledger'[id].est = ToMicros(est)
      BY <1>3 DEF NewRow
    <2> QED
      BY <2>1, <2>2 DEF Contribution
  <1> HIDE DEF was, is, id
  <1>11. SpendOf(ledger', is) = ToMicros(est) + SpendOf(ledger, was)
    BY <1>6, <1>7, <1>8, <1>9, <1>10, SpendWithout
  <1> QED
    BY <1>9, <1>10, <1>11 DEF BucketSpend, was, is

(* Whatever the caps, a grant leaves a bucket at most half a micro-cent    *)
(* over its cap: the check is made before the estimate is rounded.         *)
LEMMA GrantOvershootsByRounding ==
  ASSUME DistinctEntities, IInv, IInv', TInv, TInv',
         NEW r \in Reservations, NEW scopes \in Requests,
         NEW est \in Estimates, NEW request, NEW now \in Recent, NEW ttl,
         Reserve(r, scopes, est, request, now, ttl), NEW i \in DOMAIN scopes,
         scopes[i] \in DOMAIN limits, Steady(scopes[i].window)
  PROVE  /\ BucketSpend(ledger', scopes[i], now) \in Nat
         /\ 200 * FromMicros(BucketSpend(ledger', scopes[i], now))
              <= 2 * (limits[scopes[i]].cap * (100 + limits[scopes[i]].grace)) + 100 * Quantum
  <1> DEFINE s == scopes[i]
             spent == BucketSpend(ledger, s, now)
             micros == ToMicros(est)
             allowed == limits[s].cap * (100 + limits[s].grace)
  <1>1. Countable(ledger)
    BY LedgerIsCountable DEF IInv, TInv
  <1>2. spent \in Nat
    BY <1>1, SpendIsNatural DEF BucketSpend, Bucket
  <1>3. est \in Nat /\ micros \in Nat /\ Quantum \in Nat
    BY MicrosAreNat, LedgerAssumption, QuantumAssumption
  <1>4. allowed \in Nat
    BY DEF IInv, TablesTyped, LimitsTyped
  <1>5. CurrentSpend(s, now) = FromMicros(spent)
    BY ReadIsExact
  <1>6. WithinCap(CurrentSpend(s, now) + est, limits[s])
    BY DEF Reserve, Fits
  <1>7. 100 * (spent * Quantum + est) <= allowed
    BY <1>5, <1>6 DEF WithinCap, FromMicros
  <1>8. 2 * (micros * Quantum) <= 2 * est + Quantum
    BY <1>3, RoundingAddsAtMostHalf DEF FromMicros
  <1>9. BucketSpend(ledger', s, now) = spent + micros
    BY GrantIsCountedOnce
  <1> HIDE DEF spent, micros, allowed
  <1>10. (spent + micros) * Quantum = spent * Quantum + micros * Quantum
         /\ spent * Quantum \in Nat /\ micros * Quantum \in Nat
    BY <1>2, <1>3
  <1>11. 200 * ((spent + micros) * Quantum) <= 2 * allowed + 100 * Quantum
    BY <1>3, <1>4, <1>7, <1>8, <1>10
  <1> QED
    BY <1>2, <1>3, <1>9, <1>11 DEF FromMicros, allowed

(* Between whole amounts, half a micro-cent makes no difference.           *)
LEMMA WholeAmounts ==
  ASSUME NEW m \in Nat, NEW k \in Nat,
         200 * FromMicros(m) <= 200 * FromMicros(k) + 100 * Quantum
  PROVE  100 * FromMicros(m) <= 100 * FromMicros(k)
  <1>1. Quantum \in Nat /\ Quantum > 0
    BY QuantumAssumption
  <1>2. \A a, b \in Nat : a <= b => a * Quantum <= b * Quantum
    BY <1>1
  <1>3. \A a \in Nat : a * Quantum \in Nat
    BY <1>1
  <1>4. CASE m <= k
    BY <1>2, <1>3, <1>4 DEF FromMicros
  <1>5. CASE k + 1 <= m
    <2>1. (k + 1) * Quantum <= m * Quantum
      BY <1>2, <1>5
    <2>2. (k + 1) * Quantum = k * Quantum + Quantum
      BY <1>1
    <2> QED
      BY <1>1, <1>3, <2>1, <2>2 DEF FromMicros
  <1> QED
    BY <1>4, <1>5

(* A grant is a reservation made at the instant that its rows carry.       *)
LEMMA GrantsAreReservations ==
  ASSUME IInv, [Next]_vars, NEW r \in Reservations,
         RowsOf(r) = {}, RowsOf(r)' # {}
  PROVE  ledger'[<<r, 1>>].created \in Recent
  <1>1. CASE ReserveSome
    <2>1. PICK q \in Reservations, scopes \in Requests, now \in Recent, est \in Estimates,
               request \in RequestIds \cup {NoRequest}, ttl \in TTLs :
            Reserve(q, scopes, est, request, now, ttl)
      BY <1>1 DEF ReserveSome, ReserveAt
    <2> DEFINE ids == {q} \X DOMAIN scopes
    <2>2. ledger' = [x \in DOMAIN ledger \cup ids |->
                       IF x \in ids THEN NewRow(scopes[x[2]], est, request, now, ttl)
                                    ELSE ledger[x]]
      BY <2>1 DEF Reserve, NewRows
    <2>3. q = r
      BY <2>2 DEF RowsOf
    <2>4. <<r, 1>> \in ids
      BY <2>3, RequestsAreTuples
    <2> QED
      BY <2>2, <2>4 DEF NewRow
  <1>2. CASE ~ReserveSome
    <2>1. DOMAIN ledger' = DOMAIN ledger
      BY <1>2 DEF Next, SetSomeLimit, SetLimit, ObserveSome, Observe, CommitSome, Commit,
                  ReleaseSome, Release, Sweep, SweepAt, Tick, Update, vars
    <2> QED
      BY <2>1 DEF RowsOf
  <1> QED
    BY <1>1, <1>2

(* A reservation that is granted leaves every capped scope it names within *)
(* cap and grace, whatever was reserved, observed, settled, refunded and   *)
(* swept before, if clock readings tell buckets apart, no request names an *)
(* entity twice and caps are whole micro-cents (core._reserve_tx; protocol *)
(* section 3). Without any one of the three it does not hold.              *)
THEOREM GrantsStayWithinCap ==
  ASSUME \A w \in Windows : Steady(w), DistinctEntities, WholeCaps
  PROVE  Spec => GrantsWithinCap
  <1> DEFINE Grant(r, scopes) ==
        LET now == ledger'[<<r, 1>>].created
        IN  RowsOf(r) = {} /\ RowsOf(r)' # {} /\ ReserveAt(r, scopes, now) =>
              \A i \in DOMAIN scopes :
                scopes[i] \in DOMAIN limits =>
                  WithinCap(FromMicros(BucketSpend(ledger', scopes[i], now)),
                            limits[scopes[i]])
  <1>1. ASSUME IInv, IInv', TInv, TInv', CapsChosen, [Next]_vars,
               NEW r \in Reservations, NEW scopes \in Requests
        PROVE  Grant(r, scopes)
    <2> DEFINE now == ledger'[<<r, 1>>].created
    <2> SUFFICES ASSUME RowsOf(r) = {}, RowsOf(r)' # {}, ReserveAt(r, scopes, now),
                        NEW i \in DOMAIN scopes, scopes[i] \in DOMAIN limits
                 PROVE  WithinCap(FromMicros(BucketSpend(ledger', scopes[i], now)),
                                  limits[scopes[i]])
      OBVIOUS
    <2> DEFINE s == scopes[i]
               spent == BucketSpend(ledger', s, now)
               allowed == limits[s].cap * (100 + limits[s].grace)
    <2>1. now \in Recent
      BY <1>1, GrantsAreReservations
    <2>2. PICK est \in Estimates, request \in RequestIds \cup {NoRequest}, ttl \in TTLs :
            Reserve(r, scopes, est, request, now, ttl)
      BY DEF ReserveAt
    <2>3. Steady(s.window)
      BY RequestsAreTuples DEF Scopes
    <2>4. spent \in Nat /\ 200 * FromMicros(spent) <= 2 * allowed + 100 * Quantum
      <3> HIDE DEF now
      <3> QED
        BY <1>1, <2>1, <2>2, <2>3, GrantOvershootsByRounding
    <2>5. PICK k \in Nat : allowed = 100 * FromMicros(k)
      BY <1>1 DEF CapsChosen, WholeCaps
    <2> HIDE DEF spent, allowed
    <2>6. 200 * FromMicros(spent) <= 200 * FromMicros(k) + 100 * Quantum
      BY <2>4, <2>5, QuantumAssumption DEF FromMicros
    <2>7. 100 * FromMicros(spent) <= allowed
      BY <2>4, <2>5, <2>6, WholeAmounts
    <2> QED
      BY <2>7 DEF WithinCap, spent, allowed
  <1>2. IInv /\ IInv' /\ TInv /\ TInv' /\ CapsChosen /\ [Next]_vars =>
          \A r \in Reservations, scopes \in Requests : Grant(r, scopes)
    BY <1>1
  <1> QED
    BY <1>2, TotalsInvariant, CapsAreChosen, PTL DEF Spec, GrantsWithinCap

--------------------------------------------------------------------------------
(* The ledger implements Lifecycle: every reservation, with all its rows,  *)
(* moves through the state machine of section 8 of the protocol, for every *)
(* set of reservations and scopes and every lag between writers' clocks.   *)


(* In a ledger whose groups agree, the first row of a reservation tells    *)
(* its phase.                                                              *)
FirstPhase(r) ==
  IF <<r, 1>> \in DOMAIN ledger THEN PhaseOf(ledger[<<r, 1>>]) ELSE "none"

FirstRowTells == \A r \in Reservations : Phase(r) = FirstPhase(r)

LEMMA PhaseOfFirstRow == IInv => FirstRowTells
  <1> SUFFICES ASSUME IInv, NEW r \in Reservations
               PROVE  Phase(r) = FirstPhase(r)
    BY DEF FirstRowTells
  <1>1. CASE RowsOf(r) = {}
    <2>1. <<r, 1>> \notin DOMAIN ledger
      BY <1>1 DEF RowsOf
    <2> QED
      BY <1>1, <2>1 DEF Phase, FirstPhase
  <1>2. CASE RowsOf(r) # {}
    <2>1. PICK id \in RowsOf(r) : TRUE
      BY <1>2
    <2>2. <<r, 1>> \in DOMAIN ledger
      BY <2>1, RowsAgree DEF IInv, RowsOf
    <2>3. \A x \in RowsOf(r) : PhaseOf(ledger[x]) = PhaseOf(ledger[<<r, 1>>])
      BY RowsAgree DEF IInv, PhaseOf
    <2> QED
      BY <1>2, <2>2, <2>3 DEF Phase, FirstPhase
  <1> QED
    BY <1>1, <1>2

LEMMA PhaseOfFirstRowNext == IInv' => FirstRowTells'
  BY PhaseOfFirstRow, PTL

(* What an UPDATE of whole groups does to phases: the reservations whose   *)
(* first row it matches get the phase of the updated row, the others keep  *)
(* theirs.                                                                 *)
LEMMA UpdatePhase ==
  ASSUME NEW ids \in SUBSET DOMAIN ledger, NEW after,
         ledger' = [id \in DOMAIN ledger |->
                      IF id \in ids THEN after[id] ELSE ledger[id]],
         NEW r \in Reservations
  PROVE  FirstPhase(r)' = IF <<r, 1>> \in ids THEN PhaseOf(after[<<r, 1>>])
                          ELSE FirstPhase(r)
  <1>1. CASE <<r, 1>> \in ids
    BY <1>1 DEF FirstPhase, PhaseOf
  <1>2. CASE <<r, 1>> \notin ids
    BY <1>2 DEF FirstPhase, PhaseOf
  <1> QED
    BY <1>1, <1>2

(* A row that is reserved was not swept, so its phase is "reserved".       *)
LEMMA ReservedPhase ==
  ASSUME IInv, NEW r \in Reservations, <<r, 1>> \in RowsIn(r, "reserved")
  PROVE  /\ FirstPhase(r) = "reserved"
         /\ ledger[<<r, 1>>].late = FALSE
         /\ ledger[<<r, 1>>] \in Row
  <1>1. /\ <<r, 1>> \in DOMAIN ledger
        /\ ledger[<<r, 1>>].state = "reserved"
    BY DEF RowsIn, RowsOf
  <1>2. ledger[<<r, 1>>] \in Row
    BY <1>1 DEF IInv, TablesTyped, LedgerTyped
  <1>3. ledger[<<r, 1>>].late = FALSE
    BY <1>1, <1>2 DEF IInv, GroupsAgree, Row
  <1> QED
    BY <1>1, <1>2, <1>3 DEF FirstPhase, PhaseOf

--------------------------------------------------------------------------------
(* Steps, as moves of phases.                                              *)
Stays(r) == FirstPhase(r)' = FirstPhase(r)

Moves(r, from, to) ==
  /\ FirstPhase(r) = from
  /\ FirstPhase(r)' = to
  /\ \A x \in Reservations \ {r} : Stays(x)

AllStay == \A r \in Reservations : Stays(r)

(* A transaction that matches no row, or leaves state and late alone.      *)
LEMMA SameLedger == ASSUME UNCHANGED ledger PROVE AllStay
  BY DEF AllStay, Stays, FirstPhase, PhaseOf

LEMMA ReserveMoves ==
  ASSUME IInv, NEW r \in Reservations, NEW scopes \in Requests,
         NEW est \in Estimates, NEW request \in RequestIds \cup {NoRequest},
         NEW now \in Time, NEW ttl \in TTLs,
         Reserve(r, scopes, est, request, now, ttl)
  PROVE  Moves(r, "none", "reserved")
  <1> DEFINE new == [id \in {r} \X DOMAIN scopes |->
                       NewRow(scopes[id[2]], est, request, now, ttl)]
  <1>1. /\ RowsOf(r) = {}
        /\ ledger' = [id \in DOMAIN ledger \cup DOMAIN new |->
                         IF id \in DOMAIN new THEN new[id] ELSE ledger[id]]
    BY DEF Reserve, NewRows, Checked
  <1>2. FirstPhase(r) = "none"
    BY <1>1 DEF FirstPhase, RowsOf
  <1>3. FirstPhase(r)' = "reserved"
    <2>1. <<r, 1>> \in DOMAIN new
      BY RequestsAreTuples
    <2>2. <<r, 1>> \in DOMAIN ledger' /\ ledger'[<<r, 1>>] = new[<<r, 1>>]
      BY <1>1, <2>1
    <2>3. new[<<r, 1>>].state = "reserved" /\ new[<<r, 1>>].late = FALSE
      BY <2>1 DEF NewRow
    <2> QED
      BY <2>2, <2>3 DEF FirstPhase, PhaseOf
  <1>4. ASSUME NEW x \in Reservations \ {r} PROVE Stays(x)
    <2>1. <<x, 1>> \notin DOMAIN new
      OBVIOUS
    <2> QED
      BY <1>1, <2>1 DEF Stays, FirstPhase, PhaseOf
  <1> QED
    BY <1>2, <1>3, <1>4 DEF Moves

LEMMA ObserveStays ==
  ASSUME IInv, NEW r \in Reservations, NEW cost, Observe(r, cost)
  PROVE  AllStay
  <1> DEFINE ids == RowsIn(r, "reserved")
             after == [id \in ids |-> [ledger[id] EXCEPT !.actual = ToMicros(cost)]]
  <1>1. ids \in SUBSET DOMAIN ledger
    BY DEF RowsIn, RowsOf
  <1>2. ledger' = [id \in DOMAIN ledger |->
                     IF id \in ids THEN after[id] ELSE ledger[id]]
    BY DEF Observe, Update, Observed
  <1>3. \A id \in ids : /\ ledger[id] \in Row
                        /\ after[id].state = ledger[id].state
                        /\ after[id].late = ledger[id].late
    BY <1>1 DEF IInv, TablesTyped, LedgerTyped, Row
  <1>4. \A id \in ids : PhaseOf(after[id]) = PhaseOf(ledger[id])
    BY <1>3 DEF PhaseOf
  <1> HIDE DEF ids, after
  <1>5. ASSUME NEW x \in Reservations PROVE Stays(x)
    BY <1>1, <1>2, <1>4, UpdatePhase DEF Stays, FirstPhase
  <1> QED
    BY <1>5 DEF AllStay

LEMMA ReleaseMoves ==
  ASSUME IInv, NEW r \in Reservations, Release(r)
  PROVE  AllStay \/ Moves(r, "reserved", "released")
  <1> DEFINE ids == RowsIn(r, "reserved")
             after == [id \in ids |-> [ledger[id] EXCEPT !.state = "released"]]
  <1>1. /\ ids \in SUBSET DOMAIN ledger
        /\ \A x \in Reservations \ {r} : <<x, 1>> \notin ids
    BY DEF RowsIn, RowsOf
  <1>2. ledger' = [id \in DOMAIN ledger |->
                     IF id \in ids THEN after[id] ELSE ledger[id]]
    BY DEF Release, Update, Refunded
  <1>3. ASSUME NEW x \in Reservations, <<x, 1>> \notin ids PROVE Stays(x)
    <2> HIDE DEF ids, after
    <2> QED
      BY <1>1, <1>2, <1>3, UpdatePhase DEF Stays
  <1>4. CASE <<r, 1>> \notin ids
    BY <1>1, <1>3, <1>4 DEF AllStay
  <1>5. CASE <<r, 1>> \in ids
    <2>1. /\ FirstPhase(r) = "reserved"
          /\ ledger[<<r, 1>>].late = FALSE
          /\ ledger[<<r, 1>>] \in Row
      BY <1>5, ReservedPhase
    <2>2. PhaseOf(after[<<r, 1>>]) = "released"
      BY <1>5, <2>1 DEF PhaseOf, Row
    <2> HIDE DEF ids, after
    <2>3. FirstPhase(r)' = "released"
      BY <1>1, <1>2, <1>5, <2>2, UpdatePhase
    <2> QED
      BY <1>1, <1>3, <2>1, <2>3 DEF Moves
  <1> QED
    BY <1>4, <1>5

LEMMA CommitMoves ==
  ASSUME IInv, NEW r \in Reservations, NEW cost, Commit(r, cost)
  PROVE  /\ RowsIn(r, "reserved") # {} => Moves(r, "reserved", "committed")
         /\ RowsIn(r, "reserved") = {} /\ LapsedRows(r) # {} =>
              Moves(r, "lapsed", "committedLate")
         /\ RowsIn(r, "reserved") = {} /\ LapsedRows(r) = {} => AllStay
  <1>1. CASE RowsIn(r, "reserved") # {}
    <2> DEFINE ids == RowsIn(r, "reserved")
               after == [id \in ids |-> [ledger[id] EXCEPT !.state = "committed",
                                                          !.actual = ToMicros(cost)]]
    <2>1. /\ ids \in SUBSET DOMAIN ledger
          /\ \A x \in Reservations \ {r} : <<x, 1>> \notin ids
      BY DEF RowsIn, RowsOf
    <2>2. ledger' = [id \in DOMAIN ledger |->
                       IF id \in ids THEN after[id] ELSE ledger[id]]
      BY <1>1 DEF Commit, Update, Paid, PaidLate
    <2>3. ASSUME NEW x \in Reservations, <<x, 1>> \notin ids PROVE Stays(x)
      <3> HIDE DEF ids, after
      <3> QED
        BY <2>1, <2>2, <2>3, UpdatePhase DEF Stays
    <2>4. <<r, 1>> \in ids
      <3>1. PICK id \in ids : TRUE
        BY <1>1
      <3>2. id \in DOMAIN ledger /\ id[1] = r
        BY <3>1 DEF RowsIn, RowsOf
      <3> QED
        BY <3>1, <3>2, WholeGroups
    <2>5. /\ FirstPhase(r) = "reserved"
          /\ ledger[<<r, 1>>].late = FALSE
          /\ ledger[<<r, 1>>] \in Row
      BY <2>4, ReservedPhase
    <2>6. PhaseOf(after[<<r, 1>>]) = "committed"
      BY <2>4, <2>5 DEF PhaseOf, Row
    <2> HIDE DEF ids, after
    <2>7. FirstPhase(r)' = "committed"
      BY <2>1, <2>2, <2>4, <2>6, UpdatePhase
    <2> QED
      BY <1>1, <2>1, <2>3, <2>5, <2>7 DEF Moves
  <1>2. CASE RowsIn(r, "reserved") = {}
    <2> DEFINE ids == LapsedRows(r)
               after == [id \in ids |-> [ledger[id] EXCEPT !.state = "committed",
                                                          !.actual = ToMicros(cost),
                                                          !.late = TRUE]]
    <2>1. /\ ids \in SUBSET DOMAIN ledger
          /\ \A x \in Reservations \ {r} : <<x, 1>> \notin ids
      BY DEF LapsedRows, RowsIn, RowsOf
    <2>2. ledger' = [id \in DOMAIN ledger |->
                       IF id \in ids THEN after[id] ELSE ledger[id]]
      BY <1>2 DEF Commit, Update, Paid, PaidLate
    <2>3. ASSUME NEW x \in Reservations, <<x, 1>> \notin ids PROVE Stays(x)
      <3> HIDE DEF ids, after
      <3> QED
        BY <2>1, <2>2, <2>3, UpdatePhase DEF Stays
    <2>4. CASE ids = {}
      <3>1. AllStay
        BY <2>3, <2>4 DEF AllStay
      <3> QED
        BY <1>2, <2>4, <3>1
    <2>5. CASE ids # {}
      <3>0. <<r, 1>> \in ids
        <4>1. PICK id \in ids : TRUE
          BY <2>5
        <4>2. id \in DOMAIN ledger /\ id[1] = r
          BY <4>1 DEF LapsedRows, RowsIn, RowsOf
        <4> QED
          BY <4>1, <4>2, WholeGroups
      <3>1. /\ <<r, 1>> \in DOMAIN ledger
            /\ ledger[<<r, 1>>].state = "released"
            /\ ledger[<<r, 1>>].late
        BY <3>0 DEF LapsedRows, RowsIn, RowsOf
      <3>2. ledger[<<r, 1>>] \in Row
        BY <3>1 DEF IInv, TablesTyped, LedgerTyped
      <3>3. FirstPhase(r) = "lapsed"
        BY <3>1 DEF FirstPhase, PhaseOf
      <3>4. PhaseOf(after[<<r, 1>>]) = "committedLate"
        BY <3>0, <3>2 DEF PhaseOf, Row
      <3>5. FirstPhase(r)' = "committedLate"
        <4> HIDE DEF ids, after
        <4> QED
          BY <2>1, <2>2, <3>0, <3>4, UpdatePhase
      <3>6. Moves(r, "lapsed", "committedLate")
        <4> HIDE DEF ids, after
        <4> QED
          BY <2>1, <2>3, <3>3, <3>5 DEF Moves
      <3> QED
        BY <1>2, <2>5, <3>6
    <2> QED
      BY <2>4, <2>5
  <1> QED
    BY <1>1, <1>2

(* The reservations that a sweep finds expired.                            *)
Expired(now) == {r \in Reservations : <<r, 1>> \in ExpiredRows(now)}

LEMMA SweepMoves ==
  ASSUME IInv, NEW now, SweepAt(now)
  PROVE  /\ \A r \in Expired(now) : FirstPhase(r) = "reserved"
         /\ \A r \in Reservations :
              FirstPhase(r)' = IF r \in Expired(now) THEN "lapsed" ELSE FirstPhase(r)
  <1> DEFINE ids == ExpiredRows(now)
             after == [id \in ids |->
                         [ledger[id] EXCEPT !.state = "released", !.late = TRUE]]
  <1>1. ids \in SUBSET DOMAIN ledger
    BY DEF ExpiredRows
  <1>2. ledger' = [id \in DOMAIN ledger |->
                     IF id \in ids THEN after[id] ELSE ledger[id]]
    BY DEF SweepAt, Update, Lapsed
  <1>3. \A id \in ids : ledger[id] \in Row
    BY <1>1 DEF IInv, TablesTyped, LedgerTyped
  <1>4. \A id \in ids : PhaseOf(after[id]) = "lapsed"
    BY <1>3 DEF PhaseOf, Row
  <1>5. ASSUME NEW r \in Expired(now) PROVE FirstPhase(r) = "reserved"
    <2>1. r \in Reservations /\ <<r, 1>> \in RowsIn(r, "reserved")
      BY <1>5 DEF Expired, ExpiredRows, RowsIn, RowsOf
    <2> QED
      BY <2>1, ReservedPhase
  <1> HIDE DEF ids, after
  <1>6. ASSUME NEW r \in Reservations
        PROVE  FirstPhase(r)' = IF r \in Expired(now) THEN "lapsed" ELSE FirstPhase(r)
    <2>1. r \in Expired(now) <=> <<r, 1>> \in ids
      BY DEF Expired, ids
    <2>2. FirstPhase(r)' = IF <<r, 1>> \in ids THEN PhaseOf(after[<<r, 1>>])
                           ELSE FirstPhase(r)
      BY <1>1, <1>2, UpdatePhase
    <2>3. CASE <<r, 1>> \in ids
      BY <2>1, <2>2, <2>3, <1>4
    <2>4. CASE <<r, 1>> \notin ids
      BY <2>1, <2>2, <2>4
    <2> QED
      BY <2>3, <2>4
  <1> QED
    BY <1>5, <1>6

--------------------------------------------------------------------------------
(* The refinement.                                                         *)

LEMMA InitRefines == Init /\ FirstRowTells => LifecycleOf!Init
  BY DEF Init, FirstRowTells, FirstPhase, LifecycleOf!Init

(* Moves of one reservation are moves of Lifecycle.                        *)
LEMMA MovesRefine ==
  ASSUME FirstRowTells, FirstRowTells', NEW r \in Reservations, NEW from, NEW to,
         Moves(r, from, to)
  PROVE  LifecycleOf!Move(r, from, to)
  <1>1. Phase(r) = from /\ Phase(r)' = to
    BY DEF FirstRowTells, Moves
  <1>2. \A x \in Reservations \ {r} : Phase(x)' = Phase(x)
    BY DEF FirstRowTells, Moves, Stays
  <1> QED
    BY <1>1, <1>2 DEF LifecycleOf!Move

LEMMA StaysRefine ==
  ASSUME FirstRowTells, FirstRowTells', AllStay
  PROVE  UNCHANGED [r \in Reservations |-> Phase(r)]
  BY DEF FirstRowTells, AllStay, Stays

LEMMA NextRefines ==
  ASSUME IInv, FirstRowTells, FirstRowTells', [Next]_vars
  PROVE  LifecycleOf!Next \/ UNCHANGED [r \in Reservations |-> Phase(r)]
  <1>1. CASE SetSomeLimit \/ Tick \/ UNCHANGED vars
    <2>1. UNCHANGED ledger
      BY <1>1 DEF SetSomeLimit, SetLimit, Tick, vars
    <2> QED
      BY <2>1, SameLedger, StaysRefine
  <1>2. CASE ReserveSome
    <2>1. PICK r \in Reservations : Moves(r, "none", "reserved")
      BY <1>2, ReserveMoves DEF ReserveSome, ReserveAt, Recent
    <2>2. LifecycleOf!Reserve(r)
      BY <2>1, MovesRefine DEF LifecycleOf!Reserve
    <2> QED
      BY <2>2 DEF LifecycleOf!Next
  <1>3. CASE ObserveSome
    BY <1>3, ObserveStays, StaysRefine DEF ObserveSome
  <1>4. CASE CommitSome
    <2>1. PICK r \in Reservations : \/ AllStay
                                    \/ Moves(r, "reserved", "committed")
                                    \/ Moves(r, "lapsed", "committedLate")
      BY <1>4, CommitMoves DEF CommitSome
    <2>2. CASE AllStay
      BY <2>2, StaysRefine
    <2>3. CASE Moves(r, "reserved", "committed")
      BY <2>3, MovesRefine DEF LifecycleOf!Next, LifecycleOf!Commit
    <2>4. CASE Moves(r, "lapsed", "committedLate")
      BY <2>4, MovesRefine DEF LifecycleOf!Next, LifecycleOf!CommitLate
    <2> QED
      BY <2>1, <2>2, <2>3, <2>4
  <1>5. CASE ReleaseSome
    <2>1. PICK r \in Reservations : AllStay \/ Moves(r, "reserved", "released")
      BY <1>5, ReleaseMoves DEF ReleaseSome
    <2>2. CASE AllStay
      BY <2>2, StaysRefine
    <2>3. CASE Moves(r, "reserved", "released")
      BY <2>3, MovesRefine DEF LifecycleOf!Next, LifecycleOf!Release
    <2> QED
      BY <2>1, <2>2, <2>3
  <1>6. CASE Sweep
    <2> PICK now \in Recent : SweepAt(now)
      BY <1>6 DEF Sweep
    <2>1. /\ \A r \in Expired(now) : Phase(r) = "reserved"
          /\ \A r \in Reservations :
               Phase(r)' = IF r \in Expired(now) THEN "lapsed" ELSE Phase(r)
      BY SweepMoves DEF FirstRowTells, Expired
    <2>2. Expired(now) \in SUBSET Reservations
      BY DEF Expired
    <2>3. LifecycleOf!Sweep(Expired(now))
      BY <2>1, <2>2 DEF LifecycleOf!Sweep
    <2> QED
      BY <2>2, <2>3 DEF LifecycleOf!Next
  <1> QED
    BY <1>1, <1>2, <1>3, <1>4, <1>5, <1>6 DEF Next

(* Every behaviour of the ledger is one of the protocol's state machine:   *)
(* whatever order callers, retries and sweepers come in, a reservation is  *)
(* settled as a whole and at most once, and a late commit only follows a   *)
(* sweep (sql COMMIT_*, RELEASE_BY_CALLER, SWEEP_EXPIRED).                 *)
THEOREM LedgerFollowsLifecycle == Spec => FollowsLifecycle
  <1>1. Init => LifecycleOf!Init
    BY InitInvariant, PhaseOfFirstRow, InitRefines
  <1>2. IInv /\ IInv' /\ [Next]_vars =>
          [LifecycleOf!Next]_([r \in Reservations |-> Phase(r)])
    <2>1. IInv => FirstRowTells
      BY PhaseOfFirstRow
    <2> QED
      BY <2>1, PhaseOfFirstRowNext, NextRefines
  <1> QED
    BY <1>1, <1>2, LedgerInvariant, PTL
    DEF Spec, FollowsLifecycle, LifecycleOf!Spec

--------------------------------------------------------------------------------
(* The rows of a reservation carry the same amounts and the same instant.  *)
AmountsAgree ==
  \A id \in DOMAIN ledger :
    /\ ledger[id].est = ledger[<<id[1], 1>>].est
    /\ ledger[id].actual = ledger[<<id[1], 1>>].actual
    /\ ledger[id].created = ledger[<<id[1], 1>>].created

(* An UPDATE of whole groups that gives each row it matches one amount, or *)
(* leaves the amounts alone.                                               *)
LEMMA UpdateAmounts ==
  ASSUME IInv, AmountsAgree, NEW ids \in SUBSET DOMAIN ledger, NEW after,
         ledger' = [id \in DOMAIN ledger |->
                      IF id \in ids THEN after[id] ELSE ledger[id]],
         \A id \in DOMAIN ledger : id \in ids <=> <<id[1], 1>> \in ids,
         \A id \in ids : /\ after[id].est = ledger[id].est
                         /\ after[id].created = ledger[id].created,
         \/ \A id \in ids : after[id].actual = ledger[id].actual
         \/ \E micros : \A id \in ids : after[id].actual = micros
  PROVE  AmountsAgree'
  <1> SUFFICES ASSUME NEW id \in DOMAIN ledger
               PROVE  /\ ledger'[id].est = ledger'[<<id[1], 1>>].est
                      /\ ledger'[id].actual = ledger'[<<id[1], 1>>].actual
                      /\ ledger'[id].created = ledger'[<<id[1], 1>>].created
    BY DEF AmountsAgree
  <1>1. <<id[1], 1>> \in DOMAIN ledger
    BY DEF IInv, GroupsAgree
  <1>2. /\ ledger[id].est = ledger[<<id[1], 1>>].est
        /\ ledger[id].actual = ledger[<<id[1], 1>>].actual
        /\ ledger[id].created = ledger[<<id[1], 1>>].created
    BY DEF AmountsAgree
  <1>3. CASE id \in ids
    <2>1. ledger'[id] = after[id] /\ ledger'[<<id[1], 1>>] = after[<<id[1], 1>>]
      BY <1>1, <1>3
    <2>2. after[id].actual = after[<<id[1], 1>>].actual
      BY <1>2, <1>3
    <2> QED
      BY <1>2, <1>3, <2>1, <2>2
  <1>4. CASE id \notin ids
    BY <1>1, <1>2, <1>4
  <1> QED
    BY <1>3, <1>4

LEMMA UpdatesKeepAmounts ==
  ASSUME IInv, AmountsAgree, NEW r \in Reservations, NEW cost,
         Observe(r, cost) \/ Commit(r, cost) \/ Release(r)
  PROVE  AmountsAgree'
  <1>1. \A id \in DOMAIN ledger : ledger[id] \in Row
    BY DEF IInv, TablesTyped, LedgerTyped
  <1>2. \A row \in Row :
          /\ Observed(row, cost).est = row.est /\ Observed(row, cost).created = row.created
          /\ Observed(row, cost).actual = ToMicros(cost)
          /\ Paid(row, cost).est = row.est /\ Paid(row, cost).created = row.created
          /\ Paid(row, cost).actual = ToMicros(cost)
          /\ PaidLate(row, cost).est = row.est /\ PaidLate(row, cost).created = row.created
          /\ PaidLate(row, cost).actual = ToMicros(cost)
    BY DEF Row, Observed, Paid, PaidLate
  <1>3. \A row \in Row :
          /\ Refunded(row).est = row.est /\ Refunded(row).created = row.created
          /\ Refunded(row).actual = row.actual
    BY DEF Row, Refunded
  <1>4. CASE Observe(r, cost)
    <2> DEFINE ids == RowsIn(r, "reserved")
               after == [id \in ids |-> Observed(ledger[id], cost)]
    <2>1. /\ ids \in SUBSET DOMAIN ledger
          /\ ledger' = [id \in DOMAIN ledger |->
                          IF id \in ids THEN after[id] ELSE ledger[id]]
      BY <1>4 DEF Observe, Update, RowsIn, RowsOf
    <2>2. \A id \in DOMAIN ledger : id \in ids <=> <<id[1], 1>> \in ids
      BY WholeGroups
    <2>3. \A id \in ids : /\ after[id].est = ledger[id].est
                          /\ after[id].created = ledger[id].created
                          /\ after[id].actual = ToMicros(cost)
      BY <1>1, <1>2, <2>1
    <2>4. \E micros : \A id \in ids : after[id].actual = micros
      BY <2>3
    <2> HIDE DEF ids, after
    <2> QED
      BY <2>1, <2>2, <2>3, <2>4, UpdateAmounts
  <1>5. CASE Commit(r, cost)
    <2>1. CASE RowsIn(r, "reserved") # {}
      <3> DEFINE ids == RowsIn(r, "reserved")
                 after == [id \in ids |-> Paid(ledger[id], cost)]
      <3>1. /\ ids \in SUBSET DOMAIN ledger
            /\ ledger' = [id \in DOMAIN ledger |->
                            IF id \in ids THEN after[id] ELSE ledger[id]]
        BY <1>5, <2>1 DEF Commit, Update, RowsIn, RowsOf
      <3>2. \A id \in DOMAIN ledger : id \in ids <=> <<id[1], 1>> \in ids
        BY WholeGroups
      <3>3. \A id \in ids : /\ after[id].est = ledger[id].est
                            /\ after[id].created = ledger[id].created
                            /\ after[id].actual = ToMicros(cost)
        BY <1>1, <1>2, <3>1
      <3>4. \E micros : \A id \in ids : after[id].actual = micros
        BY <3>3
      <3> HIDE DEF ids, after
      <3> QED
        BY <3>1, <3>2, <3>3, <3>4, UpdateAmounts
    <2>2. CASE RowsIn(r, "reserved") = {}
      <3> DEFINE ids == LapsedRows(r)
                 after == [id \in ids |-> PaidLate(ledger[id], cost)]
      <3>1. /\ ids \in SUBSET DOMAIN ledger
            /\ ledger' = [id \in DOMAIN ledger |->
                            IF id \in ids THEN after[id] ELSE ledger[id]]
        BY <1>5, <2>2 DEF Commit, Update, LapsedRows, RowsIn, RowsOf
      <3>2. \A id \in DOMAIN ledger : id \in ids <=> <<id[1], 1>> \in ids
        BY WholeGroups
      <3>3. \A id \in ids : /\ after[id].est = ledger[id].est
                            /\ after[id].created = ledger[id].created
                            /\ after[id].actual = ToMicros(cost)
        BY <1>1, <1>2, <3>1
      <3>4. \E micros : \A id \in ids : after[id].actual = micros
        BY <3>3
      <3> HIDE DEF ids, after
      <3> QED
        BY <3>1, <3>2, <3>3, <3>4, UpdateAmounts
    <2> QED
      BY <2>1, <2>2
  <1>6. CASE Release(r)
    <2> DEFINE ids == RowsIn(r, "reserved")
               after == [id \in ids |-> Refunded(ledger[id])]
    <2>1. /\ ids \in SUBSET DOMAIN ledger
          /\ ledger' = [id \in DOMAIN ledger |->
                          IF id \in ids THEN after[id] ELSE ledger[id]]
      BY <1>6 DEF Release, Update, RowsIn, RowsOf
    <2>2. \A id \in DOMAIN ledger : id \in ids <=> <<id[1], 1>> \in ids
      BY WholeGroups
    <2>3. \A id \in ids : /\ after[id].est = ledger[id].est
                          /\ after[id].created = ledger[id].created
                          /\ after[id].actual = ledger[id].actual
      BY <1>1, <1>3, <2>1
    <2> HIDE DEF ids, after
    <2> QED
      BY <2>1, <2>2, <2>3, UpdateAmounts
  <1> QED
    BY <1>4, <1>5, <1>6

LEMMA SweepKeepsAmounts ==
  ASSUME IInv, AmountsAgree, NEW now, SweepAt(now)
  PROVE  AmountsAgree'
  <1> DEFINE ids == ExpiredRows(now)
             after == [id \in ids |-> Lapsed(ledger[id])]
  <1>1. \A id \in DOMAIN ledger : ledger[id] \in Row
    BY DEF IInv, TablesTyped, LedgerTyped
  <1>2. \A row \in Row : /\ Lapsed(row).est = row.est /\ Lapsed(row).created = row.created
                         /\ Lapsed(row).actual = row.actual
    BY DEF Row, Lapsed
  <1>3. /\ ids \in SUBSET DOMAIN ledger
        /\ ledger' = [id \in DOMAIN ledger |->
                        IF id \in ids THEN after[id] ELSE ledger[id]]
    BY DEF SweepAt, Update, ExpiredRows
  <1>4. \A id \in DOMAIN ledger : id \in ids <=> <<id[1], 1>> \in ids
    BY DEF IInv, GroupsAgree, ExpiredRows
  <1>5. \A id \in ids : /\ after[id].est = ledger[id].est
                        /\ after[id].created = ledger[id].created
                        /\ after[id].actual = ledger[id].actual
    BY <1>1, <1>2, <1>3
  <1> HIDE DEF ids, after
  <1> QED
    BY <1>3, <1>4, <1>5, UpdateAmounts

LEMMA ReserveKeepsAmounts ==
  ASSUME IInv, AmountsAgree, NEW r, NEW scopes \in Requests, NEW est, NEW request, NEW now,
         NEW ttl, Reserve(r, scopes, est, request, now, ttl)
  PROVE  AmountsAgree'
  <1> DEFINE new == NewRows(r, scopes, est, request, now, ttl)
  <1>1. /\ DOMAIN new = {r} \X DOMAIN scopes
        /\ \A id \in DOMAIN new : /\ new[id].est = ToMicros(est) /\ new[id].actual = NoCost
                                  /\ new[id].created = now
    BY DEF NewRows, NewRow
  <1>2. 1 \in DOMAIN scopes
    BY RequestsAreTuples
  <1>3. /\ ledger' = [id \in DOMAIN ledger \cup DOMAIN new |->
                        IF id \in DOMAIN new THEN new[id] ELSE ledger[id]]
        /\ RowsOf(r) = {}
    BY DEF Reserve
  <1> HIDE DEF new
  <1>4. \A id \in DOMAIN ledger : id \notin DOMAIN new
    BY <1>1, <1>3 DEF RowsOf
  <1> SUFFICES ASSUME NEW id \in DOMAIN ledger'
               PROVE  /\ ledger'[id].est = ledger'[<<id[1], 1>>].est
                      /\ ledger'[id].actual = ledger'[<<id[1], 1>>].actual
                      /\ ledger'[id].created = ledger'[<<id[1], 1>>].created
    BY DEF AmountsAgree
  <1>5. CASE id \in DOMAIN new
    <2>1. <<id[1], 1>> \in DOMAIN new
      BY <1>1, <1>2, <1>5
    <2> QED
      BY <1>1, <1>3, <1>5, <2>1
  <1>6. CASE id \in DOMAIN ledger
    <2>1. <<id[1], 1>> \in DOMAIN ledger
      BY <1>6 DEF IInv, GroupsAgree
    <2> QED
      BY <1>3, <1>4, <1>6, <2>1 DEF AmountsAgree
  <1> QED
    BY <1>3, <1>5, <1>6

--------------------------------------------------------------------------------
(* The book of charges. The ledger implements SpendCap: its running totals *)
(* are as good as a sum over all charges, taken afresh at every booking.   *)


(* The reservations that have rows, and the book and the caps that SpendCap *)
(* sees in the tables.                                                     *)
InBook == {x \in Reservations : RowsOf(x) # {}}
Book == [r \in InBook |-> Booking(r)]
Caps == [s \in DOMAIN limits |-> [cap |-> limits[s].cap, grace |-> limits[s].grace]]

(* The arithmetic of SpendCap is that of the ledger.                       *)
LEMMA SameArithmetic ==
  /\ \A f, S : SpendCapOf!SumFunctionOnSet(f, S) = SumFunctionOnSet(f, S)
  /\ \A w, t : SpendCapOf!WindowStart(w, t) = WindowStart(w, t)
  /\ \A m : SpendCapOf!FromMicros(m) = FromMicros(m)
  /\ SpendCapOf!Scopes = Scopes /\ SpendCapOf!Time = Time
  BY DEF SpendCapOf!SumFunctionOnSet, SpendCapOf!FoldFunctionOnSet, SpendCapOf!MapThenFoldSet,
         SumFunctionOnSet, FoldFunctionOnSet, MapThenFoldSet,
         SpendCapOf!WindowStart, WindowStart, SpendCapOf!Max, Max,
         SpendCapOf!FromMicros, FromMicros, SpendCapOf!Scopes, Scopes, SpendCapOf!Time, Time

LEMMA SpendCapSpend ==
  ASSUME NEW s
  PROVE  SpendCapOf!Spend(s) =
           SumFunctionOnSet([r \in InBook |-> Booking(r).charge],
             {r \in InBook : /\ s.entity \in Booking(r).entities
                             /\ Booking(r).created >= WindowStart(s.window, clock)})
  BY SameArithmetic DEF SpendCapOf!Spend, InBook

--------------------------------------------------------------------------------
(* The spend of a scope, summed over bookings instead of rows.             *)

(* A sum does not depend on what its terms are named.                      *)
LEMMA SumRenamed ==
  ASSUME NEW f, NEW S, Summable(f, S), NEW g, NEW h,
         \A x \in S : g[h[x]] = f[x],
         \A x, y \in S : h[x] = h[y] => x = y
  PROVE  SumFunctionOnSet(g, {h[x] : x \in S}) = SumFunctionOnSet(f, S)
  <1> DEFINE Image(T) == {h[x] : x \in T}
             F(T) == SumFunctionOnSet(f, T)
             G(T) == SumFunctionOnSet(g, T)
             Good == {T \in SUBSET S : G(Image(T)) = F(T)}
  <1>1. \A T \in SUBSET S : Summable(f, T) /\ Summable(g, Image(T))
    <2> SUFFICES ASSUME NEW T \in SUBSET S
                 PROVE  Summable(f, T) /\ Summable(g, Image(T))
      OBVIOUS
    <2>1. IsFiniteSet(T) /\ \A x \in T : f[x] \in Int
      BY FS_Subset DEF Summable
    <2>2. [x \in T |-> h[x]] \in Surjection(T, Image(T))
      BY DEF Surjection
    <2>3. IsFiniteSet(Image(T))
      <3> HIDE DEF Image
      <3> QED
        BY <2>1, <2>2, FS_Surjection
    <2> QED
      BY <2>1, <2>3 DEF Summable
  <1>2. {} \in Good
    BY SumEmpty
  <1>3. ASSUME NEW T \in SUBSET S, T # {}, \A x \in T : T \ {x} \in Good
        PROVE  T \in Good
    <2>1. PICK x \in T : TRUE
      BY <1>3
    <2>2. Image(T) \ {h[x]} = Image(T \ {x}) /\ h[x] \in Image(T)
      <3>1. \A y \in T : h[y] = h[x] <=> y = x
        BY <2>1
      <3> QED
        BY <2>1, <3>1
    <2>3. F(T) = f[x] + F(T \ {x})
      <3>1. Summable(f, T)
        BY <1>1
      <3> QED
        BY <3>1, SumWithout
    <2>4. G(Image(T)) = g[h[x]] + G(Image(T) \ {h[x]})
      <3> HIDE DEF Image
      <3> QED
        BY <1>1, <2>2, SumWithout
    <2>5. G(Image(T \ {x})) = F(T \ {x})
      BY <1>3
    <2>6. G(Image(T)) = F(T)
      <3> HIDE DEF F, G, Image
      <3> QED
        BY <2>2, <2>3, <2>4, <2>5
    <2> QED
      BY <2>6
  <1>4. \A T \in SUBSET S : T # {} /\ (\A x \in T : T \ {x} \in Good) => T \in Good
    BY <1>3
  <1> HIDE DEF Good
  <1>5. S \in Good
    BY <1>2, <1>4, SubsetInduction DEF Summable
  <1> QED
    BY <1>5 DEF Good

(* A reservation has one row for an entity.                                *)
RowsDistinct ==
  \A id, other \in DOMAIN ledger :
    id[1] = other[1] /\ ledger[id].entity = ledger[other].entity => id = other

BookInv == AmountsAgree /\ RowsDistinct

(* The first row of a booking tells its amounts, its rows tell its scopes. *)
LEMMA RowsOfBooking ==
  ASSUME IInv, BookInv, NEW id \in DOMAIN ledger
  PROVE  /\ id[1] \in InBook /\ <<id[1], 1>> \in DOMAIN ledger
         /\ Booking(id[1]).charge = Contribution(ledger[id])
         /\ Booking(id[1]).created = ledger[id].created
         /\ ledger[id].entity \in Booking(id[1]).entities
  <1> DEFINE r == id[1]
             first == ledger[<<r, 1>>]
  <1>1. r \in Reservations /\ id \in RowsOf(r)
    BY DEF IInv, TablesTyped, LedgerTyped, RowIds, RowsOf
  <1>2. <<r, 1>> \in DOMAIN ledger /\ ledger[id].state = first.state
    BY DEF IInv, GroupsAgree
  <1>3. /\ ledger[id].est = first.est /\ ledger[id].actual = first.actual
        /\ ledger[id].created = first.created
    BY DEF BookInv, AmountsAgree
  <1>4. Contribution(first) = Contribution(ledger[id])
    BY <1>2, <1>3 DEF Contribution
  <1> QED
    BY <1>1, <1>2, <1>3, <1>4 DEF InBook, Booking

LEMMA SpendIsBucketSpend ==
  ASSUME IInv, TInv, BookInv, NEW s \in Scopes
  PROVE  SpendCapOf!Spend(s) = BucketSpend(ledger, s, clock)
  <1> DEFINE start == WindowStart(s.window, clock)
             rows == Bucket(ledger, s, start)
             f == [id \in DOMAIN ledger |-> Contribution(ledger[id])]
             g == [r \in InBook |-> Booking(r).charge]
             h == [id \in rows |-> id[1]]
             here == {r \in InBook : /\ s.entity \in Booking(r).entities
                                     /\ Booking(r).created >= start}
  <1>1. \A id \in rows : id \in DOMAIN ledger /\ ledger[id].entity = s.entity
    BY DEF Bucket
  <1>2. Summable(f, rows)
    <2>1. Countable(ledger) /\ rows \subseteq DOMAIN ledger
      BY <1>1, LedgerIsCountable DEF IInv, TInv
    <2> QED
      BY <2>1, FS_Subset DEF Countable, Summable
  <1>3. \A id \in rows : g[h[id]] = f[id]
    BY <1>1, RowsOfBooking
  <1>4. \A id, other \in rows : h[id] = h[other] => id = other
    BY <1>1 DEF BookInv, RowsDistinct
  <1>5. \A id \in DOMAIN ledger :
          ledger[id].created >= start <=> WindowStart(s.window, ledger[id].created) = start
    <2> SUFFICES ASSUME NEW id \in DOMAIN ledger
                 PROVE  ledger[id].created >= start
                          <=> WindowStart(s.window, ledger[id].created) = start
      OBVIOUS
    <2>1. ledger[id].created \in Time /\ ledger[id].created <= clock /\ clock \in Time
      BY RowCounts DEF IInv, TablesTyped, LedgerTyped, TInv
    <2> QED
      BY <2>1, SameBucket DEF Scopes
  <1>6. here = {h[id] : id \in rows}
    <2>1. ASSUME NEW id \in rows PROVE h[id] \in here
      BY <1>1, <1>5, RowsOfBooking DEF Bucket
    <2>2. ASSUME NEW r \in here PROVE \E id \in rows : h[id] = r
      <3>1. PICK id \in RowsOf(r) : ledger[id].entity = s.entity
        BY DEF Booking
      <3>2. id \in DOMAIN ledger /\ id[1] = r
        BY DEF RowsOf
      <3>3. ledger[id].created >= start
        BY <3>2, RowsOfBooking
      <3>4. id \in rows
        BY <1>5, <3>1, <3>2, <3>3 DEF Bucket
      <3> QED
        BY <3>2, <3>4
    <2> QED
      BY <2>1, <2>2
  <1>7. SpendCapOf!Spend(s) = SumFunctionOnSet(g, here)
    BY SpendCapSpend
  <1>8. BucketSpend(ledger, s, clock) = SumFunctionOnSet(f, rows)
    BY DEF BucketSpend, SpendOf
  <1> HIDE DEF f, g, h, rows, here
  <1> QED
    BY <1>2, <1>3, <1>4, <1>6, <1>7, <1>8, SumRenamed

--------------------------------------------------------------------------------
(* One row for each entity, as long as requests name entities once.        *)

(* What a settlement of r does to the rows: it moves none to another scope *)
(* or instant, and leaves those of other reservations alone.               *)
Settles(r) ==
  /\ DOMAIN ledger' = DOMAIN ledger
  /\ \A id \in DOMAIN ledger :
       /\ ledger'[id].entity = ledger[id].entity /\ ledger'[id].est = ledger[id].est
       /\ ledger'[id].created = ledger[id].created
       /\ ledger'[id].expires = ledger[id].expires
       /\ id[1] # r => ledger'[id] = ledger[id]

LEMMA SettlesOne ==
  ASSUME IInv, NEW r \in Reservations, NEW cost,
         Observe(r, cost) \/ Commit(r, cost) \/ Release(r)
  PROVE  Settles(r)
  <1>1. \A id \in DOMAIN ledger :
          \A row \in {Observed(ledger[id], cost), Paid(ledger[id], cost),
                      PaidLate(ledger[id], cost), Refunded(ledger[id])} :
            /\ row.entity = ledger[id].entity /\ row.est = ledger[id].est
            /\ row.created = ledger[id].created /\ row.expires = ledger[id].expires
    BY DEF IInv, TablesTyped, LedgerTyped, Row, Observed, Paid, PaidLate, Refunded
  <1>2. PICK ids \in SUBSET DOMAIN ledger :
          /\ \A id \in ids : id[1] = r
          /\ DOMAIN ledger' = DOMAIN ledger
          /\ \A id \in DOMAIN ledger \ ids : ledger'[id] = ledger[id]
          /\ \A id \in ids :
               ledger'[id] \in {Observed(ledger[id], cost), Paid(ledger[id], cost),
                               PaidLate(ledger[id], cost), Refunded(ledger[id])}
    <2> DEFINE held == RowsIn(r, "reserved")
               lapsed == LapsedRows(r)
    <2>1. /\ held \in SUBSET DOMAIN ledger /\ \A id \in held : id[1] = r
          /\ lapsed \in SUBSET DOMAIN ledger /\ \A id \in lapsed : id[1] = r
      BY DEF RowsIn, RowsOf, LapsedRows
    <2>2. CASE Observe(r, cost)
      <3>1. ledger' = [id \in DOMAIN ledger |->
                         IF id \in held THEN Observed(ledger[id], cost) ELSE ledger[id]]
        BY <2>2 DEF Observe, Update
      <3> HIDE DEF held
      <3> QED
        BY <2>1, <3>1
    <2>3. CASE Release(r)
      <3>1. ledger' = [id \in DOMAIN ledger |->
                         IF id \in held THEN Refunded(ledger[id]) ELSE ledger[id]]
        BY <2>3 DEF Release, Update
      <3> HIDE DEF held
      <3> QED
        BY <2>1, <3>1
    <2>4. CASE Commit(r, cost) /\ held # {}
      <3>1. ledger' = [id \in DOMAIN ledger |->
                         IF id \in held THEN Paid(ledger[id], cost) ELSE ledger[id]]
        BY <2>4 DEF Commit, Update
      <3> HIDE DEF held
      <3> QED
        BY <2>1, <3>1
    <2>5. CASE Commit(r, cost) /\ held = {}
      <3>1. ledger' = [id \in DOMAIN ledger |->
                         IF id \in lapsed THEN PaidLate(ledger[id], cost) ELSE ledger[id]]
        BY <2>5 DEF Commit, Update
      <3> HIDE DEF lapsed
      <3> QED
        BY <2>1, <3>1
    <2> QED
      BY <2>2, <2>3, <2>4, <2>5
  <1>3. ASSUME NEW id \in DOMAIN ledger
        PROVE  /\ ledger'[id].entity = ledger[id].entity /\ ledger'[id].est = ledger[id].est
               /\ ledger'[id].created = ledger[id].created
               /\ ledger'[id].expires = ledger[id].expires
               /\ id[1] # r => ledger'[id] = ledger[id]
    <2>1. CASE id \in ids
      BY <1>1, <1>2, <2>1
    <2>2. CASE id \notin ids
      BY <1>2, <2>2
    <2> QED
      BY <2>1, <2>2
  <1> QED
    BY <1>2, <1>3 DEF Settles

(* What a sweep does: it lapses the rows it finds expired.                 *)
LEMMA SweptRow ==
  ASSUME IInv, NEW now, SweepAt(now)
  PROVE  /\ DOMAIN ledger' = DOMAIN ledger
         /\ \A id \in DOMAIN ledger :
              /\ ledger'[id].entity = ledger[id].entity /\ ledger'[id].est = ledger[id].est
              /\ ledger'[id].created = ledger[id].created
              /\ ledger'[id].expires = ledger[id].expires
              /\ id \in ExpiredRows(now) =>
                   ledger'[id].state = "released" /\ ledger'[id].late
              /\ id \notin ExpiredRows(now) => ledger'[id] = ledger[id]
  <1> DEFINE ids == ExpiredRows(now)
  <1>1. ledger' = [id \in DOMAIN ledger |->
                     IF id \in ids THEN Lapsed(ledger[id]) ELSE ledger[id]]
    BY DEF SweepAt, Update
  <1>2. \A id \in DOMAIN ledger :
          LET row == Lapsed(ledger[id])
          IN  /\ row.entity = ledger[id].entity /\ row.est = ledger[id].est
              /\ row.created = ledger[id].created /\ row.expires = ledger[id].expires
              /\ row.state = "released" /\ row.late
    BY DEF IInv, TablesTyped, LedgerTyped, Row, Lapsed
  <1> HIDE DEF ids
  <1> QED
    BY <1>1, <1>2 DEF ids

LEMMA DistinctStep ==
  ASSUME DistinctEntities, IInv, BookInv, [Next]_vars
  PROVE  BookInv'
  <1>1. CASE UNCHANGED ledger
    BY <1>1 DEF BookInv, AmountsAgree, RowsDistinct
  <1>2. CASE ObserveSome \/ CommitSome \/ ReleaseSome
    <2>1. PICK r \in Reservations :
            \E cost : Observe(r, cost) \/ Commit(r, cost) \/ Release(r)
      BY <1>2 DEF ObserveSome, CommitSome, ReleaseSome
    <2>2. AmountsAgree'
      BY <2>1, UpdatesKeepAmounts DEF BookInv
    <2>3. Settles(r)
      BY <2>1, SettlesOne
    <2> QED
      BY <2>2, <2>3 DEF Settles, BookInv, RowsDistinct
  <1>3. CASE Sweep
    <2>1. PICK now \in Recent : SweepAt(now)
      BY <1>3 DEF Sweep
    <2>2. AmountsAgree'
      BY <2>1, SweepKeepsAmounts DEF BookInv
    <2> QED
      BY <2>1, <2>2, SweptRow DEF BookInv, RowsDistinct
  <1>4. CASE ReserveSome
    <2>1. PICK r \in Reservations, scopes \in Requests, now \in Recent, est \in Estimates,
               request \in RequestIds \cup {NoRequest}, ttl \in TTLs :
            Reserve(r, scopes, est, request, now, ttl)
      BY <1>4 DEF ReserveSome, ReserveAt
    <2>2. AmountsAgree'
      BY <2>1, ReserveKeepsAmounts DEF BookInv
    <2> DEFINE ids == {r} \X DOMAIN scopes
    <2>3. /\ RowsOf(r) = {}
          /\ ledger' = [x \in DOMAIN ledger \cup ids |->
                          IF x \in ids THEN NewRow(scopes[x[2]], est, request, now, ttl)
                                       ELSE ledger[x]]
      BY <2>1 DEF Reserve, NewRows
    <2>4. \A x \in ids : ledger'[x].entity = scopes[x[2]].entity /\ x = <<r, x[2]>>
                         /\ x[2] \in DOMAIN scopes
      BY <2>3 DEF NewRow
    <2>5. \A x \in DOMAIN ledger : x[1] # r /\ x \notin ids /\ ledger'[x] = ledger[x]
      BY <2>3 DEF RowsOf
    <2>6. \A x \in ids : x[1] = r
      OBVIOUS
    <2>7. DOMAIN ledger' = DOMAIN ledger \cup ids
      BY <2>3
    <2> HIDE DEF ids
    <2>8. ASSUME NEW x \in DOMAIN ledger', NEW y \in DOMAIN ledger',
                 x[1] = y[1], ledger'[x].entity = ledger'[y].entity
          PROVE  x = y
      <3>1. CASE x \in DOMAIN ledger /\ y \in DOMAIN ledger
        BY <2>5, <2>8, <3>1 DEF BookInv, RowsDistinct
      <3>2. CASE x \in ids /\ y \in ids
        BY <2>4, <2>8, <3>2 DEF DistinctEntities
      <3> QED
        BY <2>5, <2>6, <2>7, <2>8, <3>1, <3>2
    <2> QED
      BY <2>2, <2>8 DEF BookInv, RowsDistinct
  <1> QED
    BY <1>1, <1>2, <1>3, <1>4 DEF Next, SetSomeLimit, SetLimit, Tick, vars

--------------------------------------------------------------------------------
(* Transactions, as steps of the book.                                     *)

BookPhase(row) ==
  CASE row.state = "reserved" -> "held"
    [] row.state = "committed" -> "paid"
    [] row.state = "released" /\ row.late -> "lapsed"
    [] OTHER -> "refunded"

First(r) == ledger[<<r, 1>>]

LEMMA BookingFields ==
  ASSUME NEW r
  PROVE  Booking(r) = [entities |-> {ledger[id].entity : id \in RowsOf(r)},
                       phase |-> BookPhase(First(r)), floor |-> First(r).est,
                       charge |-> Contribution(First(r)),
                       created |-> First(r).created, expires |-> First(r).expires]
  BY DEF Booking, BookPhase, First

LEMMA FirstRow ==
  ASSUME IInv, NEW r \in InBook
  PROVE  /\ <<r, 1>> \in DOMAIN ledger /\ <<r, 1>> \in RowsOf(r) /\ First(r) \in Row
         /\ First(r).late => First(r).state # "reserved"
  <1>1. PICK id \in RowsOf(r) : TRUE
    BY DEF InBook
  <1>2. <<r, 1>> \in DOMAIN ledger /\ <<r, 1>> \in RowsOf(r)
    BY <1>1, RowsAgree DEF IInv, RowsOf
  <1> QED
    BY <1>2 DEF First, IInv, TablesTyped, LedgerTyped, GroupsAgree

Bookings ==
  [entities : SUBSET Entities, phase : {"held", "paid", "lapsed", "refunded"},
   floor : Nat, charge : Nat, created : Nat, expires : Nat]

BookTyped == Book \in [InBook -> Bookings]

LEMMA BookIsTyped == IInv => BookTyped
  <1> SUFFICES ASSUME IInv, NEW r \in InBook PROVE Booking(r) \in Bookings
    BY DEF BookTyped, Book
  <1>1. First(r) \in Row
    BY FirstRow
  <1>2. BookPhase(First(r)) \in {"held", "paid", "lapsed", "refunded"}
    BY DEF BookPhase
  <1>3. Contribution(First(r)) \in Nat /\ First(r).created \in Nat
    BY <1>1, RowCounts, TimeAssumption DEF Time
  <1>4. First(r).est \in Nat /\ First(r).expires \in Nat
    BY <1>1 DEF Row
  <1>5. {ledger[id].entity : id \in RowsOf(r)} \in SUBSET Entities
    BY DEF RowsOf, IInv, TablesTyped, LedgerTyped, Row
  <1> QED
    BY <1>2, <1>3, <1>4, <1>5, BookingFields DEF Bookings

LEMMA BookIsTypedNext == IInv' => BookTyped'
  BY BookIsTyped, PTL

(* Rows that stay what they are make the same booking.                     *)
LEMMA BookingStays ==
  ASSUME IInv, NEW r \in InBook, RowsOf(r)' = RowsOf(r),
         \A id \in RowsOf(r) : ledger'[id] = ledger[id]
  PROVE  Booking(r)' = Booking(r)
  <1>1. ledger'[<<r, 1>>] = ledger[<<r, 1>>]
    BY FirstRow
  <1> QED
    BY <1>1 DEF Booking, Contribution

(* Where rows move to no other scope or instant, only phase and charge of  *)
(* a booking can change.                                                   *)
LEMMA BookingMoves ==
  ASSUME IInv, NEW r \in InBook, DOMAIN ledger' = DOMAIN ledger,
         \A id \in DOMAIN ledger :
           /\ ledger'[id].entity = ledger[id].entity /\ ledger'[id].est = ledger[id].est
           /\ ledger'[id].created = ledger[id].created
           /\ ledger'[id].expires = ledger[id].expires,
         NEW row, ledger'[<<r, 1>>] = row
  PROVE  /\ Booking(r)'.entities = Booking(r).entities
         /\ Booking(r)'.floor = Booking(r).floor
         /\ Booking(r)'.created = Booking(r).created
         /\ Booking(r)'.expires = Booking(r).expires
         /\ Booking(r)'.phase = BookPhase(row)
         /\ Booking(r)'.charge = Contribution(row)
  <1>1. RowsOf(r)' = RowsOf(r) /\ \A id \in RowsOf(r) : id \in DOMAIN ledger
    BY DEF RowsOf
  <1> DEFINE now == {ledger'[id].entity : id \in RowsOf(r)'}
             was == {ledger[id].entity : id \in RowsOf(r)}
  <1>2. now = was
    BY <1>1
  <1>3. /\ row.est = First(r).est /\ row.created = First(r).created
        /\ row.expires = First(r).expires
    BY FirstRow DEF First
  <1>4. Booking(r)' = [entities |-> now, phase |-> BookPhase(row),
                       floor |-> row.est, charge |-> Contribution(row),
                       created |-> row.created, expires |-> row.expires]
    BY DEF Booking, BookPhase, Contribution
  <1>5. Booking(r) = [entities |-> was, phase |-> BookPhase(First(r)),
                      floor |-> First(r).est, charge |-> Contribution(First(r)),
                      created |-> First(r).created, expires |-> First(r).expires]
    BY BookingFields
  <1> HIDE DEF now, was
  <1> QED
    BY <1>2, <1>3, <1>4, <1>5

LEMMA BookedStays == ASSUME DOMAIN ledger' = DOMAIN ledger PROVE InBook' = InBook
  BY DEF InBook, RowsOf

LEMMA RechargedBook ==
  ASSUME NEW S, NEW old \in [S -> Bookings], NEW new \in [S -> Bookings], NEW r \in S,
         \A x \in S \ {r} : new[x] = old[x], NEW to, NEW charge,
         new[r] = [old[r] EXCEPT !.phase = to, !.charge = charge]
  PROVE  new = [old EXCEPT ![r].phase = to, ![r].charge = charge]
  <1> DEFINE changed == [old EXCEPT ![r] = [old[r] EXCEPT !.phase = to, !.charge = charge]]
  <1>1. new = changed
    OBVIOUS
  <1>2. [old EXCEPT ![r].phase = to, ![r].charge = charge] = changed
    BY DEF Bookings
  <1> QED
    BY <1>1, <1>2

(* A settlement recharges one booking, ...                                 *)
LEMMA SettlesRecharge ==
  ASSUME IInv, IInv', NEW r \in InBook, Settles(r), Caps' = Caps, clock' = clock,
         NEW row, ledger'[<<r, 1>>] = row
  PROVE  /\ SpendCapOf!Recharge(r, BookPhase(row))
         /\ Book'[r].charge = Contribution(row)
         /\ Book[r].floor = row.est
  <1> DEFINE to == BookPhase(row)
             charge == Contribution(row)
             old == Book[r]
  <1>1. InBook' = InBook
    BY BookedStays DEF Settles
  <1>2. /\ Book \in [InBook -> Bookings] /\ Book' \in [InBook -> Bookings]
        /\ \A x \in InBook : Book[x] = Booking(x) /\ Book'[x] = Booking(x)'
    BY <1>1, BookIsTyped, BookIsTypedNext DEF BookTyped, Book
  <1>3. /\ Booking(r)'.entities = Booking(r).entities
        /\ Booking(r)'.floor = Booking(r).floor
        /\ Booking(r)'.created = Booking(r).created
        /\ Booking(r)'.expires = Booking(r).expires
        /\ Booking(r)'.phase = to
        /\ Booking(r)'.charge = charge
    BY BookingMoves DEF Settles
  <1>4. \A x \in InBook \ {r} : Book'[x] = Book[x]
    <2> SUFFICES ASSUME NEW x \in InBook \ {r} PROVE Booking(x)' = Booking(x)
      BY <1>2
    <2>1. /\ RowsOf(x)' = RowsOf(x)
          /\ \A id \in RowsOf(x) : ledger'[id] = ledger[id]
      BY DEF Settles, RowsOf
    <2> QED
      BY <2>1, BookingStays DEF Settles
  <1> HIDE DEF to, charge
  <1>5. Book'[r] = [old EXCEPT !.phase = to, !.charge = charge]
    <2>1. Book[r] \in Bookings /\ Book'[r] \in Bookings
      BY <1>2
    <2>2. /\ Book'[r].entities = old.entities /\ Book'[r].floor = old.floor
          /\ Book'[r].created = old.created /\ Book'[r].expires = old.expires
          /\ Book'[r].phase = to /\ Book'[r].charge = charge
      BY <1>2, <1>3
    <2> DEFINE new == Book'[r]
    <2>3. old \in Bookings /\ new \in Bookings
      BY <2>1
    <2>4. /\ new.entities = old.entities /\ new.floor = old.floor
          /\ new.created = old.created /\ new.expires = old.expires
          /\ new.phase = to /\ new.charge = charge
      BY <2>2
    <2> HIDE DEF old, new
    <2>5. new = [old EXCEPT !.phase = to, !.charge = charge]
      BY <2>3, <2>4 DEF Bookings
    <2> QED
      BY <2>5 DEF new
  <1>6. Book' = [Book EXCEPT ![r].phase = to, ![r].charge = charge]
    BY <1>2, <1>4, <1>5, RechargedBook
  <1>7. Book'[r].charge = charge
    BY <1>2, <1>3
  <1>8. Book' = [Book EXCEPT ![r].phase = to, ![r].charge = Book'[r].charge]
    BY <1>6, <1>7
  <1>9. r \in DOMAIN Book
    BY <1>2
  <1>10. Book[r].floor = row.est
    BY <1>2, FirstRow, BookingFields DEF Settles, First
  <1> QED
    BY <1>7, <1>8, <1>9, <1>10 DEF SpendCapOf!Recharge, Book, InBook, Caps, to, charge

(* ... unless it matches no row.                                           *)
LEMMA SettlesNothing ==
  ASSUME IInv, NEW r, r \notin InBook, Settles(r), r \in Reservations
  PROVE  Book' = Book
  <1>1. InBook' = InBook
    BY BookedStays DEF Settles
  <1>2. \A x \in InBook : Booking(x)' = Booking(x)
    <2> SUFFICES ASSUME NEW x \in InBook PROVE Booking(x)' = Booking(x)
      OBVIOUS
    <2>1. /\ RowsOf(x)' = RowsOf(x)
          /\ \A id \in RowsOf(x) : ledger'[id] = ledger[id]
      BY DEF Settles, RowsOf
    <2> QED
      BY <2>1, BookingStays DEF Settles
  <1> QED
    BY <1>1, <1>2 DEF Book

LEMMA CapsStay ==
  ASSUME IInv, [Next]_vars, ~SetSomeLimit
  PROVE  Caps' = Caps
  <1>1. SameCaps(limits, limits')
    BY OnlySetLimitSetsCaps
  <1> QED
    BY <1>1 DEF SameCaps, Caps

LEMMA BookStays ==
  ASSUME UNCHANGED ledger
  PROVE Book' = Book
  BY DEF Book, InBook, Booking, RowsOf, Contribution

LEMMA PhaseInBook ==
  ASSUME IInv, NEW r \in InBook
  PROVE  r \in DOMAIN Book /\ Book[r].phase = BookPhase(First(r))
  BY BookingFields DEF Book

(* The rows of a booking that an UPDATE matches include its first row.     *)
LEMMA MatchedFirst ==
  ASSUME IInv, NEW r \in Reservations
  PROVE  /\ RowsIn(r, "reserved") # {} =>
              r \in InBook /\ <<r, 1>> \in RowsIn(r, "reserved") /\ First(r).state = "reserved"
         /\ LapsedRows(r) # {} =>
              /\ r \in InBook /\ <<r, 1>> \in LapsedRows(r)
              /\ First(r).state = "released" /\ First(r).late
  <1>1. ASSUME RowsIn(r, "reserved") # {}
        PROVE  r \in InBook /\ <<r, 1>> \in RowsIn(r, "reserved") /\ First(r).state = "reserved"
    <2>1. PICK id \in RowsIn(r, "reserved") : id \in DOMAIN ledger /\ id[1] = r
      BY <1>1 DEF RowsIn, RowsOf
    <2> QED
      BY <2>1, WholeGroups DEF RowsIn, RowsOf, InBook, First
  <1>2. ASSUME LapsedRows(r) # {}
        PROVE  /\ r \in InBook /\ <<r, 1>> \in LapsedRows(r)
               /\ First(r).state = "released" /\ First(r).late
    <2>1. PICK id \in LapsedRows(r) : id \in DOMAIN ledger /\ id[1] = r
      BY <1>2 DEF LapsedRows, RowsIn, RowsOf
    <2> QED
      BY <2>1, WholeGroups DEF LapsedRows, RowsIn, RowsOf, InBook, First
  <1> QED
    BY <1>1, <1>2

LEMMA ObserveRefines ==
  ASSUME IInv, IInv', NEW r \in Reservations, NEW cost \in Nat, Observe(r, cost),
         Caps' = Caps
  PROVE  SpendCapOf!Observe(r) \/ Book' = Book
  <1> DEFINE held == RowsIn(r, "reserved")
  <1>1. /\ ledger' = [id \in DOMAIN ledger |->
                        IF id \in held THEN Observed(ledger[id], cost) ELSE ledger[id]]
        /\ clock' = clock
    BY DEF Observe, Update
  <1>2. CASE held = {}
    <2>1. ledger' = ledger
      BY <1>1, <1>2 DEF IInv, TablesTyped, LedgerTyped
    <2> QED
      BY <2>1, BookStays
  <1>3. CASE held # {}
    <2> DEFINE row == Observed(First(r), cost)
    <2>1. r \in InBook /\ <<r, 1>> \in held /\ First(r).state = "reserved"
      BY <1>3, MatchedFirst
    <2>2. ledger'[<<r, 1>>] = row
      BY <1>1, <2>1 DEF First, RowsIn, RowsOf
    <2>3. row.state = "reserved" /\ Contribution(row) >= row.est
      <3>1. First(r) \in Row /\ ToMicros(cost) \in Nat
        BY <2>1, FirstRow, MicrosAreNat
      <3>2. row.state = "reserved" /\ row.actual = ToMicros(cost) /\ row.est \in Nat
        BY <2>1, <3>1 DEF Observed, Row
      <3> HIDE DEF row
      <3> QED
        BY <3>1, <3>2, NullAssumption DEF Contribution
    <2> HIDE DEF row, held
    <2>4. Settles(r)
      BY SettlesOne
    <2>5. /\ SpendCapOf!Recharge(r, BookPhase(row))
          /\ Book'[r].charge = Contribution(row) /\ Book[r].floor = row.est
      BY <1>1, <2>1, <2>2, <2>4, SettlesRecharge
    <2>6. BookPhase(row) = "held" /\ Book[r].phase = "held" /\ r \in DOMAIN Book
      BY <2>1, <2>3, PhaseInBook DEF BookPhase
    <2>7. r \in SpendCapOf!Held
      BY <2>6 DEF SpendCapOf!Held, Book, InBook
    <2>8. Book'[r].charge >= Book[r].floor
      BY <2>3, <2>5
    <2>9. SpendCapOf!Recharge(r, "held")
      BY <2>5, <2>6
    <2> QED
      BY <2>7, <2>8, <2>9 DEF SpendCapOf!Observe, Book, InBook
  <1> QED
    BY <1>2, <1>3

LEMMA PayRefines ==
  ASSUME IInv, IInv', NEW r \in InBook, Settles(r), Caps' = Caps, clock' = clock,
         BookPhase(First(r)) \in {"held", "lapsed"},
         NEW row, ledger'[<<r, 1>>] = row, row.state = "committed"
  PROVE  SpendCapOf!Pay(r)
  <1>1. SpendCapOf!Recharge(r, BookPhase(row))
    BY SettlesRecharge
  <1>2. BookPhase(row) = "paid"
    BY DEF BookPhase
  <1>3. r \in DOMAIN Book /\ Book[r].phase \in {"held", "lapsed"}
    BY PhaseInBook
  <1>4. SpendCapOf!Recharge(r, "paid")
    BY <1>1, <1>2
  <1> QED
    BY <1>3, <1>4 DEF SpendCapOf!Pay, Book, InBook

LEMMA CommitRefines ==
  ASSUME IInv, IInv', NEW r \in Reservations, NEW cost \in Nat, Commit(r, cost),
         Caps' = Caps
  PROVE  SpendCapOf!Pay(r) \/ Book' = Book
  <1> DEFINE held == RowsIn(r, "reserved")
             lapsed == LapsedRows(r)
  <1>1. Settles(r)
    BY SettlesOne
  <1>2. CASE held # {}
    <2> DEFINE row == Paid(First(r), cost)
    <2>1. /\ ledger' = [id \in DOMAIN ledger |->
                          IF id \in held THEN Paid(ledger[id], cost) ELSE ledger[id]]
          /\ clock' = clock
      BY <1>2 DEF Commit, Update
    <2>2. r \in InBook /\ <<r, 1>> \in held /\ First(r).state = "reserved"
      BY <1>2, MatchedFirst
    <2>3. ledger'[<<r, 1>>] = row
      BY <2>1, <2>2 DEF First, RowsIn, RowsOf
    <2>4. row.state = "committed"
      BY <2>2, FirstRow DEF Paid, Row
    <2>5. BookPhase(First(r)) = "held"
      BY <2>2 DEF BookPhase
    <2> HIDE DEF row, held
    <2> QED
      BY <1>1, <2>1, <2>2, <2>3, <2>4, <2>5, PayRefines
  <1>3. CASE held = {} /\ lapsed # {}
    <2> DEFINE row == PaidLate(First(r), cost)
    <2>1. /\ ledger' = [id \in DOMAIN ledger |->
                          IF id \in lapsed THEN PaidLate(ledger[id], cost) ELSE ledger[id]]
          /\ clock' = clock
      BY <1>3 DEF Commit, Update
    <2>2. /\ r \in InBook /\ <<r, 1>> \in lapsed
          /\ First(r).state = "released" /\ First(r).late
      BY <1>3, MatchedFirst
    <2>3. ledger'[<<r, 1>>] = row
      BY <2>1, <2>2 DEF First, LapsedRows, RowsIn, RowsOf
    <2>4. row.state = "committed"
      BY <2>2, FirstRow DEF PaidLate, Paid, Row
    <2>5. BookPhase(First(r)) = "lapsed"
      BY <2>2 DEF BookPhase
    <2> HIDE DEF row, lapsed
    <2> QED
      BY <1>1, <2>1, <2>2, <2>3, <2>4, <2>5, PayRefines
  <1>4. CASE held = {} /\ lapsed = {}
    <2>1. ledger' = [id \in DOMAIN ledger |->
                       IF id \in {} THEN PaidLate(ledger[id], cost) ELSE ledger[id]]
      BY <1>4 DEF Commit, Update
    <2>2. ledger' = ledger
      BY <2>1 DEF IInv, TablesTyped, LedgerTyped
    <2> QED
      BY <2>2, BookStays
  <1> QED
    BY <1>2, <1>3, <1>4

LEMMA ReleaseRefines ==
  ASSUME IInv, IInv', NEW r \in Reservations, Release(r), Caps' = Caps
  PROVE  SpendCapOf!Refund(r) \/ Book' = Book
  <1> DEFINE held == RowsIn(r, "reserved")
  <1>1. /\ ledger' = [id \in DOMAIN ledger |->
                        IF id \in held THEN Refunded(ledger[id]) ELSE ledger[id]]
        /\ clock' = clock
    BY DEF Release, Update
  <1>2. CASE held = {}
    <2>1. ledger' = ledger
      BY <1>1, <1>2 DEF IInv, TablesTyped, LedgerTyped
    <2> QED
      BY <2>1, BookStays
  <1>3. CASE held # {}
    <2> DEFINE row == Refunded(First(r))
    <2>1. r \in InBook /\ <<r, 1>> \in held /\ First(r).state = "reserved"
      BY <1>3, MatchedFirst
    <2>2. ledger'[<<r, 1>>] = row
      BY <1>1, <2>1 DEF First, RowsIn, RowsOf
    <2>3. row.state = "released" /\ ~row.late
      BY <2>1, FirstRow DEF Refunded, Row
    <2> HIDE DEF row, held
    <2>4. Contribution(row) = 0 /\ BookPhase(row) = "refunded"
      BY <2>3 DEF Contribution, BookPhase
    <2>5. Settles(r)
      BY SettlesOne
    <2>6. SpendCapOf!Recharge(r, BookPhase(row)) /\ Book'[r].charge = Contribution(row)
      BY <1>1, <2>1, <2>2, <2>5, SettlesRecharge
    <2>7. Book[r].phase = "held" /\ r \in DOMAIN Book
      BY <2>1, PhaseInBook DEF BookPhase
    <2>8. r \in SpendCapOf!Held
      BY <2>7 DEF SpendCapOf!Held, Book, InBook
    <2>9. SpendCapOf!Recharge(r, "refunded") /\ Book'[r].charge = 0
      BY <2>4, <2>6
    <2> QED
      BY <2>8, <2>9 DEF SpendCapOf!Refund, Book, InBook
  <1> QED
    BY <1>2, <1>3

LEMMA SweepRefines ==
  ASSUME IInv, IInv', NEW now, now <= clock, SweepAt(now), Caps' = Caps
  PROVE  SpendCapOf!Sweep(now)
  <1> DEFINE lapsing == {r \in InBook : Book[r].phase = "held" /\ Book[r].expires < now}
  <1>1. /\ DOMAIN ledger' = DOMAIN ledger /\ clock' = clock
        /\ \A id \in DOMAIN ledger :
             /\ ledger'[id].entity = ledger[id].entity /\ ledger'[id].est = ledger[id].est
             /\ ledger'[id].created = ledger[id].created
             /\ ledger'[id].expires = ledger[id].expires
             /\ id \in ExpiredRows(now) => ledger'[id].state = "released" /\ ledger'[id].late
             /\ id \notin ExpiredRows(now) => ledger'[id] = ledger[id]
    BY SweptRow DEF SweepAt, Update
  <1>2. InBook' = InBook
    BY <1>1, BookedStays
  <1>3. /\ Book \in [InBook -> Bookings] /\ Book' \in [InBook -> Bookings]
        /\ \A x \in InBook : Book[x] = Booking(x) /\ Book'[x] = Booking(x)'
    BY <1>2, BookIsTyped, BookIsTypedNext DEF BookTyped, Book
  <1>4. \A r \in InBook : r \in lapsing <=> <<r, 1>> \in ExpiredRows(now)
    <2> SUFFICES ASSUME NEW r \in InBook
                 PROVE  r \in lapsing <=> <<r, 1>> \in ExpiredRows(now)
      OBVIOUS
    <2>1. Book[r].phase = BookPhase(First(r)) /\ Book[r].expires = First(r).expires
      BY <1>3, BookingFields
    <2>2. BookPhase(First(r)) = "held" <=> First(r).state = "reserved"
      BY FirstRow DEF BookPhase, Row
    <2> QED
      BY <2>1, <2>2, FirstRow DEF ExpiredRows, First
  <1>5. \A x \in InBook \ lapsing : Book'[x] = Book[x]
    <2> SUFFICES ASSUME NEW x \in InBook \ lapsing PROVE Booking(x)' = Booking(x)
      BY <1>3
    <2>1. \A id \in RowsOf(x) : id \in DOMAIN ledger /\ id[1] = x
      BY DEF RowsOf
    <2>2. \A id \in RowsOf(x) : id \notin ExpiredRows(now)
      <3>1. x \in Reservations /\ <<x, 1>> \notin ExpiredRows(now)
        BY <1>4 DEF InBook
      <3> QED
        BY <2>1, <3>1, WholeGroups
    <2>3. \A id \in RowsOf(x) : ledger'[id] = ledger[id]
      BY <1>1, <2>1, <2>2
    <2>4. RowsOf(x)' = RowsOf(x)
      BY <1>1 DEF RowsOf
    <2> QED
      BY <2>3, <2>4, BookingStays
  <1>6. ASSUME NEW x \in InBook \cap lapsing
        PROVE  /\ Book'[x].entities = Book[x].entities /\ Book'[x].floor = Book[x].floor
               /\ Book'[x].created = Book[x].created /\ Book'[x].expires = Book[x].expires
               /\ Book'[x].phase = "lapsed" /\ Book'[x].charge = 0
    <2>1. PICK row : ledger'[<<x, 1>>] = row
      OBVIOUS
    <2>2. row.state = "released" /\ row.late
      BY <1>1, <1>4, <2>1 DEF ExpiredRows
    <2>3. BookPhase(row) = "lapsed" /\ Contribution(row) = 0
      BY <2>2 DEF BookPhase, Contribution
    <2>4. /\ Booking(x)'.entities = Booking(x).entities
          /\ Booking(x)'.floor = Booking(x).floor
          /\ Booking(x)'.created = Booking(x).created
          /\ Booking(x)'.expires = Booking(x).expires
          /\ Booking(x)'.phase = BookPhase(row)
          /\ Booking(x)'.charge = Contribution(row)
      BY <1>1, <2>1, BookingMoves
    <2> QED
      BY <1>3, <2>3, <2>4
  <1>7. Book' = [r \in InBook |-> IF r \in lapsing
                                  THEN [Book[r] EXCEPT !.phase = "lapsed", !.charge = 0]
                                  ELSE Book[r]]
    <2>1. \A x \in InBook \cap lapsing :
            /\ Book'[x].entities = Book[x].entities /\ Book'[x].floor = Book[x].floor
            /\ Book'[x].created = Book[x].created /\ Book'[x].expires = Book[x].expires
            /\ Book'[x].phase = "lapsed" /\ Book'[x].charge = 0
      BY <1>6
    <2> DEFINE new == Book'
               old == Book
    <2>2. /\ old \in [InBook -> Bookings] /\ new \in [InBook -> Bookings]
          /\ \A x \in InBook \ lapsing : new[x] = old[x]
          /\ \A x \in InBook \cap lapsing :
               /\ new[x].entities = old[x].entities /\ new[x].floor = old[x].floor
               /\ new[x].created = old[x].created /\ new[x].expires = old[x].expires
               /\ new[x].phase = "lapsed" /\ new[x].charge = 0
      BY <1>3, <1>5, <2>1
    <2> HIDE DEF lapsing, new, old
    <2>3. ASSUME NEW x \in InBook \cap lapsing
          PROVE  new[x] = [old[x] EXCEPT !.phase = "lapsed", !.charge = 0]
      <3> DEFINE was == old[x]
                 is == new[x]
      <3>1. /\ was \in Bookings /\ is \in Bookings
            /\ is.entities = was.entities /\ is.floor = was.floor
            /\ is.created = was.created /\ is.expires = was.expires
            /\ is.phase = "lapsed" /\ is.charge = 0
        BY <2>2
      <3> HIDE DEF was, is
      <3>2. is = [was EXCEPT !.phase = "lapsed", !.charge = 0]
        BY <3>1 DEF Bookings
      <3> QED
        BY <3>2 DEF was, is
    <2>4. \A x \in InBook : new[x] = IF x \in lapsing
                                     THEN [old[x] EXCEPT !.phase = "lapsed", !.charge = 0]
                                     ELSE old[x]
      BY <2>2, <2>3
    <2>5. new = [x \in InBook |-> IF x \in lapsing
                                  THEN [old[x] EXCEPT !.phase = "lapsed", !.charge = 0]
                                  ELSE old[x]]
      BY <2>2, <2>4
    <2> QED
      BY <2>5 DEF new, old
  <1>8. Book' = [r \in DOMAIN Book |->
                   IF r \in SpendCapOf!Held /\ Book[r].expires < now
                   THEN [Book[r] EXCEPT !.phase = "lapsed", !.charge = 0] ELSE Book[r]]
    <2>1. \A r \in InBook : r \in lapsing <=> r \in SpendCapOf!Held /\ Book[r].expires < now
      BY DEF SpendCapOf!Held, Book, InBook
    <2>2. DOMAIN Book = InBook
      BY DEF Book
    <2> HIDE DEF lapsing
    <2> QED
      BY <1>7, <2>1, <2>2
  <1> QED
    BY <1>1, <1>8 DEF SpendCapOf!Sweep, Book, InBook, Caps

LEMMA SetLimitRefines ==
  ASSUME NEW l \in LimitChoices, SetLimit(l.scope, l.cap, l.grace)
  PROVE  SpendCapOf!SetCap
  <1> DEFINE s == l.scope
  <1>1. s \in SpendCapOf!Scopes
    BY LedgerAssumption, SameArithmetic
  <1>2. /\ DOMAIN Caps' = DOMAIN Caps \cup {s} /\ s \in DOMAIN Caps'
        /\ \A x \in DOMAIN Caps \ {s} : Caps'[x] = Caps[x]
    BY DEF SetLimit, Caps
  <1>3. Book' = Book /\ clock' = clock
    BY BookStays DEF SetLimit
  <1> HIDE DEF s
  <1> QED
    BY <1>1, <1>2, <1>3 DEF SpendCapOf!SetCap, Book, InBook, Caps

EntitiesOf(scopes) == {scopes[i].entity : i \in DOMAIN scopes}

(* A reservation books what its first row says, for every scope it names.  *)
LEMMA ReserveBooks ==
  ASSUME IInv, IInv', NEW r \in Reservations, NEW scopes \in Requests, NEW est \in Estimates,
         NEW request, NEW now \in Time, NEW ttl \in TTLs,
         Reserve(r, scopes, est, request, now, ttl)
  PROVE  /\ r \notin InBook /\ InBook' = InBook \cup {r}
         /\ \A x \in InBook : Booking(x)' = Booking(x)
         /\ Booking(r)' = [entities |-> EntitiesOf(scopes),
                           phase |-> "held", floor |-> ToMicros(est),
                           charge |-> ToMicros(est), created |-> now, expires |-> now + ttl]
  <1> DEFINE ids == {r} \X DOMAIN scopes
             first == NewRow(scopes[1], est, request, now, ttl)
             entities == EntitiesOf(scopes)
  <1>1. /\ RowsOf(r) = {}
        /\ ledger' = [x \in DOMAIN ledger \cup ids |->
                        IF x \in ids THEN NewRow(scopes[x[2]], est, request, now, ttl)
                                     ELSE ledger[x]]
    BY DEF Reserve, NewRows
  <1>2. \A x \in DOMAIN ledger : x[1] # r /\ x \notin ids /\ ledger'[x] = ledger[x]
    BY <1>1 DEF RowsOf
  <1>3. DOMAIN ledger' = DOMAIN ledger \cup ids /\ \A x \in ids : x[1] = r
    BY <1>1
  <1>4. RowsOf(r)' = ids /\ \A x \in Reservations \ {r} : RowsOf(x)' = RowsOf(x)
    <2> HIDE DEF ids
    <2> QED
      BY <1>2, <1>3 DEF RowsOf
  <1>5. <<r, 1>> \in ids
    BY RequestsAreTuples
  <1>6. r \notin InBook /\ InBook' = InBook \cup {r}
    <2> HIDE DEF ids
    <2> QED
      BY <1>1, <1>4, <1>5 DEF InBook
  <1>7. ASSUME NEW x \in InBook PROVE Booking(x)' = Booking(x)
    <2>1. RowsOf(x)' = RowsOf(x)
      BY <1>4, <1>6 DEF InBook
    <2>2. \A id \in RowsOf(x) : ledger'[id] = ledger[id]
      BY <1>2 DEF RowsOf
    <2> QED
      BY <2>1, <2>2, BookingStays
  <1>8. {ledger'[id].entity : id \in RowsOf(r)'} = entities
    <2>1. \A x \in ids : ledger'[x].entity = scopes[x[2]].entity /\ x[2] \in DOMAIN scopes
      BY <1>1 DEF NewRow
    <2>2. \A i \in DOMAIN scopes : <<r, i>> \in ids /\ ledger'[<<r, i>>].entity = scopes[i].entity
      BY <1>1 DEF NewRow
    <2> HIDE DEF ids
    <2>3. ASSUME NEW x \in ids PROVE ledger'[x].entity \in entities
      BY <2>1 DEF EntitiesOf
    <2>4. ASSUME NEW e \in entities PROVE \E x \in ids : ledger'[x].entity = e
      BY <2>2 DEF EntitiesOf
    <2> HIDE DEF entities
    <2> QED
      BY <1>4, <2>3, <2>4
  <1>9. ledger'[<<r, 1>>] = first
    BY <1>1, <1>5
  <1>10. /\ first.state = "reserved" /\ first.late = FALSE /\ first.actual = NoCost
         /\ first.est = ToMicros(est) /\ first.created = now /\ first.expires = now + ttl
    BY DEF NewRow
  <1> HIDE DEF first, ids, entities
  <1>11. Contribution(first) = ToMicros(est)
    <2>1. ToMicros(est) \in Nat
      BY MicrosAreNat, LedgerAssumption
    <2> QED
      BY <1>10, <2>1 DEF Contribution
  <1>12. Booking(r)' = [entities |-> entities, phase |-> BookPhase(first),
                        floor |-> first.est, charge |-> Contribution(first),
                        created |-> first.created, expires |-> first.expires]
    BY <1>8, <1>9 DEF Booking, BookPhase, Contribution
  <1>13. BookPhase(first) = "held"
    BY <1>10 DEF BookPhase
  <1>14. Booking(r)' = [entities |-> entities, phase |-> "held", floor |-> ToMicros(est),
                        charge |-> ToMicros(est), created |-> now, expires |-> now + ttl]
    BY <1>10, <1>11, <1>12, <1>13
  <1> QED
    BY <1>6, <1>7, <1>14 DEF entities

(* What the cap check of a reservation, by running totals, says of the sum *)
(* over the book.                                                          *)
LEMMA ReserveHasRoom ==
  ASSUME MaxLag = 0, DistinctEntities, WholeCaps, CapsChosen,
         IInv, IInv', TInv, TInv', BookInv,
         NEW r \in Reservations, NEW scopes \in Requests, NEW est \in Estimates,
         NEW request, NEW ttl \in TTLs, Reserve(r, scopes, est, request, clock, ttl),
         NEW i \in DOMAIN scopes, scopes[i] \in DOMAIN limits
  PROVE  SpendCapOf!HasRoom(scopes[i], ToMicros(est))
  <1> DEFINE s == scopes[i]
             before == BucketSpend(ledger, s, clock)
             after == BucketSpend(ledger', s, clock)
             cap == limits[s].cap
             grace == limits[s].grace
  <1>1. s \in Scopes /\ clock \in Recent /\ Steady(s.window)
    <2>1. clock \in Time /\ clock \in Int
      BY TimeAssumption DEF IInv, TablesTyped, Time
    <2> QED
      BY <2>1, RequestsAreTuples, LedgerAssumption DEF Recent, Steady
  <1>2. SpendCapOf!Spend(s) = before
    BY <1>1, SpendIsBucketSpend
  <1>3. after = before + ToMicros(est)
    BY <1>1, GrantIsCountedOnce
  <1>4. after \in Nat /\ 200 * FromMicros(after) <= 2 * (cap * (100 + grace)) + 100 * Quantum
    BY <1>1, GrantOvershootsByRounding
  <1>5. PICK k \in Nat : cap * (100 + grace) = 100 * FromMicros(k)
    BY DEF CapsChosen, WholeCaps
  <1>6. FromMicros(after) \in Nat /\ FromMicros(k) \in Nat
    <2> HIDE DEF after
    <2> QED
      BY <1>4, QuantumAssumption DEF FromMicros
  <1> HIDE DEF after, cap, grace
  <1>7. 200 * FromMicros(after) <= 200 * FromMicros(k) + 100 * Quantum
    BY <1>4, <1>5, <1>6, QuantumAssumption
  <1>8. 100 * FromMicros(after) <= cap * (100 + grace)
    BY <1>4, <1>5, <1>7, WholeAmounts
  <1>9. s \in DOMAIN Caps /\ Caps[s].cap = cap /\ Caps[s].grace = grace
    BY DEF Caps, cap, grace
  <1>10. 100 * FromMicros(SpendCapOf!Spend(s) + ToMicros(est))
           <= Caps[s].cap * (100 + Caps[s].grace)
    BY <1>2, <1>3, <1>8, <1>9
  <1> QED
    BY <1>10, SameArithmetic DEF SpendCapOf!HasRoom, Caps, Book, InBook

LEMMA ReserveRefines ==
  ASSUME MaxLag = 0, DistinctEntities, WholeCaps, CapsChosen,
         IInv, IInv', TInv, TInv', BookInv, Caps' = Caps,
         NEW r \in Reservations, NEW scopes \in Requests, NEW est \in Estimates,
         NEW request, NEW now \in Recent, NEW ttl \in TTLs,
         Reserve(r, scopes, est, request, now, ttl)
  PROVE  SpendCapOf!Book(r)
  <1>1. now = clock /\ clock \in Nat /\ now \in Time
    BY TimeAssumption DEF Recent, Time, IInv, TablesTyped
  <1>2. /\ r \notin InBook /\ InBook' = InBook \cup {r}
        /\ \A x \in InBook : Booking(x)' = Booking(x)
        /\ Booking(r)' = [entities |-> EntitiesOf(scopes),
                          phase |-> "held", floor |-> ToMicros(est),
                          charge |-> ToMicros(est), created |-> now, expires |-> now + ttl]
    BY <1>1, ReserveBooks
  <1> DEFINE named == {scopes[i] : i \in DOMAIN scopes}
  <1>3. /\ r \notin DOMAIN Book /\ DOMAIN Book' = DOMAIN Book \cup {r}
        /\ \A x \in DOMAIN Book : Book'[x] = Book[x]
        /\ Book'[r] = Booking(r)'
    BY <1>2 DEF Book
  <1>4. /\ Book'[r].phase = "held" /\ Book'[r].charge = Book'[r].floor
        /\ Book'[r].created = clock /\ Book'[r].expires > clock
        /\ Book'[r].charge = ToMicros(est)
    <2>1. ttl \in Nat /\ ttl > 0
      BY LedgerAssumption
    <2>2. Book'[r].expires = clock + ttl
      BY <1>1, <1>2, <1>3
    <2> QED
      BY <1>1, <1>2, <1>3, <2>1, <2>2
  <1>5. named \in SUBSET SpendCapOf!Scopes /\ Book'[r].entities = {s.entity : s \in named}
    <2>1. EntitiesOf(scopes) = {s.entity : s \in named}
      BY DEF EntitiesOf
    <2>2. named \in SUBSET SpendCapOf!Scopes
      BY RequestsAreTuples, SameArithmetic
    <2> QED
      BY <1>2, <1>3, <2>1, <2>2
  <1>6. \A s \in named \cap DOMAIN Caps : SpendCapOf!HasRoom(s, Book'[r].charge)
    <2> SUFFICES ASSUME NEW i \in DOMAIN scopes, scopes[i] \in DOMAIN Caps
                 PROVE  SpendCapOf!HasRoom(scopes[i], ToMicros(est))
      BY <1>4
    <2>1. scopes[i] \in DOMAIN limits
      BY DEF Caps
    <2> QED
      BY <1>1, <2>1, ReserveHasRoom
  <1>7. clock' = clock
    BY DEF Reserve
  <1> HIDE DEF named
  <1>8. \E those \in SUBSET SpendCapOf!Scopes :
          /\ Book'[r].entities = {s.entity : s \in those}
          /\ \A s \in those \cap DOMAIN Caps : SpendCapOf!HasRoom(s, Book'[r].charge)
    BY <1>5, <1>6
  <1> QED
    BY <1>3, <1>4, <1>7, <1>8 DEF SpendCapOf!Book, Book, InBook, Caps

LEMMA BookFollows ==
  ASSUME MaxLag = 0, DistinctEntities, WholeCaps, CapsChosen,
         IInv, IInv', TInv, TInv', BookInv, [Next]_vars
  PROVE  SpendCapOf!Next \/ UNCHANGED <<clock, Caps, Book>>
  <1>1. CASE SetSomeLimit
    BY <1>1, SetLimitRefines DEF SetSomeLimit, SpendCapOf!Next
  <1>2. CASE ~SetSomeLimit
    <2>1. Caps' = Caps
      BY <1>2, CapsStay
    <2>2. CASE UNCHANGED vars
      BY <2>1, <2>2, BookStays DEF vars
    <2>3. CASE ReserveSome
      BY <2>1, <2>3, ReserveRefines DEF ReserveSome, ReserveAt, SpendCapOf!Next
    <2>4. CASE ObserveSome
      <3>1. PICK r \in Reservations, cost \in Costs : Observe(r, cost)
        BY <2>4 DEF ObserveSome
      <3>2. SpendCapOf!Observe(r) \/ Book' = Book
        BY <2>1, <3>1, ObserveRefines, LedgerAssumption
      <3> QED
        BY <2>1, <3>1, <3>2 DEF SpendCapOf!Next, Observe, Update
    <2>5. CASE CommitSome
      <3>1. PICK r \in Reservations, cost \in Costs \cup Estimates : Commit(r, cost)
        BY <2>5 DEF CommitSome
      <3>2. SpendCapOf!Pay(r) \/ Book' = Book
        BY <2>1, <3>1, CommitRefines, LedgerAssumption
      <3> QED
        BY <2>1, <3>1, <3>2 DEF SpendCapOf!Next, Commit, Update
    <2>6. CASE ReleaseSome
      <3>1. PICK r \in Reservations : Release(r)
        BY <2>6 DEF ReleaseSome
      <3>2. SpendCapOf!Refund(r) \/ Book' = Book
        BY <2>1, <3>1, ReleaseRefines
      <3> QED
        BY <2>1, <3>1, <3>2 DEF SpendCapOf!Next, Release, Update
    <2>7. CASE Sweep
      <3>1. PICK now \in Recent : SweepAt(now)
        BY <2>7 DEF Sweep
      <3>2. now <= clock /\ now \in SpendCapOf!Time
        BY SameArithmetic DEF Recent
      <3> QED
        BY <2>1, <3>1, <3>2, SweepRefines DEF SpendCapOf!Next
    <2>8. CASE Tick
      <3>1. clock' = clock + 1 /\ Book' = Book
        BY <2>8, BookStays DEF Tick
      <3> QED
        BY <2>1, <3>1 DEF SpendCapOf!Next, SpendCapOf!Tick, Book, InBook, Caps
    <2> QED
      BY <1>2, <2>2, <2>3, <2>4, <2>5, <2>6, <2>7, <2>8 DEF Next
  <1> QED
    BY <1>1, <1>2

LEMMA BookInit == Init => SpendCapOf!Init /\ BookInv
  <1> SUFFICES ASSUME Init PROVE SpendCapOf!Init /\ BookInv
    OBVIOUS
  <1>1. DOMAIN ledger = {} /\ DOMAIN limits = {} /\ clock = 0
    BY DEF Init
  <1>2. InBook = {}
    BY <1>1 DEF InBook, RowsOf
  <1>3. Book = <<>> /\ Caps = <<>>
    BY <1>1, <1>2 DEF Book, Caps
  <1>4. BookInv
    BY <1>1 DEF BookInv, AmountsAgree, RowsDistinct
  <1> QED
    BY <1>1, <1>3, <1>4 DEF SpendCapOf!Init, Book, InBook, Caps

(* Whatever the number of scopes, callers and windows: a ledger that reads *)
(* one clock, is asked for distinct entities and has caps of whole         *)
(* micro-cents makes no booking that a sum over all charges would refuse,  *)
(* and changes no charge otherwise than by observing, paying, refunding or *)
(* sweeping it (core._reserve_tx over the running totals of spend.py).     *)
THEOREM LedgerKeepsTheBook ==
  ASSUME MaxLag = 0, DistinctEntities, WholeCaps
  PROVE  Spec => ImplementsSpendCap
  <1>1. Spec => [](IInv /\ TInv)
    BY TotalsInvariant
  <1>2. Spec => []CapsChosen
    BY CapsAreChosen
  <1>3. Init => SpendCapOf!Init /\ BookInv
    BY BookInit
  <1>4. IInv /\ BookInv /\ [Next]_vars => BookInv'
    BY DistinctStep
  <1>5. CapsChosen /\ IInv /\ IInv' /\ TInv /\ TInv' /\ BookInv /\ [Next]_vars
          => [SpendCapOf!Next]_<<clock, Caps, Book>>
    BY BookFollows
  <1>6. [SpendCapOf!Next]_<<clock, Caps, Book>> => [SpendCapOf!Next]_(SpendCapOf!vars)
    BY DEF SpendCapOf!vars, Caps, Book, InBook
  <1> QED
    BY <1>1, <1>2, <1>3, <1>4, <1>5, <1>6, PTL
       DEF Spec, ImplementsSpendCap, SpendCapOf!Spec
================================================================================
