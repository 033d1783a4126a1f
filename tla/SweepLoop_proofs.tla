---------------------------- MODULE SweepLoop_proofs ----------------------------
(***************************************************************************)
(* Theorems about SweepLoop, for every set of sweepers and callers: the    *)
(* sweepers of all processes together do what Budget.sweep may do, and     *)
(* their reports add up.                                                   *)
(***************************************************************************)
EXTENDS SweepLoop, Budget_proofs

Places == {"clock", "tx", "answer", "check", "wait", "exited", "cancelled"}

SweeperTyped ==
  sweeper \in [Sweepers -> [at : Places, now : Time, found : Nat, total : Nat, missed : Nat]]

(* What a sweeper knows: a clock reading that is past, and a count while   *)
(* its answer is under way.                                                *)
SweepersKnow ==
  \A s \in Sweepers :
    /\ sweeper[s].now <= clock
    /\ sweeper[s].at # "answer" => sweeper[s].found = 0

PInv == SweeperTyped /\ SweepersKnow

(* The books of the step: the account of s grows by the rows it releases.  *)
Books(s) ==
  /\ \A u \in Sweepers \ {s} : Accounts'[u] = Accounts[u]
  /\ \/ UNCHANGED ledger /\ Accounts'[s] = Accounts[s]
     \/ \E now : /\ SweepAt(now)
                 /\ Accounts'[s] = Accounts[s] + Cardinality(ExpiredRows(now))

LEMMA SweeperSteps ==
  ASSUME PInv, clock \in Time, clock' = clock, IsFiniteSet(DOMAIN ledger),
         NEW s \in Sweepers, SweeperStep(s)
  PROVE  PInv' /\ Books(s)
  <1> DEFINE Kind == [at : Places, now : Time, found : Nat, total : Nat, missed : Nat]
             was == sweeper[s]
  <1>1. was \in Kind /\ was.now <= clock /\ (was.at # "answer" => was.found = 0)
    BY DEF PInv, SweeperTyped, SweepersKnow
  <1>2. \A now : Cardinality(ExpiredRows(now)) \in Nat
    <2> SUFFICES ASSUME NEW now PROVE Cardinality(ExpiredRows(now)) \in Nat
      OBVIOUS
    <2>1. ExpiredRows(now) \subseteq DOMAIN ledger
      BY DEF ExpiredRows
    <2> QED
      BY <2>1, FS_Subset, FS_CardinalityType
  <1>3. 0 \in Time /\ clock \in Time /\ 0 <= clock /\ clock <= clock
    BY TimeAssumption DEF Time
  <1> DEFINE Fine(v) ==
               /\ v \in Kind /\ v.now <= clock
               /\ v.at # "answer" => v.found = 0
             account(v) == v.total + v.found + v.missed
             Booked(v) == \/ UNCHANGED ledger /\ account(v) = account(was)
                          \/ \E now : /\ SweepAt(now)
                                      /\ account(v) = account(was)
                                           + Cardinality(ExpiredRows(now))
  <1>4. ASSUME NEW v, sweeper' = [sweeper EXCEPT ![s] = v], Fine(v) \/ v = was, Booked(v)
        PROVE  PInv' /\ Books(s)
    <2>1. SweeperTyped'
      BY <1>1, <1>4 DEF PInv, SweeperTyped
    <2>2. ASSUME NEW u \in Sweepers
          PROVE  /\ sweeper'[u].now <= clock'
                 /\ sweeper'[u].at # "answer" => sweeper'[u].found = 0
      <3> HIDE DEF Kind
      <3>1. CASE u = s /\ Fine(v)
        <4>1. sweeper'[u] = v
          BY <1>4, <3>1 DEF PInv, SweeperTyped
        <4> QED
          BY <3>1, <4>1
      <3>2. CASE u # s \/ v = was
        <4>1. sweeper'[u] = sweeper[u]
          BY <1>4, <3>2 DEF PInv, SweeperTyped
        <4> QED
          BY <4>1 DEF PInv, SweepersKnow
      <3> QED
        BY <1>4, <3>1, <3>2
    <2>3. PInv'
      BY <2>1, <2>2 DEF PInv, SweepersKnow
    <2>4. /\ sweeper'[s] = v
          /\ \A u \in Sweepers \ {s} : sweeper'[u] = sweeper[u]
      BY <1>4 DEF PInv, SweeperTyped
    <2>5. /\ Accounts'[s] = account(v) /\ Accounts[s] = account(was)
          /\ \A u \in Sweepers \ {s} : Accounts'[u] = Accounts[u]
      <3> HIDE DEF Kind, Fine, Booked
      <3> QED
        BY <2>4 DEF Accounts
    <2>6. Books(s)
      <3> HIDE DEF account
      <3> QED
        BY <1>4, <2>5 DEF Books
    <2> QED
      BY <2>3, <2>6
  <1> DEFINE Counts == /\ was.total + 0 \in Nat /\ was.total + was.found \in Nat
                     /\ was.missed + 0 \in Nat /\ was.missed + was.found \in Nat
  <1>6. Counts
    BY <1>1
  <1>10. CASE SweepOnce(s)
    <2>1. PICK now : /\ SweepAt(now)
                     /\ sweeper' = [sweeper EXCEPT ![s].at = "answer",
                                      ![s].found = Cardinality(ExpiredRows(now))]
      BY <1>10 DEF SweepOnce
    <2> DEFINE is == [was EXCEPT !.at = "answer", !.found = Cardinality(ExpiredRows(now))]
    <2>2. sweeper' = [sweeper EXCEPT ![s] = is]
      BY <2>1
    <2>3. Fine(is)
      BY <1>1, <1>2 DEF Places
    <2>4. Booked(is)
      <3>1. SweepAt(now) /\ was.found = 0
        BY <1>1, <1>10, <2>1 DEF SweepOnce, At
      <3> HIDE DEF was
      <3> QED
        BY <1>1, <1>2, <3>1
    <2> QED
      BY <1>4, <2>2, <2>3, <2>4
  <1>11. CASE ReadNow(s)
    <2> DEFINE is == [was EXCEPT !.at = "tx", !.now = clock]
    <2>1. sweeper' = [sweeper EXCEPT ![s] = is]
      BY <1>11 DEF ReadNow
    <2>3. was.at = "clock" /\ UNCHANGED ledger
      BY <1>1, <1>11 DEF ReadNow, At, ledgerVars
    <2>2. Fine(is)
      <3> HIDE DEF was
      <3> QED
        BY <1>1, <1>3, <1>6, <2>3 DEF Places
    <2>4. Booked(is)
      <3> HIDE DEF was
      <3> QED
        BY <1>1, <2>3
    <2> QED
      BY <1>4, <2>1, <2>2, <2>4
  <1>12. CASE SweepTx(s)
    <2> DEFINE is == [was EXCEPT !.at = "answer", !.now = 0,
                            !.found = Cardinality(ExpiredRows(was.now))]
    <2>1. sweeper' = [sweeper EXCEPT ![s] = is]
      BY <1>12 DEF SweepTx
    <2>3. was.at = "tx" /\ Cardinality(ExpiredRows(was.now)) \in Nat /\ SweepAt(was.now) /\ was.found = 0
      BY <1>1, <1>2, <1>12 DEF SweepTx, At
    <2>2. Fine(is)
      <3> HIDE DEF was
      <3> QED
        BY <1>1, <1>3, <1>6, <2>3 DEF Places
    <2>4. Booked(is)
      <3> HIDE DEF was
      <3> QED
        BY <1>1, <2>3
    <2> QED
      BY <1>4, <2>1, <2>2, <2>4
  <1>13. CASE Counted(s)
    <2> DEFINE is == [was EXCEPT !.at = IF s \in Looping THEN "check" ELSE "exited",
                            !.now = 0, !.found = 0,
                            !.total = @ + was.found, !.missed = @ + 0]
    <2>1. sweeper' = [sweeper EXCEPT ![s] = is]
      BY <1>13 DEF Counted, AfterIteration
    <2>3. UNCHANGED ledger
      BY <1>1, <1>13 DEF Counted, At, ledgerVars
    <2>2. Fine(is)
      <3> HIDE DEF was
      <3> QED
        BY <1>1, <1>3, <1>6, <2>3 DEF Places
    <2>4. Booked(is)
      <3> HIDE DEF was
      <3> QED
        BY <1>1, <2>3
    <2> QED
      BY <1>4, <2>1, <2>2, <2>4
  <1>14. CASE IterationFails(s)
    <2> DEFINE is == [was EXCEPT !.at = IF s \in Looping THEN "check" ELSE "exited",
                            !.now = 0, !.found = 0,
                            !.total = @ + 0, !.missed = @ + 0]
    <2>1. sweeper' = [sweeper EXCEPT ![s] = is]
      BY <1>14 DEF IterationFails, AfterIteration
    <2>3. UNCHANGED ledger /\ was.found = 0
      BY <1>1, <1>14 DEF IterationFails, At, ledgerVars
    <2>2. Fine(is)
      <3> HIDE DEF was
      <3> QED
        BY <1>1, <1>3, <1>6, <2>3 DEF Places
    <2>4. Booked(is)
      <3> HIDE DEF was
      <3> QED
        BY <1>1, <2>3
    <2> QED
      BY <1>4, <2>1, <2>2, <2>4
  <1>15. CASE AnswerLost(s)
    <2> DEFINE is == [was EXCEPT !.at = IF s \in Looping THEN "check" ELSE "exited",
                            !.now = 0, !.found = 0,
                            !.total = @ + 0, !.missed = @ + was.found]
    <2>1. sweeper' = [sweeper EXCEPT ![s] = is]
      BY <1>15 DEF AnswerLost, AfterIteration
    <2>3. UNCHANGED ledger
      BY <1>1, <1>15 DEF AnswerLost, At, ledgerVars
    <2>2. Fine(is)
      <3> HIDE DEF was
      <3> QED
        BY <1>1, <1>3, <1>6, <2>3 DEF Places
    <2>4. Booked(is)
      <3> HIDE DEF was
      <3> QED
        BY <1>1, <2>3
    <2> QED
      BY <1>4, <2>1, <2>2, <2>4
  <1>16. CASE CheckStop(s) \/ WokenByStop(s)
    <2> DEFINE exits == [was EXCEPT !.at = "exited", !.now = 0]
               waits == [was EXCEPT !.at = "wait"]
    <2>1. \/ sweeper' = [sweeper EXCEPT ![s] = exits]
          \/ was.at = "check" /\ sweeper' = [sweeper EXCEPT ![s] = waits]
      BY <1>16 DEF CheckStop, WokenByStop, Leave, At
    <2>2. was.at \in {"check", "wait"}
      BY <1>16 DEF CheckStop, WokenByStop, At
    <2>5. was.found = 0
      BY <1>1, <2>2
    <2>3. Fine(exits) /\ Fine(waits)
      <3> HIDE DEF was
      <3> QED
        BY <1>1, <1>3, <2>2, <2>5 DEF Places
    <2>6. UNCHANGED ledger
      BY <1>16 DEF CheckStop, WokenByStop, ledgerVars
    <2>7. Booked(exits) /\ Booked(waits)
      <3> HIDE DEF was
      <3> QED
        BY <1>1, <2>6
    <2> QED
      BY <1>4, <2>1, <2>3, <2>7
  <1>17. CASE IntervalOver(s)
    <2> DEFINE is == [was EXCEPT !.at = "clock"]
    <2>1. sweeper' = [sweeper EXCEPT ![s] = is]
      BY <1>17 DEF IntervalOver
    <2>3. was.at = "wait" /\ UNCHANGED ledger
      BY <1>1, <1>17 DEF IntervalOver, At, ledgerVars
    <2>2. Fine(is)
      <3> HIDE DEF was
      <3> QED
        BY <1>1, <1>3, <1>6, <2>3 DEF Places
    <2>4. Booked(is)
      <3> HIDE DEF was
      <3> QED
        BY <1>1, <2>3
    <2> QED
      BY <1>4, <2>1, <2>2, <2>4
  <1>18. CASE Signal(s)
    <2>1. UNCHANGED <<sweeper, ledger>>
      BY <1>18 DEF Signal, ledgerVars
    <2> QED
      BY <2>1 DEF PInv, SweeperTyped, SweepersKnow, Books, Accounts
  <1>19. CASE CancelSweeper(s)
    <2> DEFINE is == [was EXCEPT !.at = "cancelled", !.now = 0, !.found = 0,
                            !.missed = @ + was.found]
    <2>1. sweeper' = [sweeper EXCEPT ![s] = is]
      BY <1>19 DEF CancelSweeper
    <2>3. UNCHANGED ledger
      BY <1>1, <1>19 DEF CancelSweeper, At, ledgerVars
    <2>2. Fine(is)
      <3> HIDE DEF was
      <3> QED
        BY <1>1, <1>3, <1>6, <2>3 DEF Places
    <2>4. Booked(is)
      <3> HIDE DEF was
      <3> QED
        BY <1>1, <2>3
    <2> QED
      BY <1>4, <2>1, <2>2, <2>4
  <1> QED
    BY <1>10, <1>11, <1>12, <1>13, <1>14, <1>15, <1>16, <1>17, <1>18, <1>19
    DEF SweeperStep, Advance

--------------------------------------------------------------------------------
(* The sweepers do what Budget.sweep may do.                               *)

(* A caller's step is a step of Budget, and time does not go back.         *)
LEMMA CallerSteps ==
  ASSUME BInv, CallerStep
  PROVE  BudgetNext /\ UNCHANGED sweeper /\ clock' >= clock
  <1>1. clock \in Nat
    BY DEF BInv, IInv, TablesTyped, Time
  <1>2. CASE \E t \in Tasks : Call(t) \/ Resume(t) \/ Abandon(t)
    <2>1. BudgetNext
      BY <1>2 DEF BudgetNext
    <2>2. clock' = clock
      <3>1. PICK t \in Tasks : Call(t) \/ Resume(t) \/ Abandon(t)
        BY <1>2
      <3>2. CASE Call(t) \/ Abandon(t)
        BY <3>2 DEF Call, Abandon, CallReserve, BeginObserve, BeginCommit, BeginRelease,
                    Exit, Begin, ledgerVars
      <3>3. CASE Resume(t)
        BY <3>3 DEF Resume, PreCheck, ReadClock, ReserveTx, ReserveReturn, Requery,
                    ObserveTx, ObserveReturn, CommitTx, CommitReturn, CommitAnnounce,
                    ReleaseTx, ReleaseReturn, ReturnCached, Reserve, Observe, Commit,
                    Release, Update, ledgerVars
      <3> QED
        BY <3>1, <3>2, <3>3
    <2> QED
      BY <1>1, <2>1, <2>2 DEF CallerStep
  <1>3. CASE (SetSomeLimit \/ Tick) /\ UNCHANGED callerVars
    <2>1. BudgetNext
      BY <1>3 DEF BudgetNext, Elsewhere, callerVars
    <2>2. clock' = clock \/ clock' = clock + 1
      BY <1>3 DEF SetSomeLimit, SetLimit, Tick
    <2> QED
      BY <1>1, <2>1, <2>2 DEF CallerStep
  <1> QED
    BY <1>2, <1>3 DEF CallerStep

(* A sweeper's step is a sweep of Budget, or leaves Budget's state alone.  *)
LEMMA SweepersSweep ==
  ASSUME AnyLag, BInv, PInv, NEW s \in Sweepers, SweeperStep(s)
  PROVE  [BudgetNext]_budgetVars /\ UNCHANGED clock
  <1>1. \A now \in Time : now <= clock => now \in Recent
    BY TimeAssumption, LedgerAssumption DEF AnyLag, Recent, Time, BInv, IInv, TablesTyped
  <1>2. sweeper[s].now \in Recent
    BY <1>1 DEF PInv, SweeperTyped, SweepersKnow
  <1>3. UNCHANGED callerVars
    BY DEF SweeperStep
  <1>4. CASE SweepOnce(s) \/ SweepTx(s)
    <2>1. PICK now \in Recent : SweepAt(now)
      BY <1>2, <1>4 DEF SweepOnce, SweepTx
    <2>2. Elsewhere
      BY <1>3, <2>1 DEF Elsewhere, Sweep, callerVars
    <2>3. UNCHANGED clock
      BY <2>1 DEF SweepAt, Update
    <2> QED
      BY <2>2, <2>3 DEF BudgetNext
  <1>5. CASE ~(SweepOnce(s) \/ SweepTx(s))
    <2>1. UNCHANGED ledgerVars
      BY <1>5 DEF SweeperStep, Advance, ReadNow, Counted, IterationFails, AnswerLost,
                  CheckStop, WokenByStop, IntervalOver, Signal, CancelSweeper
    <2> QED
      BY <1>3, <2>1 DEF ledgerVars, callerVars, budgetVars
  <1> QED
    BY <1>4, <1>5

LEMMA SweepIsBudget ==
  ASSUME AnyLag, BInv, PInv, [SweepNext]_sweepVars
  PROVE  [BudgetNext]_budgetVars
  <1>1. CASE UNCHANGED sweepVars
    BY <1>1 DEF sweepVars, budgetVars
  <1> QED
    BY <1>1, CallerSteps, SweepersSweep DEF SweepNext

LEMMA SweeperInit == SweepInit => BudgetInit /\ PInv
  <1> SUFFICES ASSUME SweepInit PROVE PInv
    BY DEF SweepInit
  <1>1. 0 \in Time /\ clock = 0 /\ (0 <= 0)
    BY TimeAssumption DEF SweepInit, BudgetInit, Init, Time
  <1>2. SweeperTyped
    BY <1>1 DEF SweepInit, SweeperTyped, Places
  <1>3. SweepersKnow
    BY <1>1 DEF SweepInit, SweepersKnow
  <1> QED
    BY <1>2, <1>3 DEF PInv

LEMMA PlacesStep ==
  ASSUME AnyLag, BInv, BInv', PInv, IsFiniteSet(DOMAIN ledger), [SweepNext]_sweepVars
  PROVE  PInv'
  <1>1. clock \in Time /\ clock' \in Time
    BY DEF BInv, IInv, TablesTyped
  <1>2. ASSUME UNCHANGED sweeper, clock' >= clock
        PROVE  PInv'
    <2>1. \A n \in Time : n <= clock => n <= clock'
      BY <1>1, <1>2, TimeAssumption DEF Time
    <2>2. \A s \in Sweepers : sweeper[s].now \in Time
      BY DEF PInv, SweeperTyped
    <2> QED
      BY <1>2, <2>1, <2>2 DEF PInv, SweeperTyped, SweepersKnow
  <1>3. CASE UNCHANGED sweepVars
    <2>1. clock' >= clock
      BY <1>1, <1>3, TimeAssumption DEF Time, sweepVars
    <2> QED
      BY <1>2, <1>3, <2>1 DEF sweepVars
  <1>4. CASE CallerStep
    BY <1>2, <1>4, CallerSteps
  <1>5. CASE \E s \in Sweepers : SweeperStep(s)
    BY <1>1, <1>5, SweeperSteps, SweepersSweep
  <1> QED
    BY <1>3, <1>4, <1>5 DEF SweepNext

(* The invariant of the whole: Budget's, Ledger's and the sweepers'.       *)
WInv == BInv /\ MInv /\ TInv /\ PInv

LEMMA WholeStep ==
  ASSUME AnyLag, WInv, [SweepNext]_sweepVars
  PROVE  WInv' /\ [BudgetNext]_budgetVars
  <1>1. [BudgetNext]_budgetVars
    BY SweepIsBudget DEF WInv
  <1>2. BInv'
    BY <1>1, BudgetStepInvariant DEF WInv
  <1>3. MInv'
    BY <1>1, <1>2, MoneyStep DEF WInv
  <1>4. TInv'
    BY <1>1, StepsAreTransactions, NextTotals DEF WInv, BInv
  <1>5. PInv'
    BY <1>2, PlacesStep DEF WInv, TInv
  <1> QED
    BY <1>1, <1>2, <1>3, <1>4, <1>5 DEF WInv

LEMMA WholeInit == SweepInit => WInv /\ BudgetInit
  BY SweeperInit, BudgetInitInvariant, MoneyInit, InitTotals DEF WInv, BudgetInit

(* Beside any number of looping and one-shot sweepers, which stop, fail,   *)
(* are cancelled and lose answers anywhere, the callers see what they see  *)
(* beside Budget.sweep: every theorem about Budget holds here as well.     *)
THEOREM SweepersFollowBudget ==
  ASSUME AnyLag
  PROVE  SweepSpec => BudgetSpec
  <1>1. WInv /\ [SweepNext]_sweepVars => WInv' /\ [BudgetNext]_budgetVars
    BY WholeStep
  <1> QED
    BY <1>1, WholeInit, PTL DEF SweepSpec, BudgetSpec

(* A handle that says committed, or late, tells the truth although the     *)
(* sweepers race with its commit.                                          *)
THEOREM CommittedHandlesSurviveSweeps ==
  ASSUME AnyLag
  PROVE  SweepSpec => []CommittedHandlesAreTrue
  BY SweepersFollowBudget, CommittedHandlesTell

--------------------------------------------------------------------------------
(* The reports.                                                            *)

(* A sum of which one term changes.                                        *)
LEMMA SumOfOneChange ==
  ASSUME NEW f, NEW g, NEW S, Summable(f, S), Summable(g, S), NEW x \in S,
         \A y \in S \ {x} : g[y] = f[y], NEW k \in Int, g[x] = f[x] + k
  PROVE  SumFunctionOnSet(g, S) = SumFunctionOnSet(f, S) + k
  <1> DEFINE rest == S \ {x}
  <1>1. Summable(f, rest)
    <2>1. IsFiniteSet(rest)
      BY FS_Subset DEF Summable
    <2> QED
      BY <2>1 DEF Summable
  <1>2. SumFunctionOnSet(g, rest) = SumFunctionOnSet(f, rest)
    BY <1>1, SumAgrees
  <1>3. SumFunctionOnSet(f, rest) \in Int
    BY <1>1, SumIsInteger
  <1>4. /\ SumFunctionOnSet(f, S) = f[x] + SumFunctionOnSet(f, rest)
        /\ SumFunctionOnSet(g, S) = g[x] + SumFunctionOnSet(g, rest)
    BY SumWithout
  <1>5. f[x] \in Int
    BY DEF Summable
  <1> HIDE DEF rest
  <1> QED
    BY <1>2, <1>3, <1>4, <1>5

(* The rows that are marked as swept after a step.                         *)
SweptNext == {id \in DOMAIN ledger' : ledger'[id].late}

(* Callers neither mark a row as swept nor take the mark away: a late      *)
(* commit finds it and leaves it.                                          *)
LEMMA TransactionsKeepMarks ==
  ASSUME BInv,
         \/ \E r, cost : Observe(r, cost) \/ Commit(r, cost)
         \/ \E r : Release(r)
         \/ \E r, scopes, est, request, now, ttl :
              Reserve(r, scopes, est, request, now, ttl)
  PROVE  SweptNext = SweptRows
  <1>1. \A id \in DOMAIN ledger : ledger[id] \in Row
    BY DEF BInv, IInv, TablesTyped, LedgerTyped
  <1>2. CASE \E r, cost : Observe(r, cost)
    <2>1. PICK r, cost : Observe(r, cost)
      BY <1>2
    <2>2. \A id \in DOMAIN ledger : Observed(ledger[id], cost).late = ledger[id].late
      BY <1>1 DEF Observed, Row
    <2> QED
      BY <2>1, <2>2 DEF SweptNext, SweptRows, Observe, Update, RowsIn, RowsOf
  <1>3. CASE \E r, cost : Commit(r, cost)
    <2>1. PICK r, cost : Commit(r, cost)
      BY <1>3
    <2>2. \A id \in DOMAIN ledger : /\ Paid(ledger[id], cost).late = ledger[id].late
                                    /\ PaidLate(ledger[id], cost).late
      BY <1>1 DEF Paid, PaidLate, Row
    <2> QED
      BY <2>1, <2>2 DEF SweptNext, SweptRows, Commit, Update, LapsedRows, RowsIn, RowsOf
  <1>4. CASE \E r : Release(r)
    <2>1. PICK r : Release(r)
      BY <1>4
    <2>2. \A id \in DOMAIN ledger : Refunded(ledger[id]).late = ledger[id].late
      BY <1>1 DEF Refunded, Row
    <2> QED
      BY <2>1, <2>2 DEF SweptNext, SweptRows, Release, Update, RowsIn, RowsOf
  <1>5. CASE \E r, scopes, est, request, now, ttl :
               Reserve(r, scopes, est, request, now, ttl)
    <2>1. PICK r, scopes, est, request, now, ttl :
            Reserve(r, scopes, est, request, now, ttl)
      BY <1>5
    <2> DEFINE new == NewRows(r, scopes, est, request, now, ttl)
    <2>2. \A id \in DOMAIN new : ~new[id].late /\ id \notin DOMAIN ledger
      BY <2>1 DEF NewRows, NewRow, Reserve, RowsOf
    <2>3. ledger' = [id \in DOMAIN ledger \cup DOMAIN new |->
                       IF id \in DOMAIN new THEN new[id] ELSE ledger[id]]
      BY <2>1 DEF Reserve
    <2> HIDE DEF new
    <2> QED
      BY <2>2, <2>3 DEF SweptNext, SweptRows
  <1> QED
    BY <1>2, <1>3, <1>4, <1>5

LEMMA CallersKeepMarks ==
  ASSUME BInv, CallerStep
  PROVE  SweptNext = SweptRows
  <1>1. CASE UNCHANGED ledger
    BY <1>1 DEF SweptNext, SweptRows
  <1>2. CASE \E t \in Tasks : Call(t) \/ Abandon(t)
    <2>1. UNCHANGED ledger
      BY <1>2 DEF Call, Abandon, CallReserve, BeginObserve, BeginCommit, BeginRelease,
                  Exit, Begin, ledgerVars
    <2> QED
      BY <1>1, <2>1
  <1>3. ASSUME NEW t \in Tasks, Resume(t)
        PROVE  SweptNext = SweptRows
    <2>1. CASE ReserveTx(t)
      BY <1>1, <2>1, TransactionsKeepMarks DEF ReserveTx, ledgerVars
    <2>2. CASE ObserveTx(t) \/ CommitTx(t) \/ ReleaseTx(t)
      BY <2>2, TransactionsKeepMarks DEF ObserveTx, CommitTx, ReleaseTx
    <2>3. CASE PreCheck(t) \/ ReadClock(t) \/ ReserveReturn(t) \/ Requery(t)
                 \/ ObserveReturn(t) \/ CommitReturn(t) \/ CommitAnnounce(t)
                 \/ ReleaseReturn(t)
      <3>1. UNCHANGED ledger
        BY <2>3 DEF PreCheck, ReadClock, ReserveReturn, Requery, ReturnCached,
                    ObserveReturn, CommitReturn, CommitAnnounce, ReleaseReturn, ledgerVars
      <3> QED
        BY <1>1, <3>1
    <2> QED
      BY <1>3, <2>1, <2>2, <2>3 DEF Resume
  <1>4. CASE SetSomeLimit \/ Tick
    <2>1. UNCHANGED ledger
      BY <1>4 DEF SetSomeLimit, SetLimit, Tick
    <2> QED
      BY <1>1, <2>1
  <1> QED
    BY <1>2, <1>3, <1>4 DEF CallerStep

(* A sweep marks exactly the rows it releases, none of them marked before. *)
LEMMA SweepsMark ==
  ASSUME BInv, NEW now, SweepAt(now)
  PROVE  /\ SweptNext = SweptRows \cup ExpiredRows(now)
         /\ SweptRows \cap ExpiredRows(now) = {}
  <1>1. \A id \in DOMAIN ledger : ledger[id] \in Row
    BY DEF BInv, IInv, TablesTyped, LedgerTyped
  <1>2. \A id \in DOMAIN ledger : Lapsed(ledger[id]).late
    BY <1>1 DEF Lapsed, Row
  <1>3. SweptNext = SweptRows \cup ExpiredRows(now)
    BY <1>2 DEF SweptNext, SweptRows, SweepAt, Update, ExpiredRows
  <1>4. SweptRows \cap ExpiredRows(now) = {}
    BY DEF SweptRows, ExpiredRows, BInv, IInv, GroupsAgree
  <1> QED
    BY <1>3, <1>4

AccountsTyped == \A s \in Sweepers : Accounts[s] \in Nat

LEMMA AccountsAreCounts == PInv => AccountsTyped
  <1> SUFFICES ASSUME PInv, NEW s \in Sweepers PROVE Accounts[s] \in Nat
    BY DEF AccountsTyped
  <1>1. /\ sweeper[s].total \in Nat /\ sweeper[s].found \in Nat
        /\ sweeper[s].missed \in Nat
    BY DEF PInv, SweeperTyped
  <1> QED
    BY <1>1 DEF Accounts

(* The reports of every sweeper's step.                                    *)
LEMMA BooksBalance ==
  ASSUME BInv, IsFiniteSet(DOMAIN ledger), ReportsAddUp, AccountsTyped, AccountsTyped',
         NEW s \in Sweepers, Books(s)
  PROVE  ReportsAddUp'
  <1>1. IsFiniteSet(SweptRows) /\ \A now : IsFiniteSet(ExpiredRows(now))
    BY FS_Subset DEF SweptRows, ExpiredRows
  <1>2. Summable(Accounts, Sweepers) /\ Summable(Accounts', Sweepers)
    BY SweeperAssumption DEF Summable, AccountsTyped
  <1>3. CASE UNCHANGED ledger /\ Accounts'[s] = Accounts[s]
    <2>1. \A u \in Sweepers : Accounts'[u] = Accounts[u]
      BY <1>3 DEF Books
    <2>2. SumFunctionOnSet(Accounts', Sweepers) = SumFunctionOnSet(Accounts, Sweepers)
      BY <1>2, <2>1, SumAgrees
    <2> QED
      BY <1>3, <2>2 DEF ReportsAddUp, SweptRows
  <1>4. ASSUME NEW now, SweepAt(now),
               Accounts'[s] = Accounts[s] + Cardinality(ExpiredRows(now))
        PROVE  ReportsAddUp'
    <2>1. /\ Cardinality(ExpiredRows(now)) \in Nat /\ Cardinality(SweptRows) \in Nat
          /\ Cardinality(SweptRows \cap ExpiredRows(now)) = 0
      BY <1>1, <1>4, SweepsMark, FS_CardinalityType, FS_EmptySet
    <2>2. Cardinality(SweptNext) = Cardinality(SweptRows) + Cardinality(ExpiredRows(now))
      <3>1. Cardinality(SweptRows \cup ExpiredRows(now))
              = Cardinality(SweptRows) + Cardinality(ExpiredRows(now))
                  - Cardinality(SweptRows \cap ExpiredRows(now))
        BY <1>1, FS_Union
      <3>2. SweptNext = SweptRows \cup ExpiredRows(now)
        BY <1>4, SweepsMark
      <3> QED
        BY <2>1, <3>1, <3>2
    <2>3. \A u \in Sweepers \ {s} : Accounts'[u] = Accounts[u]
      BY DEF Books
    <2>4. SumFunctionOnSet(Accounts', Sweepers)
            = SumFunctionOnSet(Accounts, Sweepers) + Cardinality(ExpiredRows(now))
      BY <1>2, <1>4, <2>1, <2>3, SumOfOneChange
    <2> QED
      BY <2>2, <2>4 DEF ReportsAddUp, SweptNext, SweptRows
  <1> QED
    BY <1>3, <1>4 DEF Books

LEMMA ReportStep ==
  ASSUME AnyLag, WInv, WInv', ReportsAddUp, [SweepNext]_sweepVars
  PROVE  ReportsAddUp'
  <1>1. AccountsTyped /\ AccountsTyped'
    <2>1. PInv /\ PInv'
      BY DEF WInv
    <2>2. PInv' => AccountsTyped'
      BY AccountsAreCounts, PTL
    <2> QED
      BY <2>1, <2>2, AccountsAreCounts
  <1>2. ASSUME SweptNext = SweptRows, UNCHANGED sweeper
        PROVE  ReportsAddUp'
    BY <1>2 DEF ReportsAddUp, SweptNext, SweptRows, Accounts
  <1>3. CASE UNCHANGED sweepVars
    BY <1>2, <1>3 DEF sweepVars, SweptNext, SweptRows
  <1>4. CASE CallerStep
    BY <1>2, <1>4, CallerSteps, CallersKeepMarks DEF WInv
  <1>5. ASSUME NEW s \in Sweepers, SweeperStep(s)
        PROVE  ReportsAddUp'
    <2>1. clock' = clock /\ clock \in Time
      BY <1>5, SweepersSweep DEF WInv, BInv, IInv, TablesTyped
    <2>2. Books(s)
      BY <1>5, <2>1, SweeperSteps DEF WInv, TInv
    <2> QED
      BY <1>1, <2>2, BooksBalance DEF WInv, TInv
  <1> QED
    BY <1>3, <1>4, <1>5 DEF SweepNext

(* Every row that the sweepers of all processes release is counted in the  *)
(* total of exactly one of them, or lost with the one answer it was in,    *)
(* however they race with each other and with late commits.                *)
THEOREM SweepReportsAddUp ==
  ASSUME AnyLag
  PROVE  SweepSpec => []ReportsAddUp
  <1>1. SweepInit => ReportsAddUp
    <2> SUFFICES ASSUME SweepInit PROVE ReportsAddUp
      OBVIOUS
    <2>1. SweptRows = {}
      BY DEF SweepInit, BudgetInit, Init, SweptRows
    <2>2. Cardinality(SweptRows) = 0
      BY <2>1, FS_EmptySet
    <2>3. \A s \in Sweepers : Accounts[s] = 0
      BY DEF SweepInit, Accounts
    <2>4. SumFunctionOnSet(Accounts, Sweepers) = 0
      BY <2>3, SweeperAssumption, SumOfNaturals
    <2> QED
      BY <2>2, <2>4 DEF ReportsAddUp
  <1>2. WInv /\ [SweepNext]_sweepVars => WInv'
    BY WholeStep
  <1>3. WInv /\ WInv' /\ ReportsAddUp /\ [SweepNext]_sweepVars => ReportsAddUp'
    BY ReportStep
  <1> QED
    BY <1>1, <1>2, <1>3, WholeInit, PTL DEF SweepSpec

================================================================================
