------------------------------- MODULE SweepLoop -------------------------------
(***************************************************************************)
(* sweep.py and cli.py (snipz sweep): the processes that release expired   *)
(* reservations, beside the callers of Budget.                             *)
(*                                                                         *)
(* A looping sweeper runs sweep_loop until it is stopped or cancelled; a   *)
(* one-shot sweeper, as a cron job starts it, runs sweep_once and exits.   *)
(* Several may run on one database. They replace Budget's own Sweep.       *)
(***************************************************************************)
EXTENDS Budget

CONSTANTS
  Looping,    \* the sweepers started with an interval
  OneShot     \* the sweepers started without one

VARIABLES
  sweeper,    \* sweeper -> where it is: [at, now, found, total, missed]
  stop        \* sweeper -> its stop event is set

Sweepers == Looping \cup OneShot

ASSUME SweeperAssumption == Looping \cap OneShot = {} /\ IsFiniteSet(Sweepers)

sweepVars == <<clock, limits, ledger, op, handle, answer, fired, sweeper, stop>>

callerVars == <<op, handle, answer, fired>>

At(s, where) == sweeper[s].at = where
Ended(s) == At(s, "exited") \/ At(s, "cancelled")

(* Out of the event loop: budget.close() and the process is gone.          *)
Leave(s) == sweeper' = [sweeper EXCEPT ![s].at = "exited", ![s].now = 0]

(* What follows an iteration, successful or not: back to sweep_loop, which *)
(* looks at stop; or the end of a one-shot, with exit code 0 or 1.         *)
(* missed counts, for the properties, the released rows that nobody reports*)
AfterIteration(s, counted, missed) ==
  sweeper' = [sweeper EXCEPT ![s].at = IF s \in Looping THEN "check" ELSE "exited",
                             ![s].now = 0, ![s].found = 0,
                             ![s].total = @ + counted, ![s].missed = @ + missed]

--------------------------------------------------------------------------------
(* One iteration: Budget.sweep.                                            *)

(* The clock is read before sweep_expired waits for its locks.             *)
ReadNow(s) ==
  /\ s \in Looping
  /\ At(s, "clock")
  /\ sweeper' = [sweeper EXCEPT ![s].at = "tx", ![s].now = clock]
  /\ UNCHANGED <<ledgerVars, stop>>

(* The transaction and its row count.                                      *)
SweepTx(s) ==
  /\ At(s, "tx")
  /\ SweepAt(sweeper[s].now)
  /\ sweeper' = [sweeper EXCEPT ![s].at = "answer", ![s].now = 0,
                   ![s].found = Cardinality(ExpiredRows(sweeper[s].now))]
  /\ UNCHANGED stop

(* The same in one step for a one-shot, on which no liveness depends.      *)
SweepOnce(s) ==
  /\ s \in OneShot
  /\ At(s, "clock")
  /\ \E now \in Recent :
       /\ SweepAt(now)
       /\ sweeper' = [sweeper EXCEPT ![s].at = "answer",
                        ![s].found = Cardinality(ExpiredRows(now))]
  /\ UNCHANGED stop

Counted(s) ==
  /\ At(s, "answer")
  /\ AfterIteration(s, sweeper[s].found, 0)
  /\ UNCHANGED <<ledgerVars, stop>>

(* Mutant of IterationFails: an error ends the loop as it ends sweep_once. *)
IterationFailsForGood(s) ==
  /\ At(s, "tx")
  /\ Leave(s)
  /\ UNCHANGED <<ledgerVars, stop>>

(* The database refuses: the error is logged, the loop goes on, a one-shot *)
(* ends. What the transaction did is rolled back.                          *)
IterationFails(s) ==
  /\ IF s \in Looping THEN At(s, "tx") ELSE At(s, "clock")
  /\ AfterIteration(s, 0, 0)
  /\ UNCHANGED <<ledgerVars, stop>>

(* The connection is lost after COMMIT: the same error, the rows released. *)
AnswerLost(s) ==
  /\ At(s, "answer")
  /\ AfterIteration(s, 0, sweeper[s].found)
  /\ UNCHANGED <<ledgerVars, stop>>

--------------------------------------------------------------------------------
(* Between iterations.                                                     *)

(* Mutant of CheckStop: the event is looked at only while waiting for it.  *)
CheckStopNever(s) ==
  /\ At(s, "check")
  /\ sweeper' = [sweeper EXCEPT ![s].at = "wait"]
  /\ UNCHANGED <<ledgerVars, stop>>

CheckStop(s) ==
  /\ At(s, "check")
  /\ IF stop[s] THEN Leave(s) ELSE sweeper' = [sweeper EXCEPT ![s].at = "wait"]
  /\ UNCHANGED <<ledgerVars, stop>>

WokenByStop(s) ==
  /\ At(s, "wait")
  /\ stop[s]
  /\ Leave(s)
  /\ UNCHANGED <<ledgerVars, stop>>

(* The interval is over; wait_for may time out although stop was just set. *)
IntervalOver(s) ==
  /\ At(s, "wait")
  /\ sweeper' = [sweeper EXCEPT ![s].at = "clock"]
  /\ UNCHANGED <<ledgerVars, stop>>

(* SIGINT or SIGTERM: the handler sets the event from outside the loop.    *)
Signal(s) ==
  /\ s \in Looping
  /\ ~stop[s] /\ ~Ended(s)
  /\ stop' = [stop EXCEPT ![s] = TRUE]
  /\ UNCHANGED <<ledgerVars, sweeper>>

(* The task is cancelled. Waiting, it swallows the cancellation and returns*)
(* its total; inside an iteration the cancellation goes through it. (SIGINT*)
(* in a one-shot does what an error does.)                                 *)
CancelSweeper(s) ==
  /\ s \in Looping
  /\ sweeper[s].at \in {"wait", "clock", "tx", "answer"}
  /\ sweeper' = [sweeper EXCEPT ![s].at = "cancelled", ![s].now = 0, ![s].found = 0,
                                ![s].missed = @ + sweeper[s].found]
  /\ UNCHANGED <<ledgerVars, stop>>

--------------------------------------------------------------------------------
SweepInit ==
  /\ BudgetInit
  /\ sweeper = [s \in Sweepers |->
                  [at |-> "clock", now |-> 0, found |-> 0, total |-> 0,
                   missed |-> 0]]
  /\ stop = [s \in Sweepers |-> FALSE]

Advance(s) ==
  \/ ReadNow(s) \/ SweepTx(s) \/ Counted(s) \/ IterationFails(s) \/ AnswerLost(s)
  \/ CheckStop(s) \/ WokenByStop(s) \/ IntervalOver(s)

SweeperStep(s) ==
  /\ SweepOnce(s) \/ Advance(s) \/ Signal(s) \/ CancelSweeper(s)
  /\ UNCHANGED callerVars

CallerStep ==
  /\ \/ \E t \in Tasks : Call(t) \/ Resume(t) \/ Abandon(t)
     \/ (SetSomeLimit \/ Tick) /\ UNCHANGED callerVars
  /\ UNCHANGED <<sweeper, stop>>

SweepNext == CallerStep \/ \E s \in Sweepers : SweeperStep(s)

SweepSpec == SweepInit /\ [][SweepNext]_sweepVars

(* The event loop of a sweeper runs what is ready. Database errors are     *)
(* transient: an iteration tried for ever is not refused for ever. Nothing *)
(* is assumed of the callers.                                              *)
FairSweepSpec ==
  /\ SweepSpec
  /\ \A s \in Looping :
       /\ WF_sweepVars(Advance(s) /\ UNCHANGED callerVars)
       /\ SF_sweepVars(SweepTx(s) /\ UNCHANGED callerVars)

--------------------------------------------------------------------------------
(* Properties.                                                             *)

(* The money of a reservation that nobody settles comes back: a loop that  *)
(* nobody stops or cancels survives the errors of its iterations and gets  *)
(* to it, however it races with other sweepers and with late settlements   *)
(* (sweep_loop).                                                           *)
AbandonedBudgetReturns ==
  \A r \in Callers :
    (RowsOf(r) \cap ExpiredRows(clock) # {}) ~>
      \/ RowsOf(r) \cap ExpiredRows(clock) = {}
      \/ \A s \in Looping : stop[s] \/ At(s, "cancelled")

(* A signal ends the loop, wherever it catches it and even if the interval *)
(* ends at the same moment (sweep_loop; _install_sweep_signal_handlers).   *)
SignalEndsTheLoop == \A s \in Looping : stop[s] ~> Ended(s)

(* The rows that some sweep has released: the flag outlives a late commit. *)
SweptRows == {id \in DOMAIN ledger : ledger[id].late}

(* The rows that each sweeper has released, reported or not.               *)
Accounts == [s \in Sweepers |-> sweeper[s].total + sweeper[s].found + sweeper[s].missed]

(* What the sweepers report adds up: every row released is in the total of *)
(* exactly one of them, unless the answer of that iteration was lost or    *)
(* cancelled (sweep_loop's cumulative count, printed by snipz sweep).      *)
ReportsAddUp == Cardinality(SweptRows) = SumFunctionOnSet(Accounts, Sweepers)

================================================================================
