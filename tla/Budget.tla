-------------------------------- MODULE Budget --------------------------------
(***************************************************************************)
(* core.py: the coroutines Budget.reserve and Reservation.observe, commit, *)
(* release and __aexit__, run by concurrent tasks over the ledger.         *)
(*                                                                         *)
(* A coroutine is cut where it awaits: before its transaction, between the *)
(* transaction and the code after it, and around the two queries of        *)
(* reserve. A handle is a Reservation object: the view of a reservation    *)
(* that one caller holds, which the database may have overtaken.           *)
(***************************************************************************)
EXTENDS Ledger

CONSTANTS
  Callers,    \* the tasks that reserve; others use a handle shared with them
  Calls,      \* bound: the calls of reserve [scopes, est, request, ttl]
  Sharing,    \* the pairs <<t, u>> such that t also uses the handle of u
  NoHandle    \* reserve has returned no Reservation object yet

VARIABLES
  op,         \* task -> the coroutine it is in, and where
  handle,     \* task -> the Reservation object its reserve returned
  answer,     \* task -> how its last reserve, or its last commit, ended
  fired       \* event -> reservation -> how often it was fired

budgetVars == <<clock, limits, ledger, op, handle, answer, fired>>

(* A task inserts one group of rows at most; the group's id is its name.   *)
Tasks == Reservations

ASSUME BudgetAssumption ==
  /\ Callers \subseteq Tasks
  /\ Calls \subseteq [scopes : Requests, est : Estimates,
                      request : RequestIds \cup {NoRequest}, ttl : TTLs]
  /\ Sharing \subseteq Tasks \X Tasks

EventNames == {"reserved", "committed", "released", "overrun"}
Answers == {"none", "reservation", "exceeded", "conflict", "settled", "invalid"}

Idle == [name |-> "idle"]
Gone == [name |-> "gone"]

In(t, name, at) == op[t].name = name /\ op[t].at = at
Goto(t, at) == op' = [op EXCEPT ![t].at = at]
Finish(t, how) ==
  /\ op' = [op EXCEPT ![t] = Idle]
  /\ answer' = [answer EXCEPT ![t] = how]

(* EventDispatcher.fire: handlers cannot raise into the caller.            *)
Fire(events, r) ==
  fired' = [e \in EventNames |->
              IF e \in events THEN [fired[e] EXCEPT ![r] = @ + 1] ELSE fired[e]]

ledgerVars == <<clock, limits, ledger>>

--------------------------------------------------------------------------------
(* Budget.reserve.                                                         *)

(* Without a request_id there is no pre-check.                             *)
CallReserve(t, call) ==
  /\ t \in Callers
  /\ op[t] = Idle
  /\ handle[t] = NoHandle
  /\ op' = [op EXCEPT ![t] =
              [name |-> "reserve", call |-> call, now |-> 0,
               at |-> IF call.request = NoRequest THEN "clock" ELSE "precheck"]]
  /\ UNCHANGED <<ledgerVars, handle, answer, fired>>

(* Mutant of CachedHandle: a duplicate that claims to be the original.     *)
CachedAsCreated(id) ==
  LET row == ledger[id]
  IN  [id |-> id[1], est |-> FromMicros(row.est),
       actual |-> IF row.actual = NoCost THEN NoCost ELSE FromMicros(row.actual),
       state |-> row.state, late |-> row.late, request |-> row.request,
       created |-> TRUE]

(* The Reservation built from the rows of find_by_request_id.              *)
CachedHandle(id) ==
  LET row == ledger[id]
  IN  [id |-> id[1], est |-> FromMicros(row.est),
       actual |-> IF row.actual = NoCost THEN NoCost ELSE FromMicros(row.actual),
       state |-> row.state, late |-> row.late, request |-> row.request,
       created |-> FALSE]

RowsFor(request) == {id \in DOMAIN ledger : ledger[id].request = request}

(* Mutant of ReturnCached: the duplicate is announced again.               *)
ReturnCachedAnnounced(t) ==
  /\ \E id \in RowsFor(op[t].call.request) :
       /\ handle' = [handle EXCEPT ![t] = CachedHandle(id)]
       /\ Fire({"reserved"}, id[1])
  /\ Finish(t, "reservation")
  /\ UNCHANGED ledgerVars

(* _reservation_by_request_id finds the group: return it as a duplicate.   *)
ReturnCached(t) ==
  /\ \E id \in RowsFor(op[t].call.request) :
       handle' = [handle EXCEPT ![t] = CachedHandle(id)]
  /\ Finish(t, "reservation")
  /\ UNCHANGED <<ledgerVars, fired>>

PreCheck(t) ==
  /\ In(t, "reserve", "precheck")
  /\ IF RowsFor(op[t].call.request) # {}
     THEN ReturnCached(t)
     ELSE Goto(t, "clock") /\ UNCHANGED <<ledgerVars, handle, answer, fired>>

(* The clock is read before the transaction is waited for.                 *)
ReadClock(t) ==
  /\ In(t, "reserve", "clock")
  /\ op' = [op EXCEPT ![t].now = clock, ![t].at = "tx"]
  /\ UNCHANGED <<ledgerVars, handle, answer, fired>>

(* Mutant of ReserveTx: BudgetExceededError is swallowed.                  *)
ReserveTxAnyway(t) ==
  LET call == op[t].call
  IN  /\ In(t, "reserve", "tx")
      /\ \/ Reserve(t, call.scopes, call.est, call.request, op[t].now, call.ttl)
         \/ ~Fits(call.scopes, call.est, op[t].now) /\ UNCHANGED ledgerVars
      /\ Goto(t, "return")
      /\ UNCHANGED <<handle, answer, fired>>

(* The transaction of _reserve_tx: rows, or BudgetExceededError, or the    *)
(* conflict on request_id; either error rolls it back.                     *)
ReserveTx(t) ==
  LET call == op[t].call
      fits == Fits(call.scopes, call.est, op[t].now)
  IN  /\ In(t, "reserve", "tx")
      /\ \/ /\ Reserve(t, call.scopes, call.est, call.request, op[t].now, call.ttl)
            /\ Goto(t, "return")
            /\ UNCHANGED answer
         \/ /\ ~fits
            /\ Finish(t, "exceeded")
            /\ UNCHANGED ledgerVars
         \/ /\ fits
            /\ Conflicts(call.scopes, call.request)
            /\ Goto(t, "requery")
            /\ UNCHANGED <<ledgerVars, answer>>
      /\ UNCHANGED <<handle, fired>>

ReserveReturn(t) ==
  /\ In(t, "reserve", "return")
  /\ handle' = [handle EXCEPT ![t] =
                  [id |-> t, est |-> op[t].call.est, actual |-> NoCost,
                   state |-> "reserved", late |-> FALSE,
                   request |-> op[t].call.request, created |-> TRUE]]
  /\ Finish(t, "reservation")
  /\ Fire({"reserved"}, t)
  /\ UNCHANGED ledgerVars

(* Mutant of Requery: the unique violation is re-raised without looking.   *)
RequeryNothing(t) ==
  /\ In(t, "reserve", "requery")
  /\ Finish(t, "conflict")
  /\ UNCHANGED <<ledgerVars, handle, fired>>

(* After the conflict: converge on the rows that won, or re-raise.         *)
Requery(t) ==
  /\ In(t, "reserve", "requery")
  /\ IF RowsFor(op[t].call.request) # {}
     THEN ReturnCached(t)
     ELSE Finish(t, "conflict") /\ UNCHANGED <<ledgerVars, handle, fired>>

--------------------------------------------------------------------------------
(* The methods of a Reservation. A call that raises before its transaction *)
(* changes nothing and is not a step.                                      *)

MayUse(t, h) == (t = h \/ <<t, h>> \in Sharing) /\ handle[h] # NoHandle

Begin(t, h, name, cost) ==
  /\ op[t] = Idle
  /\ MayUse(t, h)
  /\ op' = [op EXCEPT ![t] = [name |-> name, at |-> "tx", on |-> h, cost |-> cost,
                              landed |-> FALSE, late |-> FALSE]]
  /\ UNCHANGED <<ledgerVars, handle, answer, fired>>

BeginObserve(t, h, cost) ==
  /\ Begin(t, h, "observe", cost)
  /\ handle[h].state = "reserved"

(* The cost of a commit that names none: last observed, or the estimate.   *)
DefaultCost(h) == IF handle[h].actual # NoCost THEN handle[h].actual ELSE handle[h].est

BeginCommit(t, h, cost) ==
  /\ Begin(t, h, "commit", IF cost = NoCost THEN DefaultCost(h) ELSE cost)
  /\ \/ handle[h].state = "reserved"
     \/ handle[h].state = "released" /\ handle[h].late

BeginRelease(t, h) ==
  /\ Begin(t, h, "release", 0)
  /\ handle[h].state = "reserved"

(* __aexit__: commit when the block ended well, release when it raised.    *)
Exit(t, raised) ==
  /\ Begin(t, t, IF raised THEN "release" ELSE "commit",
           IF raised THEN 0 ELSE DefaultCost(t))
  /\ handle[t].state = "reserved"

ObserveTx(t) ==
  /\ In(t, "observe", "tx")
  /\ Observe(handle[op[t].on].id, op[t].cost)
  /\ Goto(t, "return")
  /\ UNCHANGED <<handle, answer, fired>>

ObserveReturn(t) ==
  /\ In(t, "observe", "return")
  /\ handle' = [handle EXCEPT ![op[t].on].actual = op[t].cost]
  /\ op' = [op EXCEPT ![t] = Idle]
  /\ UNCHANGED <<ledgerVars, answer, fired>>

(* _commit; CommitOutcome is kept in landed and late.                      *)
CommitTx(t) ==
  LET r == handle[op[t].on].id
      normal == RowsIn(r, "reserved") # {}
      late == ~normal /\ LapsedRows(r) # {}
  IN  /\ In(t, "commit", "tx")
      /\ Commit(r, op[t].cost)
      /\ op' = [op EXCEPT ![t].at = "return", ![t].landed = normal \/ late,
                          ![t].late = late]
      /\ UNCHANGED <<handle, answer, fired>>

(* Mutants of CommitReturn: the outcome of the commit is not looked at;    *)
(* its lateness is dropped.                                                *)
CommitReturnUnchecked(t) ==
  LET h == op[t].on
  IN  /\ In(t, "commit", "return")
      /\ handle' = [handle EXCEPT ![h].state = "committed", ![h].actual = op[t].cost,
                                  ![h].late = @ \/ op[t].late]
      /\ Goto(t, "announce")
      /\ UNCHANGED <<ledgerVars, answer, fired>>

CommitReturnOnTime(t) ==
  LET h == op[t].on
  IN  /\ In(t, "commit", "return")
      /\ IF op[t].landed
         THEN /\ handle' = [handle EXCEPT ![h].state = "committed",
                                          ![h].actual = op[t].cost]
              /\ Goto(t, "announce")
              /\ UNCHANGED answer
         ELSE Finish(t, "invalid") /\ UNCHANGED handle
      /\ UNCHANGED <<ledgerVars, fired>>

(* No row affected raises InvalidStateError; else the handle is committed, *)
(* and the overrun handlers of a late commit are awaited first.            *)
CommitReturn(t) ==
  LET h == op[t].on
  IN  /\ In(t, "commit", "return")
      /\ IF op[t].landed
         THEN /\ handle' = [handle EXCEPT ![h].state = "committed",
                                          ![h].actual = op[t].cost,
                                          ![h].late = @ \/ op[t].late]
              /\ Fire(IF op[t].late THEN {"overrun"} ELSE {}, handle[h].id)
              /\ Goto(t, "announce")
              /\ UNCHANGED answer
         ELSE Finish(t, "invalid") /\ UNCHANGED <<handle, fired>>
      /\ UNCHANGED ledgerVars

CommitAnnounce(t) ==
  /\ In(t, "commit", "announce")
  /\ Fire({"committed"}, handle[op[t].on].id)
  /\ Finish(t, "settled")
  /\ UNCHANGED <<ledgerVars, handle>>

(* Mutant of ReleaseTx: the caller's release is marked as the sweeper's.   *)
ReleaseTxAsSwept(t) ==
  /\ In(t, "release", "tx")
  /\ Update(RowsIn(handle[op[t].on].id, "reserved"), LAMBDA row : Lapsed(row))
  /\ Goto(t, "return")
  /\ UNCHANGED <<handle, answer, fired>>

ReleaseTx(t) ==
  /\ In(t, "release", "tx")
  /\ Release(handle[op[t].on].id)
  /\ Goto(t, "return")
  /\ UNCHANGED <<handle, answer, fired>>

(* The number of rows released is not looked at.                           *)
ReleaseReturn(t) ==
  LET h == op[t].on
  IN  /\ In(t, "release", "return")
      /\ handle' = [handle EXCEPT ![h].state = "released"]
      /\ Fire({"released"}, handle[h].id)
      /\ op' = [op EXCEPT ![t] = Idle]
      /\ UNCHANGED <<ledgerVars, answer>>

--------------------------------------------------------------------------------
(* A coroutine is cancelled at an await, or its process dies: what its     *)
(* transaction did stays, what would follow does not happen.               *)
Abandon(t) ==
  /\ op[t] \notin {Idle, Gone}
  /\ op' = [op EXCEPT ![t] = Gone]
  /\ UNCHANGED <<ledgerVars, handle, answer, fired>>

(* Budget.set_limit and Budget.sweep are one transaction each.             *)
Elsewhere ==
  /\ SetSomeLimit \/ Sweep \/ Tick
  /\ UNCHANGED <<op, handle, answer, fired>>

BudgetInit ==
  /\ Init
  /\ op = [t \in Tasks |-> Idle]
  /\ handle = [t \in Tasks |-> NoHandle]
  /\ answer = [t \in Tasks |-> "none"]
  /\ fired = [e \in EventNames |-> [r \in Reservations |-> 0]]

Call(t) ==
  \/ \E call \in Calls : CallReserve(t, call)
  \/ \E h \in Tasks :
       \/ \E cost \in Costs : BeginObserve(t, h, cost)
       \/ \E cost \in Costs \cup {NoCost} : BeginCommit(t, h, cost)
       \/ BeginRelease(t, h)
  \/ \E raised \in BOOLEAN : Exit(t, raised)

Resume(t) ==
  \/ PreCheck(t) \/ ReadClock(t) \/ ReserveTx(t) \/ ReserveReturn(t) \/ Requery(t)
  \/ ObserveTx(t) \/ ObserveReturn(t)
  \/ CommitTx(t) \/ CommitReturn(t) \/ CommitAnnounce(t)
  \/ ReleaseTx(t) \/ ReleaseReturn(t)

BudgetNext ==
  \/ \E t \in Tasks : Call(t) \/ Resume(t) \/ Abandon(t)
  \/ Elsewhere

BudgetSpec == BudgetInit /\ [][BudgetNext]_budgetVars

--------------------------------------------------------------------------------
(* Properties.                                                             *)

Handle == [id : Reservations, est : Nat, actual : Nat \cup {NoCost},
           state : {"reserved", "committed", "released"}, late : BOOLEAN,
           request : RequestIds \cup {NoRequest}, created : BOOLEAN]

ASSUME HandleAssumption == NoHandle \notin Handle

(* Handles refer to rows that exist, and so do the calls under way on them.*)
BudgetTypeOK ==
  /\ TypeOK
  /\ \A t \in Tasks :
       /\ answer[t] \in Answers
       /\ handle[t] # NoHandle =>
            handle[t] \in Handle /\ RowsOf(handle[t].id) # {}
       /\ op[t].name \in {"observe", "commit", "release"} =>
            handle[op[t].on] # NoHandle
  /\ fired \in [EventNames -> [Reservations -> Nat]]

(* The coroutines change the tables only as the transactions of Ledger do: *)
(* what holds of Ledger holds of every interleaving of callers.            *)
ImplementsLedger == Spec

(* However many callers race on one request_id, through the pre-check, the *)
(* unique index and the re-query, they all hold the same reservation and   *)
(* at most one is told to go and spend (Reservation.created).              *)
PaidOnce ==
  \A t, u \in Tasks :
    /\ handle[t] # NoHandle /\ handle[u] # NoHandle
    /\ handle[t].request = handle[u].request
    /\ handle[t].request # NoRequest
    => /\ handle[t].id = handle[u].id
       /\ handle[t].created /\ handle[u].created => t = u

(* A handle that says committed tells the truth, and says late exactly     *)
(* when the sweeper had been first, whoever else settles the reservation   *)
(* between the transaction and the handle's update (Reservation.commit).   *)
CommittedHandlesAreTrue ==
  \A t \in Tasks :
    handle[t] # NoHandle /\ handle[t].state = "committed" =>
      Phase(handle[t].id) = IF handle[t].late THEN "committedLate" ELSE "committed"

(* A committed handle shows the amount that the ledger charges, whichever  *)
(* of the callers that share the reservation named it (Reservation.commit; *)
(* a handle used by one task at a time).                                   *)
CommittedHandlesShowTheCharge ==
  \A t \in Tasks :
    handle[t] # NoHandle /\ handle[t].state = "committed" =>
      \A id \in RowsOf(handle[t].id) : ledger[id].actual = ToMicros(handle[t].actual)

(* Listeners may add up the events: a reservation is announced as reserved *)
(* and as committed at most once, as committed only if the ledger charges  *)
(* it, as an overrun only if that charge was late, and a late charge as an *)
(* overrun before it is announced as committed.                            *)
EventsMatchLedger ==
  \A r \in Reservations :
    /\ fired["reserved"][r] <= 1
    /\ fired["committed"][r] <= 1
    /\ fired["committed"][r] = 1 => Phase(r) \in {"committed", "committedLate"}
    /\ fired["overrun"][r] <= 1
    /\ fired["overrun"][r] = 1 => Phase(r) = "committedLate"
    /\ fired["committed"][r] = 1 /\ Phase(r) = "committedLate" => fired["overrun"][r] = 1

(* The unique violation on request_id is always recovered by the re-query, *)
(* never surfaced to the caller of reserve (protocol section 10).          *)
ConflictsConverge == \A t \in Tasks : answer[t] # "conflict"

================================================================================
