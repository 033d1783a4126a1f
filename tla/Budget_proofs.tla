----------------------------- MODULE Budget_proofs -----------------------------
(***************************************************************************)
(* Theorems about Budget, for every set of tasks, calls and shared         *)
(* handles: which rows and handles there are for a request_id, what the    *)
(* handles and events say of the ledger, and that every step is one        *)
(* transaction of Ledger or none.                                          *)
(***************************************************************************)
EXTENDS Budget, Ledger_proofs

Requesting ==
  [name : {"reserve"}, call : Calls, now : Time,
   at : {"precheck", "clock", "tx", "return", "requery"}]

Using ==
  [name : {"observe", "commit", "release"}, at : {"tx", "return", "announce"},
   on : Tasks, cost : Nat, landed : BOOLEAN, late : BOOLEAN]

TasksTyped ==
  /\ op \in [Tasks -> {Idle, Gone} \cup Requesting \cup Using]
  /\ handle \in [Tasks -> Handle \cup {NoHandle}]

(* A coroutine works on a handle that some reserve has returned.           *)
UsesHandles == \A t \in Tasks : op[t] \in Using => handle[op[t].on] # NoHandle

(* A request_id is in the table once.                                      *)
UniqueRequests ==
  \A id, other \in DOMAIN ledger :
    ledger[id].request = ledger[other].request /\ ledger[id].request # NoRequest
      => id = other

HasRow(r, request) == \E id \in RowsOf(r) : ledger[id].request = request

(* A handle carries the request_id of the rows it stands for; one that     *)
(* says created stands for the rows that its own task inserted.            *)
HandlesHaveRows ==
  \A t \in Tasks : handle[t] # NoHandle =>
    /\ HasRow(handle[t].id, handle[t].request)
    /\ handle[t].created => handle[t].id = t

(* What the transaction of reserve leaves for the code after it.           *)
OutcomesHold ==
  \A t \in Tasks :
    In(t, "reserve", "return") => HasRow(t, op[t].call.request)

BInv ==
  IInv /\ TasksTyped /\ UsesHandles /\ UniqueRequests /\ HandlesHaveRows /\ OutcomesHold

--------------------------------------------------------------------------------
(* What the transactions do to request_ids.                                *)

(* Rows stay, with their request_ids, ...                                  *)
RowsStay ==
  \A id \in DOMAIN ledger :
    id \in DOMAIN ledger' /\ ledger'[id].request = ledger[id].request

(* ... and only reserve adds any.                                          *)
RowsOnlyChange == RowsStay /\ DOMAIN ledger' = DOMAIN ledger

LEMMA UpdatesOnlyChange ==
  ASSUME IInv
  PROVE  /\ \A r, cost : Observe(r, cost) => RowsOnlyChange
         /\ \A r, cost : Commit(r, cost) => RowsOnlyChange
         /\ \A r : Release(r) => RowsOnlyChange
         /\ \A now : SweepAt(now) => RowsOnlyChange
  <1>1. \A id \in DOMAIN ledger : ledger[id] \in Row
    BY DEF IInv, TablesTyped, LedgerTyped
  <1>2. ASSUME NEW r, NEW cost, Observe(r, cost) PROVE RowsOnlyChange
    BY <1>1, <1>2 DEF Observe, Update, Observed, RowsOnlyChange, RowsStay, Row
  <1>3. ASSUME NEW r, NEW cost, Commit(r, cost) PROVE RowsOnlyChange
    BY <1>1, <1>3 DEF Commit, Update, Paid, PaidLate, RowsOnlyChange, RowsStay, Row
  <1>4. ASSUME NEW r, Release(r) PROVE RowsOnlyChange
    BY <1>1, <1>4 DEF Release, Update, Refunded, RowsOnlyChange, RowsStay, Row
  <1>5. ASSUME NEW now, SweepAt(now) PROVE RowsOnlyChange
    BY <1>1, <1>5 DEF SweepAt, Update, Lapsed, RowsOnlyChange, RowsStay, Row
  <1> QED
    BY <1>2, <1>3, <1>4, <1>5

LEMMA OnlyChangeKeepsUnique ==
  ASSUME UniqueRequests, RowsOnlyChange
  PROVE  UniqueRequests'
  BY DEF UniqueRequests, RowsOnlyChange, RowsStay

(* HasRow after a step.                                                    *)
WillHaveRow(r, request) ==
  \E id \in DOMAIN ledger' : id[1] = r /\ ledger'[id].request = request

LEMMA StayKeepsRows ==
  ASSUME RowsStay, NEW r, NEW request, HasRow(r, request)
  PROVE  WillHaveRow(r, request)
  BY DEF RowsStay, HasRow, RowsOf, WillHaveRow

(* The unique index: a request_id that is inserted was not in the table,   *)
(* and is inserted with one row.                                           *)
LEMMA ReserveKeepsUnique ==
  ASSUME BInv, NEW r \in Reservations, NEW scopes \in Requests, NEW est, NEW request,
         NEW now, NEW ttl, Reserve(r, scopes, est, request, now, ttl)
  PROVE  UniqueRequests' /\ RowsStay /\ WillHaveRow(r, request)
  <1> DEFINE new == NewRows(r, scopes, est, request, now, ttl)
  <1>1. /\ DOMAIN scopes \subseteq Nat \ {0} /\ 1 \in DOMAIN scopes
        /\ DOMAIN scopes = 1..Len(scopes) /\ Len(scopes) \in Nat
    BY RequestsAreTuples, LedgerAssumption
  <1>2. /\ DOMAIN new = {r} \X DOMAIN scopes
        /\ \A id \in DOMAIN new : new[id].request = request
    BY DEF NewRows, NewRow
  <1> HIDE DEF new
  <1>3. \A id \in DOMAIN ledger : id \notin DOMAIN new
    BY <1>2 DEF Reserve, RowsOf
  <1>4. /\ DOMAIN ledger' = DOMAIN ledger \cup DOMAIN new
        /\ \A id \in DOMAIN new : ledger'[id].request = request
        /\ \A id \in DOMAIN ledger : ledger'[id] = ledger[id]
    <2>1. ledger' = [id \in DOMAIN ledger \cup DOMAIN new |->
                       IF id \in DOMAIN new THEN new[id] ELSE ledger[id]]
      BY DEF Reserve, new
    <2> QED
      BY <1>2, <1>3, <2>1
  <1>5. <<r, 1>> \in DOMAIN new
    BY <1>1, <1>2
  <1>6. WillHaveRow(r, request)
    BY <1>4, <1>5 DEF WillHaveRow
  <1>7. request # NoRequest =>
          /\ Len(scopes) = 1
          /\ \A id \in DOMAIN ledger : ledger[id].request # request
    <2>1. ~Conflicts(scopes, request)
      BY DEF Reserve
    <2> QED
      BY <1>1, <2>1 DEF Conflicts
  <1>8. request # NoRequest => DOMAIN new = {<<r, 1>>}
    <2>1. request # NoRequest => DOMAIN scopes = {1}
      BY <1>1, <1>7
    <2> QED
      BY <1>2, <2>1
  <1>9. UniqueRequests'
    <2> SUFFICES ASSUME NEW id \in DOMAIN ledger', NEW other \in DOMAIN ledger',
                        ledger'[id].request = ledger'[other].request,
                        ledger'[id].request # NoRequest
                 PROVE  id = other
      BY DEF UniqueRequests
    <2>1. CASE id \in DOMAIN ledger /\ other \in DOMAIN ledger
      BY <1>4, <2>1 DEF BInv, UniqueRequests
    <2>2. CASE id \in DOMAIN new /\ other \in DOMAIN new
      BY <1>4, <1>8, <2>2
    <2>3. CASE id \in DOMAIN ledger /\ other \in DOMAIN new
      BY <1>4, <1>7, <2>3
    <2>4. CASE id \in DOMAIN new /\ other \in DOMAIN ledger
      BY <1>4, <1>7, <2>4
    <2> QED
      BY <1>4, <2>1, <2>2, <2>3, <2>4
  <1> QED
    BY <1>4, <1>6, <1>9 DEF RowsStay

--------------------------------------------------------------------------------
(* What a step of one task has to show.                                    *)
Ops == {Idle, Gone} \cup Requesting \cup Using

(* The operation of t becomes o ...                                        *)
Becomes(t, o) ==
  /\ op' = [op EXCEPT ![t] = o]
  /\ o \in Ops
  /\ o \in Using => handle[o.on] # NoHandle
  /\ o \in Requesting /\ o.at = "return" => WillHaveRow(t, o.call.request)

(* ... and the handle h becomes v.                                         *)
Updates(h, v) ==
  /\ handle' = [handle EXCEPT ![h] = v]
  /\ v \in Handle
  /\ HasRow(v.id, v.request)
  /\ v.created => v.id = h

LEMMA SameTables ==
  ASSUME BInv, UNCHANGED ledgerVars
  PROVE  IInv' /\ RowsStay /\ UniqueRequests'
  <1> USE DEF ledgerVars
  <1>1. IInv'
    BY DEF BInv, IInv, TablesTyped, LedgerTyped, LimitsTyped, GroupsAgree
  <1> QED
    BY <1>1 DEF BInv, RowsStay, UniqueRequests

LEMMA Ordinary ==
  ASSUME NEW o \in Ops
  PROVE  /\ o.name = "reserve" => o \in Requesting
         /\ o.name \in {"observe", "commit", "release"} => o \in Using
         /\ o \in Requesting => o \notin Using
  BY DEF Ops, Idle, Gone, Requesting, Using

(* A step that leaves the handles alone.                                   *)
LEMMA OpStep ==
  ASSUME BInv, IInv', RowsStay, UniqueRequests', UNCHANGED handle,
         NEW t \in Tasks, NEW o, Becomes(t, o)
  PROVE  BInv'
  <1>1. TasksTyped'
    BY DEF BInv, TasksTyped, Becomes, Ops
  <1>2. op' = [op EXCEPT ![t] = o] /\ op \in [Tasks -> Ops] /\ op' \in [Tasks -> Ops]
    BY <1>1 DEF BInv, TasksTyped, Becomes, Ops
  <1>3. UsesHandles'
    BY <1>2 DEF BInv, UsesHandles, Becomes
  <1>4. HandlesHaveRows'
    <2>1. ASSUME NEW u \in Tasks, handle[u] # NoHandle
          PROVE  WillHaveRow(handle[u].id, handle[u].request)
      BY <2>1, StayKeepsRows DEF BInv, HandlesHaveRows
    <2> QED
      BY <2>1 DEF BInv, HandlesHaveRows, WillHaveRow, HasRow, RowsOf
  <1>5. ASSUME NEW u \in Tasks, op'[u].name = "reserve", op'[u].at = "return"
        PROVE  WillHaveRow(u, op'[u].call.request)
    <2>1. CASE u = t
      <3>1. op'[u] = o /\ o \in Ops
        BY <1>2, <2>1
      <3> QED
        BY <1>5, <2>1, <3>1, Ordinary DEF Becomes
    <2>2. CASE u # t
      <3>1. op'[u] = op[u]
        BY <1>2, <2>2
      <3>2. HasRow(u, op[u].call.request)
        BY <1>5, <3>1 DEF BInv, OutcomesHold, In
      <3> QED
        BY <3>1, <3>2, StayKeepsRows
    <2> QED
      BY <2>1, <2>2
  <1>6. OutcomesHold'
    BY <1>5 DEF OutcomesHold, In, WillHaveRow, HasRow, RowsOf
  <1> QED
    BY <1>1, <1>3, <1>4, <1>6 DEF BInv

(* A step that leaves the tables alone and makes or changes one handle.    *)
LEMMA HandleStep ==
  ASSUME BInv, UNCHANGED ledgerVars,
         NEW t \in Tasks, NEW o, Becomes(t, o), o \notin Requesting,
         NEW h \in Tasks, NEW v, Updates(h, v)
  PROVE  BInv'
  <1>1. IInv' /\ UniqueRequests' /\ ledger' = ledger
    BY SameTables DEF ledgerVars
  <1>2. TasksTyped'
    BY DEF BInv, TasksTyped, Becomes, Updates, Ops
  <1>3. op' = [op EXCEPT ![t] = o] /\ op \in [Tasks -> Ops] /\ op' \in [Tasks -> Ops]
    BY <1>2 DEF BInv, TasksTyped, Becomes, Ops
  <1>4. \A u \in Tasks : handle'[u] = IF u = h THEN v ELSE handle[u]
    BY DEF Updates, BInv, TasksTyped
  <1>5. v # NoHandle
    BY HandleAssumption DEF Updates
  <1>6. UsesHandles'
    <2> SUFFICES ASSUME NEW u \in Tasks, op'[u] \in Using
                 PROVE  handle'[op'[u].on] # NoHandle
      BY DEF UsesHandles
    <2>1. op'[u].on \in Tasks
      BY DEF Using
    <2>2. handle[op'[u].on] # NoHandle
      BY <1>3 DEF BInv, UsesHandles, Becomes
    <2> QED
      BY <1>4, <1>5, <2>1, <2>2
  <1>7. HandlesHaveRows'
    BY <1>1, <1>4 DEF BInv, HandlesHaveRows, Updates, HasRow, RowsOf
  <1>8. OutcomesHold'
    <2>1. ASSUME NEW u \in Tasks, op'[u].name = "reserve", op'[u].at = "return"
          PROVE  WillHaveRow(u, op'[u].call.request)
      <3>1. u # t
        BY <1>3, <2>1, Ordinary DEF Becomes
      <3>2. op'[u] = op[u]
        BY <1>3, <3>1
      <3>3. HasRow(u, op[u].call.request)
        BY <2>1, <3>2 DEF BInv, OutcomesHold, In
      <3> QED
        BY <1>1, <3>2, <3>3 DEF HasRow, RowsOf, WillHaveRow
    <2> QED
      BY <2>1 DEF OutcomesHold, In, WillHaveRow, HasRow, RowsOf
  <1> QED
    BY <1>1, <1>2, <1>6, <1>7, <1>8 DEF BInv

--------------------------------------------------------------------------------
(* The steps of reserve.                                                   *)

(* A coroutine goes on; the tables may have gained rows.                   *)
LEMMA GoesOn ==
  ASSUME BInv, NEW t \in Tasks, NEW at, Goto(t, at),
         \/ op[t] \in Requesting /\ at \in {"clock", "tx", "requery"}
         \/ op[t] \in Using /\ at \in {"tx", "return", "announce"}
  PROVE  Becomes(t, [op[t] EXCEPT !.at = at])
  <1>1. op' = [op EXCEPT ![t] = [op[t] EXCEPT !.at = at]]
    BY DEF Goto
  <1>2. CASE op[t] \in Requesting /\ at \in {"clock", "tx", "requery"}
    <2>1. /\ [op[t] EXCEPT !.at = at] \in Requesting
          /\ [op[t] EXCEPT !.at = at].at # "return"
      BY <1>2 DEF Requesting
    <2> QED
      BY <1>1, <2>1, Ordinary DEF Becomes, Ops
  <1>3. CASE op[t] \in Using /\ at \in {"tx", "return", "announce"}
    <2>1. /\ [op[t] EXCEPT !.at = at] \in Using
          /\ [op[t] EXCEPT !.at = at].on = op[t].on
      BY <1>3 DEF Using
    <2>2. handle[op[t].on] # NoHandle
      BY <1>3 DEF BInv, UsesHandles
    <2> QED
      BY <1>1, <2>1, <2>2, Ordinary DEF Becomes, Ops
  <1> QED
    BY <1>2, <1>3

LEMMA Finishes ==
  ASSUME NEW t \in Tasks, op' = [op EXCEPT ![t] = Idle]
  PROVE  Becomes(t, Idle) /\ Idle \notin Requesting
  BY DEF Becomes, Ops, Idle, Requesting, Using

LEMMA OpTyped ==
  ASSUME BInv, NEW t \in Tasks
  PROVE  /\ op[t].name = "reserve" => op[t] \in Requesting
         /\ op[t].name \in {"observe", "commit", "release"} => op[t] \in Using
  BY Ordinary DEF BInv, TasksTyped, Ops

(* The handle of a duplicate stands for the rows that were found.          *)
LEMMA CachedHandleTyped ==
  ASSUME BInv, NEW id \in DOMAIN ledger
  PROVE  /\ CachedHandle(id) \in Handle
         /\ HasRow(CachedHandle(id).id, CachedHandle(id).request)
         /\ ~CachedHandle(id).created
  <1>1. /\ ledger[id] \in Row /\ id \in RowIds
    BY DEF BInv, IInv, TablesTyped, LedgerTyped
  <1>2. \A micros \in Nat : FromMicros(micros) \in Nat
    BY QuantumAssumption DEF FromMicros
  <1>3. FromMicros(ledger[id].est) \in Nat
    BY <1>1, <1>2 DEF Row
  <1>4. (IF ledger[id].actual = NoCost THEN NoCost ELSE FromMicros(ledger[id].actual))
          \in Nat \cup {NoCost}
    BY <1>1, <1>2 DEF Row
  <1>5. CachedHandle(id) \in Handle
    BY <1>1, <1>3, <1>4 DEF CachedHandle, Handle, Row, RowIds
  <1>6. /\ CachedHandle(id).id = id[1]
        /\ CachedHandle(id).request = ledger[id].request
        /\ ~CachedHandle(id).created
    BY DEF CachedHandle
  <1> QED
    BY <1>5, <1>6 DEF HasRow, RowsOf

LEMMA ReturnCachedStep ==
  ASSUME BInv, NEW t \in Tasks, ReturnCached(t)
  PROVE  BInv'
  <1>1. PICK id \in DOMAIN ledger : handle' = [handle EXCEPT ![t] = CachedHandle(id)]
    BY DEF ReturnCached, RowsFor
  <1>2. Updates(t, CachedHandle(id))
    BY <1>1, CachedHandleTyped DEF Updates
  <1>3. Becomes(t, Idle) /\ Idle \notin Requesting
    BY Finishes DEF ReturnCached, Finish
  <1> QED
    BY <1>2, <1>3, HandleStep DEF ReturnCached

LEMMA ReserveTxStep ==
  ASSUME BInv, NEW t \in Tasks, ReserveTx(t)
  PROVE  BInv'
  <1> DEFINE call == op[t].call
  <1>1. op[t] \in Requesting /\ op[t].at = "tx" /\ t \in Reservations
    BY OpTyped DEF ReserveTx, In, Tasks
  <1>2. /\ call.scopes \in Requests /\ call.est \in Estimates
        /\ call.request \in RequestIds \cup {NoRequest} /\ call.ttl \in TTLs
        /\ op[t].now \in Time
    BY <1>1, BudgetAssumption DEF Requesting
  <1>3. UNCHANGED handle
    BY DEF ReserveTx
  <1>4. CASE /\ Reserve(t, call.scopes, call.est, call.request, op[t].now, call.ttl)
             /\ Goto(t, "return")
    <2>1. IInv'
      BY <1>1, <1>2, <1>4, ReserveInvariant DEF BInv
    <2>2. UniqueRequests' /\ RowsStay /\ WillHaveRow(t, call.request)
      BY <1>1, <1>2, <1>4, ReserveKeepsUnique
    <2>3. /\ [op[t] EXCEPT !.at = "return"] \in Requesting
          /\ [op[t] EXCEPT !.at = "return"].call = call
      BY <1>1 DEF Requesting
    <2>4. Becomes(t, [op[t] EXCEPT !.at = "return"])
      BY <1>4, <2>2, <2>3, Ordinary DEF Becomes, Ops, Goto
    <2> QED
      BY <1>3, <2>1, <2>2, <2>4, OpStep
  <1>5. CASE UNCHANGED ledgerVars /\ (Finish(t, "exceeded") \/ Goto(t, "requery"))
    <2>1. Finish(t, "exceeded") => Becomes(t, Idle)
      BY Finishes DEF Finish
    <2>2. Goto(t, "requery") => Becomes(t, [op[t] EXCEPT !.at = "requery"])
      BY <1>1, GoesOn
    <2> QED
      BY <1>3, <1>5, <2>1, <2>2, SameTables, OpStep
  <1> QED
    BY <1>4, <1>5 DEF ReserveTx

LEMMA ReserveReturnStep ==
  ASSUME BInv, NEW t \in Tasks, ReserveReturn(t)
  PROVE  BInv'
  <1> DEFINE call == op[t].call
             v == [id |-> t, est |-> call.est, actual |-> NoCost, state |-> "reserved",
                   late |-> FALSE, request |-> call.request, created |-> TRUE]
  <1>1. op[t] \in Requesting /\ HasRow(t, call.request)
    BY OpTyped DEF ReserveReturn, In, BInv, OutcomesHold
  <1>2. call.est \in Nat /\ call.request \in RequestIds \cup {NoRequest}
    BY <1>1, BudgetAssumption, LedgerAssumption DEF Requesting
  <1>3. v \in Handle
    BY <1>2 DEF Handle, Tasks
  <1>4. Updates(t, v)
    BY <1>1, <1>3 DEF Updates, ReserveReturn
  <1>5. Becomes(t, Idle) /\ Idle \notin Requesting
    BY Finishes DEF ReserveReturn, Finish
  <1> QED
    BY <1>4, <1>5, HandleStep DEF ReserveReturn

LEMMA ReserveSteps ==
  ASSUME BInv, NEW t \in Tasks,
         PreCheck(t) \/ ReadClock(t) \/ ReserveTx(t) \/ ReserveReturn(t) \/ Requery(t)
  PROVE  BInv'
  <1>1. CASE ReturnCached(t)
    BY <1>1, ReturnCachedStep
  <1>2. CASE PreCheck(t) /\ ~ReturnCached(t)
    <2>1. op[t] \in Requesting /\ Goto(t, "clock") /\ UNCHANGED <<ledgerVars, handle>>
      BY <1>2, OpTyped DEF PreCheck, In
    <2>2. Becomes(t, [op[t] EXCEPT !.at = "clock"])
      BY <2>1, GoesOn
    <2> QED
      BY <2>1, <2>2, SameTables, OpStep
  <1>3. CASE ReadClock(t)
    <2> DEFINE o == [op[t] EXCEPT !.now = clock, !.at = "tx"]
    <2>1. op[t] \in Requesting /\ op' = [op EXCEPT ![t] = o]
      BY <1>3, OpTyped DEF ReadClock, In
    <2>2. clock \in Time
      BY DEF BInv, IInv, TablesTyped
    <2>3. o \in Requesting /\ o.at = "tx"
      BY <2>1, <2>2 DEF Requesting
    <2>4. Becomes(t, o)
      BY <2>1, <2>3, Ordinary DEF Becomes, Ops
    <2> QED
      BY <1>3, <2>4, SameTables, OpStep DEF ReadClock
  <1>4. CASE Requery(t) /\ ~ReturnCached(t)
    <2>1. Becomes(t, Idle) /\ UNCHANGED <<ledgerVars, handle>>
      BY <1>4, Finishes DEF Requery, Finish
    <2> QED
      BY <2>1, SameTables, OpStep
  <1> QED
    BY <1>1, <1>2, <1>3, <1>4, ReserveTxStep, ReserveReturnStep

--------------------------------------------------------------------------------
(* The steps of the methods of a Reservation.                              *)

LEMMA CallSteps ==
  ASSUME BInv, NEW t \in Tasks, Call(t)
  PROVE  BInv'
  <1>1. UNCHANGED <<ledgerVars, handle>>
    BY DEF Call, CallReserve, BeginObserve, BeginCommit, BeginRelease, Exit, Begin
  <1>2. \A h \in Tasks : handle[h] # NoHandle => DefaultCost(h) \in Nat
    BY DEF BInv, TasksTyped, Handle, DefaultCost
  <1>3. ASSUME NEW call \in Calls, CallReserve(t, call)
        PROVE  \E o : Becomes(t, o)
    <2> DEFINE o == [name |-> "reserve", call |-> call, now |-> 0,
                     at |-> IF call.request = NoRequest THEN "clock" ELSE "precheck"]
    <2>1. o \in Requesting /\ o.at # "return"
      BY TimeAssumption DEF Requesting, Time
    <2>2. Becomes(t, o)
      BY <1>3, <2>1, Ordinary DEF Becomes, Ops, CallReserve
    <2> QED
      BY <2>2
  <1>4. ASSUME NEW h \in Tasks, NEW name \in {"observe", "commit", "release"}, NEW cost,
               handle[h] # NoHandle => cost \in Nat,
               Begin(t, h, name, cost)
        PROVE  \E o : Becomes(t, o)
    <2> DEFINE o == [name |-> name, at |-> "tx", on |-> h, cost |-> cost,
                     landed |-> FALSE, late |-> FALSE]
    <2>1. o \in Using /\ handle[h] # NoHandle
      BY <1>4 DEF Using, Begin, MayUse
    <2>2. Becomes(t, o)
      BY <1>4, <2>1, Ordinary DEF Becomes, Ops, Begin
    <2> QED
      BY <2>2
  <1>5. \E o : Becomes(t, o)
    <2>1. CASE \E call \in Calls : CallReserve(t, call)
      BY <2>1, <1>3
    <2>2. ASSUME NEW h \in Tasks, NEW cost \in Costs, BeginObserve(t, h, cost)
          PROVE  \E o : Becomes(t, o)
      BY <1>4, <2>2, LedgerAssumption DEF BeginObserve
    <2>3. ASSUME NEW h \in Tasks, NEW cost \in Costs \cup {NoCost}, BeginCommit(t, h, cost)
          PROVE  \E o : Becomes(t, o)
      <3> DEFINE paid == IF cost = NoCost THEN DefaultCost(h) ELSE cost
      <3>1. handle[h] # NoHandle => paid \in Nat
        BY <1>2, LedgerAssumption
      <3>2. Begin(t, h, "commit", paid)
        BY <2>3 DEF BeginCommit
      <3> HIDE DEF paid
      <3> QED
        BY <1>4, <3>1, <3>2
    <2>4. ASSUME NEW h \in Tasks, BeginRelease(t, h)
          PROVE  \E o : Becomes(t, o)
      BY <1>4, <2>4 DEF BeginRelease
    <2>5. ASSUME NEW raised \in BOOLEAN, Exit(t, raised)
          PROVE  \E o : Becomes(t, o)
      <3> DEFINE name == IF raised THEN "release" ELSE "commit"
                 paid == IF raised THEN 0 ELSE DefaultCost(t)
      <3>1. name \in {"observe", "commit", "release"} /\ (handle[t] # NoHandle => paid \in Nat)
        BY <1>2
      <3>2. Begin(t, t, name, paid)
        BY <2>5 DEF Exit
      <3> HIDE DEF name, paid
      <3> QED
        BY <1>4, <3>1, <3>2
    <2> QED
      BY <2>1, <2>2, <2>3, <2>4, <2>5 DEF Call
  <1> QED
    BY <1>1, <1>5, SameTables, OpStep

(* What a transaction of a method finds: the handle it works on.           *)
LEMMA HandleInUse ==
  ASSUME BInv, NEW t \in Tasks, op[t].name \in {"observe", "commit", "release"}
  PROVE  /\ op[t] \in Using /\ op[t].on \in Tasks /\ op[t].cost \in Nat
         /\ handle[op[t].on] \in Handle
         /\ handle[op[t].on].id \in Reservations
         /\ HasRow(handle[op[t].on].id, handle[op[t].on].request)
         /\ handle[op[t].on].created => handle[op[t].on].id = op[t].on
  <1>1. op[t] \in Using
    BY OpTyped
  <1>2. handle[op[t].on] # NoHandle /\ op[t].on \in Tasks /\ op[t].cost \in Nat
    BY <1>1 DEF BInv, UsesHandles, Using
  <1>3. handle[op[t].on] \in Handle
    BY <1>2 DEF BInv, TasksTyped
  <1> QED
    BY <1>1, <1>2, <1>3 DEF BInv, HandlesHaveRows, Handle

LEMMA MethodTxSteps ==
  ASSUME BInv, NEW t \in Tasks, ObserveTx(t) \/ CommitTx(t) \/ ReleaseTx(t)
  PROVE  BInv'
  <1> DEFINE r == handle[op[t].on].id
  <1>1. op[t].name \in {"observe", "commit", "release"} /\ UNCHANGED handle
    BY DEF ObserveTx, CommitTx, ReleaseTx, In
  <1>2. op[t] \in Using /\ op[t].cost \in Nat /\ r \in Reservations
    BY <1>1, HandleInUse
  <1>3. Observe(r, op[t].cost) \/ Commit(r, op[t].cost) \/ Release(r)
    BY DEF ObserveTx, CommitTx, ReleaseTx
  <1>4. IInv'
    BY <1>2, <1>3, ObserveInvariant, CommitInvariant, ReleaseInvariant DEF BInv
  <1>5. RowsOnlyChange
    BY <1>3, UpdatesOnlyChange DEF BInv
  <1>6. RowsStay /\ UniqueRequests'
    BY <1>5, OnlyChangeKeepsUnique DEF BInv, RowsOnlyChange
  <1>7. \E o : Becomes(t, o)
    <2>1. CASE ObserveTx(t) \/ ReleaseTx(t)
      <3>1. Goto(t, "return")
        BY <2>1 DEF ObserveTx, ReleaseTx
      <3> QED
        BY <1>2, <3>1, GoesOn
    <2>2. CASE CommitTx(t)
      <3> DEFINE normal == RowsIn(r, "reserved") # {}
                 late == ~normal /\ LapsedRows(r) # {}
                 o == [op[t] EXCEPT !.at = "return", !.landed = normal \/ late,
                                    !.late = late]
      <3>1. op' = [op EXCEPT ![t] = o]
        BY <2>2 DEF CommitTx
      <3> HIDE DEF normal
      <3>2. o \in Using /\ o.on = op[t].on
        BY <1>2 DEF Using
      <3>3. handle[op[t].on] # NoHandle
        BY <1>2 DEF BInv, UsesHandles
      <3> HIDE DEF o
      <3>4. Becomes(t, o)
        BY <3>1, <3>2, <3>3, Ordinary DEF Becomes, Ops
      <3> QED
        BY <3>4
    <2> QED
      BY <2>1, <2>2
  <1> QED
    BY <1>1, <1>4, <1>6, <1>7, OpStep

(* A method changes the state, the amount and the lateness of its handle,  *)
(* not what it stands for.                                                 *)
LEMMA SameReservation ==
  ASSUME BInv, NEW h \in Tasks, handle[h] # NoHandle, NEW v,
         \/ \E cost \in Nat : v = [handle[h] EXCEPT !.actual = cost]
         \/ \E cost \in Nat, late \in BOOLEAN :
              v = [handle[h] EXCEPT !.state = "committed", !.actual = cost, !.late = late]
         \/ v = [handle[h] EXCEPT !.state = "released"],
         handle' = [handle EXCEPT ![h] = v]
  PROVE  Updates(h, v)
  <1>1. /\ handle[h] \in Handle
        /\ HasRow(handle[h].id, handle[h].request)
        /\ handle[h].created => handle[h].id = h
    BY DEF BInv, TasksTyped, HandlesHaveRows
  <1>2. v \in Handle
    BY <1>1 DEF Handle
  <1>3. v.id = handle[h].id /\ v.request = handle[h].request /\ v.created = handle[h].created
    BY <1>1 DEF Handle
  <1> QED
    BY <1>1, <1>2, <1>3 DEF Updates

LEMMA MethodReturnSteps ==
  ASSUME BInv, NEW t \in Tasks,
         ObserveReturn(t) \/ CommitReturn(t) \/ CommitAnnounce(t) \/ ReleaseReturn(t)
  PROVE  BInv'
  <1> DEFINE h == op[t].on
  <1>1. op[t].name \in {"observe", "commit", "release"} /\ UNCHANGED ledgerVars
    BY DEF ObserveReturn, CommitReturn, CommitAnnounce, ReleaseReturn, In
  <1>2. /\ op[t] \in Using /\ op[t] \notin Requesting
        /\ h \in Tasks /\ op[t].cost \in Nat /\ op[t].late \in BOOLEAN
        /\ handle[h] # NoHandle /\ handle[h] \in Handle
    BY <1>1, HandleInUse, Ordinary DEF BInv, UsesHandles, Using, Ops
  <1>3. CASE ObserveReturn(t)
    <2>1. Updates(h, [handle[h] EXCEPT !.actual = op[t].cost])
      BY <1>2, <1>3, SameReservation DEF ObserveReturn
    <2>2. Becomes(t, Idle) /\ Idle \notin Requesting
      BY <1>3, Finishes DEF ObserveReturn
    <2> QED
      BY <1>1, <1>2, <2>1, <2>2, HandleStep
  <1>4. CASE CommitReturn(t) /\ op[t].landed
    <2> DEFINE late == handle[h].late \/ op[t].late
               v == [handle[h] EXCEPT !.state = "committed", !.actual = op[t].cost,
                                      !.late = late]
    <2>1. late \in BOOLEAN
      BY <1>2 DEF Handle
    <2>2. handle' = [handle EXCEPT ![h] = v] /\ Goto(t, "announce")
      BY <1>4 DEF CommitReturn
    <2> HIDE DEF late
    <2>3. Updates(h, v)
      BY <1>2, <2>1, <2>2, SameReservation
    <2>4. Becomes(t, [op[t] EXCEPT !.at = "announce"])
      BY <1>2, <2>2, GoesOn
    <2>5. [op[t] EXCEPT !.at = "announce"] \notin Requesting
      BY <1>2 DEF Using, Requesting
    <2> QED
      BY <1>1, <1>2, <2>3, <2>4, <2>5, HandleStep
  <1>5. CASE (CommitReturn(t) /\ ~op[t].landed) \/ CommitAnnounce(t)
    <2>1. Becomes(t, Idle) /\ UNCHANGED handle
      BY <1>5, Finishes DEF CommitReturn, CommitAnnounce, Finish
    <2> QED
      BY <1>1, <2>1, SameTables, OpStep
  <1>6. CASE ReleaseReturn(t)
    <2>1. Updates(h, [handle[h] EXCEPT !.state = "released"])
      BY <1>2, <1>6, SameReservation DEF ReleaseReturn
    <2>2. Becomes(t, Idle) /\ Idle \notin Requesting
      BY <1>6, Finishes DEF ReleaseReturn
    <2> QED
      BY <1>1, <1>2, <2>1, <2>2, HandleStep
  <1> QED
    BY <1>3, <1>4, <1>5, <1>6

LEMMA AbandonStep ==
  ASSUME BInv, NEW t \in Tasks, Abandon(t)
  PROVE  BInv'
  <1>1. Becomes(t, Gone)
    BY DEF Abandon, Becomes, Ops, Gone, Requesting, Using
  <1> QED
    BY <1>1, SameTables, OpStep DEF Abandon

(* set_limit, sweep and the clock leave the tasks alone.                   *)
LEMMA ElsewhereStep ==
  ASSUME BInv, Elsewhere
  PROVE  BInv'
  <1>1. IInv'
    BY SetLimitInvariant, SweepInvariant, TickInvariant
       DEF Elsewhere, SetSomeLimit, Sweep, BInv
  <1>2. RowsOnlyChange
    <2>1. CASE SetSomeLimit \/ Tick
      BY <2>1 DEF SetSomeLimit, SetLimit, Tick, RowsOnlyChange, RowsStay
    <2>2. CASE Sweep
      BY <2>2, UpdatesOnlyChange DEF BInv, Sweep
    <2> QED
      BY <2>1, <2>2 DEF Elsewhere
  <1>3. RowsStay /\ UniqueRequests'
    BY <1>2, OnlyChangeKeepsUnique DEF BInv, RowsOnlyChange
  <1>4. UNCHANGED <<op, handle>>
    BY DEF Elsewhere
  <1>5. TasksTyped' /\ UsesHandles'
    BY <1>4 DEF BInv, TasksTyped, UsesHandles
  <1>6. \A r, request : HasRow(r, request) => WillHaveRow(r, request)
    BY <1>3, StayKeepsRows
  <1>7. HandlesHaveRows' /\ OutcomesHold'
    <2>1. ASSUME NEW t \in Tasks, handle[t] # NoHandle
          PROVE  WillHaveRow(handle[t].id, handle[t].request)
      BY <1>6, <2>1 DEF BInv, HandlesHaveRows
    <2>2. HandlesHaveRows'
      BY <1>4, <2>1 DEF BInv, HandlesHaveRows, WillHaveRow, HasRow, RowsOf
    <2>3. ASSUME NEW t \in Tasks, In(t, "reserve", "return")
          PROVE  WillHaveRow(t, op[t].call.request)
      BY <1>6, <2>3 DEF BInv, OutcomesHold
    <2>4. OutcomesHold'
      BY <1>4, <2>3 DEF OutcomesHold, In, WillHaveRow, HasRow, RowsOf
    <2> QED
      BY <2>2, <2>4
  <1> QED
    BY <1>1, <1>3, <1>5, <1>7 DEF BInv

LEMMA BudgetInitInvariant == BudgetInit => BInv
  <1> SUFFICES ASSUME BudgetInit PROVE BInv
    OBVIOUS
  <1>1. IInv
    BY InitInvariant DEF BudgetInit
  <1>2. /\ \A t \in Tasks : op[t] = Idle /\ handle[t] = NoHandle
        /\ TasksTyped
        /\ Idle \notin Using
    BY DEF BudgetInit, TasksTyped, Idle, Using
  <1>3. UniqueRequests
    BY DEF BudgetInit, Init, UniqueRequests
  <1> QED
    BY <1>1, <1>2, <1>3 DEF BInv, UsesHandles, HandlesHaveRows, OutcomesHold, In, Idle

LEMMA BudgetStepInvariant == ASSUME BInv, [BudgetNext]_budgetVars PROVE BInv'
  <1>1. CASE UNCHANGED budgetVars
    <2>1. UNCHANGED <<op, handle, ledgerVars>>
      BY <1>1 DEF budgetVars, ledgerVars
    <2>2. IInv' /\ UniqueRequests' /\ ledger' = ledger
      BY <2>1, SameTables DEF ledgerVars
    <2>3. TasksTyped' /\ UsesHandles'
      BY <2>1 DEF BInv, TasksTyped, UsesHandles
    <2>4. HandlesHaveRows' /\ OutcomesHold'
      BY <2>1, <2>2 DEF BInv, HandlesHaveRows, OutcomesHold, In, HasRow, RowsOf
    <2> QED
      BY <2>2, <2>3, <2>4 DEF BInv
  <1>2. CASE Elsewhere
    BY <1>2, ElsewhereStep
  <1>3. ASSUME NEW t \in Tasks, Call(t) \/ Resume(t) \/ Abandon(t)
        PROVE  BInv'
    BY <1>3, CallSteps, ReserveSteps, MethodTxSteps, MethodReturnSteps, AbandonStep
       DEF Resume
  <1> QED
    BY <1>1, <1>2, <1>3 DEF BudgetNext

(* Handles, coroutines and rows agree on request_ids.                      *)
THEOREM BudgetInvariant == BudgetSpec => []BInv
  <1> QED
    BY BudgetInitInvariant, BudgetStepInvariant, PTL DEF BudgetSpec

(* However many callers race on one request_id, in whatever calls, they    *)
(* hold the same reservation, and one at most is told to go and spend.     *)
THEOREM OneIsToldToSpend == BudgetSpec => []PaidOnce
  <1>1. BInv => PaidOnce
    <2> SUFFICES ASSUME BInv, NEW t \in Tasks, NEW u \in Tasks,
                        handle[t] # NoHandle, handle[u] # NoHandle,
                        handle[t].request = handle[u].request,
                        handle[t].request # NoRequest
                 PROVE  /\ handle[t].id = handle[u].id
                        /\ handle[t].created /\ handle[u].created => t = u
      BY DEF PaidOnce
    <2>1. PICK id \in RowsOf(handle[t].id) : ledger[id].request = handle[t].request
      BY DEF BInv, HandlesHaveRows, HasRow
    <2>2. PICK other \in RowsOf(handle[u].id) : ledger[other].request = handle[u].request
      BY DEF BInv, HandlesHaveRows, HasRow
    <2>3. id = other
      BY <2>1, <2>2 DEF BInv, UniqueRequests, RowsOf
    <2>4. handle[t].id = handle[u].id
      BY <2>3 DEF RowsOf
    <2> QED
      BY <2>4 DEF BInv, HandlesHaveRows
  <1> QED
    BY <1>1, BudgetInvariant, PTL

--------------------------------------------------------------------------------
(* The unique violation. A call whose one row conflicts finds, when it     *)
(* asks again, the row that was there first.                               *)
SingleScopes == \A call \in Calls : call.request = NoRequest \/ Len(call.scopes) = 1

RequeryFinds ==
  \A t \in Tasks : In(t, "reserve", "requery") => RowsFor(op[t].call.request) # {}

CInv == answer \in [Tasks -> Answers \ {"conflict"}] /\ RequeryFinds

LEMMA EveryStepKeepsRows == ASSUME BInv, [BudgetNext]_budgetVars PROVE RowsStay
  <1> USE DEF ledgerVars
  <1>1. CASE UNCHANGED ledger
    BY <1>1 DEF RowsStay
  <1>2. CASE Elsewhere
    <2>1. CASE SetSomeLimit \/ Tick
      BY <1>1, <2>1 DEF SetSomeLimit, SetLimit, Tick
    <2>2. CASE Sweep
      BY <2>2, UpdatesOnlyChange DEF BInv, Sweep, RowsOnlyChange
    <2> QED
      BY <1>2, <2>1, <2>2 DEF Elsewhere
  <1>3. ASSUME NEW t \in Tasks, Call(t) \/ Resume(t) \/ Abandon(t)
        PROVE  RowsStay
    <2>1. CASE Call(t) \/ Abandon(t)
      BY <1>1, <2>1 DEF Call, CallReserve, BeginObserve, BeginCommit, BeginRelease, Exit,
                        Begin, Abandon
    <2>2. CASE \/ PreCheck(t) \/ ReadClock(t) \/ ReserveReturn(t) \/ Requery(t)
      BY <1>1, <2>2 DEF PreCheck, ReadClock, ReserveReturn, Requery, ReturnCached
    <2>3. CASE \/ ObserveReturn(t) \/ CommitReturn(t) \/ CommitAnnounce(t)
              \/ ReleaseReturn(t)
      BY <1>1, <2>3 DEF ObserveReturn, CommitReturn, CommitAnnounce, ReleaseReturn
    <2>4. CASE ObserveTx(t) \/ CommitTx(t) \/ ReleaseTx(t)
      BY <2>4, UpdatesOnlyChange DEF ObserveTx, CommitTx, ReleaseTx, BInv, RowsOnlyChange
    <2>5. CASE ReserveTx(t)
      <3> DEFINE call == op[t].call
      <3>1. CASE UNCHANGED ledger
        BY <1>1, <3>1
      <3>2. CASE Reserve(t, call.scopes, call.est, call.request, op[t].now, call.ttl)
        <4>1. op[t] \in Requesting
          BY <2>5, OpTyped DEF ReserveTx, In
        <4>2. call.scopes \in Requests
          BY <4>1, BudgetAssumption DEF Requesting
        <4> QED
          BY <3>2, <4>2, ReserveKeepsUnique DEF Tasks
      <3> QED
        BY <2>5, <3>1, <3>2 DEF ReserveTx
    <2> QED
      BY <1>3, <2>1, <2>2, <2>3, <2>4, <2>5 DEF Resume
  <1> QED
    BY <1>1, <1>2, <1>3 DEF BudgetNext, budgetVars

(* A task changes its own coroutine and answer, and says "conflict" only   *)
(* when the re-query found nothing.                                        *)
LEMMA AnswerSteps ==
  ASSUME BInv, CInv, SingleScopes, NEW t \in Tasks, Call(t) \/ Resume(t) \/ Abandon(t)
  PROVE  /\ \A u \in Tasks \ {t} : op'[u] = op[u]
         /\ In(t, "reserve", "requery")' => RowsFor(op'[t].call.request) # {}
         /\ answer' \in [Tasks -> Answers \ {"conflict"}]
  <1> USE DEF CInv, Answers
  <1>1. op \in [Tasks -> Ops]
    BY DEF BInv, TasksTyped, Ops
  <1>2. CASE Call(t)
    BY <1>1, <1>2 DEF Call, CallReserve, BeginObserve, BeginCommit, BeginRelease, Exit,
                      Begin, In
  <1>3. CASE PreCheck(t) \/ ReadClock(t) \/ ReserveReturn(t)
    <2>1. op[t] \in Requesting
      BY <1>3, OpTyped DEF PreCheck, ReadClock, ReserveReturn, In
    <2>2. CASE Goto(t, "clock") /\ UNCHANGED answer
      BY <1>1, <2>1, <2>2 DEF Goto, In, Requesting
    <2>3. CASE Finish(t, "reservation")
      BY <1>1, <2>3 DEF Finish, In, Idle
    <2>4. CASE ReadClock(t)
      <3>1. op' = [op EXCEPT ![t] = [op[t] EXCEPT !.now = clock, !.at = "tx"]]
        BY <2>4 DEF ReadClock
      <3> QED
        BY <1>1, <2>1, <2>4, <3>1 DEF ReadClock, In, Requesting
    <2> QED
      BY <1>3, <2>2, <2>3, <2>4 DEF PreCheck, ReserveReturn, ReturnCached
  <1>4. CASE ReserveTx(t)
    <2> DEFINE call == op[t].call
    <2>1. op[t] \in Requesting
      BY <1>4, OpTyped DEF ReserveTx, In
    <2>2. call.request = NoRequest \/ Len(call.scopes) = 1
      BY <2>1 DEF Requesting, SingleScopes
    <2>3. CASE Goto(t, "requery") /\ Conflicts(call.scopes, call.request) /\ UNCHANGED answer
      <3>1. \E id \in DOMAIN ledger : ledger[id].request = call.request
        <4>1. call.request # NoRequest
          BY <2>3 DEF Conflicts
        <4>2. Len(call.scopes) = 1
          BY <2>2, <4>1
        <4>3. ~(Len(call.scopes) > 1)
          BY <4>2
        <4> HIDE DEF call
        <4> QED
          BY <2>3, <4>3 DEF Conflicts
      <3>2. /\ \A u \in Tasks \ {t} : op'[u] = op[u]
            /\ op'[t].call = call
        BY <1>1, <2>1, <2>3 DEF Goto, Requesting
      <3> QED
        BY <2>3, <3>1, <3>2 DEF RowsFor
    <2>4. CASE Goto(t, "return") /\ UNCHANGED answer
      BY <1>1, <2>1, <2>4 DEF Goto, In, Requesting
    <2>5. CASE Finish(t, "exceeded")
      BY <1>1, <2>5 DEF Finish, In, Idle
    <2> QED
      BY <1>4, <2>3, <2>4, <2>5 DEF ReserveTx
  <1>5. CASE Requery(t)
    <2>1. RowsFor(op[t].call.request) # {}
      BY <1>5 DEF Requery, RequeryFinds
    <2>2. ReturnCached(t)
      BY <1>5, <2>1 DEF Requery
    <2> QED
      BY <1>1, <2>2 DEF ReturnCached, Finish, In, Idle
  <1>6. CASE ObserveTx(t) \/ CommitTx(t) \/ ReleaseTx(t)
    <2>1. op[t] \in Using
      BY <1>6, OpTyped DEF ObserveTx, CommitTx, ReleaseTx, In
    <2>2. CASE Goto(t, "return") /\ UNCHANGED answer
      BY <1>1, <2>1, <2>2 DEF Goto, In, Using
    <2>3. CASE CommitTx(t)
      <3>1. PICK landed \in BOOLEAN, late \in BOOLEAN :
              op' = [op EXCEPT ![t].at = "return", ![t].landed = landed, ![t].late = late]
        BY <2>3 DEF CommitTx
      <3>2. op'[t].name = op[t].name
        BY <1>1, <2>1, <3>1 DEF Using
      <3>3. op'[t].name # "reserve"
        BY <2>1, <3>2 DEF Using
      <3>4. \A u \in Tasks \ {t} : op'[u] = op[u]
        BY <1>1, <3>1
      <3> QED
        BY <2>3, <3>3, <3>4 DEF CommitTx, In
    <2> QED
      BY <1>6, <2>2, <2>3 DEF ObserveTx, ReleaseTx
  <1>7. CASE ObserveReturn(t) \/ CommitAnnounce(t) \/ ReleaseReturn(t) \/ Abandon(t)
    BY <1>1, <1>7 DEF ObserveReturn, CommitAnnounce, ReleaseReturn, Abandon, Finish, In,
                      Idle, Gone
  <1>8. CASE CommitReturn(t)
    <2>1. op[t] \in Using
      BY <1>8, OpTyped DEF CommitReturn, In
    <2> QED
      BY <1>1, <1>8, <2>1 DEF CommitReturn, Goto, Finish, In, Idle, Using
  <1> QED
    BY <1>2, <1>3, <1>4, <1>5, <1>6, <1>7, <1>8 DEF Resume

LEMMA ConflictStep ==
  ASSUME BInv, CInv, SingleScopes, [BudgetNext]_budgetVars
  PROVE  CInv'
  <1>1. RowsStay
    BY EveryStepKeepsRows
  <1>2. \A request : RowsFor(request) # {} =>
          \E id \in DOMAIN ledger' : ledger'[id].request = request
    BY <1>1 DEF RowsStay, RowsFor
  <1>3. CASE UNCHANGED <<op, answer>>
    BY <1>2, <1>3 DEF CInv, RequeryFinds, In, RowsFor
  <1>4. ASSUME NEW t \in Tasks, Call(t) \/ Resume(t) \/ Abandon(t)
        PROVE  CInv'
    <2>1. /\ \A u \in Tasks \ {t} : op'[u] = op[u]
          /\ In(t, "reserve", "requery")' => RowsFor(op'[t].call.request) # {}
          /\ answer' \in [Tasks -> Answers \ {"conflict"}]
      BY <1>4, AnswerSteps
    <2>2. ASSUME NEW u \in Tasks, op'[u].name = "reserve", op'[u].at = "requery"
          PROVE  RowsFor(op'[u].call.request) # {}
      BY <2>1, <2>2 DEF CInv, RequeryFinds, In
    <2> QED
      BY <1>2, <2>1, <2>2 DEF CInv, RequeryFinds, In, RowsFor
  <1> QED
    BY <1>3, <1>4 DEF BudgetNext, Elsewhere, budgetVars

(* Whoever wins the race for a request_id, the loser gets the winner's     *)
(* reservation and not the unique violation, if no call with a request_id  *)
(* names two scopes (core._reserve_tx; a composite one conflicts with      *)
(* itself).                                                                *)
THEOREM ConflictsAreRecovered ==
  ASSUME SingleScopes
  PROVE  BudgetSpec => []ConflictsConverge
  <1>1. BudgetInit => CInv
    BY DEF BudgetInit, CInv, RequeryFinds, In, Idle, Answers
  <1>2. BInv /\ CInv /\ [BudgetNext]_budgetVars => CInv'
    BY ConflictStep
  <1>3. CInv => ConflictsConverge
    BY DEF CInv, ConflictsConverge
  <1> QED
    BY <1>1, <1>2, <1>3, BudgetInvariant, PTL DEF BudgetSpec

--------------------------------------------------------------------------------
(* What callers and listeners are told.                                    *)

(* t has a handle that stands for r.                                       *)
Holds(t, r) == handle[t] # NoHandle /\ handle[t].id = r

(* A commit of r by t has landed, and is not announced yet.                *)
Lands(t, r) ==
  /\ op[t].name = "commit" /\ op[t].at \in {"return", "announce"} /\ op[t].landed
  /\ handle[op[t].on].id = r

PaidPhase(late) == IF late THEN "committedLate" ELSE "committed"

(* A handle is made once.                                                  *)
OneHandleEach == \A t \in Tasks : op[t] \in Requesting => handle[t] = NoHandle

HandlesTell ==
  \A t \in Tasks, r \in Reservations : Holds(t, r) =>
    /\ handle[t].late => Phase(r) \in {"lapsed", "committedLate"}
    /\ handle[t].state = "committed" => Phase(r) = PaidPhase(handle[t].late)

LandedTell ==
  \A t \in Tasks, r \in Reservations : Lands(t, r) => Phase(r) = PaidPhase(op[t].late)

OneLands ==
  \A t, u \in Tasks, r \in Reservations : Lands(t, r) /\ Lands(u, r) => t = u

FiredTyped == fired \in [EventNames -> [Reservations -> Nat]]

(* Nothing has been fired yet for what is still to be announced.           *)
Unannounced == \A t \in Tasks : handle[t] = NoHandle => fired["reserved"][t] = 0

Due(t, r) ==
  /\ fired["committed"][r] = 0
  /\ op[t].at = "return" => fired["overrun"][r] = 0
  /\ op[t].at = "announce" /\ op[t].late => fired["overrun"][r] = 1

EventsDue == \A t \in Tasks, r \in Reservations : Lands(t, r) => Due(t, r)

EInv ==
  OneHandleEach /\ HandlesTell /\ LandedTell /\ OneLands
    /\ FiredTyped /\ Unannounced /\ EventsDue /\ EventsMatchLedger

(* A reservation that is paid stays as it is; one that lapsed can only be  *)
(* paid late.                                                              *)
Advances(r) ==
  /\ Phase(r) \in {"committed", "committedLate"} => Phase(r)' = Phase(r)
  /\ Phase(r) = "lapsed" => Phase(r)' \in {"lapsed", "committedLate"}

LEMMA MovesAdvance ==
  ASSUME FirstRowTells, FirstRowTells', NEW r \in Reservations,
         \/ AllStay
         \/ Moves(r, "none", "reserved")
         \/ Moves(r, "reserved", "committed")
         \/ Moves(r, "lapsed", "committedLate")
         \/ Moves(r, "reserved", "released")
  PROVE  \A x \in Reservations : Advances(x)
  <1> SUFFICES ASSUME NEW x \in Reservations PROVE Advances(x)
    OBVIOUS
  <1>1. Phase(x) = FirstPhase(x) /\ Phase(x)' = FirstPhase(x)'
    BY DEF FirstRowTells
  <1>2. CASE FirstPhase(x)' = FirstPhase(x)
    BY <1>1, <1>2 DEF Advances
  <1>3. CASE FirstPhase(x)' # FirstPhase(x)
    BY <1>1, <1>3 DEF Advances, AllStay, Moves, Stays
  <1> QED
    BY <1>2, <1>3

LEMMA EveryStepAdvances ==
  ASSUME BInv, BInv', [BudgetNext]_budgetVars
  PROVE  \A r \in Reservations : Advances(r)
  <1>1. IInv /\ FirstRowTells /\ FirstRowTells'
    BY PhaseOfFirstRow, PhaseOfFirstRowNext DEF BInv
  <1>2. CASE UNCHANGED ledger
    <2>1. AllStay
      BY <1>2, SameLedger
    <2> QED
      BY <1>1, <2>1, MovesAdvance
  <1>3. CASE Elsewhere
    <2>1. CASE SetSomeLimit \/ Tick
      BY <1>2, <2>1 DEF SetSomeLimit, SetLimit, Tick
    <2>2. CASE Sweep
      <3>1. PICK now \in Recent : SweepAt(now)
        BY <2>2 DEF Sweep
      <3>2. ASSUME NEW r \in Reservations PROVE Advances(r)
        <4>1. Phase(r) = FirstPhase(r) /\ Phase(r)' = FirstPhase(r)'
          BY <1>1 DEF FirstRowTells
        <4>2. /\ r \in Expired(now) => FirstPhase(r) = "reserved"
              /\ FirstPhase(r)' = IF r \in Expired(now) THEN "lapsed" ELSE FirstPhase(r)
          BY <1>1, <3>1, SweepMoves
        <4> QED
          BY <4>1, <4>2 DEF Advances
      <3> QED
        BY <3>2
    <2> QED
      BY <1>3, <2>1, <2>2 DEF Elsewhere
  <1>4. ASSUME NEW t \in Tasks, ObserveTx(t) \/ CommitTx(t) \/ ReleaseTx(t)
        PROVE  \A r \in Reservations : Advances(r)
    <2> DEFINE r == handle[op[t].on].id
    <2>1. r \in Reservations
      BY <1>4, HandleInUse DEF ObserveTx, CommitTx, ReleaseTx, In
    <2>2. Observe(r, op[t].cost) \/ Commit(r, op[t].cost) \/ Release(r)
      BY <1>4 DEF ObserveTx, CommitTx, ReleaseTx
    <2> HIDE DEF r
    <2>3. \/ AllStay
          \/ Moves(r, "reserved", "committed")
          \/ Moves(r, "lapsed", "committedLate")
          \/ Moves(r, "reserved", "released")
      BY <1>1, <2>1, <2>2, ObserveStays, CommitMoves, ReleaseMoves
    <2> QED
      BY <1>1, <2>1, <2>3, MovesAdvance
  <1>5. ASSUME NEW t \in Tasks, ReserveTx(t)
        PROVE  \A r \in Reservations : Advances(r)
    <2> DEFINE call == op[t].call
    <2>1. op[t] \in Requesting /\ t \in Reservations
      BY <1>5, OpTyped DEF ReserveTx, In, Tasks
    <2>2. /\ call.scopes \in Requests /\ call.est \in Estimates
          /\ call.request \in RequestIds \cup {NoRequest} /\ call.ttl \in TTLs
          /\ op[t].now \in Time
      BY <2>1, BudgetAssumption DEF Requesting
    <2>3. CASE Reserve(t, call.scopes, call.est, call.request, op[t].now, call.ttl)
      <3>1. Moves(t, "none", "reserved")
        BY <1>1, <2>1, <2>2, <2>3, ReserveMoves
      <3> QED
        BY <1>1, <2>1, <3>1, MovesAdvance
    <2>4. CASE UNCHANGED ledgerVars
      BY <1>2, <2>4 DEF ledgerVars
    <2> QED
      BY <1>5, <2>3, <2>4 DEF ReserveTx
  <1>6. ASSUME NEW t \in Tasks, Call(t) \/ Resume(t) \/ Abandon(t),
               ~(ObserveTx(t) \/ CommitTx(t) \/ ReleaseTx(t) \/ ReserveTx(t))
        PROVE  UNCHANGED ledger
    BY <1>6 DEF Call, CallReserve, BeginObserve, BeginCommit, BeginRelease, Exit, Begin,
                Abandon, Resume, PreCheck, ReadClock, ReserveReturn, Requery, ReturnCached,
                ObserveReturn, CommitReturn, CommitAnnounce, ReleaseReturn, ledgerVars
  <1> QED
    BY <1>2, <1>3, <1>4, <1>5, <1>6 DEF BudgetNext, budgetVars

LEMMA SamePhases == ASSUME UNCHANGED ledger PROVE \A r : Phase(r)' = Phase(r)
  BY DEF Phase, RowsOf, PhaseOf

LEMMA CommitsHaveHandles ==
  ASSUME BInv, NEW t \in Tasks
  PROVE  /\ handle[t] # NoHandle => handle[t] \in Handle /\ handle[t].id \in Reservations
         /\ op[t].name = "commit" =>
              /\ op[t] \in Using /\ op[t].on \in Tasks /\ handle[op[t].on] # NoHandle
              /\ handle[op[t].on] \in Handle /\ handle[op[t].on].id \in Reservations
              /\ op[t].late \in BOOLEAN
  <1>1. \A u \in Tasks : handle[u] # NoHandle => handle[u] \in Handle
    BY DEF BInv, TasksTyped
  <1>2. \A h \in Handle : h.id \in Reservations
    BY DEF Handle
  <1>3. op[t].name = "commit" => op[t] \in Using
    BY OpTyped
  <1>4. \A o \in Using : o.on \in Tasks /\ o.late \in BOOLEAN
    BY DEF Using
  <1> QED
    BY <1>1, <1>2, <1>3, <1>4 DEF BInv, UsesHandles

(* A step that tells nobody anything, whatever it does to the tables.      *)
LEMMA QuietStep ==
  ASSUME BInv, EInv, \A r \in Reservations : Advances(r), UNCHANGED <<handle, fired>>,
         \A u \in Tasks :
           \/ op'[u] = op[u]
           \/ /\ ~(op'[u].name = "commit" /\ op'[u].at \in {"return", "announce"}
                     /\ op'[u].landed)
              /\ op'[u] \in Requesting => handle[u] = NoHandle
  PROVE  EInv'
  <1>1. \A u \in Tasks, r \in Reservations :
          Lands(u, r)' => Lands(u, r) /\ op'[u] = op[u]
    BY DEF Lands
  <1>2. \A u \in Tasks, r \in Reservations : Holds(u, r)' <=> Holds(u, r)
    BY DEF Holds
  <1>3. \A u \in Tasks, r \in Reservations : Lands(u, r) => op[u].late \in BOOLEAN
    BY CommitsHaveHandles DEF Lands
  <1>4. OneHandleEach'
    BY DEF EInv, OneHandleEach
  <1>5. HandlesTell'
    BY <1>2 DEF EInv, HandlesTell, Advances, PaidPhase
  <1>6. LandedTell'
    BY <1>1, <1>3 DEF EInv, LandedTell, Advances, PaidPhase
  <1>7. OneLands'
    BY <1>1 DEF EInv, OneLands
  <1>8. FiredTyped' /\ Unannounced'
    BY DEF EInv, FiredTyped, Unannounced
  <1>9. EventsDue'
    BY <1>1 DEF EInv, EventsDue, Due
  <1>10. EventsMatchLedger'
    BY DEF EInv, EventsMatchLedger, Advances
  <1> QED
    BY <1>4, <1>5, <1>6, <1>7, <1>8, <1>9, <1>10 DEF EInv

(* The transaction of a commit that lands: nobody has announced it.        *)
LEMMA LandStep ==
  ASSUME BInv, BInv', EInv, NEW t \in Tasks, CommitTx(t), op'[t].landed
  PROVE  EInv'
  <1>1. /\ op[t].name = "commit" /\ op[t].at = "tx" /\ op[t] \in Using
        /\ UNCHANGED <<handle, fired>>
    BY CommitsHaveHandles DEF CommitTx, In
  <1>2. PICK r \in Reservations : r = handle[op[t].on].id
    BY <1>1, CommitsHaveHandles
  <1>3. /\ \A u \in Tasks \ {t} : op'[u] = op[u]
        /\ op'[t].name = "commit" /\ op'[t].at = "return" /\ op'[t].on = op[t].on
        /\ op'[t].landed = (RowsIn(r, "reserved") # {} \/ LapsedRows(r) # {})
        /\ op'[t].late = (RowsIn(r, "reserved") = {} /\ LapsedRows(r) # {})
    <2> DEFINE normal == RowsIn(r, "reserved") # {}
               late == ~normal /\ LapsedRows(r) # {}
               here == [op[t] EXCEPT !.at = "return", !.landed = normal \/ late,
                                     !.late = late]
    <2>1. op' = [op EXCEPT ![t] = here]
      BY <1>2 DEF CommitTx
    <2>2. op'[t] = here /\ \A u \in Tasks \ {t} : op'[u] = op[u]
      <3> HIDE DEF here
      <3> QED
        BY <2>1 DEF BInv, TasksTyped
    <2> HIDE DEF normal
    <2>3. /\ op'[t].name = op[t].name /\ op'[t].at = "return" /\ op'[t].on = op[t].on
          /\ op'[t].landed = (normal \/ late) /\ op'[t].late = late
      BY <1>1, <2>2 DEF Using
    <2> QED
      BY <1>1, <2>2, <2>3 DEF normal
  <1>4. /\ Phase(r) \in {"reserved", "lapsed"} /\ Phase(r)' = PaidPhase(op'[t].late)
        /\ Phase(r) = "lapsed" => op'[t].late
        /\ \A x \in Reservations \ {r} : Phase(x)' = Phase(x)
    <2>1. Commit(r, op[t].cost)
      BY <1>2 DEF CommitTx
    <2>2. FirstRowTells /\ FirstRowTells'
      BY PhaseOfFirstRow, PhaseOfFirstRowNext DEF BInv
    <2>3. \/ op'[t].late = FALSE /\ Moves(r, "reserved", "committed")
          \/ op'[t].late = TRUE /\ Moves(r, "lapsed", "committedLate")
      BY <1>1, <1>3, <2>1, CommitMoves DEF BInv
    <2> QED
      BY <1>1, <2>2, <2>3 DEF FirstRowTells, Moves, Stays, PaidPhase
  <1>5. \A u \in Tasks : ~Lands(u, r)
    BY <1>4, CommitsHaveHandles DEF EInv, LandedTell, PaidPhase, Lands
  <1>6. /\ \A u \in Tasks \ {t}, x \in Reservations :
             Lands(u, x)' => Lands(u, x) /\ op'[u] = op[u] /\ x # r
        /\ \A x \in Reservations : Lands(t, x)' => x = r
    BY <1>1, <1>2, <1>3, <1>5 DEF Lands
  <1>7. \A u \in Tasks, x \in Reservations : Holds(u, x)' <=> Holds(u, x)
    BY <1>1 DEF Holds
  <1>8. op'[t] \notin Requesting
    BY <1>3 DEF Requesting
  <1>9. OneHandleEach'
    BY <1>1, <1>3, <1>8 DEF EInv, OneHandleEach
  <1>10. HandlesTell'
    <2> SUFFICES ASSUME NEW u \in Tasks, NEW x \in Reservations, Holds(u, x)
                 PROVE  /\ handle[u].late => Phase(x)' \in {"lapsed", "committedLate"}
                        /\ handle[u].state = "committed" =>
                             Phase(x)' = PaidPhase(handle[u].late)
      BY <1>1, <1>7 DEF HandlesTell
    <2>1. CASE x # r
      BY <1>4, <2>1 DEF EInv, HandlesTell
    <2>2. CASE x = r
      <3>1. handle[u].state # "committed"
        BY <1>4, <2>2 DEF EInv, HandlesTell, PaidPhase
      <3>2. handle[u].late => Phase(r) = "lapsed"
        BY <1>4, <2>2 DEF EInv, HandlesTell
      <3> QED
        BY <1>4, <2>2, <3>1, <3>2 DEF PaidPhase
    <2> QED
      BY <2>1, <2>2
  <1>11. LandedTell'
    <2> SUFFICES ASSUME NEW u \in Tasks, NEW x \in Reservations, Lands(u, x)'
                 PROVE  Phase(x)' = PaidPhase(op'[u].late)
      BY DEF LandedTell
    <2>1. CASE u = t
      BY <1>4, <1>6, <2>1
    <2>2. CASE u # t
      BY <1>4, <1>6, <2>2 DEF EInv, LandedTell
    <2> QED
      BY <2>1, <2>2
  <1>12. OneLands'
    BY <1>6 DEF EInv, OneLands
  <1>13. fired["committed"][r] = 0 /\ fired["overrun"][r] = 0
    <2>1. fired["committed"][r] \in Nat /\ fired["overrun"][r] \in Nat
      BY DEF EInv, FiredTyped, EventNames
    <2>2. /\ fired["committed"][r] <= 1 /\ fired["overrun"][r] <= 1
          /\ fired["committed"][r] # 1 /\ fired["overrun"][r] # 1
      BY <1>4 DEF EInv, EventsMatchLedger
    <2> QED
      BY <2>1, <2>2
  <1>14. EventsDue'
    <2> SUFFICES ASSUME NEW u \in Tasks, NEW x \in Reservations, Lands(u, x)'
                 PROVE  Due(u, x)'
      BY DEF EventsDue
    <2>1. CASE u = t
      BY <1>1, <1>3, <1>6, <1>13, <2>1 DEF Due
    <2>2. CASE u # t
      BY <1>1, <1>6, <2>2 DEF EInv, EventsDue, Due
    <2> QED
      BY <2>1, <2>2
  <1>15. EventsMatchLedger'
    <2> SUFFICES ASSUME NEW x \in Reservations
                 PROVE  /\ fired["reserved"][x] <= 1
                        /\ fired["committed"][x] <= 1
                        /\ fired["committed"][x] = 1 => Phase(x)' \in {"committed", "committedLate"}
                        /\ fired["overrun"][x] <= 1
                        /\ fired["overrun"][x] = 1 => Phase(x)' = "committedLate"
                        /\ fired["committed"][x] = 1 /\ Phase(x)' = "committedLate" =>
                             fired["overrun"][x] = 1
      BY <1>1 DEF EventsMatchLedger
    <2>1. CASE x = r
      BY <1>13, <2>1 DEF EInv, EventsMatchLedger
    <2>2. CASE x # r
      BY <1>4, <2>2 DEF EInv, EventsMatchLedger
    <2> QED
      BY <2>1, <2>2
  <1>16. FiredTyped' /\ Unannounced'
    BY <1>1 DEF EInv, FiredTyped, Unannounced
  <1> QED
    BY <1>9, <1>10, <1>11, <1>12, <1>14, <1>15, <1>16 DEF EInv

LEMMA FireCounts ==
  ASSUME FiredTyped, NEW r \in Reservations, NEW events \in SUBSET EventNames,
         Fire(events, r)
  PROVE  /\ FiredTyped'
         /\ \A e \in EventNames, x \in Reservations :
              fired'[e][x] = IF e \in events /\ x = r THEN fired[e][x] + 1 ELSE fired[e][x]
  <1>1. \A e \in EventNames : fired[e] \in [Reservations -> Nat]
    BY DEF FiredTyped
  <1>2. \A f \in [Reservations -> Nat] : [f EXCEPT ![r] = @ + 1] \in [Reservations -> Nat]
    OBVIOUS
  <1>3. fired' = [e \in EventNames |->
                    IF e \in events THEN [fired[e] EXCEPT ![r] = @ + 1] ELSE fired[e]]
    BY DEF Fire
  <1>4. FiredTyped'
    BY <1>1, <1>2, <1>3 DEF FiredTyped
  <1>5. \A e \in EventNames, x \in Reservations :
          fired'[e][x] = IF e \in events /\ x = r THEN fired[e][x] + 1 ELSE fired[e][x]
    BY <1>1, <1>3
  <1> QED
    BY <1>4, <1>5

(* reserve returns a Reservation object: one that its rows bear out.       *)
LEMMA NewHandleStep ==
  ASSUME BInv, EInv, UNCHANGED ledger, NEW t \in Tasks, op[t] \in Requesting,
         op' = [op EXCEPT ![t] = Idle],
         NEW v \in Handle, handle' = [handle EXCEPT ![t] = v],
         v.late => Phase(v.id) \in {"lapsed", "committedLate"},
         v.state = "committed" => Phase(v.id) = PaidPhase(v.late),
         FiredTyped',
         \A x \in Reservations :
           /\ \/ fired'["reserved"][x] = fired["reserved"][x]
              \/ x = t /\ fired'["reserved"][x] = fired["reserved"][x] + 1
           /\ fired'["committed"][x] = fired["committed"][x]
           /\ fired'["overrun"][x] = fired["overrun"][x]
  PROVE  EInv'
  <1>1. \A r : Phase(r)' = Phase(r)
    BY SamePhases
  <1>2. handle[t] = NoHandle /\ v # NoHandle /\ t \in Reservations
    BY HandleAssumption DEF EInv, OneHandleEach, Tasks
  <1>3. /\ op'[t] = Idle /\ \A u \in Tasks \ {t} : op'[u] = op[u]
        /\ handle'[t] = v /\ \A u \in Tasks \ {t} : handle'[u] = handle[u]
    BY DEF BInv, TasksTyped
  <1>4. \A u \in Tasks, x \in Reservations : Lands(u, x)' => Lands(u, x) /\ u # t
    <2> SUFFICES ASSUME NEW u \in Tasks, NEW x \in Reservations, Lands(u, x)'
                 PROVE  Lands(u, x) /\ u # t
      OBVIOUS
    <2>1. u # t
      BY <1>3 DEF Lands, Idle
    <2>2. op'[u] = op[u] /\ op[u].on \in Tasks /\ handle[op[u].on] # NoHandle
      BY <1>3, <2>1, CommitsHaveHandles DEF Lands
    <2>3. handle'[op[u].on] = handle[op[u].on]
      BY <1>2, <1>3, <2>2
    <2> QED
      BY <2>1, <2>2, <2>3 DEF Lands
  <1>5. OneHandleEach'
    <2>1. Idle \notin Requesting
      BY DEF Idle, Requesting
    <2> QED
      BY <1>3, <2>1 DEF EInv, OneHandleEach
  <1>6. HandlesTell'
    <2> SUFFICES ASSUME NEW u \in Tasks, NEW x \in Reservations, Holds(u, x)'
                 PROVE  /\ handle'[u].late => Phase(x) \in {"lapsed", "committedLate"}
                        /\ handle'[u].state = "committed" =>
                             Phase(x) = PaidPhase(handle'[u].late)
      BY <1>1 DEF HandlesTell
    <2>1. CASE u = t
      BY <1>3, <2>1 DEF Holds
    <2>2. CASE u # t
      BY <1>3, <2>2 DEF EInv, HandlesTell, Holds
    <2> QED
      BY <2>1, <2>2
  <1>7. LandedTell'
    BY <1>1, <1>3, <1>4 DEF EInv, LandedTell
  <1>8. OneLands'
    BY <1>4 DEF EInv, OneLands
  <1>9. Unannounced'
    <2> SUFFICES ASSUME NEW u \in Tasks, handle'[u] = NoHandle
                 PROVE  fired'["reserved"][u] = 0
      BY DEF Unannounced
    <2>1. u # t /\ handle[u] = NoHandle
      BY <1>2, <1>3
    <2> QED
      BY <2>1 DEF EInv, Unannounced, Tasks
  <1>10. EventsDue'
    BY <1>3, <1>4 DEF EInv, EventsDue, Due
  <1>11. EventsMatchLedger'
    <2> SUFFICES ASSUME NEW x \in Reservations
                 PROVE  /\ fired'["reserved"][x] <= 1
                        /\ fired'["committed"][x] <= 1
                        /\ fired'["committed"][x] = 1 => Phase(x) \in {"committed", "committedLate"}
                        /\ fired'["overrun"][x] <= 1
                        /\ fired'["overrun"][x] = 1 => Phase(x) = "committedLate"
                        /\ fired'["committed"][x] = 1 /\ Phase(x) = "committedLate" =>
                             fired'["overrun"][x] = 1
      BY <1>1 DEF EventsMatchLedger
    <2>1. fired'["reserved"][x] <= 1
      BY <1>2 DEF EInv, EventsMatchLedger, Unannounced
    <2> QED
      BY <2>1 DEF EInv, EventsMatchLedger
  <1> QED
    BY <1>5, <1>6, <1>7, <1>8, <1>9, <1>10, <1>11 DEF EInv

(* A method other than commit returns: the handle is not committed by it.  *)
LEMMA OldHandleStep ==
  ASSUME BInv, EInv, UNCHANGED ledger, NEW t \in Tasks, op' = [op EXCEPT ![t] = Idle],
         NEW h \in Tasks, handle[h] # NoHandle,
         NEW v \in Handle, handle' = [handle EXCEPT ![h] = v],
         v.id = handle[h].id, v.late = handle[h].late,
         v.state = "committed" => handle[h].state = "committed",
         FiredTyped',
         \A x \in Reservations :
           /\ fired'["reserved"][x] = fired["reserved"][x]
           /\ fired'["committed"][x] = fired["committed"][x]
           /\ fired'["overrun"][x] = fired["overrun"][x]
  PROVE  EInv'
  <1>1. \A r : Phase(r)' = Phase(r)
    BY SamePhases
  <1>2. v # NoHandle
    BY HandleAssumption
  <1>3. /\ op'[t] = Idle /\ \A u \in Tasks \ {t} : op'[u] = op[u]
        /\ handle'[h] = v /\ \A u \in Tasks \ {h} : handle'[u] = handle[u]
    BY DEF BInv, TasksTyped
  <1>4. \A u \in Tasks : /\ handle'[u] = NoHandle <=> handle[u] = NoHandle
                         /\ handle'[u].id = handle[u].id
    BY <1>2, <1>3
  <1>5. \A u \in Tasks, x \in Reservations : Lands(u, x)' => Lands(u, x) /\ op'[u] = op[u]
    <2> SUFFICES ASSUME NEW u \in Tasks, NEW x \in Reservations, Lands(u, x)'
                 PROVE  Lands(u, x) /\ op'[u] = op[u]
      OBVIOUS
    <2>1. op'[u] = op[u]
      BY <1>3 DEF Lands, Idle
    <2>2. op[u].on \in Tasks
      BY <2>1, CommitsHaveHandles DEF Lands
    <2> QED
      BY <1>4, <2>1, <2>2 DEF Lands
  <1>6. OneHandleEach'
    <2>1. Idle \notin Requesting
      BY DEF Idle, Requesting
    <2> QED
      BY <1>3, <1>4, <2>1 DEF EInv, OneHandleEach
  <1>7. HandlesTell'
    <2> SUFFICES ASSUME NEW u \in Tasks, NEW x \in Reservations, Holds(u, x)'
                 PROVE  /\ handle'[u].late => Phase(x) \in {"lapsed", "committedLate"}
                        /\ handle'[u].state = "committed" =>
                             Phase(x) = PaidPhase(handle'[u].late)
      BY <1>1 DEF HandlesTell
    <2>1. Holds(u, x)
      BY <1>4 DEF Holds
    <2>2. CASE u = h
      BY <1>3, <2>1, <2>2 DEF EInv, HandlesTell
    <2>3. CASE u # h
      BY <1>3, <2>1, <2>3 DEF EInv, HandlesTell
    <2> QED
      BY <2>2, <2>3
  <1>8. LandedTell' /\ OneLands'
    BY <1>1, <1>5 DEF EInv, LandedTell, OneLands
  <1>9. Unannounced'
    BY <1>4 DEF EInv, Unannounced, Tasks
  <1>10. EventsDue'
    BY <1>5 DEF EInv, EventsDue, Due
  <1>11. EventsMatchLedger'
    BY <1>1 DEF EInv, EventsMatchLedger
  <1> QED
    BY <1>6, <1>7, <1>8, <1>9, <1>10, <1>11 DEF EInv

(* The method commit returns: the handle says what the transaction did.    *)
LEMMA LandedReturnStep ==
  ASSUME BInv, EInv, NEW t \in Tasks, CommitReturn(t), op[t].landed
  PROVE  EInv'
  <1> DEFINE h == op[t].on
             r == handle[h].id
             v == [handle[h] EXCEPT !.state = "committed", !.actual = op[t].cost,
                                    !.late = handle[h].late \/ op[t].late]
  <1>1. /\ op[t].name = "commit" /\ op[t].at = "return" /\ op[t] \in Using
        /\ h \in Tasks /\ handle[h] # NoHandle /\ handle[h] \in Handle /\ r \in Reservations
        /\ op[t].late \in BOOLEAN /\ UNCHANGED ledger
    BY CommitsHaveHandles DEF CommitReturn, In, ledgerVars
  <1>2. Lands(t, r)
    BY <1>1 DEF Lands
  <1>3. Phase(r) = PaidPhase(op[t].late) /\ Due(t, r)
    BY <1>1, <1>2 DEF EInv, LandedTell, EventsDue
  <1>4. \A u \in Tasks, x \in Reservations : Lands(u, x) /\ u # t => x # r
    BY <1>2 DEF EInv, OneLands
  <1>5. /\ op' = [op EXCEPT ![t].at = "announce"]
        /\ handle' = [handle EXCEPT ![h] = v]
        /\ Fire(IF op[t].late THEN {"overrun"} ELSE {}, r)
    BY DEF CommitReturn, Goto
  <1>6. /\ op'[t].name = "commit" /\ op'[t].at = "announce" /\ op'[t].on = h
        /\ op'[t].landed /\ op'[t].late = op[t].late /\ op'[t] \notin Requesting
        /\ \A u \in Tasks \ {t} : op'[u] = op[u]
    <2>1. op'[t] = [op[t] EXCEPT !.at = "announce"] /\ \A u \in Tasks \ {t} : op'[u] = op[u]
      BY <1>5 DEF BInv, TasksTyped
    <2> QED
      BY <1>1, <2>1 DEF Using, Requesting, CommitReturn
  <1>7. /\ handle'[h] = v /\ \A u \in Tasks \ {h} : handle'[u] = handle[u]
    <2> HIDE DEF v
    <2> QED
      BY <1>1, <1>5 DEF BInv, TasksTyped
  <1>8. /\ v \in Handle /\ v.id = r /\ v.state = "committed"
        /\ v.late = (handle[h].late \/ op[t].late)
    <2> DEFINE late == handle[h].late \/ op[t].late
    <2>1. late \in BOOLEAN /\ op[t].cost \in Nat
      BY <1>1 DEF Using
    <2> HIDE DEF late
    <2>2. /\ v \in Handle /\ v.id = r /\ v.state = "committed" /\ v.late = late
      BY <1>1, <2>1 DEF Handle, late
    <2> QED
      BY <2>2 DEF late
  <1>9. v # NoHandle
    BY <1>8, HandleAssumption
  <1>10. \A x : Phase(x)' = Phase(x)
    BY <1>1, SamePhases
  <1>11. /\ FiredTyped'
         /\ \A x \in Reservations :
              /\ fired'["reserved"][x] = fired["reserved"][x]
              /\ fired'["committed"][x] = fired["committed"][x]
              /\ fired'["overrun"][x] = IF op[t].late /\ x = r THEN fired["overrun"][x] + 1
                                                               ELSE fired["overrun"][x]
    <2> DEFINE events == IF op[t].late THEN {"overrun"} ELSE {}
    <2>1. events \in SUBSET EventNames
      BY DEF EventNames
    <2>2. /\ FiredTyped'
          /\ \A e \in EventNames, x \in Reservations :
               fired'[e][x] = IF e \in events /\ x = r THEN fired[e][x] + 1 ELSE fired[e][x]
      BY <1>1, <1>5, <2>1, FireCounts DEF EInv
    <2>3. /\ "overrun" \in events <=> op[t].late
          /\ "reserved" \notin events /\ "committed" \notin events
          /\ {"reserved", "committed", "overrun"} \subseteq EventNames
      BY <1>1 DEF EventNames
    <2> HIDE DEF events
    <2> QED
      BY <2>2, <2>3
  <1>12. fired["overrun"][r] = 0 /\ fired["committed"][r] = 0
    BY <1>1, <1>3 DEF Due
  <1> HIDE DEF h, r, v
  <1>13. \A u \in Tasks : /\ handle'[u] = NoHandle <=> handle[u] = NoHandle
                          /\ handle'[u].id = handle[u].id
    BY <1>1, <1>7, <1>8, <1>9 DEF r
  <1>14. \A u \in Tasks, x \in Reservations :
           Lands(u, x)' => Lands(u, x) /\ (u # t => op'[u] = op[u])
    <2> SUFFICES ASSUME NEW u \in Tasks, NEW x \in Reservations, Lands(u, x)'
                 PROVE  Lands(u, x) /\ (u # t => op'[u] = op[u])
      OBVIOUS
    <2>1. CASE u = t
      BY <1>1, <1>2, <1>6, <1>13, <2>1 DEF Lands, r
    <2>2. CASE u # t
      <3>1. op'[u] = op[u] /\ op[u].on \in Tasks
        BY <1>6, <2>2, CommitsHaveHandles DEF Lands
      <3> QED
        BY <1>13, <2>2, <3>1 DEF Lands
    <2> QED
      BY <2>1, <2>2
  <1>15. OneHandleEach'
    BY <1>6, <1>13 DEF EInv, OneHandleEach
  <1>16. HandlesTell'
    <2> SUFFICES ASSUME NEW u \in Tasks, NEW x \in Reservations, Holds(u, x)'
                 PROVE  /\ handle'[u].late => Phase(x) \in {"lapsed", "committedLate"}
                        /\ handle'[u].state = "committed" =>
                             Phase(x) = PaidPhase(handle'[u].late)
      BY <1>10 DEF HandlesTell
    <2>1. Holds(u, x)
      BY <1>13 DEF Holds
    <2>2. CASE u = h
      <3>1. x = r
        BY <2>1, <2>2 DEF Holds, r
      <3>2. handle[h].late => op[t].late
        BY <1>3, <2>1, <2>2, <3>1 DEF EInv, HandlesTell, PaidPhase
      <3> QED
        BY <1>3, <1>7, <1>8, <2>2, <3>1, <3>2 DEF PaidPhase
    <2>3. CASE u # h
      BY <1>7, <2>1, <2>3 DEF EInv, HandlesTell
    <2> QED
      BY <2>2, <2>3
  <1>17. LandedTell'
    <2>1. \A u \in Tasks : op'[u].late = op[u].late
      BY <1>6
    <2> QED
      BY <1>10, <1>14, <2>1 DEF EInv, LandedTell
  <1>18. OneLands'
    BY <1>14 DEF EInv, OneLands
  <1>19. Unannounced'
    BY <1>11, <1>13 DEF EInv, Unannounced, Tasks
  <1>20. EventsDue'
    <2> SUFFICES ASSUME NEW u \in Tasks, NEW x \in Reservations, Lands(u, x)'
                 PROVE  Due(u, x)'
      BY DEF EventsDue
    <2>1. CASE u = t
      <3>1. x = r
        BY <1>14, <2>1 DEF Lands, h, r
      <3> QED
        BY <1>1, <1>6, <1>11, <1>12, <2>1, <3>1 DEF Due
    <2>2. CASE u # t
      <3>1. Lands(u, x) /\ op'[u] = op[u] /\ x # r
        BY <1>4, <1>14, <2>2
      <3> QED
        BY <1>11, <3>1 DEF EInv, EventsDue, Due
    <2> QED
      BY <2>1, <2>2
  <1>21. EventsMatchLedger'
    <2> SUFFICES ASSUME NEW x \in Reservations
                 PROVE  /\ fired'["reserved"][x] <= 1
                        /\ fired'["committed"][x] <= 1
                        /\ fired'["committed"][x] = 1 => Phase(x) \in {"committed", "committedLate"}
                        /\ fired'["overrun"][x] <= 1
                        /\ fired'["overrun"][x] = 1 => Phase(x) = "committedLate"
                        /\ fired'["committed"][x] = 1 /\ Phase(x) = "committedLate" =>
                             fired'["overrun"][x] = 1
      BY <1>10 DEF EventsMatchLedger
    <2>1. CASE x = r
      BY <1>3, <1>11, <1>12, <2>1 DEF EInv, EventsMatchLedger, PaidPhase
    <2>2. CASE x # r
      BY <1>11, <2>2 DEF EInv, EventsMatchLedger
    <2> QED
      BY <2>1, <2>2
  <1> QED
    BY <1>11, <1>15, <1>16, <1>17, <1>18, <1>19, <1>20, <1>21 DEF EInv

(* Only a commit that landed is announced.                                 *)
AnnouncesLanded == \A t \in Tasks : In(t, "commit", "announce") => op[t].landed

(* The listeners are told of the commit, once.                             *)
LEMMA AnnounceStep ==
  ASSUME BInv, EInv, AnnouncesLanded, NEW t \in Tasks, CommitAnnounce(t)
  PROVE  EInv'
  <1> DEFINE r == handle[op[t].on].id
  <1>1. /\ op[t].name = "commit" /\ op[t].at = "announce" /\ op[t].landed
        /\ r \in Reservations /\ op[t].late \in BOOLEAN /\ UNCHANGED <<ledger, handle>>
    BY CommitsHaveHandles DEF CommitAnnounce, In, ledgerVars, AnnouncesLanded
  <1>2. Lands(t, r)
    BY <1>1 DEF Lands
  <1>3. Phase(r) = PaidPhase(op[t].late) /\ Due(t, r)
    BY <1>1, <1>2 DEF EInv, LandedTell, EventsDue
  <1>4. \A u \in Tasks, x \in Reservations : Lands(u, x) /\ u # t => x # r
    BY <1>2 DEF EInv, OneLands
  <1>5. op'[t] = Idle /\ \A u \in Tasks \ {t} : op'[u] = op[u]
    BY DEF CommitAnnounce, Finish, BInv, TasksTyped
  <1>6. \A x : Phase(x)' = Phase(x)
    BY <1>1, SamePhases
  <1>7. /\ FiredTyped'
        /\ \A x \in Reservations :
             /\ fired'["reserved"][x] = fired["reserved"][x]
             /\ fired'["committed"][x] = IF x = r THEN fired["committed"][x] + 1
                                                  ELSE fired["committed"][x]
             /\ fired'["overrun"][x] = fired["overrun"][x]
    <2>1. Fire({"committed"}, r)
      BY DEF CommitAnnounce
    <2>2. /\ FiredTyped'
          /\ \A e \in EventNames, x \in Reservations :
               fired'[e][x] = IF e \in {"committed"} /\ x = r THEN fired[e][x] + 1
                                                              ELSE fired[e][x]
      BY <1>1, <2>1, FireCounts DEF EInv, EventNames
    <2> QED
      BY <2>2 DEF EventNames
  <1>8. fired["committed"][r] = 0 /\ (op[t].late => fired["overrun"][r] = 1)
    BY <1>1, <1>3 DEF Due
  <1> HIDE DEF r
  <1>9. \A u \in Tasks, x \in Reservations : Lands(u, x)' => Lands(u, x) /\ op'[u] = op[u] /\ x # r
    <2> SUFFICES ASSUME NEW u \in Tasks, NEW x \in Reservations, Lands(u, x)'
                 PROVE  Lands(u, x) /\ op'[u] = op[u] /\ x # r
      OBVIOUS
    <2>1. u # t /\ op'[u] = op[u]
      BY <1>5 DEF Lands, Idle
    <2> QED
      BY <1>1, <1>4, <2>1 DEF Lands
  <1>10. OneHandleEach'
    <2>1. Idle \notin Requesting
      BY DEF Idle, Requesting
    <2> QED
      BY <1>1, <1>5, <2>1 DEF EInv, OneHandleEach
  <1>11. HandlesTell' /\ LandedTell' /\ OneLands'
    <2>1. HandlesTell'
      BY <1>1, <1>6 DEF EInv, HandlesTell, Holds
    <2>2. LandedTell' /\ OneLands'
      BY <1>6, <1>9 DEF EInv, LandedTell, OneLands
    <2> QED
      BY <2>1, <2>2
  <1>12. Unannounced'
    BY <1>1, <1>7 DEF EInv, Unannounced, Tasks
  <1>13. EventsDue'
    BY <1>7, <1>9 DEF EInv, EventsDue, Due
  <1>14. EventsMatchLedger'
    <2> SUFFICES ASSUME NEW x \in Reservations
                 PROVE  /\ fired'["reserved"][x] <= 1
                        /\ fired'["committed"][x] <= 1
                        /\ fired'["committed"][x] = 1 => Phase(x) \in {"committed", "committedLate"}
                        /\ fired'["overrun"][x] <= 1
                        /\ fired'["overrun"][x] = 1 => Phase(x) = "committedLate"
                        /\ fired'["committed"][x] = 1 /\ Phase(x) = "committedLate" =>
                             fired'["overrun"][x] = 1
      BY <1>6 DEF EventsMatchLedger
    <2>1. CASE x = r
      BY <1>3, <1>7, <1>8, <2>1 DEF EInv, EventsMatchLedger, PaidPhase
    <2>2. CASE x # r
      BY <1>7, <2>2 DEF EInv, EventsMatchLedger
    <2> QED
      BY <2>1, <2>2
  <1> QED
    BY <1>7, <1>10, <1>11, <1>12, <1>13, <1>14 DEF EInv

(* What a task does to its coroutine: others keep theirs; only a commit    *)
(* that landed goes on to announce, only its own transaction says landed.  *)
LEMMA OpChanges ==
  ASSUME BInv, NEW t \in Tasks, Call(t) \/ Resume(t) \/ Abandon(t)
  PROVE  /\ \A u \in Tasks \ {t} : op'[u] = op[u]
         /\ In(t, "commit", "announce")' => CommitReturn(t) /\ op[t].landed /\ op'[t].landed
         /\ op'[t].name = "commit" /\ op'[t].at = "return" => CommitTx(t)
         /\ op'[t] \in Requesting => op[t] \in Requesting \/ handle[t] = NoHandle
  <1>1. op \in [Tasks -> Ops]
    BY DEF BInv, TasksTyped, Ops
  <1>2. CASE Call(t)
    <2>1. ASSUME NEW call, CallReserve(t, call)
          PROVE  /\ op'[t].name = "reserve" /\ handle[t] = NoHandle
                 /\ \A u \in Tasks \ {t} : op'[u] = op[u]
      BY <1>1, <2>1 DEF CallReserve
    <2>2. ASSUME NEW h, NEW name \in {"observe", "commit", "release"}, NEW cost,
                 Begin(t, h, name, cost)
          PROVE  /\ op'[t].name = name /\ op'[t].at = "tx"
                 /\ \A u \in Tasks \ {t} : op'[u] = op[u]
      BY <1>1, <2>2 DEF Begin
    <2>3. ASSUME NEW raised, Exit(t, raised)
          PROVE  \E name \in {"observe", "commit", "release"} : \E cost : Begin(t, t, name, cost)
      BY <2>3 DEF Exit
    <2>4. \/ \E call : CallReserve(t, call)
          \/ \E h, cost : Begin(t, h, "observe", cost)
          \/ \E h, cost : Begin(t, h, "commit", cost)
          \/ \E h, cost : Begin(t, h, "release", cost)
          \/ \E raised : Exit(t, raised)
      BY <1>2 DEF Call, BeginObserve, BeginCommit, BeginRelease
    <2>5. \/ op'[t].name = "reserve" /\ handle[t] = NoHandle
          \/ op'[t].name \in {"observe", "commit", "release"} /\ op'[t].at = "tx"
      BY <2>1, <2>2, <2>3, <2>4
    <2>6. \A u \in Tasks \ {t} : op'[u] = op[u]
      BY <2>1, <2>2, <2>3, <2>4
    <2> QED
      BY <2>5, <2>6 DEF In, Requesting
  <1>3. ASSUME NEW at, Goto(t, at), op[t] \in Ops, op[t].name # "idle", op[t].name # "gone"
        PROVE  /\ op'[t].name = op[t].name /\ op'[t].at = at
               /\ op[t].name = "commit" => op'[t].landed = op[t].landed
               /\ \A u \in Tasks \ {t} : op'[u] = op[u]
    <2>1. op[t] \in Requesting \/ op[t] \in Using
      BY <1>3 DEF Ops, Idle, Gone
    <2> QED
      BY <1>1, <1>3, <2>1 DEF Goto, Requesting, Using
  <1>4. ASSUME op' = [op EXCEPT ![t] = Idle] \/ op' = [op EXCEPT ![t] = Gone]
        PROVE  /\ op'[t].name \in {"idle", "gone"} /\ op'[t] \notin Requesting
               /\ \A u \in Tasks \ {t} : op'[u] = op[u]
    BY <1>1, <1>4 DEF Idle, Gone, Requesting
  <1>5. CASE PreCheck(t) \/ ReadClock(t) \/ ReserveTx(t) \/ ReserveReturn(t) \/ Requery(t)
    <2>1. op[t] \in Requesting /\ op[t].name = "reserve" /\ op[t] \in Ops
      BY <1>1, <1>5, OpTyped DEF PreCheck, ReadClock, ReserveTx, ReserveReturn, Requery, In
    <2>2. \/ op' = [op EXCEPT ![t] = Idle]
          \/ \E at : Goto(t, at)
          \/ ReadClock(t)
      BY <1>5 DEF PreCheck, ReserveTx, ReserveReturn, Requery, ReturnCached, Finish
    <2>3. ReadClock(t) => op'[t].name = "reserve" /\ \A u \in Tasks \ {t} : op'[u] = op[u]
      BY <1>1, <2>1 DEF ReadClock, Requesting
    <2>4. \A u \in Tasks \ {t} : op'[u] = op[u]
      BY <1>3, <1>4, <2>1, <2>2, <2>3
    <2>5. op'[t].name \in {"idle", "gone", "reserve"}
      BY <1>3, <1>4, <2>1, <2>2, <2>3
    <2> QED
      BY <2>1, <2>4, <2>5 DEF In
  <1>6. CASE ObserveTx(t) \/ ReleaseTx(t)
    <2>1. /\ op[t].name \in {"observe", "release"} /\ op[t] \in Ops /\ Goto(t, "return")
      BY <1>1, <1>6 DEF ObserveTx, ReleaseTx, In
    <2>2. op'[t].name \in {"observe", "release"} /\ \A u \in Tasks \ {t} : op'[u] = op[u]
      BY <1>3, <2>1
    <2> QED
      BY <2>2 DEF In, Requesting
  <1>7. CASE CommitTx(t)
    <2>1. op[t] \in Using /\ op[t].name = "commit"
      BY <1>7, OpTyped DEF CommitTx, In
    <2>2. PICK landed \in BOOLEAN, late \in BOOLEAN :
            op' = [op EXCEPT ![t].at = "return", ![t].landed = landed, ![t].late = late]
      BY <1>7 DEF CommitTx
    <2>3. op'[t].at = "return" /\ op'[t].name = "commit" /\ \A u \in Tasks \ {t} : op'[u] = op[u]
      BY <1>1, <2>1, <2>2 DEF Using
    <2> QED
      BY <1>7, <2>3 DEF In, Requesting
  <1>8. CASE CommitReturn(t)
    <2>1. op[t].name = "commit" /\ op[t] \in Ops
      BY <1>1, <1>8 DEF CommitReturn, In
    <2>2. CASE op[t].landed
      <3>1. Goto(t, "announce")
        BY <1>8, <2>2 DEF CommitReturn
      <3>2. /\ op'[t].name = "commit" /\ op'[t].at = "announce"
            /\ op'[t].landed = op[t].landed
            /\ \A u \in Tasks \ {t} : op'[u] = op[u]
        BY <1>3, <2>1, <3>1
      <3>3. op'[t].landed /\ op'[t] \notin Requesting
        BY <2>2, <3>2 DEF Requesting
      <3> QED
        BY <1>8, <2>2, <3>2, <3>3
    <2>3. CASE ~op[t].landed
      <3>1. op' = [op EXCEPT ![t] = Idle]
        BY <1>8, <2>3 DEF CommitReturn, Finish
      <3> QED
        BY <1>4, <3>1 DEF In
    <2> QED
      BY <2>2, <2>3
  <1>9. CASE ObserveReturn(t) \/ CommitAnnounce(t) \/ ReleaseReturn(t) \/ Abandon(t)
    <2>1. op' = [op EXCEPT ![t] = Idle] \/ op' = [op EXCEPT ![t] = Gone]
      BY <1>9 DEF ObserveReturn, CommitAnnounce, ReleaseReturn, Abandon, Finish
    <2> QED
      BY <1>4, <2>1 DEF In
  <1> QED
    BY <1>2, <1>5, <1>6, <1>7, <1>8, <1>9 DEF Resume

LEMMA AnnouncesLandedStep ==
  ASSUME BInv, AnnouncesLanded, [BudgetNext]_budgetVars
  PROVE  AnnouncesLanded'
  <1>1. CASE UNCHANGED op
    BY <1>1 DEF AnnouncesLanded, In
  <1>2. ASSUME NEW t \in Tasks, Call(t) \/ Resume(t) \/ Abandon(t)
        PROVE  AnnouncesLanded'
    <2>1. /\ \A u \in Tasks \ {t} : op'[u] = op[u]
          /\ In(t, "commit", "announce")' => op'[t].landed
      BY <1>2, OpChanges
    <2> QED
      BY <2>1 DEF AnnouncesLanded, In
  <1> QED
    BY <1>1, <1>2 DEF BudgetNext, Elsewhere, budgetVars

(* What the rows of a duplicate say, its new handle says.                  *)
LEMMA CachedHandleTells ==
  ASSUME BInv, NEW id \in DOMAIN ledger
  PROVE  /\ CachedHandle(id) \in Handle
         /\ CachedHandle(id).late => Phase(CachedHandle(id).id) \in {"lapsed", "committedLate"}
         /\ CachedHandle(id).state = "committed" =>
              Phase(CachedHandle(id).id) = PaidPhase(CachedHandle(id).late)
  <1>1. id \in RowsOf(id[1]) /\ ledger[id] \in Row
    BY DEF RowsOf, BInv, IInv, TablesTyped, LedgerTyped
  <1>2. \A x \in RowsOf(id[1]) : PhaseOf(ledger[x]) = PhaseOf(ledger[<<id[1], 1>>])
    BY <1>1, RowsAgree DEF BInv, IInv, PhaseOf
  <1>3. Phase(id[1]) = PhaseOf(ledger[id])
    BY <1>1, <1>2 DEF Phase
  <1>4. ledger[id].late => ledger[id].state # "reserved"
    BY DEF BInv, IInv, GroupsAgree
  <1>5. ledger[id].late \in BOOLEAN /\ ledger[id].state \in {"reserved", "committed", "released"}
    BY <1>1 DEF Row
  <1>6. /\ CachedHandle(id).id = id[1] /\ CachedHandle(id).late = ledger[id].late
        /\ CachedHandle(id).state = ledger[id].state
    BY DEF CachedHandle
  <1> QED
    BY <1>3, <1>4, <1>5, <1>6, CachedHandleTyped DEF PhaseOf, PaidPhase

LEMMA EventsStep ==
  ASSUME BInv, BInv', EInv, AnnouncesLanded, [BudgetNext]_budgetVars
  PROVE  EInv'
  <1>1. \A r \in Reservations : Advances(r)
    BY EveryStepAdvances
  <1>2. CASE UNCHANGED <<op, handle, fired>>
    BY <1>1, <1>2, QuietStep
  <1>3. ASSUME NEW t \in Tasks, Call(t) \/ Resume(t) \/ Abandon(t),
               UNCHANGED <<handle, fired>>,
               ~CommitTx(t) \/ ~op'[t].landed, ~CommitReturn(t) \/ ~op[t].landed
        PROVE  EInv'
    <2>1. \A u \in Tasks \ {t} : op'[u] = op[u]
      BY <1>3, OpChanges
    <2>2. ~(op'[t].name = "commit" /\ op'[t].at \in {"return", "announce"} /\ op'[t].landed)
      BY <1>3, OpChanges DEF In
    <2>3. op'[t] \in Requesting => handle[t] = NoHandle
      BY <1>3, OpChanges DEF EInv, OneHandleEach
    <2> QED
      BY <1>1, <1>3, <2>1, <2>2, <2>3, QuietStep
  <1>4. ASSUME NEW t \in Tasks, ReturnCached(t), op[t].name = "reserve"
        PROVE  EInv'
    <2>1. PICK id \in DOMAIN ledger : handle' = [handle EXCEPT ![t] = CachedHandle(id)]
      BY <1>4 DEF ReturnCached, RowsFor
    <2>2. /\ op' = [op EXCEPT ![t] = Idle] /\ UNCHANGED <<ledger, fired>>
          /\ op[t] \in Requesting
      BY <1>4, OpTyped DEF ReturnCached, Finish, ledgerVars
    <2>3. FiredTyped'
      BY <2>2 DEF EInv, FiredTyped
    <2>4. PICK v \in Handle :
            /\ handle' = [handle EXCEPT ![t] = v]
            /\ v.late => Phase(v.id) \in {"lapsed", "committedLate"}
            /\ v.state = "committed" => Phase(v.id) = PaidPhase(v.late)
      BY <2>1, CachedHandleTells
    <2>5. \A x \in Reservations : fired'["reserved"][x] = fired["reserved"][x]
                                 /\ fired'["committed"][x] = fired["committed"][x]
                                 /\ fired'["overrun"][x] = fired["overrun"][x]
      BY <2>2
    <2> QED
      BY <2>2, <2>3, <2>4, <2>5, NewHandleStep
  <1>5. ASSUME NEW t \in Tasks, ReserveReturn(t)
        PROVE  EInv'
    <2> DEFINE v == [id |-> t, est |-> op[t].call.est, actual |-> NoCost,
                     state |-> "reserved", late |-> FALSE,
                     request |-> op[t].call.request, created |-> TRUE]
    <2>1. /\ op' = [op EXCEPT ![t] = Idle] /\ UNCHANGED ledger /\ Fire({"reserved"}, t)
          /\ op[t] \in Requesting /\ handle' = [handle EXCEPT ![t] = v]
      BY <1>5, OpTyped DEF ReserveReturn, In, Finish, ledgerVars
    <2>2. v \in Handle
      <3>1. op[t].call.est \in Nat /\ op[t].call.request \in RequestIds \cup {NoRequest}
        BY <2>1, BudgetAssumption, LedgerAssumption DEF Requesting
      <3> QED
        BY <3>1 DEF Handle, Tasks
    <2>3. /\ FiredTyped'
          /\ \A e \in EventNames, x \in Reservations :
               fired'[e][x] = IF e \in {"reserved"} /\ x = t THEN fired[e][x] + 1
                                                             ELSE fired[e][x]
      BY <2>1, FireCounts DEF EInv, EventNames, Tasks
    <2>4. \A x \in Reservations :
           /\ \/ fired'["reserved"][x] = fired["reserved"][x]
              \/ x = t /\ fired'["reserved"][x] = fired["reserved"][x] + 1
           /\ fired'["committed"][x] = fired["committed"][x]
           /\ fired'["overrun"][x] = fired["overrun"][x]
      <3>1. {"reserved", "committed", "overrun"} \subseteq EventNames
        BY DEF EventNames
      <3> HIDE DEF v
      <3> QED
        BY <2>3, <3>1
    <2>5. v.state = "reserved" /\ ~v.late
      OBVIOUS
    <2> HIDE DEF v
    <2> QED
      BY <2>1, <2>2, <2>3, <2>4, <2>5, NewHandleStep
  <1>6. ASSUME NEW t \in Tasks, ObserveReturn(t) \/ ReleaseReturn(t)
        PROVE  EInv'
    <2> DEFINE h == op[t].on
    <2>1. /\ op[t].name \in {"observe", "release"} /\ UNCHANGED ledger
          /\ op' = [op EXCEPT ![t] = Idle]
      BY <1>6 DEF ObserveReturn, ReleaseReturn, In, ledgerVars
    <2>2. /\ h \in Tasks /\ op[t].cost \in Nat /\ handle[h] \in Handle
          /\ handle[h] # NoHandle /\ handle[h].id \in Reservations
      BY <2>1, HandleInUse, HandleAssumption
    <2> HIDE DEF h
    <2>3. CASE ObserveReturn(t)
      <3> DEFINE v == [handle[h] EXCEPT !.actual = op[t].cost]
      <3>1. handle' = [handle EXCEPT ![h] = v] /\ UNCHANGED fired
        BY <2>3 DEF ObserveReturn, h
      <3>2. /\ v \in Handle /\ v.id = handle[h].id /\ v.late = handle[h].late
            /\ v.state = handle[h].state
        BY <2>2 DEF Handle
      <3>3. FiredTyped'
        BY <3>1 DEF EInv, FiredTyped
      <3> HIDE DEF v
      <3> QED
        BY <2>1, <2>2, <3>1, <3>2, <3>3, OldHandleStep
    <2>4. CASE ReleaseReturn(t)
      <3> DEFINE v == [handle[h] EXCEPT !.state = "released"]
      <3>1. handle' = [handle EXCEPT ![h] = v] /\ Fire({"released"}, handle[h].id)
        BY <2>4 DEF ReleaseReturn, h
      <3>2. /\ v \in Handle /\ v.id = handle[h].id /\ v.late = handle[h].late
            /\ v.state # "committed"
        BY <2>2 DEF Handle
      <3>3. /\ FiredTyped'
            /\ \A e \in EventNames, x \in Reservations :
                 fired'[e][x] = IF e \in {"released"} /\ x = handle[h].id
                                THEN fired[e][x] + 1 ELSE fired[e][x]
        BY <2>2, <3>1, FireCounts DEF EInv, EventNames
      <3>4. \A x \in Reservations :
             /\ fired'["reserved"][x] = fired["reserved"][x]
             /\ fired'["committed"][x] = fired["committed"][x]
             /\ fired'["overrun"][x] = fired["overrun"][x]
        BY <3>3 DEF EventNames
      <3> HIDE DEF v
      <3> QED
        BY <2>1, <2>2, <3>1, <3>2, <3>3, <3>4, OldHandleStep
    <2> QED
      BY <1>6, <2>3, <2>4
  <1>7. ASSUME NEW t \in Tasks, Call(t) \/ Resume(t) \/ Abandon(t)
        PROVE  EInv'
    <2>1. CASE CommitTx(t) /\ op'[t].landed
      BY <2>1, LandStep
    <2>2. CASE CommitReturn(t) /\ op[t].landed
      BY <2>2, LandedReturnStep
    <2>3. CASE CommitAnnounce(t)
      BY <2>3, AnnounceStep
    <2>4. CASE ObserveReturn(t) \/ ReleaseReturn(t)
      BY <2>4, <1>6
    <2>5. CASE ReserveReturn(t)
      BY <2>5, <1>5
    <2>6. CASE (PreCheck(t) \/ Requery(t)) /\ ReturnCached(t)
      BY <2>6, <1>4 DEF PreCheck, Requery, In
    <2>7. CASE \/ Call(t) \/ Abandon(t)
              \/ ReadClock(t) \/ ReserveTx(t) \/ ObserveTx(t) \/ ReleaseTx(t)
              \/ (CommitTx(t) /\ ~op'[t].landed) \/ (CommitReturn(t) /\ ~op[t].landed)
              \/ ((PreCheck(t) \/ Requery(t)) /\ ~ReturnCached(t))
      <3>1. UNCHANGED <<handle, fired>>
        BY <2>7 DEF Call, CallReserve, BeginObserve, BeginCommit, BeginRelease, Exit, Begin,
                    Abandon, ReadClock, ReserveTx, ObserveTx, ReleaseTx, CommitTx,
                    CommitReturn, PreCheck, Requery
      <3>2. CASE ~(CommitTx(t) /\ op'[t].landed) /\ ~(CommitReturn(t) /\ op[t].landed)
        BY <1>3, <1>7, <3>1, <3>2
      <3> QED
        BY <2>1, <2>2, <3>2
    <2> QED
      BY <1>7, <2>1, <2>2, <2>3, <2>4, <2>5, <2>6, <2>7 DEF Resume
  <1> QED
    BY <1>2, <1>7 DEF BudgetNext, Elsewhere, budgetVars

LEMMA EventsInit == BudgetInit => EInv /\ AnnouncesLanded
  <1> SUFFICES ASSUME BudgetInit PROVE EInv /\ AnnouncesLanded
    OBVIOUS
  <1>1. \A t \in Tasks : op[t] = Idle /\ handle[t] = NoHandle
    BY DEF BudgetInit
  <1>2. \A t \in Tasks : \A r : ~Lands(t, r) /\ ~Holds(t, r) /\ ~In(t, "commit", "announce")
    BY <1>1 DEF Lands, Holds, Idle, In
  <1>3. \A e \in EventNames, r \in Reservations : fired[e][r] = 0
    BY DEF BudgetInit
  <1>4. FiredTyped
    BY DEF BudgetInit, FiredTyped
  <1>5. EventsMatchLedger /\ Unannounced
    BY <1>3 DEF EventsMatchLedger, Unannounced, EventNames, Tasks
  <1> QED
    BY <1>1, <1>2, <1>4, <1>5 DEF EInv, OneHandleEach, HandlesTell, LandedTell, OneLands,
                                  EventsDue, AnnouncesLanded

(* Handles, commits under way and events agree with the phases that the    *)
(* ledger gives the reservations.                                          *)
THEOREM EventsInvariant == BudgetSpec => [](EInv /\ AnnouncesLanded)
  <1>1. BInv /\ BInv' /\ EInv /\ AnnouncesLanded /\ [BudgetNext]_budgetVars
          => EInv' /\ AnnouncesLanded'
    BY EventsStep, AnnouncesLandedStep
  <1> QED
    BY <1>1, EventsInit, BudgetInvariant, PTL DEF BudgetSpec

(* A handle that says committed stands for a reservation that the ledger   *)
(* charges, and is late exactly if the sweeper had been first              *)
(* (Reservation.commit), however its callers and the sweeper interleave.   *)
THEOREM CommittedHandlesTell == BudgetSpec => []CommittedHandlesAreTrue
  <1>1. BInv /\ EInv => CommittedHandlesAreTrue
    <2> SUFFICES ASSUME BInv, EInv, NEW t \in Tasks, handle[t] # NoHandle,
                        handle[t].state = "committed"
                 PROVE  Phase(handle[t].id) =
                          IF handle[t].late THEN "committedLate" ELSE "committed"
      BY DEF CommittedHandlesAreTrue
    <2>1. Holds(t, handle[t].id) /\ handle[t].id \in Reservations
      BY CommitsHaveHandles DEF Holds
    <2> QED
      BY <2>1 DEF EInv, HandlesTell, PaidPhase
  <1> QED
    BY <1>1, BudgetInvariant, EventsInvariant, PTL

(* Listeners may add up what they are told: each reservation is announced  *)
(* once as reserved and once as committed, and what is announced as paid   *)
(* or as an overrun is so in the ledger (EventDispatcher.fire).            *)
THEOREM EventsAddUp == BudgetSpec => []EventsMatchLedger
  <1>1. EInv => EventsMatchLedger
    BY DEF EInv
  <1> QED
    BY <1>1, EventsInvariant, PTL

--------------------------------------------------------------------------------
(* The coroutines implement the ledger: what holds of its transactions, in *)
(* any order, holds of every interleaving of callers.                      *)

(* An amount that has been rounded to micro-cents is not rounded again.    *)
LEMMA StoredStaysStored == ASSUME NEW m \in Nat PROVE ToMicros(FromMicros(m)) = m
  <1> DEFINE d == 2 * Quantum
             n == 2 * (m * Quantum) + Quantum
             q == n \div d
  <1>1. Quantum \in Nat /\ Quantum > 0 /\ m * Quantum \in Nat
    BY QuantumAssumption
  <1>2. d \in Nat /\ d > 0 /\ n \in Nat /\ Quantum < d
    BY <1>1
  <1>3. n = d * m + Quantum
    BY <1>1
  <1>4. \A a, b \in Nat : b > 0 => a \div b \in Nat /\ b * (a \div b) <= a
                                                    /\ a < b * (a \div b) + b
    OBVIOUS
  <1> HIDE DEF d, n
  <1>5. q \in Nat /\ d * q <= n /\ n < d * q + d
    BY <1>2, <1>4
  <1> HIDE DEF q
  <1>6. \A a, b \in Nat : a + 1 <= b => d * a + d <= d * b
    <2> SUFFICES ASSUME NEW a \in Nat, NEW b \in Nat, a + 1 <= b
                 PROVE  d * a + d <= d * b
      OBVIOUS
    <2>1. d * (a + 1) <= d * b
      BY <1>2
    <2>2. d * (a + 1) = d * a + d
      BY <1>2
    <2> QED
      BY <2>1, <2>2
  <1>7. d * q \in Nat /\ d * m \in Nat
    BY <1>2, <1>5
  <1>8. ~(q + 1 <= m)
    BY <1>1, <1>2, <1>3, <1>5, <1>6, <1>7
  <1>9. ~(m + 1 <= q)
    BY <1>1, <1>2, <1>3, <1>5, <1>6, <1>7
  <1>10. q = m
    BY <1>5, <1>8, <1>9
  <1> QED
    BY <1>10 DEF q, d, n, ToMicros, FromMicros

(* The stored amounts that callers' estimates and costs become.            *)
Stored == {ToMicros(cost) : cost \in Costs \cup Estimates}

RowPriced(row) == row.est \in Stored /\ row.actual \in Stored \cup {NoCost}

(* A coroutine carries an amount that a caller gave, or one that its       *)
(* handle repeats; its clock reading is not in the future.                 *)
OpPriced(o, now) ==
  /\ o.name = "reserve" => o.now <= now
  /\ o.name = "observe" => o.cost \in Costs
  /\ o.name = "commit" => ToMicros(o.cost) \in Stored

HandlePriced(h) ==
  h # NoHandle =>
    ToMicros(h.est) \in Stored /\ (h.actual # NoCost => ToMicros(h.actual) \in Stored)

MInv ==
  /\ \A id \in DOMAIN ledger : RowPriced(ledger[id])
  /\ \A t \in Tasks : OpPriced(op[t], clock) /\ HandlePriced(handle[t])

RowsPricedNext == \A id \in DOMAIN ledger' : RowPriced(ledger'[id])

LEMMA PricedStep ==
  ASSUME BInv, BInv', MInv, RowsPricedNext, clock' >= clock,
         \A u \in Tasks : op'[u] = op[u] \/ OpPriced(op'[u], clock'),
         \A u \in Tasks : handle'[u] = handle[u] \/ HandlePriced(handle'[u])
  PROVE  MInv'
  <1>1. clock \in Time /\ clock' \in Time /\ Time \subseteq Int
    BY TimeAssumption DEF BInv, IInv, TablesTyped, Time
  <1>2. \A u \in Tasks : OpPriced(op[u], clock) => OpPriced(op[u], clock')
    <2> SUFFICES ASSUME NEW u \in Tasks, OpPriced(op[u], clock), op[u].name = "reserve"
                 PROVE  op[u].now <= clock'
      BY DEF OpPriced
    <2>1. op[u].now \in Time
      BY OpTyped DEF Requesting
    <2>2. op[u].now <= clock
      BY DEF OpPriced
    <2>3. \A a, b, c \in Int : a <= b /\ c >= b => a <= c
      OBVIOUS
    <2> QED
      BY <1>1, <2>1, <2>2, <2>3
  <1> QED
    BY <1>2 DEF MInv, RowsPricedNext

(* The tables of a ledger step: rows keep their estimate, and get the      *)
(* amounts that the step names.                                            *)
LEMMA UpdatesPriced ==
  ASSUME BInv, MInv, NEW r, NEW cost, ToMicros(cost) \in Stored,
         Observe(r, cost) \/ Commit(r, cost)
  PROVE  RowsPricedNext /\ UNCHANGED clock
  <1>1. \A id \in DOMAIN ledger : ledger[id] \in Row /\ RowPriced(ledger[id])
    BY DEF BInv, IInv, TablesTyped, LedgerTyped, MInv
  <1>2. \A row \in Row : RowPriced(row) =>
          RowPriced(Observed(row, cost)) /\ RowPriced(Paid(row, cost))
            /\ RowPriced(PaidLate(row, cost))
    BY DEF Row, RowPriced, Observed, Paid, PaidLate
  <1>3. CASE Observe(r, cost)
    BY <1>1, <1>2, <1>3 DEF Observe, Update, RowsPricedNext
  <1>4. CASE Commit(r, cost)
    BY <1>1, <1>2, <1>4 DEF Commit, Update, RowsPricedNext
  <1> QED
    BY <1>3, <1>4

LEMMA ReleasePriced ==
  ASSUME BInv, MInv, (\E r : Release(r)) \/ (\E now : SweepAt(now))
  PROVE  RowsPricedNext /\ UNCHANGED clock
  <1>1. \A id \in DOMAIN ledger : ledger[id] \in Row /\ RowPriced(ledger[id])
    BY DEF BInv, IInv, TablesTyped, LedgerTyped, MInv
  <1>2. \A row \in Row : RowPriced(row) => RowPriced(Refunded(row)) /\ RowPriced(Lapsed(row))
    BY DEF Row, RowPriced, Refunded, Lapsed
  <1> QED
    BY <1>1, <1>2 DEF Release, SweepAt, Update, RowsPricedNext

LEMMA ReservePriced ==
  ASSUME BInv, MInv, NEW r, NEW scopes \in Requests, NEW est \in Estimates, NEW request,
         NEW now, NEW ttl, Reserve(r, scopes, est, request, now, ttl)
  PROVE  RowsPricedNext /\ UNCHANGED clock
  <1> DEFINE new == NewRows(r, scopes, est, request, now, ttl)
  <1>1. \A id \in DOMAIN new : RowPriced(new[id])
    BY DEF NewRows, NewRow, RowPriced, Stored
  <1>2. /\ ledger' = [id \in DOMAIN ledger \cup DOMAIN new |->
                        IF id \in DOMAIN new THEN new[id] ELSE ledger[id]]
        /\ UNCHANGED clock
    BY DEF Reserve
  <1> HIDE DEF new
  <1> QED
    BY <1>1, <1>2 DEF MInv, RowsPricedNext

LEMMA SamePriced == ASSUME MInv, UNCHANGED ledgerVars
                    PROVE  RowsPricedNext /\ UNCHANGED clock
  BY DEF MInv, RowsPricedNext, ledgerVars

(* Where the handle that a task works on gets its amounts from.            *)
LEMMA DefaultPriced ==
  ASSUME BInv, MInv, NEW h \in Tasks, handle[h] # NoHandle
  PROVE  ToMicros(DefaultCost(h)) \in Stored
  <1>1. HandlePriced(handle[h])
    BY DEF MInv
  <1> QED
    BY <1>1 DEF DefaultCost, HandlePriced

LEMMA CachedPriced ==
  ASSUME BInv, MInv, NEW id \in DOMAIN ledger
  PROVE  HandlePriced(CachedHandle(id))
  <1>1. ledger[id] \in Row /\ RowPriced(ledger[id])
    BY DEF BInv, IInv, TablesTyped, LedgerTyped, MInv
  <1>2. \A m \in Nat : ToMicros(FromMicros(m)) = m
    BY StoredStaysStored
  <1>3. /\ ToMicros(FromMicros(ledger[id].est)) \in Stored
        /\ ledger[id].actual # NoCost => ToMicros(FromMicros(ledger[id].actual)) \in Stored
    BY <1>1, <1>2 DEF RowPriced, Row
  <1>4. /\ CachedHandle(id).est = FromMicros(ledger[id].est)
        /\ CachedHandle(id).actual # NoCost =>
             /\ ledger[id].actual # NoCost
             /\ CachedHandle(id).actual = FromMicros(ledger[id].actual)
    BY DEF CachedHandle
  <1> QED
    BY <1>3, <1>4 DEF HandlePriced

LEMMA CallPriced ==
  ASSUME BInv, MInv, NEW t \in Tasks, Call(t)
  PROVE  /\ UNCHANGED <<ledgerVars, handle>>
         /\ \A u \in Tasks : op'[u] = op[u] \/ OpPriced(op'[u], clock')
  <1>1. UNCHANGED <<ledgerVars, handle>>
    BY DEF Call, CallReserve, BeginObserve, BeginCommit, BeginRelease, Exit, Begin
  <1>2. op \in [Tasks -> Ops]
    BY DEF BInv, TasksTyped, Ops
  <1>3. ASSUME NEW o, op' = [op EXCEPT ![t] = o], OpPriced(o, clock)
        PROVE  \A u \in Tasks : op'[u] = op[u] \/ OpPriced(op'[u], clock')
    <2>1. clock' = clock
      BY <1>1 DEF ledgerVars
    <2> QED
      BY <1>2, <1>3, <2>1
  <1>4. ASSUME NEW call, CallReserve(t, call)
        PROVE  \E o : op' = [op EXCEPT ![t] = o] /\ OpPriced(o, clock)
    <2> DEFINE o == [name |-> "reserve", call |-> call, now |-> 0,
                     at |-> IF call.request = NoRequest THEN "clock" ELSE "precheck"]
    <2>1. 0 <= clock
      BY TimeAssumption DEF BInv, IInv, TablesTyped, Time
    <2>2. OpPriced(o, clock)
      BY <2>1 DEF OpPriced
    <2>3. op' = [op EXCEPT ![t] = o]
      BY <1>4 DEF CallReserve
    <2> QED
      BY <2>2, <2>3
  <1>5. ASSUME NEW h, NEW name \in {"observe", "commit", "release"}, NEW cost,
               Begin(t, h, name, cost),
               name = "observe" => cost \in Costs,
               name = "commit" => ToMicros(cost) \in Stored
        PROVE  \E o : op' = [op EXCEPT ![t] = o] /\ OpPriced(o, clock)
    <2> DEFINE o == [name |-> name, at |-> "tx", on |-> h, cost |-> cost,
                     landed |-> FALSE, late |-> FALSE]
    <2>1. OpPriced(o, clock)
      BY <1>5 DEF OpPriced
    <2>2. op' = [op EXCEPT ![t] = o]
      BY <1>5 DEF Begin
    <2> QED
      BY <2>1, <2>2
  <1>6. \A h \in Tasks : handle[h] # NoHandle => ToMicros(DefaultCost(h)) \in Stored
    BY DefaultPriced
  <1>7. \A cost \in Costs : ToMicros(cost) \in Stored
    BY DEF Stored
  <1>8. ASSUME NEW call \in Calls, CallReserve(t, call)
        PROVE  \E o : op' = [op EXCEPT ![t] = o] /\ OpPriced(o, clock)
    BY <1>4, <1>8
  <1>9. ASSUME NEW h \in Tasks, NEW cost \in Costs, BeginObserve(t, h, cost)
        PROVE  \E o : op' = [op EXCEPT ![t] = o] /\ OpPriced(o, clock)
    BY <1>5, <1>9 DEF BeginObserve
  <1>10. ASSUME NEW h \in Tasks, NEW cost \in Costs \cup {NoCost}, BeginCommit(t, h, cost)
         PROVE  \E o : op' = [op EXCEPT ![t] = o] /\ OpPriced(o, clock)
    <2> DEFINE paid == IF cost = NoCost THEN DefaultCost(h) ELSE cost
    <2>1. Begin(t, h, "commit", paid) /\ handle[h] # NoHandle
      BY <1>10 DEF BeginCommit, Begin, MayUse
    <2>2. ToMicros(paid) \in Stored
      BY <1>6, <1>7, <2>1
    <2> HIDE DEF paid
    <2> QED
      BY <1>5, <2>1, <2>2
  <1>11. ASSUME NEW h \in Tasks, BeginRelease(t, h)
         PROVE  \E o : op' = [op EXCEPT ![t] = o] /\ OpPriced(o, clock)
    BY <1>5, <1>11 DEF BeginRelease
  <1>12. ASSUME NEW raised \in BOOLEAN, Exit(t, raised)
         PROVE  \E o : op' = [op EXCEPT ![t] = o] /\ OpPriced(o, clock)
    <2>1. CASE raised
      BY <1>5, <1>12, <2>1 DEF Exit
    <2>2. CASE ~raised
      <3>1. Begin(t, t, "commit", DefaultCost(t)) /\ handle[t] # NoHandle
        BY <1>12, <2>2 DEF Exit, Begin, MayUse
      <3> QED
        BY <1>5, <1>6, <3>1
    <2> QED
      BY <2>1, <2>2
  <1> QED
    BY <1>1, <1>3, <1>8, <1>9, <1>10, <1>11, <1>12 DEF Call

(* The coroutine that goes on keeps its amounts.                           *)
LEMMA GoingOnPriced ==
  ASSUME BInv, MInv, NEW t \in Tasks, UNCHANGED clock,
         \/ \E at : Goto(t, at)
         \/ op' = [op EXCEPT ![t] = Idle]
         \/ op' = [op EXCEPT ![t] = Gone]
         \/ ReadClock(t)
         \/ CommitTx(t)
  PROVE  \A u \in Tasks : op'[u] = op[u] \/ OpPriced(op'[u], clock')
  <1>1. op \in [Tasks -> Ops] /\ OpPriced(op[t], clock)
    BY DEF BInv, TasksTyped, Ops, MInv
  <1>2. ASSUME NEW o, op' = [op EXCEPT ![t] = o], OpPriced(o, clock)
        PROVE  \A u \in Tasks : op'[u] = op[u] \/ OpPriced(op'[u], clock')
    BY <1>1, <1>2
  <1>3. CASE \E at : Goto(t, at)
    <2>1. PICK at : op' = [op EXCEPT ![t] = [op[t] EXCEPT !.at = at]]
      BY <1>3 DEF Goto
    <2>2. op[t] \in Requesting \/ op[t] \in Using => OpPriced([op[t] EXCEPT !.at = at], clock)
      BY <1>1 DEF Requesting, Using, OpPriced
    <2>3. op[t] = Idle \/ op[t] = Gone => OpPriced([op[t] EXCEPT !.at = at], clock)
      BY DEF OpPriced, Idle, Gone
    <2> QED
      BY <1>1, <1>2, <2>1, <2>2, <2>3 DEF Ops
  <1>4. CASE op' = [op EXCEPT ![t] = Idle] \/ op' = [op EXCEPT ![t] = Gone]
    <2>1. OpPriced(Idle, clock) /\ OpPriced(Gone, clock)
      BY DEF OpPriced, Idle, Gone
    <2> QED
      BY <1>2, <1>4, <2>1
  <1>5. CASE ReadClock(t)
    <2>1. op[t] \in Requesting
      BY <1>5, OpTyped DEF ReadClock, In
    <2>2. op' = [op EXCEPT ![t] = [op[t] EXCEPT !.now = clock, !.at = "tx"]]
      BY <1>5 DEF ReadClock
    <2>3. clock <= clock
      BY TimeAssumption DEF BInv, IInv, TablesTyped, Time
    <2>4. OpPriced([op[t] EXCEPT !.now = clock, !.at = "tx"], clock)
      BY <2>1, <2>3 DEF OpPriced, Requesting
    <2> QED
      BY <1>2, <2>2, <2>4
  <1>6. CASE CommitTx(t)
    <2>1. op[t] \in Using
      BY <1>6, OpTyped DEF CommitTx, In
    <2>2. PICK landed \in BOOLEAN, late \in BOOLEAN :
            op' = [op EXCEPT ![t] = [op[t] EXCEPT !.at = "return", !.landed = landed,
                                                  !.late = late]]
      BY <1>6 DEF CommitTx
    <2>3. OpPriced([op[t] EXCEPT !.at = "return", !.landed = landed, !.late = late], clock)
      BY <1>1, <2>1 DEF Using, OpPriced
    <2> QED
      BY <1>2, <2>2, <2>3
  <1> QED
    BY <1>3, <1>4, <1>5, <1>6

LEMMA MoneyStep ==
  ASSUME BInv, BInv', MInv, [BudgetNext]_budgetVars
  PROVE  MInv'
  <1>1. clock \in Time /\ Time \subseteq Int
    BY TimeAssumption DEF BInv, IInv, TablesTyped, Time
  <1>2. handle \in [Tasks -> Handle \cup {NoHandle}]
    BY DEF BInv, TasksTyped
  <1>3. ASSUME RowsPricedNext /\ UNCHANGED clock,
               \A u \in Tasks : op'[u] = op[u] \/ OpPriced(op'[u], clock'),
               \A u \in Tasks : handle'[u] = handle[u] \/ HandlePriced(handle'[u])
        PROVE  MInv'
    BY <1>1, <1>3, PricedStep
  <1>4. ASSUME NEW h, NEW v, handle' = [handle EXCEPT ![h] = v], HandlePriced(v)
        PROVE  \A u \in Tasks : handle'[u] = handle[u] \/ HandlePriced(handle'[u])
    BY <1>2, <1>4
  <1>5. CASE UNCHANGED budgetVars
    BY <1>3, <1>5, SamePriced DEF budgetVars, ledgerVars
  <1>6. CASE Elsewhere
    <2>1. CASE SetSomeLimit
      <3>1. RowsPricedNext /\ UNCHANGED clock
        BY <2>1 DEF SetSomeLimit, SetLimit, MInv, RowsPricedNext
      <3> QED
        BY <1>3, <1>6, <3>1 DEF Elsewhere
    <2>2. CASE Sweep
      BY <1>3, <1>6, <2>2, ReleasePriced DEF Elsewhere, Sweep
    <2>3. CASE Tick
      <3>1. RowsPricedNext /\ clock' >= clock
        BY <1>1, <2>3 DEF Tick, MInv, RowsPricedNext
      <3> QED
        BY <1>6, <3>1, PricedStep DEF Elsewhere
    <2> QED
      BY <1>6, <2>1, <2>2, <2>3 DEF Elsewhere
  <1>7. ASSUME NEW t \in Tasks, Call(t)
        PROVE  MInv'
    BY <1>3, <1>7, CallPriced, SamePriced
  <1>8. ASSUME NEW t \in Tasks, Resume(t) \/ Abandon(t), UNCHANGED ledgerVars
        PROVE  MInv'
    <2>1. RowsPricedNext /\ UNCHANGED clock
      BY <1>8, SamePriced
    <2>2. \A u \in Tasks : op'[u] = op[u] \/ OpPriced(op'[u], clock')
      <3>1. \/ \E at : Goto(t, at)
            \/ op' = [op EXCEPT ![t] = Idle]
            \/ op' = [op EXCEPT ![t] = Gone]
            \/ ReadClock(t)
            \/ CommitTx(t)
        BY <1>8 DEF Resume, Abandon, PreCheck, ReserveTx, ReserveReturn, Requery, ReturnCached,
                    Finish, ObserveTx, ObserveReturn, CommitReturn, CommitAnnounce,
                    ReleaseTx, ReleaseReturn
      <3> QED
        BY <2>1, <3>1, GoingOnPriced
    <2>3. \A u \in Tasks : handle'[u] = handle[u] \/ HandlePriced(handle'[u])
      <3>1. CASE UNCHANGED handle
        BY <3>1
      <3>2. CASE ReturnCached(t)
        <4>1. PICK id \in DOMAIN ledger : handle' = [handle EXCEPT ![t] = CachedHandle(id)]
          BY <3>2 DEF ReturnCached, RowsFor
        <4> QED
          BY <1>4, <4>1, CachedPriced
      <3>3. CASE ReserveReturn(t)
        <4> DEFINE v == [id |-> t, est |-> op[t].call.est, actual |-> NoCost,
                         state |-> "reserved", late |-> FALSE,
                         request |-> op[t].call.request, created |-> TRUE]
        <4>1. handle' = [handle EXCEPT ![t] = v] /\ op[t] \in Requesting
          BY <3>3, OpTyped DEF ReserveReturn, In
        <4>2. op[t].call.est \in Estimates
          BY <4>1, BudgetAssumption DEF Requesting
        <4>3. HandlePriced(v)
          BY <4>2 DEF HandlePriced, Stored
        <4> HIDE DEF v
        <4> QED
          BY <1>4, <4>1, <4>3
      <3>4. CASE ObserveReturn(t) \/ ReleaseReturn(t) \/ CommitReturn(t)
        <4> DEFINE h == op[t].on
        <4>1. /\ h \in Tasks /\ handle[h] \in Handle /\ HandlePriced(handle[h])
              /\ OpPriced(op[t], clock) /\ handle[h] # NoHandle
          BY <3>4, HandleInUse, HandleAssumption
             DEF ObserveReturn, ReleaseReturn, CommitReturn, In, MInv
        <4> HIDE DEF h
        <4>2. CASE ObserveReturn(t)
          <5>1. /\ handle' = [handle EXCEPT ![h] = [handle[h] EXCEPT !.actual = op[t].cost]]
                /\ op[t].cost \in Costs
            BY <4>1, <4>2 DEF ObserveReturn, In, OpPriced, h
          <5>2. ToMicros(op[t].cost) \in Stored
            BY <5>1 DEF Stored
          <5>3. HandlePriced([handle[h] EXCEPT !.actual = op[t].cost])
            BY <4>1, <5>2 DEF HandlePriced, Handle
          <5> QED
            BY <1>4, <5>1, <5>3
        <4>3. CASE ReleaseReturn(t)
          <5>1. handle' = [handle EXCEPT ![h] = [handle[h] EXCEPT !.state = "released"]]
            BY <4>3 DEF ReleaseReturn, h
          <5>2. HandlePriced([handle[h] EXCEPT !.state = "released"])
            BY <4>1 DEF HandlePriced, Handle
          <5> QED
            BY <1>4, <5>1, <5>2
        <4>4. CASE CommitReturn(t) /\ op[t].landed
          <5> DEFINE v == [handle[h] EXCEPT !.state = "committed", !.actual = op[t].cost,
                                            !.late = handle[h].late \/ op[t].late]
          <5>1. handle' = [handle EXCEPT ![h] = v] /\ ToMicros(op[t].cost) \in Stored
            BY <4>1, <4>4 DEF CommitReturn, In, OpPriced, h
          <5>2. v.est = handle[h].est /\ v.actual = op[t].cost
            BY <4>1 DEF Handle
          <5> HIDE DEF v
          <5>3. HandlePriced(v)
            BY <4>1, <5>1, <5>2 DEF HandlePriced
          <5> QED
            BY <1>4, <5>1, <5>3
        <4>5. CASE CommitReturn(t) /\ ~op[t].landed
          BY <4>5 DEF CommitReturn
        <4> QED
          BY <3>4, <4>2, <4>3, <4>4, <4>5
      <3> QED
        BY <1>8, <3>1, <3>2, <3>3, <3>4
           DEF Resume, Abandon, PreCheck, ReadClock, ReserveTx, Requery, ObserveTx, CommitTx,
               CommitAnnounce, ReleaseTx
    <2> QED
      BY <1>3, <2>1, <2>2, <2>3
  <1>9. ASSUME NEW t \in Tasks, ObserveTx(t) \/ CommitTx(t) \/ ReleaseTx(t) \/ ReserveTx(t),
               ~UNCHANGED ledgerVars
        PROVE  MInv'
    <2>1. RowsPricedNext /\ UNCHANGED clock
      <3>1. OpPriced(op[t], clock)
        BY DEF MInv
      <3>2. CASE ObserveTx(t)
        <4>1. ToMicros(op[t].cost) \in Stored
          BY <3>1, <3>2 DEF ObserveTx, In, OpPriced, Stored
        <4> QED
          BY <3>2, <4>1, UpdatesPriced DEF ObserveTx
      <3>3. CASE CommitTx(t)
        <4>1. ToMicros(op[t].cost) \in Stored
          BY <3>1, <3>3 DEF CommitTx, In, OpPriced
        <4> QED
          BY <3>3, <4>1, UpdatesPriced DEF CommitTx
      <3>4. CASE ReleaseTx(t)
        BY <3>4, ReleasePriced DEF ReleaseTx
      <3>5. CASE ReserveTx(t)
        <4> DEFINE call == op[t].call
        <4>1. Reserve(t, call.scopes, call.est, call.request, op[t].now, call.ttl)
          BY <1>9, <3>5 DEF ReserveTx
        <4>2. op[t] \in Requesting
          BY <3>5, OpTyped DEF ReserveTx, In
        <4>3. call.scopes \in Requests /\ call.est \in Estimates
          BY <4>2, BudgetAssumption DEF Requesting
        <4> QED
          BY <4>1, <4>3, ReservePriced
      <3> QED
        BY <1>9, <3>2, <3>3, <3>4, <3>5
    <2>2. \A u \in Tasks : op'[u] = op[u] \/ OpPriced(op'[u], clock')
      <3>1. \/ \E at : Goto(t, at)
            \/ op' = [op EXCEPT ![t] = Idle]
            \/ CommitTx(t)
        BY <1>9 DEF ReserveTx, ObserveTx, ReleaseTx, Finish
      <3> QED
        BY <2>1, <3>1, GoingOnPriced
    <2>3. UNCHANGED handle
      BY <1>9 DEF ObserveTx, CommitTx, ReleaseTx, ReserveTx
    <2> QED
      BY <1>3, <2>1, <2>2, <2>3
  <1>10. ASSUME NEW t \in Tasks, Resume(t) \/ Abandon(t), ~UNCHANGED ledgerVars
         PROVE  ObserveTx(t) \/ CommitTx(t) \/ ReleaseTx(t) \/ ReserveTx(t)
    BY <1>10 DEF Resume, Abandon, PreCheck, ReadClock, ReserveReturn, Requery, ReturnCached,
                 ObserveReturn, CommitReturn, CommitAnnounce, ReleaseReturn
  <1> QED
    BY <1>5, <1>6, <1>7, <1>8, <1>9, <1>10 DEF BudgetNext

LEMMA MoneyInit == BudgetInit => MInv
  <1> SUFFICES ASSUME BudgetInit PROVE MInv
    OBVIOUS
  <1>1. \A t \in Tasks : op[t] = Idle /\ handle[t] = NoHandle
    BY DEF BudgetInit
  <1>2. \A t \in Tasks : OpPriced(op[t], clock) /\ HandlePriced(handle[t])
    BY <1>1 DEF OpPriced, HandlePriced, Idle
  <1>3. DOMAIN ledger = {}
    BY DEF BudgetInit, Init
  <1> QED
    BY <1>2, <1>3 DEF MInv

THEOREM MoneyInvariant == BudgetSpec => []MInv
  <1>1. BInv /\ BInv' /\ MInv /\ [BudgetNext]_budgetVars => MInv'
    BY MoneyStep
  <1> QED
    BY <1>1, MoneyInit, BudgetInvariant, PTL DEF BudgetSpec

(* A clock reading may be used however long after it was taken: nothing    *)
(* bounds how long a transaction of reserve is waited for.                 *)
AnyLag == MaxLag >= MaxTime

(* Each step of a task is a transaction of the ledger, or none of its      *)
(* business.                                                               *)
LEMMA StepsAreTransactions ==
  ASSUME AnyLag, BInv, MInv, [BudgetNext]_budgetVars
  PROVE  [Next]_vars
  <1> USE DEF vars, ledgerVars
  <1>1. CASE UNCHANGED budgetVars
    BY <1>1 DEF budgetVars
  <1>2. CASE Elsewhere
    BY <1>2 DEF Elsewhere, Next
  <1>3. ASSUME NEW t \in Tasks, ObserveTx(t)
        PROVE  ObserveSome
    <2>1. handle[op[t].on].id \in Reservations
      BY <1>3, HandleInUse DEF ObserveTx, In
    <2>2. op[t].cost \in Costs
      BY <1>3 DEF ObserveTx, In, MInv, OpPriced
    <2> QED
      BY <1>3, <2>1, <2>2 DEF ObserveTx, ObserveSome
  <1>4. ASSUME NEW t \in Tasks, CommitTx(t)
        PROVE  CommitSome
    <2> DEFINE r == handle[op[t].on].id
    <2>1. r \in Reservations /\ Commit(r, op[t].cost)
      BY <1>4, HandleInUse DEF CommitTx, In
    <2>2. ToMicros(op[t].cost) \in Stored
      BY <1>4 DEF CommitTx, In, MInv, OpPriced
    <2>3. PICK cost \in Costs \cup Estimates : ToMicros(op[t].cost) = ToMicros(cost)
      BY <2>2 DEF Stored
    <2>4. \A row : /\ Paid(row, op[t].cost) = Paid(row, cost)
                   /\ PaidLate(row, op[t].cost) = PaidLate(row, cost)
      BY <2>3 DEF Paid, PaidLate
    <2>5. Commit(r, cost)
      BY <2>1, <2>4 DEF Commit, Update
    <2> QED
      BY <2>1, <2>5 DEF CommitSome
  <1>5. ASSUME NEW t \in Tasks, ReleaseTx(t)
        PROVE  ReleaseSome
    BY <1>5, HandleInUse DEF ReleaseTx, In, ReleaseSome
  <1>6. ASSUME NEW t \in Tasks, ReserveTx(t)
        PROVE  ReserveSome \/ UNCHANGED vars
    <2> DEFINE call == op[t].call
    <2>1. op[t] \in Requesting /\ op[t].name = "reserve" /\ t \in Reservations
      BY <1>6, OpTyped DEF ReserveTx, In, Tasks
    <2>2. /\ call.scopes \in Requests /\ call.est \in Estimates
          /\ call.request \in RequestIds \cup {NoRequest} /\ call.ttl \in TTLs
          /\ op[t].now \in Time
      BY <2>1, BudgetAssumption DEF Requesting
    <2>3. op[t].now \in Recent
      <3>1. op[t].now <= clock
        BY <2>1 DEF MInv, OpPriced
      <3>2. clock \in Time
        BY DEF BInv, IInv, TablesTyped
      <3>3. MaxTime \in Nat /\ MaxLag \in Nat /\ MaxLag >= MaxTime
        BY TimeAssumption, LedgerAssumption DEF AnyLag
      <3>4. clock - op[t].now <= MaxLag
        BY <2>2, <3>2, <3>3 DEF Time
      <3> QED
        BY <2>2, <3>1, <3>4 DEF Recent
    <2>4. CASE Reserve(t, call.scopes, call.est, call.request, op[t].now, call.ttl)
      BY <2>1, <2>2, <2>3, <2>4 DEF ReserveSome, ReserveAt
    <2> QED
      BY <1>6, <2>4 DEF ReserveTx
  <1>7. ASSUME NEW t \in Tasks, Call(t) \/ Resume(t) \/ Abandon(t),
               ~(ObserveTx(t) \/ CommitTx(t) \/ ReleaseTx(t) \/ ReserveTx(t))
        PROVE  UNCHANGED vars
    BY <1>7 DEF Call, CallReserve, BeginObserve, BeginCommit, BeginRelease, Exit, Begin,
                Abandon, Resume, PreCheck, ReadClock, ReserveReturn, Requery, ReturnCached,
                ObserveReturn, CommitReturn, CommitAnnounce, ReleaseReturn
  <1> QED
    BY <1>1, <1>2, <1>3, <1>4, <1>5, <1>6, <1>7 DEF BudgetNext, Next

(* Every interleaving of the coroutines of core.py is a sequence of the    *)
(* ledger's transactions, so the caps and the lifecycle hold of concurrent *)
(* callers, crashed ones included.                                         *)
THEOREM CallersFollowLedger ==
  ASSUME AnyLag
  PROVE  BudgetSpec => ImplementsLedger
  <1>1. BudgetInit => Init
    BY DEF BudgetInit
  <1>2. BInv /\ MInv /\ [BudgetNext]_budgetVars => [Next]_vars
    BY StepsAreTransactions
  <1> QED
    BY <1>1, <1>2, BudgetInvariant, MoneyInvariant, PTL DEF BudgetSpec, ImplementsLedger, Spec

(* What the ledger promises where clock readings cannot be relied on: caps *)
(* on lifetimes, whose one bucket every reading falls in.                  *)
LifetimeCaps == \A w \in Windows : Boundaries[w] = {0}

(* No reservation that any interleaving of callers is granted exceeds a    *)
(* cap and its grace: "The cap MUST NOT be exceeded under any concurrent   *)
(* execution" (protocol section 3), for caps on lifetimes.                 *)
THEOREM CallersStayWithinCap ==
  ASSUME AnyLag, LifetimeCaps, DistinctEntities, WholeCaps
  PROVE  BudgetSpec => GrantsWithinCap
  <1>1. \A w \in Windows : Steady(w)
    BY DEF LifetimeCaps, Steady
  <1>2. Spec => GrantsWithinCap
    BY <1>1, GrantsStayWithinCap
  <1>3. BudgetSpec => Spec
    BY CallersFollowLedger DEF ImplementsLedger
  <1> QED
    BY <1>2, <1>3, PTL

(* A call ends with one of the answers that the API has.                   *)
AnswersTyped == answer \in [Tasks -> Answers]

LEMMA AnswersTypedStep ==
  ASSUME AnswersTyped, [BudgetNext]_budgetVars
  PROVE  AnswersTyped'
  <1>1. CASE UNCHANGED answer
    BY <1>1 DEF AnswersTyped
  <1>2. ASSUME NEW t \in Tasks, NEW how \in Answers, Finish(t, how)
        PROVE  AnswersTyped'
    BY <1>2 DEF Finish, AnswersTyped
  <1>3. /\ "reservation" \in Answers /\ "exceeded" \in Answers /\ "conflict" \in Answers
        /\ "settled" \in Answers /\ "invalid" \in Answers
    BY DEF Answers
  <1>4. ASSUME NEW t \in Tasks, Call(t) \/ Resume(t) \/ Abandon(t)
        PROVE  UNCHANGED answer \/ \E how \in Answers : Finish(t, how)
    BY <1>3, <1>4 DEF Call, CallReserve, BeginObserve, BeginCommit, BeginRelease, Exit, Begin,
                      Abandon, Resume, PreCheck, ReadClock, ReserveTx, ReserveReturn, Requery,
                      ReturnCached, ObserveTx, ObserveReturn, CommitTx, CommitReturn,
                      CommitAnnounce, ReleaseTx, ReleaseReturn
  <1> QED
    BY <1>1, <1>2, <1>4 DEF BudgetNext, Elsewhere, budgetVars

(* Handles refer to rows that exist, calls under way to handles that exist,*)
(* and the tables stay typed whatever the callers do.                      *)
THEOREM BudgetTypesAreCorrect ==
  ASSUME AnyLag, LifetimeCaps
  PROVE  BudgetSpec => []BudgetTypeOK
  <1>1. \A w \in Windows : Steady(w)
    BY DEF LifetimeCaps, Steady
  <1>2. BudgetSpec => []TypeOK
    <2>1. Spec => []TypeOK
      BY <1>1, TypesAreCorrect
    <2>2. BudgetSpec => Spec
      BY CallersFollowLedger DEF ImplementsLedger
    <2> QED
      BY <2>1, <2>2, PTL
  <1>3. BudgetInit => AnswersTyped
    BY DEF BudgetInit, AnswersTyped, Answers
  <1>4. AnswersTyped /\ [BudgetNext]_budgetVars => AnswersTyped'
    BY AnswersTypedStep
  <1>5. TypeOK /\ BInv /\ EInv /\ AnswersTyped => BudgetTypeOK
    <2> SUFFICES ASSUME BInv, NEW t \in Tasks
                 PROVE  /\ handle[t] # NoHandle =>
                             handle[t] \in Handle /\ RowsOf(handle[t].id) # {}
                        /\ op[t].name \in {"observe", "commit", "release"} =>
                             handle[op[t].on] # NoHandle
      BY DEF BudgetTypeOK, EInv, FiredTyped, AnswersTyped
    <2>1. handle[t] # NoHandle => handle[t] \in Handle /\ RowsOf(handle[t].id) # {}
      BY DEF BInv, TasksTyped, HandlesHaveRows, HasRow
    <2>2. op[t].name \in {"observe", "commit", "release"} => handle[op[t].on] # NoHandle
      BY OpTyped DEF BInv, UsesHandles
    <2> QED
      BY <2>1, <2>2
  <1> QED
    BY <1>2, <1>3, <1>4, <1>5, BudgetInvariant, EventsInvariant, PTL DEF BudgetSpec

--------------------------------------------------------------------------------
(* The amount that a committed handle shows.                               *)

(* A handle is used by the task that reserved it, one call at a time.      *)
OwnHandles == \A pair \in Sharing : pair[1] = pair[2]

Charged(r, cost) == \A id \in RowsOf(r) : ledger[id].actual = ToMicros(cost)

CommittedPriced ==
  \A id \in DOMAIN ledger : ledger[id].state = "committed" => ledger[id].actual # NoCost

OwnUse == \A t \in Tasks : op[t] \in Using => op[t].on = t

(* Nothing commits a handle while it is observed.                          *)
ObservesReserved == \A t \in Tasks : op[t].name = "observe" => handle[t].state = "reserved"

HandlesShow ==
  \A t \in Tasks : handle[t] # NoHandle /\ handle[t].state = "committed" =>
    Charged(handle[t].id, handle[t].actual)

LandedShow == \A t \in Tasks, r \in Reservations : Lands(t, r) => Charged(r, op[t].cost)

SInv == AmountsAgree /\ CommittedPriced /\ OwnUse /\ ObservesReserved /\ HandlesShow /\ LandedShow

(* Committed rows are final, and no group of rows grows.                   *)
SettledStay ==
  /\ \A id \in DOMAIN ledger : ledger[id].state = "committed" =>
       id \in DOMAIN ledger' /\ ledger'[id] = ledger[id]
  /\ \A id \in DOMAIN ledger' : RowsOf(id[1]) # {} => id \in DOMAIN ledger

CommittedPricedNext ==
  \A id \in DOMAIN ledger' : ledger'[id].state = "committed" => ledger'[id].actual # NoCost

LEMMA UpdatesSettle ==
  ASSUME BInv, CommittedPriced, NEW r, NEW cost \in Nat,
         Observe(r, cost) \/ Commit(r, cost) \/ Release(r) \/ \E now : SweepAt(now)
  PROVE  SettledStay /\ CommittedPricedNext
  <1>1. \A id \in DOMAIN ledger : ledger[id] \in Row
    BY DEF BInv, IInv, TablesTyped, LedgerTyped
  <1>2. ToMicros(cost) # NoCost
    BY MicrosAreNat, NullAssumption
  <1>3. \A row \in Row :
          /\ Observed(row, cost).state = row.state
          /\ Paid(row, cost).actual = ToMicros(cost)
          /\ PaidLate(row, cost).actual = ToMicros(cost)
          /\ Refunded(row).state # "committed" /\ Lapsed(row).state # "committed"
    BY DEF Row, Observed, Paid, PaidLate, Refunded, Lapsed
  <1>4. CASE Observe(r, cost)
    BY <1>1, <1>2, <1>3, <1>4
       DEF Observe, Update, RowsIn, RowsOf, SettledStay, CommittedPricedNext, CommittedPriced
  <1>5. CASE Commit(r, cost)
    BY <1>1, <1>2, <1>3, <1>5
       DEF Commit, LapsedRows, Update, RowsIn, RowsOf, SettledStay, CommittedPricedNext,
           CommittedPriced
  <1>6. CASE Release(r)
    BY <1>1, <1>3, <1>6
       DEF Release, Update, RowsIn, RowsOf, SettledStay, CommittedPricedNext, CommittedPriced
  <1>7. CASE \E now : SweepAt(now)
    BY <1>1, <1>3, <1>7
       DEF SweepAt, ExpiredRows, Update, SettledStay, CommittedPricedNext, CommittedPriced
  <1> QED
    BY <1>4, <1>5, <1>6, <1>7

LEMMA ReserveSettles ==
  ASSUME CommittedPriced, NEW r, NEW scopes, NEW est, NEW request, NEW now, NEW ttl,
         Reserve(r, scopes, est, request, now, ttl)
  PROVE  SettledStay /\ CommittedPricedNext
  <1> DEFINE new == NewRows(r, scopes, est, request, now, ttl)
  <1>1. /\ \A id \in DOMAIN new : id[1] = r /\ new[id].state = "reserved"
        /\ ledger' = [id \in DOMAIN ledger \cup DOMAIN new |->
                        IF id \in DOMAIN new THEN new[id] ELSE ledger[id]]
        /\ RowsOf(r) = {}
    BY DEF Reserve, NewRows, NewRow
  <1> HIDE DEF new
  <1>2. \A id \in DOMAIN ledger : id \notin DOMAIN new
    BY <1>1 DEF RowsOf
  <1> QED
    BY <1>1, <1>2 DEF SettledStay, CommittedPricedNext, CommittedPriced

LEMMA EveryStepSettles ==
  ASSUME BInv, AmountsAgree, CommittedPriced, [BudgetNext]_budgetVars
  PROVE  SettledStay /\ CommittedPricedNext /\ AmountsAgree'
  <1>1. CASE UNCHANGED ledger
    BY <1>1 DEF SettledStay, CommittedPricedNext, CommittedPriced, AmountsAgree, RowsOf
  <1>2. CASE Elsewhere
    <2>1. CASE SetSomeLimit \/ Tick
      BY <1>1, <2>1 DEF SetSomeLimit, SetLimit, Tick
    <2>2. CASE Sweep
      <3>1. PICK now \in Recent : SweepAt(now)
        BY <2>2 DEF Sweep
      <3> QED
        BY <3>1, UpdatesSettle, SweepKeepsAmounts DEF BInv
    <2> QED
      BY <1>2, <2>1, <2>2 DEF Elsewhere
  <1>3. ASSUME NEW t \in Tasks, ObserveTx(t) \/ CommitTx(t) \/ ReleaseTx(t)
        PROVE  SettledStay /\ CommittedPricedNext /\ AmountsAgree'
    <2>1. op[t].cost \in Nat /\ handle[op[t].on].id \in Reservations
      BY <1>3, HandleInUse DEF ObserveTx, CommitTx, ReleaseTx, In
    <2>2. \E r \in Reservations :
            Observe(r, op[t].cost) \/ Commit(r, op[t].cost) \/ Release(r)
      BY <1>3, <2>1 DEF ObserveTx, CommitTx, ReleaseTx
    <2> QED
      BY <2>1, <2>2, UpdatesSettle, UpdatesKeepAmounts DEF BInv
  <1>4. ASSUME NEW t \in Tasks, ReserveTx(t)
        PROVE  SettledStay /\ CommittedPricedNext /\ AmountsAgree'
    <2> DEFINE call == op[t].call
    <2>1. CASE UNCHANGED ledger
      BY <1>1, <2>1
    <2>2. CASE Reserve(t, call.scopes, call.est, call.request, op[t].now, call.ttl)
      <3>1. op[t] \in Requesting
        BY <1>4, OpTyped DEF ReserveTx, In
      <3>2. call.scopes \in Requests
        BY <3>1, BudgetAssumption DEF Requesting
      <3> QED
        BY <2>2, <3>2, ReserveSettles, ReserveKeepsAmounts DEF BInv
    <2> QED
      BY <1>4, <2>1, <2>2 DEF ReserveTx, ledgerVars
  <1>5. ASSUME NEW t \in Tasks, Call(t) \/ Resume(t) \/ Abandon(t),
               ~(ObserveTx(t) \/ CommitTx(t) \/ ReleaseTx(t) \/ ReserveTx(t))
        PROVE  UNCHANGED ledger
    BY <1>5 DEF Call, CallReserve, BeginObserve, BeginCommit, BeginRelease, Exit, Begin,
                Abandon, Resume, PreCheck, ReadClock, ReserveReturn, Requery, ReturnCached,
                ObserveReturn, CommitReturn, CommitAnnounce, ReleaseReturn, ledgerVars
  <1> QED
    BY <1>1, <1>2, <1>3, <1>4, <1>5 DEF BudgetNext, budgetVars

(* The rows of a reservation that is paid.                                 *)
LEMMA PaidRows ==
  ASSUME BInv, NEW r \in Reservations, Phase(r) \in {"committed", "committedLate"}
  PROVE  RowsOf(r) # {} /\ \A id \in RowsOf(r) : ledger[id].state = "committed"
  <1>1. RowsOf(r) # {} /\ \A id \in RowsOf(r) : PhaseOf(ledger[id]) = Phase(r)
    BY DEF Phase
  <1>2. \A row \in Row : PhaseOf(row) \in {"committed", "committedLate"} =>
                         row.state = "committed"
    BY DEF PhaseOf, Row
  <1>3. \A id \in RowsOf(r) : ledger[id] \in Row
    BY DEF BInv, IInv, TablesTyped, LedgerTyped, RowsOf
  <1>4. \A id \in RowsOf(r) : ledger[id].state = "committed"
    BY <1>1, <1>2, <1>3
  <1> QED
    BY <1>1, <1>4

(* What the rows of r charge, in the next state.                           *)
ChargedNext(r, cost) ==
  \A id \in DOMAIN ledger' : id[1] = r => ledger'[id].actual = ToMicros(cost)

LEMMA ChargeStays ==
  ASSUME BInv, SettledStay, NEW r \in Reservations, NEW cost, Charged(r, cost),
         Phase(r) \in {"committed", "committedLate"}
  PROVE  ChargedNext(r, cost)
  <1>1. RowsOf(r) # {} /\ \A id \in RowsOf(r) : ledger[id].state = "committed"
    BY PaidRows
  <1> SUFFICES ASSUME NEW id \in DOMAIN ledger', id[1] = r
               PROVE  ledger'[id].actual = ToMicros(cost)
    BY DEF ChargedNext
  <1>2. id \in RowsOf(r)
    BY <1>1 DEF SettledStay, RowsOf
  <1> QED
    BY <1>1, <1>2 DEF SettledStay, Charged, RowsOf

(* A commit that lands charges all the rows what it was called with.       *)
LEMMA LandCharges ==
  ASSUME BInv, NEW r \in Reservations, NEW cost, Commit(r, cost),
         RowsIn(r, "reserved") # {} \/ LapsedRows(r) # {}
  PROVE  ChargedNext(r, cost)
  <1>1. \A id \in DOMAIN ledger : ledger[id] \in Row
    BY DEF BInv, IInv, TablesTyped, LedgerTyped
  <1>2. \A row \in Row : /\ Paid(row, cost).actual = ToMicros(cost)
                         /\ PaidLate(row, cost).actual = ToMicros(cost)
    BY DEF Row, Paid, PaidLate
  <1>3. \A id, x \in RowsOf(r) : /\ ledger[id].state = ledger[x].state
                                 /\ ledger[id].late = ledger[x].late
    BY RowsAgree DEF BInv, IInv
  <1>4. CASE RowsIn(r, "reserved") # {}
    <2>1. RowsIn(r, "reserved") = RowsOf(r)
      BY <1>3, <1>4 DEF RowsIn
    <2>2. ledger' = [id \in DOMAIN ledger |->
                       IF id \in RowsOf(r) THEN Paid(ledger[id], cost) ELSE ledger[id]]
      BY <1>4, <2>1 DEF Commit, Update
    <2> QED
      BY <1>1, <1>2, <2>2 DEF ChargedNext, RowsOf
  <1>5. CASE RowsIn(r, "reserved") = {} /\ LapsedRows(r) # {}
    <2>1. LapsedRows(r) = RowsOf(r)
      BY <1>3, <1>5 DEF RowsIn, LapsedRows
    <2>2. ledger' = [id \in DOMAIN ledger |->
                       IF id \in RowsOf(r) THEN PaidLate(ledger[id], cost) ELSE ledger[id]]
      BY <1>5, <2>1 DEF Commit, Update
    <2> QED
      BY <1>1, <1>2, <2>2 DEF ChargedNext, RowsOf
  <1> QED
    BY <1>4, <1>5

(* A task has changed its own coroutine and handle.                        *)
LEMMA ShowStep ==
  ASSUME BInv, EInv, SInv, SettledStay, CommittedPricedNext, AmountsAgree', NEW t \in Tasks,
         \A u \in Tasks \ {t} : op'[u] = op[u] /\ handle'[u] = handle[u],
         op'[t] \in Using => op'[t].on = t,
         op'[t].name \in {"observe", "commit"} => op'[t] \in Using,
         op'[t].name = "observe" => handle'[t].state = "reserved",
         handle'[t] # NoHandle /\ handle'[t].state = "committed" =>
           \/ handle'[t] = handle[t]
           \/ ChargedNext(handle'[t].id, handle'[t].actual),
         op'[t].name = "commit" /\ op'[t].at \in {"return", "announce"} /\ op'[t].landed =>
           \/ Lands(t, handle'[t].id) /\ op'[t].cost = op[t].cost
           \/ ChargedNext(handle'[t].id, op'[t].cost)
  PROVE  SInv'
  <1>1. CommittedPriced'
    BY DEF CommittedPricedNext, CommittedPriced
  <1>2. OwnUse' /\ ObservesReserved'
    BY DEF SInv, OwnUse, ObservesReserved
  <1>3. ASSUME NEW u \in Tasks, handle[u] # NoHandle, handle[u].state = "committed"
        PROVE  ChargedNext(handle[u].id, handle[u].actual)
    <2>1. Charged(handle[u].id, handle[u].actual)
      BY <1>3 DEF SInv, HandlesShow
    <2>2. handle[u].id \in Reservations /\ Holds(u, handle[u].id)
      BY <1>3, CommitsHaveHandles DEF Holds
    <2>3. Phase(handle[u].id) \in {"committed", "committedLate"}
      BY <1>3, <2>2 DEF EInv, HandlesTell, PaidPhase
    <2> QED
      BY <2>1, <2>2, <2>3, ChargeStays
  <1>4. ASSUME NEW u \in Tasks, handle'[u] # NoHandle, handle'[u].state = "committed"
        PROVE  ChargedNext(handle'[u].id, handle'[u].actual)
    BY <1>3, <1>4
  <1>5. HandlesShow'
    BY <1>4 DEF HandlesShow, ChargedNext, Charged, RowsOf
  <1>6. ASSUME NEW u \in Tasks, NEW r \in Reservations, Lands(u, r)
        PROVE  ChargedNext(r, op[u].cost)
    <2>1. Charged(r, op[u].cost) /\ Phase(r) = PaidPhase(op[u].late)
      BY <1>6 DEF SInv, LandedShow, EInv, LandedTell
    <2> QED
      BY <2>1, ChargeStays DEF PaidPhase
  <1>7. ASSUME NEW u \in Tasks, NEW r \in Reservations,
               op'[u].name = "commit", op'[u].at \in {"return", "announce"}, op'[u].landed,
               handle'[op'[u].on].id = r
        PROVE  ChargedNext(r, op'[u].cost)
    <2>1. CASE u = t
      <3>1. handle'[t].id = r
        BY <1>7, <2>1
      <3>2. (Lands(t, r) /\ op'[t].cost = op[t].cost) \/ ChargedNext(r, op'[t].cost)
        BY <1>7, <2>1, <3>1
      <3> QED
        BY <1>6, <2>1, <3>2
    <2>2. CASE u # t
      <3>1. op'[u] = op[u] /\ op[u] \in Using /\ op[u].on = u
        BY <1>7, <2>2, OpTyped DEF SInv, OwnUse
      <3>2. Lands(u, r)
        BY <1>7, <2>2, <3>1 DEF Lands
      <3> QED
        BY <1>6, <3>1, <3>2
    <2> QED
      BY <2>1, <2>2
  <1>8. LandedShow'
    BY <1>7 DEF LandedShow, Lands, ChargedNext, Charged, RowsOf
  <1> QED
    BY <1>1, <1>2, <1>5, <1>8 DEF SInv

(* What a call does to its coroutine: it starts on its own handle.         *)
LEMMA CallShows ==
  ASSUME BInv, OwnHandles, NEW t \in Tasks, Call(t)
  PROVE  /\ UNCHANGED <<handle, ledger>> /\ \A u \in Tasks \ {t} : op'[u] = op[u]
         /\ op'[t] \in Using => op'[t].on = t
         /\ op'[t].name = "observe" => handle[t].state = "reserved"
         /\ op'[t].name = "commit" => op'[t].at = "tx"
  <1>1. UNCHANGED <<handle, ledger>>
    BY DEF Call, CallReserve, BeginObserve, BeginCommit, BeginRelease, Exit, Begin, ledgerVars
  <1>2. op \in [Tasks -> Ops]
    BY DEF BInv, TasksTyped, Ops
  <1>3. ASSUME NEW call, CallReserve(t, call)
        PROVE  op'[t].name = "reserve" /\ \A u \in Tasks \ {t} : op'[u] = op[u]
    BY <1>2, <1>3 DEF CallReserve
  <1>4. ASSUME NEW h \in Tasks, NEW name \in {"observe", "commit", "release"}, NEW cost,
               Begin(t, h, name, cost)
        PROVE  /\ op'[t].name = name /\ op'[t].at = "tx" /\ op'[t].on = t /\ h = t
               /\ \A u \in Tasks \ {t} : op'[u] = op[u]
    <2>1. h = t
      <3>1. t = h \/ <<t, h>> \in Sharing
        BY <1>4 DEF Begin, MayUse
      <3>2. \A pair \in Sharing : pair[1] = pair[2]
        BY DEF OwnHandles
      <3> QED
        BY <3>1, <3>2
    <2> QED
      BY <1>2, <1>4, <2>1 DEF Begin
  <1>5. CASE \E call : CallReserve(t, call)
    BY <1>1, <1>3, <1>5 DEF Using
  <1>6. CASE \E h \in Tasks, cost \in Costs : BeginObserve(t, h, cost)
    BY <1>1, <1>4, <1>6 DEF BeginObserve
  <1>7. CASE \E h \in Tasks : \E cost : Begin(t, h, "commit", cost)
    BY <1>1, <1>4, <1>7
  <1>8. CASE \E h \in Tasks : \E cost : Begin(t, h, "release", cost)
    BY <1>1, <1>4, <1>8
  <1>9. Exit(t, TRUE) \/ Exit(t, FALSE) =>
          \/ \E h \in Tasks : \E cost : Begin(t, h, "commit", cost)
          \/ \E h \in Tasks : \E cost : Begin(t, h, "release", cost)
    BY DEF Exit
  <1> QED
    BY <1>5, <1>6, <1>7, <1>8, <1>9 DEF Call, BeginCommit, BeginRelease

LEMMA ChargeStep ==
  ASSUME BInv, BInv', EInv, SInv, OwnHandles, NEW t \in Tasks,
         Call(t) \/ Resume(t) \/ Abandon(t), [BudgetNext]_budgetVars
  PROVE  SInv'
  <1>1. SettledStay /\ CommittedPricedNext /\ AmountsAgree'
    BY EveryStepSettles DEF SInv
  <1>2. \A u \in Tasks \ {t} : op'[u] = op[u]
    BY OpChanges
  <1>3. op'[t].name \in {"observe", "commit"} => op'[t] \in Using
    <2>1. op'[t] \in Ops
      BY DEF BInv, TasksTyped, Ops
    <2> QED
      BY <2>1, Ordinary
  <1>4. handle \in [Tasks -> Handle \cup {NoHandle}] /\ op \in [Tasks -> Ops]
    BY DEF BInv, TasksTyped, Ops
  <1>5. CASE Call(t)
    <2>1. /\ UNCHANGED handle
          /\ op'[t] \in Using => op'[t].on = t
          /\ op'[t].name = "observe" => handle[t].state = "reserved"
          /\ op'[t].name = "commit" => op'[t].at = "tx"
      BY <1>5, CallShows
    <2> QED
      BY <1>1, <1>2, <1>3, <2>1, ShowStep
  <1>6. ASSUME op'[t] = Idle \/ op'[t] = Gone,
               \A u \in Tasks \ {t} : handle'[u] = handle[u],
               handle'[t] # NoHandle /\ handle'[t].state = "committed" =>
                 \/ handle'[t] = handle[t]
                 \/ ChargedNext(handle'[t].id, handle'[t].actual)
        PROVE  SInv'
    <2>1. op'[t] \notin Using /\ op'[t].name \notin {"observe", "commit"}
      BY <1>6 DEF Idle, Gone, Using
    <2> QED
      BY <1>1, <1>2, <1>6, <2>1, ShowStep
  <1>7. ASSUME op'[t] \in Requesting, UNCHANGED handle
        PROVE  SInv'
    <2>1. op'[t] \notin Using /\ op'[t].name \notin {"observe", "commit"}
      BY <1>7 DEF Requesting, Using
    <2> QED
      BY <1>1, <1>2, <1>7, <2>1, ShowStep
  <1>8. CASE Abandon(t)
    BY <1>4, <1>6, <1>8 DEF Abandon
  <1>9. CASE ReturnCached(t)
    <2>1. PICK id \in DOMAIN ledger : handle' = [handle EXCEPT ![t] = CachedHandle(id)]
      BY <1>9 DEF ReturnCached, RowsFor
    <2>2. op'[t] = Idle /\ UNCHANGED ledger
      BY <1>4, <1>9 DEF ReturnCached, Finish, ledgerVars
    <2>3. handle'[t] = CachedHandle(id) /\ \A u \in Tasks \ {t} : handle'[u] = handle[u]
      BY <1>4, <2>1
    <2>4. CachedHandle(id).state = "committed" =>
            ChargedNext(CachedHandle(id).id, CachedHandle(id).actual)
      <3> SUFFICES ASSUME CachedHandle(id).state = "committed", NEW x \in RowsOf(id[1])
                   PROVE  ledger[x].actual = ToMicros(CachedHandle(id).actual)
        BY <2>2 DEF ChargedNext, RowsOf, CachedHandle
      <3>1. ledger[id] \in Row /\ ledger[id].state = "committed"
        BY DEF BInv, IInv, TablesTyped, LedgerTyped, CachedHandle
      <3>2. ledger[id].actual # NoCost /\ ledger[id].actual \in Nat
        BY <3>1 DEF SInv, CommittedPriced, Row
      <3>3. ToMicros(CachedHandle(id).actual) = ledger[id].actual
        BY <3>2, StoredStaysStored DEF CachedHandle
      <3>4. ledger[x].actual = ledger[id].actual
        BY DEF SInv, AmountsAgree, RowsOf
      <3> QED
        BY <3>3, <3>4
    <2> QED
      BY <1>6, <2>2, <2>3, <2>4
  <1>10. CASE (PreCheck(t) \/ Requery(t)) /\ ~ReturnCached(t)
    <2>1. UNCHANGED handle
      BY <1>10 DEF PreCheck, Requery
    <2>2. op'[t] = Idle \/ op'[t] \in Requesting
      <3>1. CASE Goto(t, "clock")
        <4>1. op[t] \in Requesting
          BY <1>10, OpTyped DEF PreCheck, Requery, In
        <4> QED
          BY <1>4, <3>1, <4>1 DEF Goto, Requesting
      <3>2. CASE op' = [op EXCEPT ![t] = Idle]
        BY <1>4, <3>2
      <3> QED
        BY <1>10, <3>1, <3>2 DEF PreCheck, Requery, Finish
    <2> QED
      BY <1>6, <1>7, <2>1, <2>2
  <1>11. CASE ReadClock(t) \/ ReserveTx(t)
    <2>1. op[t] \in Requesting /\ UNCHANGED handle
      BY <1>11, OpTyped DEF ReadClock, ReserveTx, In
    <2>2. op'[t] = Idle \/ op'[t].name = "reserve"
      <3>1. CASE ReadClock(t)
        BY <1>4, <2>1, <3>1 DEF ReadClock, Requesting
      <3>2. CASE \E at : Goto(t, at)
        BY <1>4, <2>1, <3>2 DEF Goto, Requesting
      <3>3. CASE op' = [op EXCEPT ![t] = Idle]
        BY <1>4, <3>3
      <3> QED
        BY <1>11, <3>1, <3>2, <3>3 DEF ReserveTx, Finish
    <2>3. op'[t] \in Ops
      BY DEF BInv, TasksTyped, Ops
    <2>4. op'[t] = Idle \/ op'[t] \in Requesting
      BY <2>2, <2>3, Ordinary
    <2> QED
      BY <1>6, <1>7, <2>1, <2>4
  <1>12. CASE ReserveReturn(t)
    <2> DEFINE v == [id |-> t, est |-> op[t].call.est, actual |-> NoCost,
                     state |-> "reserved", late |-> FALSE,
                     request |-> op[t].call.request, created |-> TRUE]
    <2>1. handle' = [handle EXCEPT ![t] = v] /\ op' = [op EXCEPT ![t] = Idle]
      BY <1>12 DEF ReserveReturn, Finish
    <2>2. v.state # "committed"
      OBVIOUS
    <2> HIDE DEF v
    <2>3. /\ handle'[t] = v /\ \A u \in Tasks \ {t} : handle'[u] = handle[u]
          /\ op'[t] = Idle
      BY <1>4, <2>1
    <2> QED
      BY <1>6, <2>2, <2>3
  <1>13. ASSUME op[t].name \in {"observe", "commit", "release"}
         PROVE  /\ op[t] \in Using /\ op[t].on = t /\ handle[t] \in Handle
                /\ handle[t].id \in Reservations
                /\ op[t].name = "observe" => handle[t].state = "reserved"
    BY <1>13, HandleInUse DEF SInv, OwnUse, ObservesReserved
  <1>14. CASE ObserveTx(t) \/ ReleaseTx(t)
    <2>1. /\ op[t] \in Using /\ op[t].on = t
          /\ op[t].name = "observe" => handle[t].state = "reserved"
          /\ op[t].name \in {"observe", "release"}
      BY <1>13, <1>14 DEF ObserveTx, ReleaseTx, In
    <2>2. Goto(t, "return") /\ UNCHANGED handle
      BY <1>14 DEF ObserveTx, ReleaseTx
    <2>3. op'[t].on = t /\ op'[t].name = op[t].name
      BY <1>4, <2>1, <2>2 DEF Goto, Using
    <2> QED
      BY <1>1, <1>2, <1>3, <2>1, <2>2, <2>3, ShowStep
  <1>15. CASE CommitTx(t)
    <2>1. op[t] \in Using /\ op[t].on = t /\ handle[t].id \in Reservations
      BY <1>13, <1>15 DEF CommitTx, In
    <2> DEFINE r == handle[t].id
               normal == RowsIn(r, "reserved") # {}
               late == ~normal /\ LapsedRows(r) # {}
               here == [op[t] EXCEPT !.at = "return", !.landed = normal \/ late,
                                     !.late = late]
    <2>2. op' = [op EXCEPT ![t] = here] /\ UNCHANGED handle /\ Commit(r, op[t].cost)
      BY <1>15, <2>1 DEF CommitTx
    <2>3. op'[t] = here
      <3> HIDE DEF here
      <3> QED
        BY <1>4, <2>2
    <2> HIDE DEF normal
    <2> DEFINE landed == normal \/ late
    <2>4. /\ op'[t].name = "commit" /\ op'[t].on = t /\ op'[t].cost = op[t].cost
          /\ op'[t].landed = landed
      <3>1. op[t].name = "commit"
        BY <1>15 DEF CommitTx, In
      <3> HIDE DEF late
      <3> QED
        BY <2>1, <2>3, <3>1 DEF Using
    <2>5. op'[t].landed => ChargedNext(r, op[t].cost)
      BY <2>1, <2>2, <2>4, LandCharges DEF normal
    <2> QED
      BY <1>1, <1>2, <1>3, <2>2, <2>4, <2>5, ShowStep
  <1>16. CASE ObserveReturn(t) \/ ReleaseReturn(t)
    <2>1. /\ op[t].on = t /\ handle[t] \in Handle
          /\ op[t].name = "observe" => handle[t].state = "reserved"
      BY <1>13, <1>16 DEF ObserveReturn, ReleaseReturn, In
    <2>2. op'[t] = Idle
      BY <1>4, <1>16 DEF ObserveReturn, ReleaseReturn
    <2>3. /\ handle'[t].state # "committed"
          /\ \A u \in Tasks \ {t} : handle'[u] = handle[u]
      <3>1. CASE ObserveReturn(t)
        <4>1. handle' = [handle EXCEPT ![t] = [handle[t] EXCEPT !.actual = op[t].cost]]
          BY <2>1, <3>1 DEF ObserveReturn
        <4>2. handle[t].state = "reserved"
          BY <2>1, <3>1 DEF ObserveReturn, In
        <4> QED
          BY <1>4, <2>1, <4>1, <4>2 DEF Handle
      <3>2. CASE ReleaseReturn(t)
        <4>1. handle' = [handle EXCEPT ![t] = [handle[t] EXCEPT !.state = "released"]]
          BY <2>1, <3>2 DEF ReleaseReturn
        <4> QED
          BY <1>4, <2>1, <4>1 DEF Handle
      <3> QED
        BY <1>16, <3>1, <3>2
    <2> QED
      BY <1>6, <2>2, <2>3
  <1>17. CASE CommitReturn(t) /\ op[t].landed
    <2>1. /\ op[t] \in Using /\ op[t].on = t /\ handle[t] \in Handle /\ op[t].name = "commit"
          /\ op[t].at = "return" /\ handle[t].id \in Reservations
      BY <1>13, <1>17 DEF CommitReturn, In
    <2> DEFINE v == [handle[t] EXCEPT !.state = "committed", !.actual = op[t].cost,
                                      !.late = handle[t].late \/ op[t].late]
    <2>2. handle' = [handle EXCEPT ![t] = v] /\ Goto(t, "announce") /\ UNCHANGED ledger
      BY <1>17, <2>1 DEF CommitReturn, ledgerVars
    <2>3. v.id = handle[t].id /\ v.actual = op[t].cost
      BY <2>1 DEF Handle
    <2> HIDE DEF v
    <2>4. handle'[t] = v /\ \A u \in Tasks \ {t} : handle'[u] = handle[u]
      BY <1>4, <2>2
    <2>5. op'[t].name = "commit" /\ op'[t].on = t /\ op'[t].cost = op[t].cost
      BY <1>4, <2>1, <2>2 DEF Goto, Using
    <2>6. Lands(t, handle[t].id)
      BY <1>17, <2>1 DEF Lands
    <2>7. ChargedNext(v.id, v.actual)
      <3>1. Charged(handle[t].id, op[t].cost)
        BY <2>1, <2>6 DEF SInv, LandedShow
      <3> QED
        BY <2>2, <2>3, <3>1 DEF Charged, ChargedNext, RowsOf
    <2> QED
      BY <1>1, <1>2, <1>3, <2>3, <2>4, <2>5, <2>7, ShowStep
  <1>18. CASE (CommitReturn(t) /\ ~op[t].landed) \/ CommitAnnounce(t)
    <2>1. op' = [op EXCEPT ![t] = Idle] /\ UNCHANGED handle
      BY <1>18 DEF CommitReturn, CommitAnnounce, Finish
    <2> QED
      BY <1>4, <1>6, <2>1
  <1> QED
    BY <1>5, <1>8, <1>9, <1>10, <1>11, <1>12, <1>14, <1>15, <1>16, <1>17, <1>18
       DEF Resume

LEMMA ChargesStep ==
  ASSUME BInv, BInv', EInv, SInv, OwnHandles, [BudgetNext]_budgetVars
  PROVE  SInv'
  <1>1. SettledStay /\ CommittedPricedNext /\ AmountsAgree'
    BY EveryStepSettles DEF SInv
  <1>2. ASSUME NEW t \in Tasks, Call(t) \/ Resume(t) \/ Abandon(t)
        PROVE  SInv'
    BY <1>2, ChargeStep
  <1>3. CASE UNCHANGED <<op, handle>>
    <2>1. CASE Tasks = {}
      BY <1>1, <2>1 DEF SInv, CommittedPricedNext, CommittedPriced, OwnUse, ObservesReserved,
                        HandlesShow, LandedShow
    <2>2. ASSUME NEW t \in Tasks PROVE SInv'
      <3>1. /\ op[t] \in Using => op[t].on = t
            /\ op[t].name \in {"observe", "commit"} => op[t] \in Using
            /\ op[t].name = "observe" => handle[t].state = "reserved"
        BY OpTyped DEF SInv, OwnUse, ObservesReserved
      <3>2. op[t].name = "commit" /\ op[t].at \in {"return", "announce"} /\ op[t].landed =>
              Lands(t, handle[t].id)
        BY <3>1 DEF Lands
      <3> QED
        BY <1>1, <1>3, <3>1, <3>2, ShowStep
    <2> QED
      BY <2>1, <2>2
  <1> QED
    BY <1>2, <1>3 DEF BudgetNext, Elsewhere, budgetVars

LEMMA ChargesInit == BudgetInit => SInv
  <1> SUFFICES ASSUME BudgetInit PROVE SInv
    OBVIOUS
  <1>1. \A t \in Tasks : op[t] = Idle /\ handle[t] = NoHandle
    BY DEF BudgetInit
  <1>2. Idle \notin Using /\ Idle.name \notin {"observe", "commit"}
    BY DEF Idle, Using
  <1>3. DOMAIN ledger = {}
    BY DEF BudgetInit, Init
  <1> QED
    BY <1>1, <1>2, <1>3 DEF SInv, AmountsAgree, CommittedPriced, OwnUse, ObservesReserved,
                            HandlesShow, LandedShow, Lands

(* A committed handle shows what the ledger charges for every scope of its *)
(* reservation, whoever retried, raced or swept, as long as each handle is *)
(* used by one task (Reservation.commit).                                  *)
THEOREM CommittedHandlesShow ==
  ASSUME OwnHandles
  PROVE  BudgetSpec => []CommittedHandlesShowTheCharge
  <1>1. BudgetInit => SInv
    BY ChargesInit
  <1>2. BInv /\ BInv' /\ EInv /\ SInv /\ [BudgetNext]_budgetVars => SInv'
    BY ChargesStep
  <1>3. SInv => CommittedHandlesShowTheCharge
    BY DEF SInv, HandlesShow, Charged, CommittedHandlesShowTheCharge
  <1> QED
    BY <1>1, <1>2, <1>3, BudgetInvariant, EventsInvariant, PTL DEF BudgetSpec

================================================================================
