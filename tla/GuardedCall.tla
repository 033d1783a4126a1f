------------------------------ MODULE GuardedCall ------------------------------
(***************************************************************************)
(* integrations/_guard.py with the create and stream calls of the two      *)
(* providers, and decorator.py: tasks that reserve, call the provider and  *)
(* settle, while the provider bills, callers are cancelled, the sweeper    *)
(* releases and the process dies.                                          *)
(*                                                                         *)
(* The reservations are those of Lifecycle; Budget shows how a reservation *)
(* is made and shared when callers race on a request_id. Here one step     *)
(* does it. The reservation that a caller makes has the caller's name.     *)
(***************************************************************************)
EXTENDS Pricing

CONSTANTS
  Callers,
  RequestIds,
  NoRequest,       \* a call without request_id
  None,            \* no reservation
  DefaultBook,     \* the vendored price book
  Overrides,       \* the contents the table snipz_pricing may have
  Orders,          \* what the callers may ask for and be billed [model, req, usage]
  Jobs             \* what the callers may be: Callers -> [kind, request]

(* Books, whatever their rows, hold price entries; the vendored one has    *)
(* been parsed, too, so its tiers differ. No tokens are negative.          *)
ASSUME GuardAssumption ==
  /\ None \notin Callers
  /\ \A m \in DOMAIN DefaultBook :
       DefaultBook[m] \in PriceEntry /\ TiersDiffer(DefaultBook[m])
  /\ \A rows \in Overrides : \A m \in DOMAIN rows :
       rows[m].base \in Rates /\ rows[m].tiers \in Seq(PriceTier)
  /\ \A o \in Orders : o.req \in Request /\ o.usage \in Usage

VARIABLES
  book,       \* the price book of the guarded client
  order,      \* what the callers ask the provider for and what that uses
  job,        \* caller -> [kind, request]
  phase,      \* reservation -> its phase in the ledger
  charge,     \* reservation -> what the ledger charges once it is committed
  pc,         \* caller -> where its coroutine is
  handle,     \* caller -> [on, created, state]: its Reservation object
  wire,       \* caller -> its request, as the provider sees it
  read,       \* caller -> how much of the response it has
  settling,   \* caller -> its shielded settlement task [what, cents]
  outcome     \* caller -> how its call ended

money == <<phase, charge>>
setup == <<book, order, job>>
guardVars == <<setup, money, pc, handle, wire, read, settling, outcome>>

Kinds == {"create", "stream", "decorated"}
Guarded == {c \in Callers : job[c].kind # "decorated"}

entry == book[order.model]
Estimate == EstimateCents(entry, order.req)

NotHeld == [on |-> None, created |-> FALSE, state |-> "none"]
NoTask == [what |-> "none", cents |-> 0]

At(c, where) == pc[c] = where
Goto(c, where) == pc' = [pc EXCEPT ![c] = where]
End(c, how) ==
  /\ Goto(c, "done")
  /\ outcome' = [outcome EXCEPT ![c] = how]

GuardInit ==
  /\ \E rows \in Overrides :
       Loads(rows) /\ book = WithBackend(DefaultBook, rows)
  /\ order \in Orders
  /\ order.model \in DOMAIN book
  /\ Allowed(order.req, order.usage)
  /\ Bounded(book[order.model], order.req)
  /\ job \in Jobs
  /\ phase = [r \in Callers |-> "none"]
  /\ charge = [r \in Callers |-> 0]
  /\ pc = [c \in Callers |-> "reserve"]
  /\ handle = [c \in Callers |-> NotHeld]
  /\ wire = [c \in Callers |-> "none"]
  /\ read = [c \in Callers |-> "nothing"]
  /\ settling = [c \in Callers |-> NoTask]
  /\ outcome = [c \in Callers |-> "none"]

--------------------------------------------------------------------------------
(* The ledger, for one reservation.                                        *)

(* Mutant of Lands: a reservation that its caller released can be charged. *)
LandsAnyhow(r) == phase[r] \in {"reserved", "lapsed", "released"}

(* _commit: reserved or, late, released by the sweeper; else no row.       *)
Lands(r) == phase[r] \in {"reserved", "lapsed"}
Committed(r, cents) ==
  /\ phase' = [phase EXCEPT ![r] = IF @ = "lapsed" THEN "committedLate" ELSE "committed"]
  /\ charge' = [charge EXCEPT ![r] = cents]

(* _release: only the rows still reserved.                                 *)
Released(r) ==
  /\ phase' = [phase EXCEPT ![r] = IF @ = "reserved" THEN "released" ELSE @]
  /\ UNCHANGED charge

(* Mutant of RowState: the ledger's marking of a late row shows through.   *)
RowPhase(r) == phase[r]

(* What state a Reservation built from the rows shows.                     *)
RowState(r) ==
  CASE phase[r] = "reserved" -> "reserved"
    [] phase[r] \in {"committed", "committedLate"} -> "committed"
    [] OTHER -> "released"

(* The sweeper finds a reservation expired, at any time.                   *)
Lapse(r) ==
  /\ phase[r] = "reserved"
  /\ phase' = [phase EXCEPT ![r] = "lapsed"]
  /\ UNCHANGED <<setup, charge, pc, handle, wire, read, settling, outcome>>

--------------------------------------------------------------------------------
(* reserve.                                                                *)

ReservedFor(request) ==
  {r \in Callers : request # NoRequest /\ phase[r] # "none" /\ job[r].request = request}

(* Budget.reserve makes a reservation, or finds that of the request_id.    *)
Reserve(c) ==
  /\ At(c, "reserve")
  /\ IF ReservedFor(job[c].request) = {}
     THEN /\ phase' = [phase EXCEPT ![c] = "reserved"]
          /\ handle' = [handle EXCEPT ![c] =
                          [on |-> c, created |-> TRUE, state |-> "reserved"]]
     ELSE \E r \in ReservedFor(job[c].request) :
            /\ handle' = [handle EXCEPT ![c] =
                            [on |-> r, created |-> FALSE, state |-> RowState(r)]]
            /\ UNCHANGED phase
  /\ Goto(c, "reserved")
  /\ UNCHANGED <<setup, charge, wire, read, settling, outcome>>

(* Over the cap, a storage error, or cancelled before or after the rows    *)
(* are there: the call has not begun and nothing settles it.               *)
ReserveFails(c) ==
  /\ At(c, "reserve") \/ At(c, "reserved")
  /\ End(c, "raised")
  /\ UNCHANGED <<setup, money, handle, wire, read, settling>>

(* Mutant of Begin: the guard does not look at created.                    *)
BeginAnyway(c) ==
  /\ At(c, "reserved")
  /\ wire' = [wire EXCEPT ![c] = "sent"]
  /\ Goto(c, "call")
  /\ UNCHANGED <<setup, money, handle, read, settling, outcome>>

(* The guard refuses a duplicate (DuplicateRequestError); the decorator    *)
(* does not ask.                                                           *)
Begin(c) ==
  /\ At(c, "reserved")
  /\ IF c \in Guarded /\ ~handle[c].created
     THEN End(c, "duplicate") /\ UNCHANGED wire
     ELSE /\ wire' = [wire EXCEPT ![c] = "sent"]
          /\ Goto(c, "call")
          /\ UNCHANGED outcome
  /\ UNCHANGED <<setup, money, handle, read, settling>>

--------------------------------------------------------------------------------
(* The provider: it bills a request or rejects it, whether or not the      *)
(* caller is still there.                                                  *)
Bill(c) ==
  /\ wire[c] = "sent"
  /\ wire' = [wire EXCEPT ![c] = "billed"]
  /\ UNCHANGED <<setup, money, pc, handle, read, settling, outcome>>

Reject(c) ==
  /\ wire[c] = "sent"
  /\ wire' = [wire EXCEPT ![c] = "rejected"]
  /\ UNCHANGED <<setup, money, pc, handle, read, settling, outcome>>

--------------------------------------------------------------------------------
(* The call, while it is awaited.                                          *)

(* An OpenAI response may come without its usage.                          *)
Reported(req) == IF req.provider = "openai" THEN {"nothing", "final"} ELSE {"final"}

(* The response of create or of the decorated function; or the stream is   *)
(* open and its block entered.                                             *)
Answer(c) ==
  /\ At(c, "call")
  /\ wire[c] = "billed"
  /\ \/ /\ job[c].kind = "create"
        /\ Goto(c, "settle")
        /\ \E part \in Reported(order.req) : read' = [read EXCEPT ![c] = part]
     \/ job[c].kind = "stream" /\ Goto(c, "block") /\ UNCHANGED read
     \/ job[c].kind = "decorated" /\ Goto(c, "observe") /\ UNCHANGED read
  /\ UNCHANGED <<setup, money, handle, wire, settling, outcome>>

(* Events of the stream, up to the final one.                              *)
Event(c) ==
  /\ At(c, "block")
  /\ read[c] # "final"
  /\ read' = [read EXCEPT ![c] = IF @ = "nothing" THEN "start" ELSE "final"]
  /\ UNCHANGED <<setup, money, pc, handle, wire, settling, outcome>>

(* The block ends well, wherever the stream is.                            *)
LeaveBlock(c) ==
  /\ At(c, "block")
  /\ Goto(c, "settle")
  /\ UNCHANGED <<setup, money, handle, wire, read, settling, outcome>>

BilledCents(c) == SettledCents(entry, order.req, order.usage, read[c])

(* A settlement that runs in a task of its own, shielded from the caller.  *)
Shield(c, what, cents) ==
  /\ settling' = [settling EXCEPT ![c] = [what |-> what, cents |-> cents]]
  /\ Goto(c, "cleanup")
  /\ UNCHANGED <<setup, money, handle, wire, read, outcome>>

(* settle_failure: the provider rejected the call, which costs nothing.    *)
SeeRejection(c) ==
  /\ c \in Guarded
  /\ At(c, "call")
  /\ wire[c] = "rejected"
  /\ Shield(c, "release", 0)

(* Mutant of LoseTouch: every failure of the call releases.                *)
LoseTouchReleasing(c) ==
  /\ c \in Guarded
  /\ At(c, "call")
  /\ Shield(c, "release", 0)

(* settle_failure: a timeout, a lost connection or a cancellation, at any  *)
(* time: the call may be billed, or may yet be.                            *)
LoseTouch(c) ==
  /\ c \in Guarded
  /\ At(c, "call")
  /\ Shield(c, "commit", Estimate)

(* settle_failure: any other exception counts as not billed.               *)
FailOtherwise(c) ==
  /\ c \in Guarded
  /\ At(c, "call")
  /\ outcome' = [outcome EXCEPT ![c] = "other"]
  /\ settling' = [settling EXCEPT ![c] = [what |-> "release", cents |-> 0]]
  /\ Goto(c, "cleanup")
  /\ UNCHANGED <<setup, money, handle, wire, read>>

(* settle_quietly: the block of a stream raises.                           *)
BlockRaises(c) ==
  /\ At(c, "block")
  /\ Shield(c, "commit", BilledCents(c))

--------------------------------------------------------------------------------
(* Settlement.                                                             *)

(* settle_success, up to its transaction. An error of the storage or a row *)
(* that cannot be committed is a SettlementError, with the response.       *)
SettleSuccess(c) ==
  LET r == handle[c].on
  IN  /\ c \in Guarded
      /\ At(c, "settle")
      /\ IF Lands(r)
         THEN Committed(r, BilledCents(c)) /\ Goto(c, "settled") /\ UNCHANGED outcome
         ELSE End(c, "unsettled") /\ UNCHANGED money
      /\ UNCHANGED <<setup, handle, wire, read, settling>>

(* The storage fails, or the caller is cancelled before the transaction.   *)
SettleFails(c) ==
  /\ At(c, "settle")
  /\ End(c, "unsettled")
  /\ UNCHANGED <<setup, money, handle, wire, read, settling>>

Return(c) ==
  /\ At(c, "settled")
  /\ End(c, "answered")
  /\ UNCHANGED <<setup, money, handle, wire, read, settling>>

(* Cancelled after the transaction: the response is lost, not the charge.  *)
CancelledReturn(c) ==
  /\ At(c, "settled")
  /\ End(c, "raised")
  /\ UNCHANGED <<setup, money, handle, wire, read, settling>>

TaskDone(c, how) == settling' = [settling EXCEPT ![c].what = how]

(* The shielded task; its InvalidStateError, too, is only logged.          *)
RunSettlement(c) ==
  LET r == handle[c].on
  IN  /\ settling[c].what \in {"commit", "release"}
      /\ IF settling[c].what = "release"
         THEN Released(r)
         ELSE IF Lands(r)
              THEN Committed(r, settling[c].cents)
              ELSE UNCHANGED money
      /\ TaskDone(c, "done")
      /\ UNCHANGED <<setup, pc, handle, wire, read, outcome>>

(* The storage fails under the shielded task: logged.                      *)
SettlementFails(c) ==
  /\ settling[c].what \in {"commit", "release"}
  /\ TaskDone(c, "failed")
  /\ UNCHANGED <<setup, money, pc, handle, wire, read, outcome>>

(* Mutant of Reraise: no shield, cancelling the caller cancels its         *)
(* settlement.                                                             *)
ReraiseUnshielded(c) ==
  /\ At(c, "cleanup")
  /\ Goto(c, "done")
  /\ settling' = [settling EXCEPT ![c].what =
                    IF @ \in {"commit", "release"} THEN "done" ELSE @]
  /\ outcome' = [outcome EXCEPT ![c] = IF @ = "other" THEN @ ELSE "raised"]
  /\ UNCHANGED <<setup, money, handle, wire, read>>

(* The exception goes on: the task is done, or the caller, cancelled while *)
(* it waits for the shield, leaves the task running.                       *)
Reraise(c) ==
  /\ At(c, "cleanup")
  /\ Goto(c, "done")
  /\ outcome' = [outcome EXCEPT ![c] = IF @ = "other" THEN @ ELSE "raised"]
  /\ UNCHANGED <<setup, money, handle, wire, read, settling>>

--------------------------------------------------------------------------------
(* The decorator: the block of "async with reservation".                   *)

(* The function, or pricing its result, raises or is cancelled, or the     *)
(* handle cannot be observed: __aexit__ releases, unshielded.              *)
BodyRaises(c) ==
  /\ c \notin Guarded
  /\ \/ At(c, "call")
     \/ At(c, "observe")
  /\ Goto(c, "exit")
  /\ UNCHANGED <<setup, money, handle, wire, read, settling, outcome>>

(* actual() and observe(), which needs the handle to be reserved. Without  *)
(* an actual() the estimate is committed.                                  *)
Priced(c) ==
  /\ c \notin Guarded
  /\ At(c, "observe")
  /\ \/ /\ handle[c].state = "reserved"
        /\ UsageCents(entry, order.req, order.usage) # Unpriceable
        /\ read' = [read EXCEPT ![c] = "final"]
     \/ UNCHANGED read
  /\ Goto(c, "settle")
  /\ UNCHANGED <<setup, money, handle, wire, settling, outcome>>

(* __aexit__ after an exception: release what the handle thinks reserved.  *)
ExitRelease(c) ==
  /\ c \notin Guarded
  /\ At(c, "exit")
  /\ \/ handle[c].state = "reserved" /\ Released(handle[c].on)
     \/ UNCHANGED money     \* not reserved, or the release is lost
  /\ End(c, "raised")
  /\ UNCHANGED <<setup, handle, wire, read, settling>>

(* __aexit__ at the end of the block: commit the observed cost, unless the *)
(* handle was settled when it was made.                                    *)
ExitCommit(c) ==
  LET r == handle[c].on
  IN  /\ c \notin Guarded
      /\ At(c, "settle")
      /\ \/ /\ handle[c].state = "reserved"
            /\ Lands(r)
            /\ Committed(r, BilledCents(c))
            /\ Goto(c, "settled")
            /\ UNCHANGED outcome
         \/ /\ handle[c].state = "reserved"
            /\ ~Lands(r)
            /\ End(c, "raised")
            /\ UNCHANGED money
         \/ /\ handle[c].state # "reserved"
            /\ End(c, "answered")
            /\ UNCHANGED money
      /\ UNCHANGED <<setup, handle, wire, read, settling>>

--------------------------------------------------------------------------------
(* The process dies with its tasks; what it sent is with the provider.     *)
Crash ==
  /\ \E c \in Callers : pc[c] # "done" \/ settling[c].what \in {"commit", "release"}
  /\ pc' = [c \in Callers |-> "done"]
  /\ outcome' = [c \in Callers |-> IF outcome[c] = "none" THEN "dead" ELSE outcome[c]]
  /\ settling' = [c \in Callers |->
                    IF settling[c].what \in {"commit", "release"}
                    THEN [settling[c] EXCEPT !.what = "failed"] ELSE settling[c]]
  /\ UNCHANGED <<setup, money, handle, wire, read>>

(* What the event loop resumes; the block of a stream is the caller's.     *)
Run(c) ==
  \/ Reserve(c) \/ Begin(c) \/ Answer(c) \/ SeeRejection(c)
  \/ SettleSuccess(c) \/ Return(c) \/ Reraise(c)
  \/ Priced(c) \/ ExitRelease(c) \/ ExitCommit(c)

Fail(c) ==
  \/ ReserveFails(c) \/ LoseTouch(c) \/ FailOtherwise(c) \/ BlockRaises(c)
  \/ SettleFails(c) \/ CancelledReturn(c) \/ SettlementFails(c) \/ BodyRaises(c)

GuardNext ==
  \/ \E c \in Callers :
       \/ Run(c) \/ RunSettlement(c) \/ Event(c) \/ LeaveBlock(c) \/ Fail(c)
       \/ Bill(c) \/ Reject(c) \/ Lapse(c)
  \/ Crash

GuardSpec == GuardInit /\ [][GuardNext]_guardVars

(* The event loop runs its tasks, the callers' and the shielded ones. No   *)
(* fairness for the provider, the caller's block or the sweeper.           *)
FairGuardSpec ==
  /\ GuardSpec
  /\ \A c \in Callers : WF_guardVars(Run(c)) /\ WF_guardVars(RunSettlement(c))

--------------------------------------------------------------------------------
(* Properties.                                                             *)

GuardTypeOK ==
  /\ phase \in [Callers -> {"none", "reserved", "committed", "released",
                            "lapsed", "committedLate"}]
  /\ charge \in [Callers -> Nat]
  /\ pc \in [Callers -> {"reserve", "reserved", "call", "block", "observe", "settle",
                         "settled", "cleanup", "exit", "done"}]
  /\ handle \in [Callers -> [on : Callers \cup {None}, created : BOOLEAN,
                             state : {"none", "reserved", "committed", "released"}]]
  /\ wire \in [Callers -> {"none", "sent", "billed", "rejected"}]
  /\ read \in [Callers -> {"nothing", "start", "final"}]
  /\ settling \in [Callers -> [what : {"none", "commit", "release", "done", "failed"},
                               cents : Nat]]
  /\ outcome \in [Callers -> {"none", "answered", "duplicate", "raised", "other",
                              "unsettled", "dead"}]

PaidFor(r, callers) == {c \in callers : handle[c].on = r /\ wire[c] = "billed"}

(* However the callers of one request_id race, are cancelled, fail or are  *)
(* swept, the guards send the provider one request for one reservation     *)
(* (_guard.reserve: "Duplicates never reach the provider").                *)
GuardedPaidOnce ==
  \A c, d \in Guarded :
    handle[c].on = handle[d].on /\ wire[c] # "none" /\ wire[d] # "none" => c = d

(* A caller proceeds to spend only when created is true                    *)
(* (core.Reservation): one reservation pays for one call.                  *)
PaidOnceEach ==
  \A r \in Callers : \A c, d \in PaidFor(r, Callers) : c = d

(* No decorated caller meddles with the reservation of c.                  *)
Alone(c) == \A d \in Callers \ (Guarded \cup {c}) : handle[d].on # handle[c].on

(* The call of c is over, and nothing that the code only logs went wrong:  *)
(* no storage failure, crash or cancellation of settle_success, and no     *)
(* exception that settle_failure takes for unbilled.                       *)
Settled(c) ==
  \/ outcome[c] = "answered" /\ handle[c].created
  \/ c \in Guarded /\ outcome[c] = "raised" /\ settling[c].what \notin {"commit", "failed"}

Charged(r) == r # None /\ phase[r] \in {"committed", "committedLate"}

(* What the provider billed, be it after the caller gave up, is charged in *)
(* full, be it after the sweeper gave the reservation up (run_guarded and  *)
(* the stream managers).                                                   *)
ChargeCoversBill ==
  \A c \in Callers :
    wire[c] = "billed" /\ Settled(c) /\ Alone(c) =>
      /\ Charged(handle[c].on)
      /\ charge[handle[c].on] >= ProviderBill(entry, order.usage)

(* The reservation is an upper bound (integrations/anthropic.py): what is  *)
(* charged, by whichever path, is never more than was reserved.            *)
ChargeWithinReservation ==
  \A r \in Callers : Charged(r) => charge[r] <= Estimate

(* Once a failed call is taken for one that may be billed, it is charged,  *)
(* even if its caller is cancelled again (_settle_quietly).                *)
DoubtIsCharged ==
  \A c \in Callers :
    settling[c].what = "commit" /\ Alone(c) ~>
      \/ Charged(handle[c].on)
      \/ settling[c].what = "failed"
      \/ ~Alone(c)

(* Callers, shielded tasks, sweeper and crash move a reservation only as   *)
(* the lifecycle of the protocol allows.                                   *)
L == INSTANCE Lifecycle WITH Reservations <- Callers
ImplementsLifecycle == L!Spec

================================================================================
