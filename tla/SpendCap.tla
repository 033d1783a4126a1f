-------------------------------- MODULE SpendCap --------------------------------
(***************************************************************************)
(* What the ledger promises of money: a book of charges in which every     *)
(* booking was checked, at the instant it was made, against the sum of the *)
(* charges of each scope it names (section 7 of the protocol). There are   *)
(* no running totals here: the sum is taken afresh at every booking.       *)
(***************************************************************************)
EXTENDS SpendTotals

CONSTANT Reservations

VARIABLES
  clock,
  caps,     \* scope -> [cap, grace]
  book      \* reservation -> [entities, phase, floor, charge, created, expires]

vars == <<clock, caps, book>>

Held == {r \in DOMAIN book : book[r].phase = "held"}

(* The spend of scope s in its current window.                             *)
Spend(s) ==
  SumFunctionOnSet([r \in DOMAIN book |-> book[r].charge],
                   {r \in DOMAIN book :
                      /\ s.entity \in book[r].entities
                      /\ book[r].created >= WindowStart(s.window, clock)})

HasRoom(s, charge) ==
  100 * FromMicros(Spend(s) + charge) <= caps[s].cap * (100 + caps[s].grace)

Init ==
  /\ clock = 0
  /\ caps = <<>>
  /\ book = <<>>

SetCap ==
  /\ \E s \in Scopes :
       /\ s \in DOMAIN caps'
       /\ DOMAIN caps' = DOMAIN caps \cup {s}
       /\ \A x \in DOMAIN caps \ {s} : caps'[x] = caps[x]
  /\ UNCHANGED <<clock, book>>

(* A new booking is held at its estimate; it fits every scope it names.    *)
Book(r) ==
  /\ r \notin DOMAIN book
  /\ DOMAIN book' = DOMAIN book \cup {r}
  /\ \A x \in DOMAIN book : book'[x] = book[x]
  /\ book'[r].phase = "held"
  /\ book'[r].charge = book'[r].floor
  /\ book'[r].created = clock
  /\ book'[r].expires > clock
  /\ \E named \in SUBSET Scopes :
       /\ book'[r].entities = {s.entity : s \in named}
       /\ \A s \in named \cap DOMAIN caps : HasRoom(s, book'[r].charge)
  /\ UNCHANGED <<clock, caps>>

(* The charge of one booking changes; nothing else does.                   *)
Recharge(r, phase) ==
  /\ r \in DOMAIN book
  /\ book' = [book EXCEPT ![r].phase = phase, ![r].charge = book'[r].charge]
  /\ UNCHANGED <<clock, caps>>

(* An observed cost never takes a held booking below its estimate.         *)
Observe(r) ==
  /\ r \in Held
  /\ Recharge(r, "held")
  /\ book'[r].charge >= book[r].floor

(* A booking is paid once, also after the sweeper gave its money back.     *)
Pay(r) ==
  /\ r \in DOMAIN book
  /\ book[r].phase \in {"held", "lapsed"}
  /\ Recharge(r, "paid")

Refund(r) ==
  /\ r \in Held
  /\ Recharge(r, "refunded")
  /\ book'[r].charge = 0

(* A sweep gives back the money of every held booking past its time.       *)
Sweep(now) ==
  /\ now <= clock
  /\ book' = [r \in DOMAIN book |->
                IF r \in Held /\ book[r].expires < now
                THEN [book[r] EXCEPT !.phase = "lapsed", !.charge = 0]
                ELSE book[r]]
  /\ UNCHANGED <<clock, caps>>

Tick == clock' = clock + 1 /\ UNCHANGED <<caps, book>>

Next ==
  \/ SetCap
  \/ \E r \in Reservations : Book(r) \/ Observe(r) \/ Pay(r) \/ Refund(r)
  \/ \E now \in Time : Sweep(now)
  \/ Tick

Spec == Init /\ [][Next]_vars

================================================================================
