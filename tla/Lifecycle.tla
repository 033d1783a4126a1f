------------------------------- MODULE Lifecycle -------------------------------
(***************************************************************************)
(* What the ledger promises of one reservation: the state machine of       *)
(* section 8 of the protocol, over whole reservations. A caller never sees *)
(* half a composite reservation settled; "torn" is the phase of one, and   *)
(* no action reaches it.                                                   *)
(***************************************************************************)
CONSTANT Reservations

VARIABLE phase

Phases == {"none", "reserved", "committed", "released",
           "lapsed", "committedLate", "torn"}

Move(r, from, to) == phase[r] = from /\ phase' = [phase EXCEPT ![r] = to]

Init == phase = [r \in Reservations |-> "none"]

Reserve(r) == Move(r, "none", "reserved")
Commit(r) == Move(r, "reserved", "committed")
Release(r) == Move(r, "reserved", "released")
CommitLate(r) == Move(r, "lapsed", "committedLate")

(* One sweep releases every reservation it finds expired.                  *)
Sweep(expired) ==
  /\ \A r \in expired : phase[r] = "reserved"
  /\ phase' = [r \in Reservations |->
                 IF r \in expired THEN "lapsed" ELSE phase[r]]

Next ==
  \/ \E r \in Reservations :
       Reserve(r) \/ Commit(r) \/ Release(r) \/ CommitLate(r)
  \/ \E expired \in SUBSET Reservations : Sweep(expired)

Spec == Init /\ [][Next]_phase

================================================================================
