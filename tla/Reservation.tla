----------------------------- MODULE Reservation -----------------------------
(***************************************************************************)
(* What a billing session promises about the funding source of a request,  *)
(* whatever the other requests do: an amount is held once, and the hold is *)
(* then captured once, at the actual cost, or released once, in full.  A   *)
(* hold may stay held for ever, because a failed settlement or an exhausted*)
(* refund is logged and never tried again; a captured or released one is   *)
(* final.                                                                  *)
(***************************************************************************)
EXTENDS Integers

CONSTANTS
    Requests,
    Costs        \* what a captured request may cost

VARIABLES
    status,      \* status[r]: the state of the reservation of r
    debit        \* debit[r]: what r has taken from its funding source

vars == <<status, debit>>

Statuses == {"idle", "held", "captured", "released", "rejected"}

Init ==
    /\ status = [r \in Requests |-> "idle"]
    /\ debit = [r \in Requests |-> 0]

Move(r, from, to) ==
    /\ status[r] = from
    /\ status' = [status EXCEPT ![r] = to]

Reject(r) == Move(r, "idle", "rejected") /\ UNCHANGED debit

Hold(r) ==
    /\ Move(r, "idle", "held")
    /\ debit' = [debit EXCEPT ![r] = debit'[r]]
    /\ debit'[r] \in Nat

Capture(r) ==
    /\ Move(r, "held", "captured")
    /\ \E cost \in Costs : debit' = [debit EXCEPT ![r] = cost]

Release(r) ==
    /\ Move(r, "held", "released")
    /\ debit' = [debit EXCEPT ![r] = 0]

Next == \E r \in Requests : Reject(r) \/ Hold(r) \/ Capture(r) \/ Release(r)

Spec == Init /\ [][Next]_vars
=============================================================================
