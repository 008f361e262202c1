----------------------------- MODULE HoldLedger -----------------------------
(***************************************************************************)
(* What billing promises for one request, whoever carries it out: a hold   *)
(* is opened once and then closed once, by converting it to a single       *)
(* charge or by returning it without one.                                  *)
(***************************************************************************)
EXTENDS Integers

CONSTANT Requests
VARIABLES
    hold,    \* "none", "held", "settled" or "released"
    amount   \* the charge, -1 while there is none

Init ==
    /\ hold = [r \in Requests |-> "none"]
    /\ amount = [r \in Requests |-> -1]

Open(r) ==
    /\ hold[r] = "none"
    /\ hold' = [hold EXCEPT ![r] = "held"]
    /\ UNCHANGED amount

Convert(r) ==
    /\ hold[r] = "held"
    /\ hold' = [hold EXCEPT ![r] = "settled"]
    /\ amount'[r] \in Nat
    /\ amount' = [amount EXCEPT ![r] = amount'[r]]

Return(r) ==
    /\ hold[r] = "held"
    /\ hold' = [hold EXCEPT ![r] = "released"]
    /\ UNCHANGED amount

Next ==
    \E r \in Requests :
        Open(r) \/ Convert(r) \/ Return(r)

Spec == Init /\ [][Next]_<<hold, amount>>

=============================================================================
