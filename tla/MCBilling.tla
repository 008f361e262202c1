------------------------------ MODULE MCBilling -----------------------------
(***************************************************************************)
(* Instances of the billing model for TLC.                                 *)
(***************************************************************************)
EXTENDS Billing, TLC

CONSTANTS r1, r2, w1, w2

\* A request of a zero-priced model next to a priced one.
MCHold == [r \in Requests |-> IF r = r1 THEN 0 ELSE 2]
\* Two requests of which one fills a window.
MCHoldSame == [r \in Requests |-> 2]
MCLimit == [k \in Kinds |-> 3]

\* Windows of several kinds, under crashes.  Suspended accounts, and settlements that
\* meet one another, are explored with one window (MCAdmission).
WindowsNext == Next /\ active
WindowsSpec == Init /\ [][WindowsNext]_vars
=============================================================================
