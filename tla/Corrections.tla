---------------------------- MODULE Corrections -----------------------------
(***************************************************************************)
(* Corrections of settled requests.  A correction replaces the settled     *)
(* amount of a request by appending to the ledger, and moves the windows   *)
(* and the key budget by the same difference.                              *)
(*                                                                         *)
(* Corrections are delivered at least once: several deliveries of the same *)
(* or of different commands run side by side.  A delivery looks its        *)
(* idempotency key up before it locks the request, so the answer of the    *)
(* lookup may be old when the transaction goes on.                         *)
(*                                                                         *)
(* Every request here is bound to the same window and the same key, so one *)
(* aggregate stands for each bound window and for the key budget.          *)
(***************************************************************************)
EXTENDS Integers, FiniteSets, ReconciliationJobs

CONSTANTS
    Requests,    \* plan-billed requests
    Hold,        \* Hold[r]: reserved_micros of the request
    Charges,     \* amounts a settlement can come to
    Deliveries,  \* calls of CorrectSettlement
    Command      \* Command[d]: the request, the corrected amount and the key

ASSUME CorrectionsAssumption ==
    /\ Hold \in [Requests -> Nat]
    /\ Charges \subseteq Nat
    /\ Command \in [Deliveries -> [req : Requests, to : Nat, key : STRING]]

VARIABLES
    settled,  \* settled_micros, -1 while the request is open
    ledger,   \* ledger[r]: the charge, the reversals and the signed
              \* adjustments of r in the ledger
    posted,   \* posted[k]: inference_adjustments rows with the key k
    used,     \* used_micros of the bound windows
    job,      \* the request's reconciliation job
    step      \* step[d]: where the delivery is, or what it answered

vars == <<settled, ledger, posted, used, job, step>>

Keys == {Command[d].key : d \in Deliveries}

Answers == {"applied", "duplicate", "noop", "negative", "unsettled"}

\* Every row and every delivery has its type; in particular the window totals
\* stay natural numbers under every chain of credits.
TypeOK ==
    /\ settled \in [Requests -> Nat \cup {-1}]
    /\ ledger \in [Requests -> [charge : Nat, reversed : Nat, adjusted : Int]]
    /\ posted \in [Keys -> Nat]
    /\ used \in Nat
    /\ job \in [Requests -> Jobs]
    /\ step \in [Deliveries -> {"new", "looked"} \cup Answers]

\* A parked request has its job before it is settled.
Init ==
    /\ settled = [r \in Requests |-> -1]
    /\ ledger = [r \in Requests |-> [charge |-> 0, reversed |-> 0, adjusted |-> 0]]
    /\ posted = [k \in Keys |-> 0]
    /\ used = 0
    /\ job \in [Requests -> {NoJob, Enqueue(NoJob, "unknown_usage")}]
    /\ step = [d \in Deliveries |-> "new"]

\* NetMicros: what the ledger says the request costs.
Net(r) == ledger[r].charge - ledger[r].reversed + ledger[r].adjusted

\* The first settlement: by the gateway, or by recovery for the full hold.
Settle(r) ==
    /\ settled[r] = -1
    /\ \E c \in Charges, recovery \in BOOLEAN :
        /\ recovery => c = Hold[r]
        /\ settled' = [settled EXCEPT ![r] = c]
        /\ ledger' = [ledger EXCEPT ![r].charge = c]
        /\ used' = used + c
        /\ job' = [job EXCEPT ![r] =
                      IF recovery THEN Enqueue(@, "crash_recovery")
                      ELSE IF c > Hold[r] THEN Enqueue(@, "settlement_overage") ELSE @]
    /\ UNCHANGED <<posted, step>>

\* The idempotency lookup, before any lock.
LookUp(d) ==
    /\ step[d] = "new"
    /\ step' = [step EXCEPT ![d] = IF posted[Command[d].key] > 0 THEN "duplicate" ELSE "looked"]
    /\ UNCHANGED <<settled, ledger, posted, used, job>>

\* CorrectionDelta: from the current settled amount.
Delta(r, to) == to - settled[r]

\* MUTANT: a void reverses the original charge, not the current effect.
PostedReversingCharge(r, to) ==
    IF to = 0 /\ settled[r] > 0
    THEN [ledger[r] EXCEPT !.reversed = @ + ledger[r].charge]
    ELSE [ledger[r] EXCEPT !.adjusted = @ + Delta(r, to)]

\* A void appends a reversal of the current effect, anything else an
\* adjustment by the difference.
Posted(r, to) ==
    IF to = 0 /\ settled[r] > 0
    THEN [ledger[r] EXCEPT !.reversed = @ + settled[r]]
    ELSE [ledger[r] EXCEPT !.adjusted = @ + Delta(r, to)]

\* Evidence resolves an evidence job; then the hold is checked again.
EvidenceLanded(j) ==
    IF j.reason \in {"crash_recovery", "unknown_usage"} THEN ResolveOpen(j) ELSE j

OverageChecked(j, r, to) ==
    IF to > Hold[r] THEN Enqueue(j, "settlement_overage")
    ELSE IF j.reason = "settlement_overage" THEN ResolveOpen(j) ELSE j

\* MUTANT: the key of an adjustment is not unique.
RefusalByAmount(r, to, key) ==
    IF settled[r] = -1 THEN "unsettled"
    ELSE IF Delta(r, to) = 0 THEN "noop"
    ELSE IF used + Delta(r, to) < 0 THEN "negative"
    ELSE "none"

\* What stops the transaction: its checks in the order of the code.
Refusal(r, to, key) ==
    IF settled[r] = -1 THEN "unsettled"
    ELSE IF Delta(r, to) = 0 THEN "noop"
    ELSE IF posted[key] > 0 THEN "duplicate"
    ELSE IF used + Delta(r, to) < 0 THEN "negative"
    ELSE "none"

\* MUTANT: a void gives the original charge back to the windows.
CorrectGivingBackCharge(d) ==
    LET r == Command[d].req
        to == Command[d].to
        key == Command[d].key
    IN /\ step[d] = "looked" /\ Refusal(r, to, key) = "none"
       /\ ledger' = [ledger EXCEPT ![r] = Posted(r, to)]
       /\ posted' = [posted EXCEPT ![key] = @ + 1]
       /\ used' = IF to = 0 THEN used - ledger[r].charge ELSE used + Delta(r, to)
       /\ settled' = [settled EXCEPT ![r] = to]
       /\ job' = [job EXCEPT ![r] = OverageChecked(EvidenceLanded(@), r, to)]
       /\ step' = [step EXCEPT ![d] = "applied"]

\* CorrectSettlement under the lock of the request.
Correct(d) ==
    LET r == Command[d].req
        to == Command[d].to
        key == Command[d].key
    IN /\ step[d] = "looked" /\ Refusal(r, to, key) = "none"
       /\ ledger' = [ledger EXCEPT ![r] = Posted(r, to)]
       /\ posted' = [posted EXCEPT ![key] = @ + 1]
       /\ used' = used + Delta(r, to)
       /\ settled' = [settled EXCEPT ![r] = to]
       /\ job' = [job EXCEPT ![r] = OverageChecked(EvidenceLanded(@), r, to)]
       /\ step' = [step EXCEPT ![d] = "applied"]

Refuse(d) ==
    LET why == Refusal(Command[d].req, Command[d].to, Command[d].key)
    IN /\ step[d] = "looked" /\ why # "none"
       /\ step' = [step EXCEPT ![d] = why]
       /\ UNCHANGED <<settled, ledger, posted, used, job>>

Escalate(r) ==
    /\ job[r].status = "pending"
    /\ job' = [job EXCEPT ![r] = Escalated(@)]
    /\ UNCHANGED <<settled, ledger, posted, used, step>>

Next ==
    \/ \E r \in Requests : Settle(r) \/ Escalate(r)
    \/ \E d \in Deliveries : LookUp(d) \/ Correct(d) \/ Refuse(d)

Spec == Init /\ [][Next]_vars

-----------------------------------------------------------------------------
\* Chained corrections compose: whatever was delivered, in whatever order and
\* how often, the ledger of a settled request nets to its settled amount
\* (CorrectSettlement takes its difference from the locked row).
NetIsSettled ==
    \A r \in Requests : settled[r] # -1 => Net(r) = settled[r]

\* A command takes effect at most once, although the lookup that recognizes a
\* replay is not part of the locked transaction.
AppliedOnce ==
    \A k \in Keys : posted[k] <= 1

\* Corrections take effect once each and compose: the ledger of a settled request nets
\* to its settled amount, and no command posts twice (CorrectSettlement).
CorrectionsNet == NetIsSettled /\ AppliedOnce
=============================================================================
