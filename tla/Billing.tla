------------------------------ MODULE Billing -------------------------------
(***************************************************************************)
(* The life of plan-billed inference requests: admission against the quota *)
(* windows and the key budget, the gateway's dispatch loop, settlement,    *)
(* release, parking, and the crash-recovery worker.                        *)
(*                                                                         *)
(* Every database transaction is one step: the row locks it takes          *)
(* (LockOrder.tla) serialize it with the others on the same rows.  What    *)
(* happens between two transactions of one gateway call, and between the   *)
(* reads and the transaction of the worker, is interleaved.  The gateway   *)
(* of a request can die at any of its steps.                               *)
(*                                                                         *)
(* The reservation rows of a request (one per window and one for the key)  *)
(* are written together in every transaction and are one state here.  The  *)
(* account, its entitlement and its key are single.                        *)
(***************************************************************************)
EXTENDS Integers, FiniteSets, Functions, ReconciliationJobs

CONSTANTS
    Requests,      \* request ids
    Kinds,         \* the window kinds the policy enables
    MaxRows,       \* bound: window rows per kind
    MaxAttempts,   \* MaxAttempts of the gateway: candidates tried per call
    Hold,          \* Hold[r]: the safe upper bound reserved for r
    Limit,         \* Limit[k]: limit_micros of a window of kind k
    KeyLimit,      \* budget_limit_micros of the API key
    Charges,       \* amounts a priced usage can come to
    Workers,       \* recovery workers, one per service instance
    AccountLease,  \* the policy has a concurrency limit
    Faults         \* which faults the environment may show

ASSUME BillingAssumption ==
    /\ IsFiniteSet(Requests)
    /\ MaxRows \in Nat /\ MaxAttempts \in Nat
    /\ Hold \in [Requests -> Nat] /\ Limit \in [Kinds -> Nat]
    /\ KeyLimit \in Nat /\ Charges \subseteq Nat
    /\ AccountLease \in BOOLEAN
    /\ Faults \subseteq {"crash", "dberror", "stall", "suspend"}

VARIABLES
    \* rows of the database
    status,    \* inference_requests.status, "absent" before admission
    resv,      \* state of the request's inference_reservations rows
    bind,      \* bind[r][k]: the window row pinned at admission, 0 for none
    charge,    \* amount of the request's ledger charge, -1 for no row
    att,       \* att[r][i]: status of attempt i, "zero" is failed with a
               \* zero-consumption error kind
    job,       \* the request's reconciliation job
    leases,    \* leases[r]: its held and unexpired concurrency leases
    quiet,     \* quiet[r]: no status change and no attempt within Grace
    wstate,    \* inference_quota_windows.state of <<kind, row>>
    used,      \* used_micros
    reserved,  \* reserved_micros
    keyUsed,   \* inference_api_keys.budget_used_micros
    active,    \* inference_billing_accounts.status = 'active'
    \* time
    cur,       \* cur[k]: the active row whose interval contains now, 0 for none
    \* processes
    pc,        \* pc[r]: where the gateway call of r is
    tries,     \* tries[r]: candidates the dispatch loop has used
    pick,      \* pick[w]: the request a recovery worker is working on
    \* history
    exec,      \* exec[r]: attempts the upstream really executed
    cancelled, \* cancelled[r]: the caller went away during a dispatch
    over       \* over[w]: total charged to w beyond the holds

requestVars == <<status, resv, bind, charge, att, job, leases, quiet>>
quotaVars == <<wstate, used, reserved, keyUsed, cur>>
history == <<exec, cancelled, over>>
vars == <<requestVars, quotaVars, active, pc, tries, pick, history>>

Rows == 1..MaxRows
Windows == Kinds \X Rows
Attempts == 1..MaxAttempts

Terminal == {"settled", "released"}
OpenStatuses == {"reserved", "dispatching", "streaming", "non_streaming"}
Statuses == {"absent", "reconciliation_required"} \cup OpenStatuses \cup Terminal
ReservationStates == {"none", "held", "settled", "released"}
AttemptStates == {"none", "dispatching", "zero", "served"}
GatewaySteps == {"new", "route", "checks", "inflight", "streaming",
                 "settle", "park", "hold", "release", "unlease", "done", "dead"}
Idle == [req |-> "none", via |-> "none", cls |-> "none"]
Picks == {Idle} \cup [req : Requests, via : {"sweep", "job"},
                      cls : {"unread", "not_sent", "unknown_charge"}]

RowTypes ==
    /\ status \in [Requests -> Statuses]
    /\ resv \in [Requests -> ReservationStates]
    /\ bind \in [Requests -> [Kinds -> 0..MaxRows]]
    /\ charge \in [Requests -> Nat \cup {-1}]
    /\ att \in [Requests -> [Attempts -> AttemptStates]]
    /\ job \in [Requests -> Jobs]
    /\ leases \in [Requests -> SUBSET {"account", "upstream"}]
    /\ quiet \in [Requests -> BOOLEAN]
    /\ wstate \in [Windows -> {"unused", "active", "voided"}]
    /\ used \in [Windows -> Nat]
    /\ reserved \in [Windows -> Nat]
    /\ keyUsed \in Nat
    /\ cur \in [Kinds -> 0..MaxRows]
    /\ exec \in [Requests -> SUBSET Attempts]
    /\ cancelled \in [Requests -> BOOLEAN]
    /\ over \in [Windows -> Nat]

ProcessTypes ==
    /\ active \in BOOLEAN
    /\ pc \in [Requests -> GatewaySteps]
    /\ tries \in [Requests -> 0..MaxAttempts]
    /\ pick \in [Workers -> Picks]

\* Every row and every process has its type; in particular no reserved or
\* budget counter goes below zero under any interleaving of Release and Settle.
TypeOK == RowTypes /\ ProcessTypes

Init ==
    /\ status = [r \in Requests |-> "absent"]
    /\ resv = [r \in Requests |-> "none"]
    /\ bind = [r \in Requests |-> [k \in Kinds |-> 0]]
    /\ charge = [r \in Requests |-> -1]
    /\ att = [r \in Requests |-> [i \in Attempts |-> "none"]]
    /\ job = [r \in Requests |-> NoJob]
    /\ leases = [r \in Requests |-> {}]
    /\ quiet = [r \in Requests |-> FALSE]
    /\ wstate = [w \in Windows |-> "unused"]
    /\ used = [w \in Windows |-> 0]
    /\ reserved = [w \in Windows |-> 0]
    /\ keyUsed = 0
    /\ active = TRUE
    /\ cur = [k \in Kinds |-> 0]
    /\ pc = [r \in Requests |-> "new"]
    /\ tries = [r \in Requests |-> 0]
    /\ pick = [w \in Workers |-> Idle]
    /\ exec = [r \in Requests |-> {}]
    /\ cancelled = [r \in Requests |-> FALSE]
    /\ over = [w \in Windows |-> 0]

-----------------------------------------------------------------------------
(* Transactions of the store *)

Bound(r) == {<<k, bind[r][k]>> : k \in Kinds}

\* The window rows an admission binds: the live row of each kind, or a fresh
\* one (ActivateWindowsTx).
Binding(b) ==
    \A k \in Kinds :
        IF cur[k] # 0 THEN b[k] = cur[k]
        ELSE /\ wstate[<<k, b[k]>>] = "unused"
             /\ \A i \in 1..(b[k] - 1) : wstate[<<k, i>>] # "unused"

\* MUTANT: open holds are not counted.
AdmissibleIgnoringHolds(r, b) ==
    /\ active
    /\ \A k \in Kinds : used[<<k, b[k]>>] + Hold[r] <= Limit[k]
    /\ keyUsed + Hold[r] <= KeyLimit

\* Room for the hold in every window and in the key budget.
Admissible(r, b) ==
    /\ active
    /\ \A k \in Kinds : used[<<k, b[k]>>] + reserved[<<k, b[k]>>] + Hold[r] <= Limit[k]
    /\ keyUsed + Hold[r] <= KeyLimit

\* admitOnce: activate the windows, reserve, take the account lease.
AdmitTx(r, b) ==
    /\ status' = [status EXCEPT ![r] = "reserved"]
    /\ resv' = [resv EXCEPT ![r] = "held"]
    /\ bind' = [bind EXCEPT ![r] = b]
    /\ wstate' = [w \in Windows |-> IF w[2] = b[w[1]] THEN "active" ELSE wstate[w]]
    /\ cur' = b
    /\ reserved' = [w \in Windows |->
                        IF w[2] = b[w[1]] THEN reserved[w] + Hold[r] ELSE reserved[w]]
    /\ keyUsed' = keyUsed + Hold[r]
    /\ leases' = [leases EXCEPT ![r] = IF AccountLease THEN {"account"} ELSE {}]
    /\ quiet' = [quiet EXCEPT ![r] = FALSE]
    /\ UNCHANGED <<charge, att, job, used, history>>

\* The hold of r leaves the windows it was pinned to, ended or not.
\* MUTANT: it leaves only windows that are still live.
ReservedWithoutLive(r) ==
    [w \in Windows |-> IF w \in Bound(r) /\ w[2] = cur[w[1]] THEN reserved[w] - Hold[r] ELSE reserved[w]]

ReservedWithout(r) ==
    [w \in Windows |-> IF w \in Bound(r) THEN reserved[w] - Hold[r] ELSE reserved[w]]

\* MUTANT: the hold is charged in place of the amount.
UsedWithHold(r, c) ==
    [w \in Windows |-> IF w \in Bound(r) THEN used[w] + Hold[r] ELSE used[w]]

UsedWith(r, c) ==
    [w \in Windows |-> IF w \in Bound(r) THEN used[w] + c ELSE used[w]]

\* MUTANT: the hold stays in the key budget.
KeyChargedOnTop(r, c) == keyUsed + c

KeyCharged(r, c) == keyUsed - Hold[r] + c

\* MUTANT: the state of the request and of its reservations is not checked.
ReleaseCommitsAlways(r, fromReconciliation) == active

\* The conditions under which Release, or ReleaseFromReconciliation, commits.
ReleaseCommits(r, fromReconciliation) ==
    /\ active
    /\ status[r] \notin Terminal
    /\ status[r] = "reconciliation_required" => fromReconciliation
    /\ resv[r] = "held"
    /\ \A w \in Bound(r) : reserved[w] >= Hold[r]
    /\ keyUsed >= Hold[r]

\* MUTANT: held reservations are not counted.
VoidableIgnoringHolds(r, w) ==
    /\ w \in Bound(r) /\ w[1] = "five_hour"
    /\ wstate[w] = "active"
    /\ used[w] = 0
    /\ reserved[w] - Hold[r] = 0

\* voidUnusedFiveHourWindow, evaluated after r's own hold is gone.
Voidable(r, w) ==
    /\ w \in Bound(r) /\ w[1] = "five_hour"
    /\ wstate[w] = "active"
    /\ used[w] = 0
    /\ reserved[w] - Hold[r] = 0
    /\ \A s \in Requests \ {r} : resv[s] = "held" => w \notin Bound(s)

ReleaseTx(r, fromReconciliation) ==
    /\ ReleaseCommits(r, fromReconciliation)
    /\ status' = [status EXCEPT ![r] = "released"]
    /\ resv' = [resv EXCEPT ![r] = "released"]
    /\ reserved' = ReservedWithout(r)
    /\ keyUsed' = keyUsed - Hold[r]
    /\ wstate' = [w \in Windows |-> IF Voidable(r, w) THEN "voided" ELSE wstate[w]]
    /\ cur' = [k \in Kinds |-> IF Voidable(r, <<k, cur[k]>>) THEN 0 ELSE cur[k]]
    /\ job' = [job EXCEPT ![r] = IF fromReconciliation THEN ResolveOpen(@) ELSE @]
    /\ quiet' = [quiet EXCEPT ![r] = FALSE]
    /\ UNCHANGED <<bind, charge, att, used, leases, history>>

\* The conditions under which Settle commits a charge of c; any of them
\* failing is a CodeConflict.
SettleCommits(r, c) ==
    /\ status[r] \notin Terminal
    /\ charge[r] = -1
    /\ resv[r] = "held"
    /\ \A w \in Bound(r) : wstate[w] = "active" /\ reserved[w] >= Hold[r]
    /\ KeyCharged(r, c) >= 0

\* Settle, with the job its caller enqueues in the same transaction.
SettleTx(r, c, reason) ==
    /\ SettleCommits(r, c)
    /\ status' = [status EXCEPT ![r] = "settled"]
    /\ resv' = [resv EXCEPT ![r] = "settled"]
    /\ charge' = [charge EXCEPT ![r] = c]
    /\ reserved' = ReservedWithout(r)
    /\ used' = UsedWith(r, c)
    /\ over' = [w \in Windows |->
                    IF w \in Bound(r) /\ c > Hold[r] THEN over[w] + (c - Hold[r]) ELSE over[w]]
    /\ keyUsed' = KeyCharged(r, c)
    /\ job' = [job EXCEPT ![r] = IF reason = "none" THEN @ ELSE Enqueue(@, reason)]
    /\ quiet' = [quiet EXCEPT ![r] = FALSE]
    /\ UNCHANGED <<bind, att, leases, wstate, cur, exec, cancelled>>

\* MUTANT: a final request is parked again.
ParkTxAnyStatus(r) ==
    /\ status' = [status EXCEPT ![r] = "reconciliation_required"]
    /\ job' = [job EXCEPT ![r] = Enqueue(@, "unknown_usage")]
    /\ quiet' = [quiet EXCEPT ![r] = FALSE]
    /\ UNCHANGED <<resv, bind, charge, att, leases, quotaVars, history>>

\* MarkReconciliationRequired: silent on a request that is already final.
ParkTx(r) ==
    /\ IF status[r] \in Terminal
       THEN UNCHANGED <<status, job, quiet>>
       ELSE /\ status' = [status EXCEPT ![r] = "reconciliation_required"]
            /\ job' = [job EXCEPT ![r] = Enqueue(@, "unknown_usage")]
            /\ quiet' = [quiet EXCEPT ![r] = FALSE]
    /\ UNCHANGED <<resv, bind, charge, att, leases, quotaVars, history>>

-----------------------------------------------------------------------------
(* The gateway call of request r *)

Goto(r, step) == pc' = [pc EXCEPT ![r] = step]

DbFault == "dberror" \in Faults

NoTx == UNCHANGED <<requestVars, quotaVars, history>>

\* A transaction that may fail, or commit and lose the answer.
Committed(r, Tx, ok, failed) ==
    \/ Tx /\ Goto(r, ok)
    \/ DbFault /\ (Tx \/ NoTx) /\ Goto(r, failed)

\* Best-effort writes: finishAttempt, ReleaseLease, the status markers.  Each
\* can fail by itself, so a crash between two of them shows nothing new.
FinishAttempt(r, st) ==
    \/ att' = [att EXCEPT ![r][tries[r]] = st]
    \/ DbFault /\ UNCHANGED att

DropLeases(r, scopes) ==
    \E kept \in SUBSET scopes :
        /\ kept # {} => DbFault
        /\ leases' = [leases EXCEPT ![r] = @ \ (scopes \ kept)]

MarkStatus(r, st) ==
    \/ /\ status' = [status EXCEPT ![r] = st]
       /\ quiet' = [quiet EXCEPT ![r] = FALSE]
    \/ DbFault /\ UNCHANGED <<status, quiet>>

Admit(r) ==
    /\ pc[r] = "new"
    /\ \E b \in [Kinds -> Rows] :
        /\ Binding(b) /\ Admissible(r, b)
        /\ Committed(r, AdmitTx(r, b), "route", "done")
    /\ UNCHANGED <<active, tries, pick>>

\* A request that fails validation, a limit, or any step of the admission:
\* the rollback leaves nothing behind.
AdmitRejected(r) ==
    /\ pc[r] = "new"
    /\ Goto(r, "done")
    /\ UNCHANGED <<requestVars, quotaVars, active, tries, pick, history>>

\* No candidate, a sticky session that cannot be continued, or none left.
NoCandidate(r) ==
    /\ pc[r] = "route"
    /\ Goto(r, "release")
    /\ UNCHANGED <<requestVars, quotaVars, active, tries, pick, history>>

\* No adapter, an account at its ceiling or inactive: the next candidate.
SkipCandidate(r) ==
    /\ pc[r] = "route" /\ tries[r] < MaxAttempts
    /\ tries' = [tries EXCEPT ![r] = @ + 1]
    /\ UNCHANGED <<requestVars, quotaVars, active, pc, pick, history>>

\* Attempt intent and upstream lease commit together, before any byte is sent.
PersistAttempt(r) ==
    /\ pc[r] = "route" /\ tries[r] < MaxAttempts
    /\ tries' = [tries EXCEPT ![r] = @ + 1]
    /\ LET tx == /\ att' = [att EXCEPT ![r][tries[r] + 1] = "dispatching"]
                 /\ leases' = [leases EXCEPT ![r] = @ \cup {"upstream"}]
                 /\ quiet' = [quiet EXCEPT ![r] = FALSE]
                 /\ UNCHANGED <<status, resv, bind, charge, job, quotaVars, history>>
       IN Committed(r, tx, "checks", "release")
    /\ UNCHANGED <<active, pick>>

\* lease_lost, egress_rejected, credential: the next candidate; config or
\* storage: release.  The marker may be written although its answer is lost.
PreDispatchFails(r) ==
    /\ pc[r] = "checks"
    /\ FinishAttempt(r, "zero") /\ DropLeases(r, {"upstream"})
    /\ \/ UNCHANGED <<status, quiet>> /\ Goto(r, "route")
       \/ UNCHANGED <<status, quiet>> /\ Goto(r, "release")
       \/ DbFault /\ MarkStatus(r, "dispatching") /\ Goto(r, "release")
    /\ UNCHANGED <<resv, bind, charge, job, quotaVars, active, tries, pick, history>>

\* UpdateRequestStatus(dispatching) writes whatever the status was.
MarkDispatching(r) ==
    /\ pc[r] = "checks"
    /\ status' = [status EXCEPT ![r] = "dispatching"]
    /\ quiet' = [quiet EXCEPT ![r] = FALSE]
    /\ Goto(r, "inflight")
    /\ UNCHANGED <<resv, bind, charge, att, job, leases, quotaVars, active, tries, pick, history>>

\* The upstream serves the call it was sent (external).
UpstreamExecutes(r) ==
    /\ pc[r] = "inflight" /\ tries[r] \notin exec[r]
    /\ exec' = [exec EXCEPT ![r] = @ \cup {tries[r]}]
    /\ UNCHANGED <<requestVars, quotaVars, active, pc, tries, pick, cancelled, over>>

\* An HTTP refusal, a refused connection or a payload that cannot be built:
\* nothing was served; fail over or give up.
DispatchRejected(r) ==
    /\ pc[r] = "inflight" /\ tries[r] \notin exec[r]
    /\ FinishAttempt(r, "zero") /\ DropLeases(r, {"upstream"})
    /\ \E step \in {"route", "release"} : Goto(r, step)
    /\ UNCHANGED <<status, resv, bind, charge, job, quiet, quotaVars, active, tries, pick, history>>

\* MUTANT: fail over after an unknown execution.
DispatchUnknownRetries(r) ==
    /\ pc[r] = "inflight"
    /\ FinishAttempt(r, "served") /\ DropLeases(r, {"upstream"})
    /\ Goto(r, "route")
    /\ UNCHANGED <<status, resv, bind, charge, job, quiet, quotaVars, active, tries, pick, history>>

\* MUTANT: the attempt is recorded as a plain transport failure.
DispatchUnknownAsFailed(r) ==
    /\ pc[r] = "inflight"
    /\ FinishAttempt(r, "zero") /\ DropLeases(r, {"upstream"})
    /\ Goto(r, "hold")
    /\ UNCHANGED <<status, resv, bind, charge, job, quiet, quotaVars, active, tries, pick, history>>

\* ExecutedUnknown: a timeout, a reset, or an answer that cannot be read.
DispatchUnknown(r) ==
    /\ pc[r] = "inflight"
    /\ FinishAttempt(r, "served") /\ DropLeases(r, {"upstream"})
    /\ Goto(r, "hold")
    /\ UNCHANGED <<status, resv, bind, charge, job, quiet, quotaVars, active, tries, pick, history>>

\* The caller disconnects while the call is out: a DispatchError without
\* ExecutedUnknown, recorded as failed/transport.
DispatchCancelled(r) ==
    /\ pc[r] = "inflight"
    /\ FinishAttempt(r, "zero") /\ DropLeases(r, {"upstream"})
    /\ cancelled' = [cancelled EXCEPT ![r] = TRUE]
    /\ Goto(r, "release")
    /\ UNCHANGED <<status, resv, bind, charge, job, quiet, quotaVars, active, tries, pick, exec, over>>

\* onNonStreamDispatch, up to the settlement.
DispatchCompleted(r) ==
    /\ pc[r] = "inflight" /\ tries[r] \in exec[r]
    /\ DropLeases(r, {"upstream"}) /\ FinishAttempt(r, "served")
    /\ MarkStatus(r, "non_streaming")
    /\ Goto(r, "settle")
    /\ UNCHANGED <<resv, bind, charge, job, quotaVars, active, tries, pick, history>>

\* onStreamDispatch: the stream keeper takes the leases over.
StreamOpens(r) ==
    /\ pc[r] = "inflight" /\ tries[r] \in exec[r]
    /\ MarkStatus(r, "streaming")
    /\ Goto(r, "streaming")
    /\ UNCHANGED <<resv, bind, charge, att, job, leases, quotaVars, active, tries, pick, history>>

\* StreamBody.Finish, up to the settlement: without any usage and without the
\* end marker the request is parked.
StreamEnds(r) ==
    /\ pc[r] = "streaming"
    /\ FinishAttempt(r, "served")
    /\ \E step \in {"settle", "park"} : Goto(r, step)
    /\ UNCHANGED <<status, resv, bind, charge, job, leases, quiet, quotaVars, active, tries, pick, history>>

\* MUTANT: the excess is not reported.
OverageUnreported(r, c) == "none"

\* A charge above the hold enqueues its anomaly job with the settlement.
OverageReason(r, c) == IF c > Hold[r] THEN "settlement_overage" ELSE "none"

\* settle: a commit whose answer is lost is tried again and meets its own
\* charge.
Settle(r) ==
    /\ pc[r] = "settle"
    /\ \E c \in Charges :
        /\ SettleTx(r, c, OverageReason(r, c))
        /\ \/ Goto(r, "unlease")
           \/ DbFault /\ UNCHANGED pc
    /\ UNCHANGED <<active, tries, pick>>

\* CodeConflict is taken for a duplicate delivery and answered with nothing.
SettleConflicts(r) ==
    /\ pc[r] = "settle"
    /\ \E c \in Charges : ~SettleCommits(r, c)
    /\ Goto(r, "unlease")
    /\ UNCHANGED <<requestVars, quotaVars, active, tries, pick, history>>

\* Usage that cannot be priced, or three storage failures.
SettleFails(r) ==
    /\ pc[r] = "settle"
    /\ Goto(r, "park")
    /\ UNCHANGED <<requestVars, quotaVars, active, tries, pick, history>>

\* markReconciliation, after a settlement that failed or a broken stream.
Park(r) ==
    /\ pc[r] = "park"
    /\ Committed(r, ParkTx(r), "unlease", "unlease")
    /\ UNCHANGED <<active, tries, pick>>

\* holdForReconciliation: the account lease is left to its TTL.
HoldForReconciliation(r) ==
    /\ pc[r] = "hold"
    /\ Committed(r, ParkTx(r), "done", "done")
    /\ UNCHANGED <<active, tries, pick>>

\* releaseAdmission: a failure leaves the hold to the recovery worker.
Release(r) ==
    /\ pc[r] = "release"
    /\ \/ ReleaseTx(r, FALSE)
       \/ (DbFault \/ ~ReleaseCommits(r, FALSE)) /\ NoTx
    /\ Goto(r, "unlease")
    /\ UNCHANGED <<active, tries, pick>>

\* The leases end after the request is final, never before.
EndLeases(r) ==
    /\ pc[r] = "unlease"
    /\ DropLeases(r, {"account", "upstream"})
    /\ Goto(r, "done")
    /\ UNCHANGED <<status, resv, bind, charge, att, job, quiet, quotaVars, active, tries, pick, history>>

GatewayStep(r) ==
    \/ Admit(r) \/ AdmitRejected(r)
    \/ NoCandidate(r) \/ SkipCandidate(r) \/ PersistAttempt(r)
    \/ PreDispatchFails(r) \/ MarkDispatching(r)
    \/ DispatchRejected(r) \/ DispatchUnknown(r) \/ DispatchCancelled(r)
    \/ DispatchCompleted(r) \/ StreamOpens(r) \/ StreamEnds(r)
    \/ Settle(r) \/ SettleConflicts(r) \/ SettleFails(r)
    \/ Park(r) \/ HoldForReconciliation(r) \/ Release(r) \/ EndLeases(r)

-----------------------------------------------------------------------------
(* Crashes, time and the account's owner *)

Gone(r) == pc[r] \in {"done", "dead"}

Crash(r) ==
    /\ "crash" \in Faults
    /\ ~Gone(r) /\ pc[r] # "new"
    /\ Goto(r, "dead")
    /\ UNCHANGED <<requestVars, quotaVars, active, tries, pick, history>>

\* Grace exceeds the request timeout of every deployment and every other step
\* of a live call but the stream; only a stalled process outlasts it.
GraceElapses(r) ==
    /\ status[r] \in OpenStatuses /\ ~quiet[r]
    /\ Gone(r) \/ pc[r] = "streaming" \/ "stall" \in Faults
    /\ quiet' = [quiet EXCEPT ![r] = TRUE]
    /\ UNCHANGED <<status, resv, bind, charge, att, job, leases, quotaVars, active, pc, tries, pick, history>>

\* A lease lapses when nobody renews it: the keeper of a live dispatch or
\* stream does, and the TTL exceeds the steps in between.
LeaseExpires(r) ==
    /\ leases[r] # {}
    /\ Gone(r) \/ "stall" \in Faults
    /\ leases' = [leases EXCEPT ![r] = {}]
    /\ UNCHANGED <<status, resv, bind, charge, att, job, quiet, quotaVars, active, pc, tries, pick, history>>

\* The live window of kind k ends.
WindowEnds(k) ==
    /\ cur[k] # 0
    /\ cur' = [cur EXCEPT ![k] = 0]
    /\ UNCHANGED <<requestVars, wstate, used, reserved, keyUsed, active, pc, tries, pick, history>>

\* The account is suspended or reactivated.
SetAccountStatus ==
    /\ "suspend" \in Faults
    /\ active' = ~active
    /\ UNCHANGED <<requestVars, quotaVars, pc, tries, pick, history>>

-----------------------------------------------------------------------------
(* The recovery worker w *)

\* MUTANT: an attempt without an outcome counts as not sent.
ClassifyByOutcome(r) ==
    IF \E i \in Attempts : att[r][i] = "served"
    THEN "unknown_charge" ELSE "not_sent"

\* classify: an attempt not proven to have consumed nothing anchors a charge.
Classify(r) ==
    IF \E i \in Attempts : att[r][i] \in {"dispatching", "served"}
    THEN "unknown_charge" ELSE "not_sent"

\* MUTANT: leases are not consulted.
StaleByClock(r) == status[r] \in OpenStatuses /\ quiet[r]

\* MUTANT: streams are never swept.
StaleButStreams(r) ==
    /\ status[r] \in OpenStatuses \ {"streaming"}
    /\ quiet[r]
    /\ leases[r] = {}

\* ListStaleOpenRequests.
Stale(r) ==
    /\ status[r] \in OpenStatuses
    /\ quiet[r]
    /\ leases[r] = {}

Sweep(w, r) ==
    /\ pick[w] = Idle
    /\ Stale(r)
    /\ pick' = [pick EXCEPT ![w] = [req |-> r, via |-> "sweep", cls |-> "unread"]]
    /\ UNCHANGED <<requestVars, quotaVars, active, pc, tries, history>>

\* ListPendingReconciliationJobs; the job of a final request waits for evidence.
TakeJob(w, r) ==
    /\ pick[w] = Idle
    /\ job[r].status = "pending"
    /\ status[r] \notin Terminal
    /\ pick' = [pick EXCEPT ![w] = [req |-> r, via |-> "job", cls |-> "unread"]]
    /\ UNCHANGED <<requestVars, quotaVars, active, pc, tries, history>>

\* loadEvidence and classify; a parked request without any attempt is left
\* to a human.
LoadEvidence(w) ==
    /\ pick[w] # Idle /\ pick[w].cls = "unread"
    /\ LET r == pick[w].req
           noEvidence == /\ pick[w].via = "job"
                         /\ status[r] = "reconciliation_required"
                         /\ \A i \in Attempts : att[r][i] = "none"
       IN pick' = [pick EXCEPT ![w] =
                      IF noEvidence THEN Idle ELSE [@ EXCEPT !.cls = Classify(r)]]
    /\ UNCHANGED <<requestVars, quotaVars, active, pc, tries, history>>

\* releaseProvenZero.
ReleaseProvenZero(w) ==
    /\ pick[w].cls = "not_sent"
    /\ ReleaseTx(pick[w].req, pick[w].via = "job")
    /\ pick' = [pick EXCEPT ![w] = Idle]
    /\ UNCHANGED <<active, pc, tries>>

\* settleUnknownCharge: the full hold, with the verification job.
SettleUnknownCharge(w) ==
    /\ pick[w].cls = "unknown_charge"
    /\ SettleTx(pick[w].req, Hold[pick[w].req], "crash_recovery")
    /\ pick' = [pick EXCEPT ![w] = Idle]
    /\ UNCHANGED <<active, pc, tries>>

\* A conflict means somebody else finished the request; an error is tried
\* again on a later pass.
WorkerSkips(w) ==
    /\ pick[w].cls \in {"not_sent", "unknown_charge"}
    /\ LET r == pick[w].req
       IN \/ DbFault
          \/ pick[w].cls = "not_sent" /\ ~ReleaseCommits(r, pick[w].via = "job")
          \/ pick[w].cls = "unknown_charge" /\ ~SettleCommits(r, Hold[r])
    /\ pick' = [pick EXCEPT ![w] = Idle]
    /\ UNCHANGED <<requestVars, quotaVars, active, pc, tries, history>>

\* EscalateOverdueReconciliationJobs: it only calls for a human.
Escalate(r) ==
    /\ job[r].status = "pending"
    /\ job' = [job EXCEPT ![r] = Escalated(@)]
    /\ UNCHANGED <<status, resv, bind, charge, att, leases, quiet, quotaVars, active, pc, tries, pick, history>>

Recover(w) ==
    \/ \E r \in Requests : Sweep(w, r) \/ TakeJob(w, r)
    \/ LoadEvidence(w)
    \/ ReleaseProvenZero(w) \/ SettleUnknownCharge(w) \/ WorkerSkips(w)

-----------------------------------------------------------------------------
Environment ==
    \/ \E r \in Requests : UpstreamExecutes(r) \/ Crash(r) \/ GraceElapses(r) \/ LeaseExpires(r)
    \/ \E k \in Kinds : WindowEnds(k)
    \/ SetAccountStatus

Next ==
    \/ \E r \in Requests : GatewayStep(r) \/ Escalate(r)
    \/ \E w \in Workers : Recover(w)
    \/ Environment

Spec == Init /\ [][Next]_vars


-----------------------------------------------------------------------------
(* Properties *)

\* A window is voided only when no reservation is held on it: every held
\* request keeps finding its windows active, so Settle can convert the hold
\* (voidUnusedFiveHourWindow against Reserve and Settle).
HeldWindowsActive ==
    \A r \in Requests : resv[r] = "held" =>
        \A w \in Bound(r) : wstate[w] = "active"

\* What is used and reserved in a window never exceeds its limit by more than
\* was charged beyond the holds: the conditional UPDATE of Reserve, the
\* conversion of Settle and the return of Release together keep the books.
WithinLimit ==
    \A w \in Windows : used[w] + reserved[w] <= Limit[w[1]] + over[w]

\* The ledger has a charge exactly for the requests whose reservations were
\* converted, whoever settled them and however often settlement was delivered.
ChargedIffConverted ==
    \A r \in Requests : charge[r] # -1 <=> resv[r] = "settled"

\* The gateway, the recovery workers and every fault between them implement
\* the promise of HoldLedger: one hold, closed once, by one charge or by none.
Ledger == INSTANCE HoldLedger WITH hold <- resv, amount <- charge
HoldsCloseOnce == Ledger!Spec

\* The request row and the reservation rows agree: a hold exists exactly while
\* the request is neither settled nor released (no dangling hold, no final
\* request whose hold is still counted).
FinalAgrees ==
    \A r \in Requests :
        /\ resv[r] = "none" <=> status[r] = "absent"
        /\ resv[r] = "settled" <=> status[r] = "settled"
        /\ resv[r] = "released" <=> status[r] = "released"

\* The dispatch loop fails over only after attempts that served nothing: the
\* upstream executes a request at most once.
ExecutedOnce ==
    \A r \in Requests : Cardinality(exec[r]) <= 1

\* A request is released only when the upstream served nothing, except when
\* the caller disconnected during the dispatch.
ReleasedUnserved ==
    \A r \in Requests : resv[r] = "released" /\ exec[r] # {} => cancelled[r]

\* Every parked request has an attempt to attach the conservative settlement
\* to: the worker is never left with a parked request it cannot estimate.
ParkedHasAnchor ==
    \A r \in Requests :
        status[r] = "reconciliation_required" => Classify(r) = "unknown_charge"

\* A CodeConflict that settle swallows as a duplicate delivery is one: while
\* the hold is there, Settle commits for every charge.
ConflictIsDuplicate ==
    \A r \in Requests : pc[r] = "settle" /\ resv[r] = "held" =>
        \A c \in Charges : SettleCommits(r, c)

\* The requests whose reservation is held on window w, and those charged to it.
HoldersOf(w) == {r \in Requests : resv[r] = "held" /\ w \in Bound(r)}

ChargedTo(w) == {r \in Requests : charge[r] # -1 /\ w \in Bound(r)}

\* ReconcileWindowAggregates: a window's used from the ledger entries of the
\* requests bound to it (without corrections every entry is a charge).
Rebuilt(w) == SumFunctionOnSet(charge, ChargedTo(w))

\* The ledger rebuild of the recovery pass never finds a mismatch.
LedgerRebuilds ==
    \A w \in Windows : wstate[w] = "active" => used[w] = Rebuilt(w)

\* A window's reserved amount is what its held reservations add up to: no
\* hold is leaked by, or returned twice through, any mix of settlement,
\* release, recovery and lost commits.
ReservedIsHeld ==
    \A w \in Windows : reserved[w] = SumFunctionOnSet(Hold, HoldersOf(w))

\* The key budget is the open holds plus the charges.
KeyBudgetAgrees ==
    keyUsed = SumFunctionOnSet(Hold, {r \in Requests : resv[r] = "held"})
              + SumFunctionOnSet(charge, {r \in Requests : charge[r] # -1})

\* The stored sums (window used and reserved, key budget) agree with the rows
\* they summarize and never pass the limit, and a conflict that settle swallows as
\* a duplicate is one.
AggregatesAgree ==
    LedgerRebuilds /\ ReservedIsHeld /\ KeyBudgetAgrees /\ WithinLimit /\ ConflictIsDuplicate

\* A request settled above its hold has its anomaly job, open or escalated.
OverageTracked ==
    \A r \in Requests : charge[r] > Hold[r] => job[r].status \in {"pending", "escalated"}

\* The worker only works on the hold of a request whose gateway call is over:
\* the three guards of ListStaleOpenRequests keep it off live requests.
RecoveredIsGone ==
    \A w \in Workers : pick[w] # Idle /\ resv[pick[w].req] = "held" =>
        Gone(pick[w].req) \/ pc[pick[w].req] = "unlease"

\* Recovery has what it needs and does no harm: the request row agrees with its
\* reservations, nothing served is given back, a parked request can be settled, the
\* worker keeps off calls under way, and a charge above the hold has its anomaly job.
RecoverySound ==
    FinalAgrees /\ ReleasedUnserved /\ ParkedHasAnchor /\ RecoveredIsGone /\ OverageTracked

\* No step changes the status of a settled or released request, although the
\* status markers of the gateway are unguarded updates.
TerminalFinal ==
    [][\A r \in Requests : status[r] \in Terminal => status'[r] = status[r]]_vars

\* Fairness: a call runs to its end or dies, time passes, and the worker
\* gets to every listed request again and again, with storage that does not
\* fail every time.
Fairness ==
    /\ \A r \in Requests :
        /\ WF_vars(GatewayStep(r))
        /\ WF_vars(GraceElapses(r))
        /\ WF_vars(LeaseExpires(r))
    /\ \A w \in Workers :
        /\ \A r \in Requests : SF_vars(Sweep(w, r)) /\ SF_vars(TakeJob(w, r))
        /\ WF_vars(LoadEvidence(w))
        /\ SF_vars(ReleaseProvenZero(w) \/ SettleUnknownCharge(w))

FairSpec == Spec /\ Fairness

\* Every hold is eventually converted or returned, or a human was called for.
HoldsResolve ==
    \A r \in Requests :
        resv[r] = "held" ~> resv[r] # "held" \/ job[r].status = "escalated"

=============================================================================
