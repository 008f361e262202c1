---------------------------- MODULE BillingProofs ---------------------------
(***************************************************************************)
(* Proofs about the billing model, for any number of requests, workers,    *)
(* window kinds, attempts and amounts.                                     *)
(***************************************************************************)
EXTENDS Billing, SumTheorems

-----------------------------------------------------------------------------
(* Types *)

\* A call that is past PersistAttempt is on one of its attempts.
OnAttempt ==
    \A r \in Requests : pc[r] \in {"checks", "inflight", "streaming"} => tries[r] \in Attempts

TInv == TypeOK /\ OnAttempt

\* Holds and charges are natural numbers.
LEMMA AmountsNat ==
    (\A r \in Requests : Hold[r] \in Nat) /\ Charges \subseteq Nat
  BY BillingAssumption

\* AdmitTx of Admit keeps the rows typed.
LEMMA AdmitTxTypes ==
    ASSUME RowTypes, NEW r \in Requests, NEW b \in [Kinds -> Rows], AdmitTx(r, b)
    PROVE  RowTypes'
<1>1. UNCHANGED <<charge, att, job, used, exec, cancelled, over>>
  BY DEF AdmitTx, history
<1>2. /\ status' \in [Requests -> Statuses] /\ resv' \in [Requests -> ReservationStates]
      /\ quiet' \in [Requests -> BOOLEAN]
  BY DEF RowTypes, AdmitTx, Statuses, OpenStatuses, ReservationStates
<1>3. bind' \in [Requests -> [Kinds -> 0..MaxRows]] /\ cur' \in [Kinds -> 0..MaxRows]
  BY BillingAssumption DEF RowTypes, AdmitTx, Rows
<1>4. leases' \in [Requests -> SUBSET {"account", "upstream"}]
  BY DEF RowTypes, AdmitTx
<1>5. wstate' \in [Windows -> {"unused", "active", "voided"}]
  BY DEF RowTypes, AdmitTx
<1>6. keyUsed' \in Nat
  <2>1. keyUsed \in Nat
    BY DEF RowTypes
  <2>2. keyUsed' = keyUsed + Hold[r]
    BY DEF AdmitTx
  <2>. QED BY <2>1, <2>2, AmountsNat
<1>7. reserved' \in [Windows -> Nat]
  <2>1. reserved \in [Windows -> Nat]
    BY DEF RowTypes
  <2>2. reserved' = [w \in Windows |->
                        IF w[2] = b[w[1]] THEN reserved[w] + Hold[r] ELSE reserved[w]]
    BY DEF AdmitTx
  <2>. QED BY <2>1, <2>2, AmountsNat
<1>. QED BY <1>1, <1>2, <1>3, <1>4, <1>5, <1>6, <1>7 DEF RowTypes

\* Closing a job keeps its type.
LEMMA JobOperators ==
    ASSUME NEW j \in Jobs, NEW reason \in JobReasons
    PROVE  /\ Enqueue(j, reason) \in Jobs
           /\ ResolveOpen(j) \in Jobs
           /\ Escalated(j) \in Jobs
  BY DEF Jobs, JobStatuses, JobReasons, Enqueue, ResolveOpen, Escalated, Reopens

\* The hold of r can be taken out of the windows it is counted in.
LEMMA ReservedWithoutType ==
    ASSUME RowTypes, NEW r \in Requests, \A w \in Bound(r) : reserved[w] >= Hold[r]
    PROVE  ReservedWithout(r) \in [Windows -> Nat]
<1>1. reserved \in [Windows -> Nat]
  BY DEF RowTypes
<1>. QED BY <1>1, AmountsNat DEF ReservedWithout

\* The guards of Release keep every counter at or above zero.
LEMMA ReleaseTxTypes ==
    ASSUME RowTypes, NEW r \in Requests, NEW f \in BOOLEAN, ReleaseTx(r, f)
    PROVE  RowTypes'
<1>1. UNCHANGED <<bind, charge, att, used, leases, exec, cancelled, over>>
  BY DEF ReleaseTx, history
<1>2. /\ status' \in [Requests -> Statuses] /\ resv' \in [Requests -> ReservationStates]
      /\ quiet' \in [Requests -> BOOLEAN]
  BY DEF RowTypes, ReleaseTx, Statuses, Terminal, ReservationStates
<1>3. wstate' \in [Windows -> {"unused", "active", "voided"}]
  BY DEF RowTypes, ReleaseTx
<1>4. cur' \in [Kinds -> 0..MaxRows]
  BY BillingAssumption DEF RowTypes, ReleaseTx
<1>5. reserved' \in [Windows -> Nat]
  BY ReservedWithoutType DEF ReleaseTx, ReleaseCommits
<1>6. keyUsed' \in Nat
  <2>1. keyUsed \in Nat
    BY DEF RowTypes
  <2>2. keyUsed' = keyUsed - Hold[r] /\ keyUsed >= Hold[r]
    BY DEF ReleaseTx, ReleaseCommits
  <2>. QED BY <2>1, <2>2, AmountsNat
<1>7. job' \in [Requests -> Jobs]
  <2>1. job \in [Requests -> Jobs]
    BY DEF RowTypes
  <2>2. job' = [job EXCEPT ![r] = IF f THEN ResolveOpen(job[r]) ELSE job[r]]
    BY DEF ReleaseTx
  <2>3. ResolveOpen(job[r]) \in Jobs
    BY <2>1, JobOperators DEF JobReasons
  <2>. QED BY <2>1, <2>2, <2>3
<1>. QED BY <1>1, <1>2, <1>3, <1>4, <1>5, <1>6, <1>7 DEF RowTypes

\* The guards of Settle do the same for the conversion.
LEMMA SettleTxTypes ==
    ASSUME RowTypes, NEW r \in Requests, NEW c \in Nat, NEW reason \in JobReasons,
           SettleTx(r, c, reason)
    PROVE  RowTypes'
<1>1. UNCHANGED <<bind, att, leases, wstate, cur, exec, cancelled>>
  BY DEF SettleTx
<1>2. /\ status' \in [Requests -> Statuses] /\ resv' \in [Requests -> ReservationStates]
      /\ quiet' \in [Requests -> BOOLEAN] /\ charge' \in [Requests -> Nat \cup {-1}]
  BY DEF RowTypes, SettleTx, Statuses, Terminal, ReservationStates
<1>3. reserved' \in [Windows -> Nat]
  BY ReservedWithoutType DEF SettleTx, SettleCommits
<1>4. used' \in [Windows -> Nat] /\ over' \in [Windows -> Nat]
  <2>1. used \in [Windows -> Nat] /\ over \in [Windows -> Nat]
    BY DEF RowTypes
  <2>2. /\ used' = [w \in Windows |-> IF w \in Bound(r) THEN used[w] + c ELSE used[w]]
        /\ over' = [w \in Windows |->
                      IF w \in Bound(r) /\ c > Hold[r] THEN over[w] + (c - Hold[r]) ELSE over[w]]
    BY DEF SettleTx, UsedWith
  <2>. QED BY <2>1, <2>2, AmountsNat
<1>5. keyUsed' \in Nat
  <2>1. keyUsed \in Nat
    BY DEF RowTypes
  <2>2. keyUsed' = keyUsed - Hold[r] + c /\ keyUsed' >= 0
    BY DEF SettleTx, SettleCommits, KeyCharged
  <2>. QED BY <2>1, <2>2, AmountsNat
<1>6. job' \in [Requests -> Jobs]
  <2>1. job \in [Requests -> Jobs]
    BY DEF RowTypes
  <2>2. job' = [job EXCEPT ![r] = IF reason = "none" THEN job[r] ELSE Enqueue(job[r], reason)]
    BY DEF SettleTx
  <2>3. Enqueue(job[r], reason) \in Jobs
    BY <2>1, JobOperators
  <2>. QED BY <2>1, <2>2, <2>3
<1>. QED BY <1>1, <1>2, <1>3, <1>4, <1>5, <1>6 DEF RowTypes

\* Parking keeps the rows typed.
LEMMA ParkTxTypes ==
    ASSUME RowTypes, NEW r \in Requests, ParkTx(r)
    PROVE  RowTypes'
<1>1. UNCHANGED <<resv, bind, charge, att, leases, wstate, used, reserved, keyUsed, cur, exec, cancelled, over>>
  BY DEF ParkTx, quotaVars, history
<1>2. status' \in [Requests -> Statuses] /\ quiet' \in [Requests -> BOOLEAN]
  BY ZenonT(60) DEF RowTypes, ParkTx, Statuses
<1>3. job' \in [Requests -> Jobs]
  <2>1. job \in [Requests -> Jobs]
    BY DEF RowTypes
  <2>2. job' = [job EXCEPT ![r] = Enqueue(job[r], "unknown_usage")] \/ job' = job
    BY DEF ParkTx
  <2>3. Enqueue(job[r], "unknown_usage") \in Jobs
    BY <2>1, JobOperators DEF JobReasons
  <2>. QED BY <2>1, <2>2, <2>3
<1>. QED BY <1>1, <1>2, <1>3 DEF RowTypes

\* A transaction that did not commit changes no row.
LEMMA NoTxTypes ==
    ASSUME RowTypes, NoTx PROVE RowTypes'
  BY DEF RowTypes, NoTx, requestVars, quotaVars, history
\* Best-effort writes keep the rows they touch typed.
LEMMA BestEffortTypes ==
    ASSUME RowTypes, NEW r \in Requests
    PROVE  /\ \A st \in AttemptStates : FinishAttempt(r, st) => att' \in [Requests -> [Attempts -> AttemptStates]]
           /\ \A sc \in SUBSET {"account", "upstream"} :
                  DropLeases(r, sc) => leases' \in [Requests -> SUBSET {"account", "upstream"}]
           /\ \A st \in Statuses : MarkStatus(r, st) =>
                  status' \in [Requests -> Statuses] /\ quiet' \in [Requests -> BOOLEAN]
<1>1. ASSUME NEW st \in AttemptStates, FinishAttempt(r, st)
      PROVE  att' \in [Requests -> [Attempts -> AttemptStates]]
  <2>1. att \in [Requests -> [Attempts -> AttemptStates]]
    BY DEF RowTypes
  <2>2. [att[r] EXCEPT ![tries[r]] = st] \in [Attempts -> AttemptStates]
    BY Zenon, <2>1
  <2>3. att' = [att EXCEPT ![r] = [att[r] EXCEPT ![tries[r]] = st]] \/ att' = att
    BY <1>1 DEF FinishAttempt
  <2>. QED BY <2>1, <2>2, <2>3
<1>2. ASSUME NEW sc \in SUBSET {"account", "upstream"}, DropLeases(r, sc)
      PROVE  leases' \in [Requests -> SUBSET {"account", "upstream"}]
  <2>1. leases \in [Requests -> SUBSET {"account", "upstream"}]
    BY DEF RowTypes
  <2>2. PICK kept : leases' = [leases EXCEPT ![r] = leases[r] \ (sc \ kept)]
    BY Zenon, <1>2 DEF DropLeases
  <2>. QED BY <2>1, <2>2
<1>3. ASSUME NEW st \in Statuses, MarkStatus(r, st)
      PROVE  status' \in [Requests -> Statuses] /\ quiet' \in [Requests -> BOOLEAN]
  BY ZenonT(60), <1>3 DEF RowTypes, MarkStatus
<1>. QED BY <1>1, <1>2, <1>3

\* Gateway steps keep the rows typed.
LEMMA GatewayRowTypes ==
    ASSUME TInv, NEW r \in Requests, GatewayStep(r)
    PROVE  RowTypes'
<1>. RowTypes /\ ProcessTypes /\ OnAttempt
  BY DEF TInv, TypeOK
<1>. "zero" \in AttemptStates /\ "served" \in AttemptStates
  BY DEF AttemptStates
<1>. /\ "dispatching" \in Statuses /\ "streaming" \in Statuses /\ "non_streaming" \in Statuses
  BY DEF Statuses, OpenStatuses
<1>1. CASE Admit(r)
  BY <1>1, AdmitTxTypes, NoTxTypes DEF Admit, Committed
<1>2. CASE AdmitRejected(r) \/ NoCandidate(r) \/ SkipCandidate(r) \/ SettleConflicts(r) \/ SettleFails(r)
  <2>1. NoTx
    BY <1>2 DEF AdmitRejected, NoCandidate, SkipCandidate, SettleConflicts, SettleFails, NoTx,
                requestVars, quotaVars, history
  <2>. QED BY <2>1, NoTxTypes
<1>3. CASE PersistAttempt(r)
  <2>1. CASE NoTx
    BY <2>1, NoTxTypes
  <2>2. CASE /\ att' = [att EXCEPT ![r][tries[r] + 1] = "dispatching"]
             /\ leases' = [leases EXCEPT ![r] = @ \cup {"upstream"}]
             /\ quiet' = [quiet EXCEPT ![r] = FALSE]
             /\ UNCHANGED <<status, resv, bind, charge, job, quotaVars, history>>
    BY Zenon, <2>2 DEF RowTypes, AttemptStates, quotaVars, history
  <2>. QED BY <1>3, <2>1, <2>2 DEF PersistAttempt, Committed
<1>4. CASE PreDispatchFails(r)
  <2>1. /\ att' \in [Requests -> [Attempts -> AttemptStates]]
        /\ leases' \in [Requests -> SUBSET {"account", "upstream"}]
    BY <1>4, BestEffortTypes DEF PreDispatchFails
  <2>2. status' \in [Requests -> Statuses] /\ quiet' \in [Requests -> BOOLEAN]
    BY <1>4, BestEffortTypes DEF PreDispatchFails, RowTypes
  <2>. QED BY <1>4, <2>1, <2>2 DEF PreDispatchFails, RowTypes, quotaVars, history
<1>5. CASE MarkDispatching(r)
  BY <1>5 DEF MarkDispatching, RowTypes, quotaVars, history
<1>6. CASE DispatchRejected(r) \/ DispatchUnknown(r)
  <2>1. /\ att' \in [Requests -> [Attempts -> AttemptStates]]
        /\ leases' \in [Requests -> SUBSET {"account", "upstream"}]
    BY <1>6, BestEffortTypes DEF DispatchRejected, DispatchUnknown
  <2>. QED BY Zenon, <1>6, <2>1 DEF DispatchRejected, DispatchUnknown, RowTypes, quotaVars, history
<1>7. CASE DispatchCancelled(r)
  <2>1. /\ att' \in [Requests -> [Attempts -> AttemptStates]]
        /\ leases' \in [Requests -> SUBSET {"account", "upstream"}]
    BY SMTT(30), Z3T(30), <1>7, BestEffortTypes DEF DispatchCancelled
  <2>. QED BY Zenon, <1>7, <2>1 DEF DispatchCancelled, RowTypes, quotaVars
<1>8. CASE DispatchCompleted(r)
  <2>1. /\ att' \in [Requests -> [Attempts -> AttemptStates]]
        /\ leases' \in [Requests -> SUBSET {"account", "upstream"}]
        /\ status' \in [Requests -> Statuses] /\ quiet' \in [Requests -> BOOLEAN]
    BY SMTT(30), Z3T(30), <1>8, BestEffortTypes DEF DispatchCompleted
  <2>. QED BY SMTT(30), Z3T(30), <1>8, <2>1 DEF DispatchCompleted, RowTypes, quotaVars, history
<1>9. CASE StreamOpens(r)
  <2>1. status' \in [Requests -> Statuses] /\ quiet' \in [Requests -> BOOLEAN]
    BY <1>9, BestEffortTypes DEF StreamOpens
  <2>. QED BY SMTT(30), Z3T(30), <1>9, <2>1 DEF StreamOpens, RowTypes, quotaVars, history
<1>10. CASE StreamEnds(r)
  <2>1. att' \in [Requests -> [Attempts -> AttemptStates]]
    BY <1>10, BestEffortTypes DEF StreamEnds
  <2>. QED BY <1>10, <2>1 DEF StreamEnds, RowTypes, quotaVars, history
<1>11. CASE Settle(r)
  <2>1. PICK c \in Charges : SettleTx(r, c, OverageReason(r, c))
    BY <1>11 DEF Settle
  <2>2. c \in Nat /\ OverageReason(r, c) \in JobReasons
    BY AmountsNat DEF OverageReason, JobReasons
  <2>. QED BY <2>1, <2>2, SettleTxTypes
<1>12. CASE Park(r) \/ HoldForReconciliation(r)
  BY <1>12, ParkTxTypes, NoTxTypes DEF Park, HoldForReconciliation, Committed
<1>13. CASE Release(r)
  BY Zenon, <1>13, ReleaseTxTypes, NoTxTypes DEF Release
<1>14. CASE EndLeases(r)
  <2>1. leases' \in [Requests -> SUBSET {"account", "upstream"}]
    BY <1>14, BestEffortTypes DEF EndLeases
  <2>. QED BY <1>14, <2>1 DEF EndLeases, RowTypes, quotaVars, history
<1>. QED BY <1>1, <1>2, <1>3, <1>4, <1>5, <1>6, <1>7, <1>8, <1>9, <1>10, <1>11, <1>12, <1>13, <1>14
        DEF GatewayStep

\* The gateway touches neither the account's status nor the workers.
LEMMA GatewayKeepsPicks ==
    ASSUME NEW r \in Requests, GatewayStep(r)
    PROVE  UNCHANGED <<active, pick>>
<1>1. CASE Admit(r) \/ AdmitRejected(r) \/ NoCandidate(r) \/ SkipCandidate(r) \/ PersistAttempt(r)
  BY ZenonT(60), <1>1 DEF Admit, AdmitRejected, NoCandidate, SkipCandidate, PersistAttempt
<1>2. CASE \/ PreDispatchFails(r) \/ MarkDispatching(r) \/ DispatchRejected(r) \/ DispatchUnknown(r)
           \/ DispatchCancelled(r) \/ DispatchCompleted(r) \/ StreamOpens(r) \/ StreamEnds(r)
  BY <1>2 DEF PreDispatchFails, MarkDispatching, DispatchRejected, DispatchUnknown,
              DispatchCancelled, DispatchCompleted, StreamOpens, StreamEnds
<1>3. CASE \/ Settle(r) \/ SettleConflicts(r) \/ SettleFails(r) \/ Park(r) \/ HoldForReconciliation(r)
           \/ Release(r) \/ EndLeases(r)
  BY Zenon, <1>3 DEF Settle, SettleConflicts, SettleFails, Park, HoldForReconciliation, Release, EndLeases
<1>. QED BY <1>1, <1>2, <1>3 DEF GatewayStep

\* Where the gateway call of r goes, and which attempt it is on.
LEMMA GatewayProcessTypes ==
    ASSUME TInv, NEW r \in Requests, GatewayStep(r)
    PROVE  ProcessTypes' /\ OnAttempt'
<1>. pc \in [Requests -> GatewaySteps] /\ tries \in [Requests -> 0..MaxAttempts] /\ OnAttempt
  BY DEF TInv, TypeOK, ProcessTypes
<1>1. UNCHANGED <<active, pick>>
  BY SMTT(30), Z3T(30), GatewayKeepsPicks
<1>2. \/ /\ UNCHANGED tries
         /\ \/ UNCHANGED pc
            \/ \E step \in GatewaySteps \ {"checks", "inflight", "streaming"} : Goto(r, step)
            \/ pc[r] = "checks" /\ Goto(r, "inflight")
            \/ pc[r] = "inflight" /\ Goto(r, "streaming")
      \/ /\ tries[r] < MaxAttempts
         /\ tries' = [tries EXCEPT ![r] = @ + 1]
         /\ \/ UNCHANGED pc /\ pc[r] = "route"
            \/ Goto(r, "checks")
            \/ Goto(r, "release")
  <2>1. CASE SkipCandidate(r)
    BY <2>1 DEF SkipCandidate
  <2>2. CASE PersistAttempt(r)
    BY <2>2 DEF PersistAttempt, Committed
  <2>3. CASE Admit(r)
    BY <2>3 DEF Admit, Committed, GatewaySteps
  <2>4. CASE AdmitRejected(r) \/ NoCandidate(r)
    BY SMTT(30), Z3T(30), <2>4 DEF AdmitRejected, NoCandidate, GatewaySteps
  <2>5. CASE PreDispatchFails(r) \/ MarkDispatching(r) \/ DispatchRejected(r)
    BY SMTT(30), Z3T(30), <2>5 DEF PreDispatchFails, MarkDispatching, DispatchRejected, GatewaySteps
  <2>6. CASE DispatchUnknown(r) \/ DispatchCancelled(r) \/ DispatchCompleted(r) \/ StreamOpens(r) \/ StreamEnds(r)
    BY <2>6 DEF DispatchUnknown, DispatchCancelled, DispatchCompleted, StreamOpens, StreamEnds, GatewaySteps
  <2>7. CASE Settle(r) \/ SettleConflicts(r) \/ SettleFails(r)
    BY <2>7 DEF Settle, SettleConflicts, SettleFails, GatewaySteps
  <2>8. CASE Park(r) \/ HoldForReconciliation(r) \/ Release(r) \/ EndLeases(r)
    BY Zenon, <2>8 DEF Park, HoldForReconciliation, Release, EndLeases, Committed, GatewaySteps
  <2>. QED BY SMTT(30), Z3T(30), <2>1, <2>2, <2>3, <2>4, <2>5, <2>6, <2>7, <2>8 DEF GatewayStep
<1>3. tries' \in [Requests -> 0..MaxAttempts] /\ pc' \in [Requests -> GatewaySteps]
  BY <1>2, BillingAssumption DEF Goto, GatewaySteps
<1>4. OnAttempt'
  BY <1>2, BillingAssumption DEF OnAttempt, Goto, Attempts, GatewaySteps
<1>. QED BY <1>1, <1>3, <1>4 DEF ProcessTypes, TInv, TypeOK

\* The transaction of a worker is about the request it picked.
LEMMA PickedRequest ==
    ASSUME ProcessTypes, NEW w \in Workers, pick[w] # Idle
    PROVE  pick[w].req \in Requests /\ pick[w].via \in {"sweep", "job"}
           /\ pick[w] \in [req : Requests, via : {"sweep", "job"},
                           cls : {"unread", "not_sent", "unknown_charge"}]
  BY DEF ProcessTypes, Picks

\* Recovery steps keep the types.
LEMMA WorkerTypes ==
    ASSUME TInv, NEW w \in Workers, Recover(w)
    PROVE  TInv'
<1>. RowTypes /\ ProcessTypes /\ OnAttempt /\ pick \in [Workers -> Picks]
  BY DEF TInv, TypeOK, ProcessTypes
<1>1. UNCHANGED <<active, pc, tries>>
  BY DEF Recover, Sweep, TakeJob, LoadEvidence, ReleaseProvenZero, SettleUnknownCharge, WorkerSkips
<1>2. pick' \in [Workers -> Picks]
  <2>1. ASSUME NEW r \in Requests, Sweep(w, r) \/ TakeJob(w, r) PROVE pick' \in [Workers -> Picks]
    BY <2>1 DEF Sweep, TakeJob, Picks
  <2>2. CASE LoadEvidence(w)
    <3>1. pick' = [pick EXCEPT ![w] = Idle]
          \/ pick' = [pick EXCEPT ![w] = [pick[w] EXCEPT !.cls = Classify(pick[w].req)]]
      BY Zenon, <2>2 DEF LoadEvidence
    <3>2. Classify(pick[w].req) \in {"unread", "not_sent", "unknown_charge"}
      BY DEF Classify
    <3>3. [pick[w] EXCEPT !.cls = Classify(pick[w].req)]
              \in [req : Requests, via : {"sweep", "job"}, cls : {"unread", "not_sent", "unknown_charge"}]
      BY <2>2, <3>2, PickedRequest DEF LoadEvidence
    <3>. QED BY <3>1, <3>3 DEF Picks
  <2>3. CASE ReleaseProvenZero(w) \/ SettleUnknownCharge(w) \/ WorkerSkips(w)
    BY <2>3 DEF ReleaseProvenZero, SettleUnknownCharge, WorkerSkips, Picks
  <2>. QED BY SMTT(30), Z3T(30), <2>1, <2>2, <2>3 DEF Recover
<1>3. RowTypes'
  <2>1. CASE (\E r \in Requests : Sweep(w, r) \/ TakeJob(w, r)) \/ LoadEvidence(w) \/ WorkerSkips(w)
    <3>1. NoTx
      BY <2>1 DEF Sweep, TakeJob, LoadEvidence, WorkerSkips, NoTx
    <3>. QED BY <3>1, NoTxTypes
  <2>2. CASE ReleaseProvenZero(w)
    <3>1. pick[w] # Idle
      BY SMTT(30), Z3T(30), <2>2 DEF ReleaseProvenZero, Idle
    <3>. QED BY Zenon, <2>2, <3>1, PickedRequest, ReleaseTxTypes DEF ReleaseProvenZero
  <2>3. CASE SettleUnknownCharge(w)
    <3>1. pick[w] # Idle
      BY <2>3 DEF SettleUnknownCharge, Idle
    <3>2. pick[w].req \in Requests /\ Hold[pick[w].req] \in Nat /\ "crash_recovery" \in JobReasons
      BY <3>1, PickedRequest, AmountsNat DEF JobReasons
    <3>. QED BY <2>3, <3>2, SettleTxTypes DEF SettleUnknownCharge
  <2>. QED BY <2>1, <2>2, <2>3 DEF Recover
<1>. QED BY <1>1, <1>2, <1>3 DEF TInv, TypeOK, ProcessTypes, OnAttempt

\* Time, crashes and the upstream keep the types.
LEMMA EnvironmentTypes ==
    ASSUME TInv, Environment
    PROVE  TInv'
<1>. RowTypes /\ ProcessTypes /\ OnAttempt
  BY SMTT(30), Z3T(30) DEF TInv, TypeOK
<1>1. ASSUME NEW r \in Requests, UpstreamExecutes(r) PROVE TInv'
  <2>1. exec' \in [Requests -> SUBSET Attempts]
    <3>1. exec \in [Requests -> SUBSET Attempts] /\ tries[r] \in Attempts
      BY <1>1 DEF RowTypes, OnAttempt, UpstreamExecutes
    <3>2. exec' = [exec EXCEPT ![r] = exec[r] \cup {tries[r]}]
      BY SMTT(30), Z3T(30), <1>1 DEF UpstreamExecutes
    <3>. QED BY ZenonT(60), <3>1, <3>2
  <2>2. UNCHANGED <<requestVars, quotaVars, active, pc, tries, pick, cancelled, over>>
    BY <1>1 DEF UpstreamExecutes
  <2>. QED BY <2>1, <2>2 DEF TInv, TypeOK, RowTypes, ProcessTypes, OnAttempt, requestVars, quotaVars
<1>2. ASSUME NEW r \in Requests, Crash(r) PROVE TInv'
  <2>1. NoTx /\ UNCHANGED <<active, tries, pick>> /\ Goto(r, "dead")
    BY ZenonT(60), <1>2 DEF Crash, NoTx
  <2>. QED BY <2>1, NoTxTypes DEF TInv, TypeOK, ProcessTypes, OnAttempt, Goto, GatewaySteps
<1>3. ASSUME NEW r \in Requests, GraceElapses(r) \/ LeaseExpires(r) PROVE TInv'
  <2>1. quiet' \in [Requests -> BOOLEAN] /\ leases' \in [Requests -> SUBSET {"account", "upstream"}]
    BY Zenon, <1>3 DEF GraceElapses, LeaseExpires, RowTypes
  <2>2. UNCHANGED <<status, resv, bind, charge, att, job, quotaVars, active, pc, tries, pick, history>>
    BY ZenonT(60), <1>3 DEF GraceElapses, LeaseExpires
  <2>. QED BY <2>1, <2>2 DEF TInv, TypeOK, RowTypes, ProcessTypes, OnAttempt, quotaVars, history
<1>4. ASSUME NEW k \in Kinds, WindowEnds(k) PROVE TInv'
  <2>1. cur' \in [Kinds -> 0..MaxRows]
    BY SMTT(30), Z3T(30), <1>4, BillingAssumption DEF WindowEnds, RowTypes
  <2>. QED BY SMTT(30), Z3T(30), <1>4, <2>1 DEF WindowEnds, TInv, TypeOK, RowTypes, ProcessTypes, OnAttempt, requestVars, history
<1>5. CASE SetAccountStatus
  <2>1. active' \in BOOLEAN
    BY SMTT(30), Z3T(30), <1>5 DEF SetAccountStatus, ProcessTypes
  <2>. QED BY <1>5, <2>1 DEF SetAccountStatus, TInv, TypeOK, RowTypes, ProcessTypes, OnAttempt,
              requestVars, quotaVars, history
<1>. QED BY <1>1, <1>2, <1>3, <1>4, <1>5 DEF Environment

\* Escalation keeps the types.
LEMMA EscalateTypes ==
    ASSUME TInv, NEW r \in Requests, Escalate(r)
    PROVE  TInv'
<1>1. job' \in [Requests -> Jobs]
  <2>1. job \in [Requests -> Jobs]
    BY DEF TInv, TypeOK, RowTypes
  <2>2. job' = [job EXCEPT ![r] = Escalated(job[r])]
    BY DEF Escalate
  <2>3. Escalated(job[r]) \in Jobs
    BY <2>1, JobOperators DEF JobReasons
  <2>. QED BY <2>1, <2>2, <2>3
<1>. QED BY <1>1 DEF Escalate, TInv, TypeOK, RowTypes, ProcessTypes, OnAttempt, quotaVars, history

\* The typed invariant holds in every reachable state.
LEMMA TypesHold == Spec => []TInv
<1>1. Init => TInv
  BY BillingAssumption DEF Init, TInv, TypeOK, RowTypes, ProcessTypes, OnAttempt, Picks, Rows, Windows,
        Attempts, Terminal, OpenStatuses, Statuses, ReservationStates, AttemptStates, GatewaySteps,
        Jobs, JobStatuses, JobReasons, NoJob
<1>2. TInv /\ [Next]_vars => TInv'
  <2>. SUFFICES ASSUME TInv, [Next]_vars PROVE TInv'
    OBVIOUS
  <2>1. ASSUME NEW r \in Requests, GatewayStep(r) PROVE TInv'
    BY SMTT(30), Z3T(30), <2>1, GatewayRowTypes, GatewayProcessTypes DEF TInv, TypeOK
  <2>2. CASE UNCHANGED vars
    BY <2>2 DEF vars, TInv, TypeOK, RowTypes, ProcessTypes, OnAttempt, requestVars, quotaVars, history
  <2>. QED BY <2>1, <2>2, WorkerTypes, EnvironmentTypes, EscalateTypes DEF Next
<1>. QED BY <1>1, <1>2, PTL DEF Spec

\* Every reachable state is well typed: no window or key counter is ever
\* negative, because Release and Settle check before they subtract.
THEOREM TypeCorrect == Spec => []TypeOK
<1>1. TInv => TypeOK
  BY DEF TInv
<1>. QED BY <1>1, TypesHold, PTL

-----------------------------------------------------------------------------
(* Holds, charges and windows *)

moneyVars == <<resv, bind, charge, wstate, used, reserved, keyUsed, over>>

\* Only the three transactions of the store move money, and an admission is
\* the first step of its call.
MoneyStep ==
    \/ \E r \in Requests, b \in [Kinds -> Rows] :
          pc[r] = "new" /\ pc'[r] # "new" /\ Admissible(r, b) /\ AdmitTx(r, b)
    \/ \E r \in Requests, f \in BOOLEAN : ReleaseTx(r, f)
    \/ \E r \in Requests, c \in Nat, reason \in JobReasons : SettleTx(r, c, reason)
    \/ UNCHANGED moneyVars

\* A transaction that did not commit moves no money.
LEMMA NoTxMoney == NoTx => UNCHANGED moneyVars
  BY DEF NoTx, moneyVars, requestVars, quotaVars, history

\* Gateway steps move money through the store only.
LEMMA GatewayMoney ==
    ASSUME TInv, NEW r \in Requests, GatewayStep(r)
    PROVE  MoneyStep
<1>. pc \in [Requests -> GatewaySteps]
  BY DEF TInv, TypeOK, ProcessTypes
<1>1. CASE Admit(r)
  <2>1. PICK b \in [Kinds -> Rows] : Admissible(r, b) /\ Committed(r, AdmitTx(r, b), "route", "done")
    BY SMTT(30), Z3T(30), <1>1 DEF Admit
  <2>2. pc[r] = "new" /\ pc'[r] # "new"
    BY <1>1, <2>1 DEF Admit, Committed, Goto
  <2>3. AdmitTx(r, b) \/ NoTx
    BY <2>1 DEF Committed
  <2>. QED BY <2>1, <2>2, <2>3, NoTxMoney DEF MoneyStep
<1>2. CASE Settle(r)
  <2>1. PICK c \in Charges : SettleTx(r, c, OverageReason(r, c))
    BY <1>2 DEF Settle
  <2>2. c \in Nat /\ OverageReason(r, c) \in JobReasons
    BY AmountsNat DEF OverageReason, JobReasons
  <2>. QED BY <2>1, <2>2 DEF MoneyStep
<1>3. CASE Release(r)
  BY Zenon, <1>3, NoTxMoney DEF Release, MoneyStep
<1>4. CASE Park(r) \/ HoldForReconciliation(r)
  <2>1. ParkTx(r) \/ NoTx
    BY SMTT(30), Z3T(30), <1>4 DEF Park, HoldForReconciliation, Committed
  <2>2. ParkTx(r) => UNCHANGED moneyVars
    BY DEF ParkTx, moneyVars, quotaVars, history
  <2>. QED BY <2>1, <2>2, NoTxMoney DEF MoneyStep
<1>5. CASE PersistAttempt(r)
  <2>1. UNCHANGED moneyVars
    BY <1>5 DEF PersistAttempt, Committed, NoTx, moneyVars, requestVars, quotaVars, history
  <2>. QED BY SMTT(30), Z3T(30), <2>1 DEF MoneyStep
<1>6. CASE AdmitRejected(r) \/ NoCandidate(r) \/ SkipCandidate(r) \/ SettleConflicts(r) \/ SettleFails(r)
  <2>1. UNCHANGED moneyVars
    BY ZenonT(60), <1>6 DEF AdmitRejected, NoCandidate, SkipCandidate, SettleConflicts, SettleFails,
                moneyVars, requestVars, quotaVars, history
  <2>. QED BY <2>1 DEF MoneyStep
<1>7. CASE \/ PreDispatchFails(r) \/ MarkDispatching(r) \/ DispatchRejected(r) \/ DispatchUnknown(r)
           \/ DispatchCancelled(r) \/ DispatchCompleted(r) \/ StreamOpens(r) \/ StreamEnds(r) \/ EndLeases(r)
  <2>1. UNCHANGED moneyVars
    BY Zenon, <1>7 DEF PreDispatchFails, MarkDispatching, DispatchRejected, DispatchUnknown, DispatchCancelled,
                DispatchCompleted, StreamOpens, StreamEnds, EndLeases, moneyVars, quotaVars, history
  <2>. QED BY <2>1 DEF MoneyStep
<1>. QED BY <1>1, <1>2, <1>3, <1>4, <1>5, <1>6, <1>7 DEF GatewayStep

\* So do the recovery workers.
LEMMA WorkerMoney ==
    ASSUME TInv, NEW w \in Workers, Recover(w)
    PROVE  MoneyStep
<1>. ProcessTypes
  BY SMTT(30), Z3T(30) DEF TInv, TypeOK
<1>1. CASE (\E r \in Requests : Sweep(w, r) \/ TakeJob(w, r)) \/ LoadEvidence(w) \/ WorkerSkips(w)
  <2>1. UNCHANGED moneyVars
    BY Zenon, <1>1 DEF Sweep, TakeJob, LoadEvidence, WorkerSkips, moneyVars, requestVars, quotaVars, history
  <2>. QED BY <2>1 DEF MoneyStep
<1>2. CASE ReleaseProvenZero(w)
  <2>1. pick[w] # Idle
    BY <1>2 DEF ReleaseProvenZero, Idle
  <2>2. pick[w].req \in Requests /\ (pick[w].via = "job") \in BOOLEAN
    BY <2>1, PickedRequest
  <2>. QED BY ZenonT(60), <1>2, <2>2 DEF ReleaseProvenZero, MoneyStep
<1>3. CASE SettleUnknownCharge(w)
  <2>1. pick[w] # Idle
    BY <1>3 DEF SettleUnknownCharge, Idle
  <2>2. pick[w].req \in Requests /\ Hold[pick[w].req] \in Nat /\ "crash_recovery" \in JobReasons
    BY <2>1, PickedRequest, AmountsNat DEF JobReasons
  <2>. QED BY Zenon, <1>3, <2>2 DEF SettleUnknownCharge, MoneyStep
<1>. QED BY <1>1, <1>2, <1>3 DEF Recover

\* Every step of the system is one of the money steps.
LEMMA OnlyMoneySteps ==
    ASSUME TInv, [Next]_vars
    PROVE  MoneyStep
<1>1. CASE Environment \/ UNCHANGED vars \/ \E r \in Requests : Escalate(r)
  <2>1. UNCHANGED moneyVars
    BY ZenonT(60), <1>1 DEF Environment, UpstreamExecutes, Crash, GraceElapses, LeaseExpires, WindowEnds, SetAccountStatus,
                Escalate, moneyVars, vars, requestVars, quotaVars, history
  <2>. QED BY ZenonT(60), <2>1 DEF MoneyStep
<1>. QED BY <1>1, GatewayMoney, WorkerMoney DEF Next

\* A call that has passed its first step never returns to it.
LEMMA NewOnlyOnce ==
    ASSUME TInv, [Next]_vars, NEW r \in Requests, pc'[r] = "new"
    PROVE  pc[r] = "new"
<1>. pc \in [Requests -> GatewaySteps]
  BY DEF TInv, TypeOK, ProcessTypes
<1>1. ASSUME NEW s \in Requests, GatewayStep(s) PROVE pc[r] = "new"
  <2>1. UNCHANGED pc \/ \E step \in GatewaySteps \ {"new"} : Goto(s, step)
    <3>1. CASE Admit(s) \/ AdmitRejected(s) \/ NoCandidate(s) \/ SkipCandidate(s) \/ PersistAttempt(s)
      BY Zenon, <3>1 DEF Admit, AdmitRejected, NoCandidate, SkipCandidate, PersistAttempt, Committed, GatewaySteps
    <3>2. CASE PreDispatchFails(s) \/ MarkDispatching(s) \/ DispatchRejected(s)
      BY ZenonT(30), <3>2 DEF PreDispatchFails, MarkDispatching, DispatchRejected, GatewaySteps
    <3>3. CASE DispatchUnknown(s) \/ DispatchCancelled(s) \/ DispatchCompleted(s) \/ StreamOpens(s) \/ StreamEnds(s)
      BY Zenon, <3>3 DEF DispatchUnknown, DispatchCancelled, DispatchCompleted, StreamOpens, StreamEnds, GatewaySteps
    <3>4. CASE Settle(s) \/ SettleConflicts(s) \/ SettleFails(s)
      BY <3>4 DEF Settle, SettleConflicts, SettleFails, GatewaySteps
    <3>5. CASE Park(s) \/ HoldForReconciliation(s) \/ Release(s) \/ EndLeases(s)
      BY Zenon, <3>5 DEF Park, HoldForReconciliation, Release, EndLeases, Committed, GatewaySteps
    <3>. QED BY <1>1, <3>1, <3>2, <3>3, <3>4, <3>5 DEF GatewayStep
  <2>. QED BY SMTT(30), Z3T(30), <2>1 DEF Goto
<1>2. ASSUME NEW s \in Requests, Crash(s) PROVE pc[r] = "new"
  BY <1>2 DEF Crash, Goto
<1>3. ASSUME UNCHANGED pc PROVE pc[r] = "new"
  BY <1>3
<1>4. ASSUME NEW w \in Workers, Recover(w) PROVE pc[r] = "new"
  BY SMTT(30), Z3T(30), <1>3, <1>4 DEF Recover, Sweep, TakeJob, LoadEvidence, ReleaseProvenZero, SettleUnknownCharge, WorkerSkips
<1>5. CASE Environment /\ ~\E s \in Requests : Crash(s)
  BY <1>3, <1>5 DEF Environment, UpstreamExecutes, GraceElapses, LeaseExpires, WindowEnds, SetAccountStatus
<1>6. CASE UNCHANGED vars \/ \E s \in Requests : Escalate(s)
  BY SMTT(30), Z3T(30), <1>3, <1>6 DEF vars, Escalate
<1>. QED BY <1>1, <1>2, <1>4, <1>5, <1>6 DEF Next, Environment

\* The inductive invariant of the books: an unadmitted request has no hold, an
\* admitted one is bound to a window row of every kind.
MInv ==
    /\ \A r \in Requests : pc[r] = "new" => resv[r] = "none"
    /\ \A r \in Requests : resv[r] # "none" => bind[r] \in [Kinds -> Rows]
    /\ HeldWindowsActive
    /\ WithinLimit
    /\ ChargedIffConverted

\* The windows a request is bound to are window rows.
LEMMA BoundWindows ==
    ASSUME NEW r \in Requests, bind[r] \in [Kinds -> Rows], NEW w
    PROVE  w \in Bound(r) <=> w \in Windows /\ w[2] = bind[r][w[1]]
  BY DEF Bound, Windows

\* Reserve checks every window before it counts the hold in.
LEMMA AdmitKeepsBooks ==
    ASSUME TInv, MInv, NEW r \in Requests, NEW b \in [Kinds -> Rows],
           pc[r] = "new", pc'[r] # "new", Admissible(r, b), AdmitTx(r, b),
           \A s \in Requests : pc'[s] = "new" => pc[s] = "new"
    PROVE  MInv'
<1>0. /\ resv \in [Requests -> ReservationStates] /\ bind \in [Requests -> [Kinds -> 0..MaxRows]]
      /\ charge \in [Requests -> Nat \cup {-1}]
      /\ wstate \in [Windows -> {"unused", "active", "voided"}]
      /\ used \in [Windows -> Nat] /\ reserved \in [Windows -> Nat] /\ over \in [Windows -> Nat]
  BY Zenon DEF TInv, TypeOK, RowTypes
<1>1. /\ resv' = [resv EXCEPT ![r] = "held"] /\ bind' = [bind EXCEPT ![r] = b]
      /\ wstate' = [w \in Windows |-> IF w[2] = b[w[1]] THEN "active" ELSE wstate[w]]
      /\ reserved' = [w \in Windows |-> IF w[2] = b[w[1]] THEN reserved[w] + Hold[r] ELSE reserved[w]]
      /\ UNCHANGED <<charge, used, over>>
  BY Zenon DEF AdmitTx, history
<1>2. resv[r] = "none"
  BY Zenon DEF MInv
<1>3. \A s \in Requests : pc'[s] = "new" => resv'[s] = "none"
  BY ZenonT(60), <1>0, <1>1 DEF MInv
<1>4. \A s \in Requests : resv'[s] # "none" => bind'[s] \in [Kinds -> Rows]
  BY ZenonT(60), <1>0, <1>1 DEF MInv
<1>5. HeldWindowsActive'
  <2>. SUFFICES ASSUME NEW s \in Requests, resv'[s] = "held", NEW w \in Bound(s)'
                PROVE  wstate'[w] = "active"
    BY ZenonT(60) DEF HeldWindowsActive
  <2>1. CASE s = r
    BY <1>0, <1>1, <2>1 DEF Bound, Windows
  <2>2. CASE s # r
    <3>1. resv[s] = "held" /\ w \in Bound(s) /\ bind[s] \in [Kinds -> Rows]
      BY Zenon, <1>0, <1>1, <2>2 DEF Bound, MInv
    <3>2. w \in Windows
      BY ZenonT(60), <3>1, BoundWindows
    <3>. QED BY Zenon, <1>1, <3>1, <3>2 DEF MInv, HeldWindowsActive
  <2>. QED BY <2>1, <2>2
<1>6. WithinLimit'
  <2>. SUFFICES ASSUME NEW w \in Windows
                PROVE  used'[w] + reserved'[w] <= Limit[w[1]] + over'[w]
    BY SMTT(30), Z3T(30) DEF WithinLimit
  <2>1. CASE w[2] = b[w[1]]
    <3>1. w = <<w[1], b[w[1]]>> /\ w[1] \in Kinds
      BY <2>1 DEF Windows
    <3>2. used[w] + reserved[w] + Hold[r] <= Limit[w[1]]
      BY Zenon, <3>1 DEF Admissible
    <3>3. /\ used'[w] = used[w] /\ over'[w] = over[w]
          /\ reserved'[w] = reserved[w] + Hold[r]
      BY Zenon, <1>1, <2>1
    <3>4. used[w] \in Nat /\ reserved[w] \in Nat /\ over[w] \in Nat /\ Hold[r] \in Nat /\ Limit[w[1]] \in Nat
      BY ZenonT(60), <1>0, <3>1, AmountsNat, BillingAssumption
    <3>. QED BY SMTT(30), Z3T(30), <3>2, <3>3, <3>4
  <2>2. CASE w[2] # b[w[1]]
    BY Zenon, <1>1, <2>2 DEF MInv, WithinLimit
  <2>. QED BY ZenonT(60), <2>1, <2>2
<1>7. ChargedIffConverted'
  BY <1>0, <1>1, <1>2 DEF MInv, ChargedIffConverted
<1>. QED BY Zenon, <1>3, <1>4, <1>5, <1>6, <1>7 DEF MInv

\* Release voids no window that somebody else holds.
LEMMA ReleaseKeepsBooks ==
    ASSUME TInv, MInv, NEW r \in Requests, NEW f \in BOOLEAN, ReleaseTx(r, f),
           \A s \in Requests : pc'[s] = "new" => pc[s] = "new"
    PROVE  MInv'
<1>0. /\ resv \in [Requests -> ReservationStates]
      /\ charge \in [Requests -> Nat \cup {-1}]
      /\ wstate \in [Windows -> {"unused", "active", "voided"}]
      /\ used \in [Windows -> Nat] /\ reserved \in [Windows -> Nat] /\ over \in [Windows -> Nat]
  BY ZenonT(60) DEF TInv, TypeOK, RowTypes
<1>1. /\ resv' = [resv EXCEPT ![r] = "released"]
      /\ wstate' = [w \in Windows |-> IF Voidable(r, w) THEN "voided" ELSE wstate[w]]
      /\ reserved' = ReservedWithout(r)
      /\ UNCHANGED <<bind, charge, used, over>>
      /\ resv[r] = "held"
  BY ZenonT(60) DEF ReleaseTx, ReleaseCommits, history
<1>2. \A s \in Requests : pc'[s] = "new" => resv'[s] = "none"
  BY SMTT(30), Z3T(30), <1>0, <1>1 DEF MInv
<1>3. \A s \in Requests : resv'[s] # "none" => bind'[s] \in [Kinds -> Rows]
  BY <1>0, <1>1 DEF MInv
<1>4. HeldWindowsActive'
  <2>. SUFFICES ASSUME NEW s \in Requests, resv'[s] = "held", NEW w \in Bound(s)'
                PROVE  wstate'[w] = "active"
    BY ZenonT(60) DEF HeldWindowsActive
  <2>1. s # r /\ resv[s] = "held" /\ w \in Bound(s) /\ bind[s] \in [Kinds -> Rows]
    BY ZenonT(60), <1>0, <1>1 DEF Bound, MInv
  <2>2. ~Voidable(r, w)
    BY <2>1 DEF Voidable
  <2>3. w \in Windows /\ wstate[w] = "active"
    BY ZenonT(60), <2>1, BoundWindows DEF MInv, HeldWindowsActive
  <2>. QED BY Zenon, <1>1, <2>2, <2>3
<1>5. WithinLimit'
  <2>. SUFFICES ASSUME NEW w \in Windows
                PROVE  used'[w] + reserved'[w] <= Limit[w[1]] + over'[w]
    BY Zenon DEF WithinLimit
  <2>1. used[w] + reserved[w] <= Limit[w[1]] + over[w]
    BY Zenon DEF MInv, WithinLimit
  <2>2. reserved'[w] = reserved[w] - Hold[r] \/ reserved'[w] = reserved[w]
    BY Zenon, <1>1 DEF ReservedWithout
  <2>3. w[1] \in Kinds
    BY Zenon DEF Windows
  <2>4. used[w] \in Nat /\ reserved[w] \in Nat /\ over[w] \in Nat /\ Hold[r] \in Nat /\ Limit[w[1]] \in Nat
    BY Zenon, <1>0, <2>3, AmountsNat, BillingAssumption
  <2>5. used'[w] = used[w] /\ over'[w] = over[w]
    BY Zenon, <1>1
  <2>. QED BY <2>1, <2>2, <2>4, <2>5
<1>6. ChargedIffConverted'
  BY Zenon, <1>0, <1>1 DEF MInv, ChargedIffConverted
<1>. QED BY Zenon, <1>2, <1>3, <1>4, <1>5, <1>6 DEF MInv

\* Settle turns the hold into the charge in the same windows.
LEMMA SettleKeepsBooks ==
    ASSUME TInv, MInv, NEW r \in Requests, NEW c \in Nat, NEW reason \in JobReasons, SettleTx(r, c, reason),
           \A s \in Requests : pc'[s] = "new" => pc[s] = "new"
    PROVE  MInv'
<1>0. /\ resv \in [Requests -> ReservationStates]
      /\ charge \in [Requests -> Nat \cup {-1}]
      /\ used \in [Windows -> Nat] /\ reserved \in [Windows -> Nat] /\ over \in [Windows -> Nat]
  BY Zenon DEF TInv, TypeOK, RowTypes
<1>1. /\ resv' = [resv EXCEPT ![r] = "settled"] /\ charge' = [charge EXCEPT ![r] = c]
      /\ UNCHANGED <<bind, wstate>>
      /\ resv[r] = "held"
  BY ZenonT(60) DEF SettleTx, SettleCommits
<1>2. \A s \in Requests : pc'[s] = "new" => resv'[s] = "none"
  BY SMTT(30), Z3T(30), <1>0, <1>1 DEF MInv
<1>3. \A s \in Requests : resv'[s] # "none" => bind'[s] \in [Kinds -> Rows]
  BY SMTT(30), Z3T(30), <1>0, <1>1 DEF MInv
<1>4. HeldWindowsActive'
  BY SMTT(30), Z3T(30), <1>0, <1>1 DEF MInv, HeldWindowsActive, Bound
<1>5. WithinLimit'
  <2>. SUFFICES ASSUME NEW w \in Windows
                PROVE  used'[w] + reserved'[w] <= Limit[w[1]] + over'[w]
    BY Zenon DEF WithinLimit
  <2>1. used[w] + reserved[w] <= Limit[w[1]] + over[w] /\ w[1] \in Kinds
    BY ZenonT(60) DEF MInv, WithinLimit, Windows
  <2>2. CASE w \in Bound(r)
    <3>1. /\ used'[w] = used[w] + c /\ reserved'[w] = reserved[w] - Hold[r]
          /\ over'[w] = IF c > Hold[r] THEN over[w] + (c - Hold[r]) ELSE over[w]
      BY Zenon, <2>2 DEF SettleTx, UsedWith, ReservedWithout
    <3>2. used[w] \in Nat /\ reserved[w] \in Nat /\ over[w] \in Nat /\ Hold[r] \in Nat /\ Limit[w[1]] \in Nat
      BY Zenon, <1>0, <2>1, AmountsNat, BillingAssumption
    <3>. QED BY <2>1, <3>1, <3>2
  <2>3. CASE w \notin Bound(r)
    <3>1. used'[w] = used[w] /\ reserved'[w] = reserved[w] /\ over'[w] = over[w]
      BY ZenonT(60), <2>3 DEF SettleTx, UsedWith, ReservedWithout
    <3>. QED BY Zenon, <2>1, <3>1
  <2>. QED BY <2>2, <2>3
<1>6. ChargedIffConverted'
  BY <1>0, <1>1 DEF MInv, ChargedIffConverted
<1>. QED BY Zenon, <1>2, <1>3, <1>4, <1>5, <1>6 DEF MInv

\* The books are preserved by every step.
LEMMA BooksInductive ==
    ASSUME TInv, MInv, [Next]_vars
    PROVE  MInv'
<1>1. \A s \in Requests : pc'[s] = "new" => pc[s] = "new"
  BY ZenonT(60), NewOnlyOnce
<1>2. CASE UNCHANGED moneyVars
  <2>1. HeldWindowsActive'
    BY ZenonT(60), <1>2 DEF moneyVars, MInv, HeldWindowsActive, Bound
  <2>2. WithinLimit' /\ ChargedIffConverted'
    BY <1>2 DEF moneyVars, MInv, WithinLimit, ChargedIffConverted
  <2>. QED BY ZenonT(60), <1>1, <1>2, <2>1, <2>2 DEF moneyVars, MInv
<1>. QED BY Zenon, <1>1, <1>2, OnlyMoneySteps, AdmitKeepsBooks, ReleaseKeepsBooks, SettleKeepsBooks DEF MoneyStep

\* The books are right in every reachable state.
LEMMA BooksHold == Spec => [](TInv /\ MInv)
<1>1. Init => MInv
  BY BillingAssumption DEF Init, MInv, HeldWindowsActive, WithinLimit, ChargedIffConverted, Windows
<1>2. TInv /\ MInv /\ [Next]_vars => MInv'
  BY BooksInductive
<1>. QED BY <1>1, <1>2, TypesHold, PTL DEF Spec

\* A held reservation always finds its windows active: no release voids a
\* five-hour window under another request's hold, however many requests,
\* workers and window rows there are.
THEOREM HeldWindowsStayActive == Spec => []HeldWindowsActive
<1>1. MInv => HeldWindowsActive
  BY DEF MInv
<1>. QED BY <1>1, BooksHold, PTL

\* Windows are over their limit at most by what was charged beyond the holds.
THEOREM LimitsRespected == Spec => []WithinLimit
<1>1. MInv => WithinLimit
  BY DEF MInv
<1>. QED BY <1>1, BooksHold, PTL

\* A ledger charge exists exactly for converted reservations.
THEOREM ChargesMatchHolds == Spec => []ChargedIffConverted
<1>1. MInv => ChargedIffConverted
  BY DEF MInv
<1>. QED BY <1>1, BooksHold, PTL

\* The gateway, its faults and the recovery workers implement HoldLedger:
\* every hold is closed once, by one charge or by none.
THEOREM BillingImplementsHoldLedger == Spec => HoldsCloseOnce
<1>1. Init => Ledger!Init
  BY SMTT(30), Z3T(30) DEF Init, Ledger!Init
<1>2. TInv /\ MInv /\ [Next]_vars => [Ledger!Next]_<<resv, charge>>
  <2>. SUFFICES ASSUME TInv, MInv, [Next]_vars PROVE Ledger!Next \/ UNCHANGED <<resv, charge>>
    OBVIOUS
  <2>1. ASSUME NEW r \in Requests, NEW b, pc[r] = "new", AdmitTx(r, b) PROVE Ledger!Next
    BY Zenon, <2>1 DEF AdmitTx, MInv, Ledger!Next, Ledger!Open
  <2>2. ASSUME NEW r \in Requests, NEW f, ReleaseTx(r, f) PROVE Ledger!Next
    BY Zenon, <2>2 DEF ReleaseTx, ReleaseCommits, Ledger!Next, Ledger!Return
  <2>3. ASSUME NEW r \in Requests, NEW c \in Nat, NEW reason, SettleTx(r, c, reason) PROVE Ledger!Next
    <3>1. charge \in [Requests -> Nat \cup {-1}]
      BY SMTT(30), Z3T(30) DEF TInv, TypeOK, RowTypes
    <3>2. charge' = [charge EXCEPT ![r] = c]
      BY <2>3 DEF SettleTx
    <3>3. charge'[r] = c
      BY <3>1, <3>2
    <3>4. Ledger!Convert(r)
      BY Zenon, <2>3, <3>2, <3>3 DEF SettleTx, SettleCommits, Ledger!Convert
    <3>. QED BY SMTT(30), Z3T(30), <3>4 DEF Ledger!Next
  <2>. QED BY <2>1, <2>2, <2>3, OnlyMoneySteps DEF MoneyStep, moneyVars
<1>. QED BY <1>1, <1>2, BooksHold, PTL DEF Spec, HoldsCloseOnce, Ledger!Spec

-----------------------------------------------------------------------------
(* The stored sums *)

HeldRequests == {r \in Requests : resv[r] = "held"}
ChargedRequests == {r \in Requests : charge[r] # -1}

\* Every stored sum is the sum of its rows, of ended and voided windows too,
\* and a request with a hold is not final.
SInv ==
    /\ \A w \in Windows : used[w] = Rebuilt(w)
    /\ ReservedIsHeld
    /\ KeyBudgetAgrees
    /\ \A r \in Requests : resv[r] = "held" => status[r] \notin Terminal

\* What the sums run over is finite, and its amounts are numbers.
LEMMA RowsAreFinite ==
    ASSUME RowTypes
    PROVE  /\ \A S \in SUBSET Requests : IsFiniteSet(S) /\ \A r \in S : Hold[r] \in Int /\ Hold[r] \in Nat
           /\ \A S \in SUBSET ChargedRequests : IsFiniteSet(S) /\ \A r \in S : charge[r] \in Int /\ charge[r] \in Nat
           /\ HeldRequests \in SUBSET Requests /\ ChargedRequests \in SUBSET Requests
           /\ \A w : HoldersOf(w) \in SUBSET Requests /\ ChargedTo(w) \in SUBSET ChargedRequests
<1>1. \A S \in SUBSET Requests : IsFiniteSet(S)
  BY FS_Subset, BillingAssumption
<1>2. charge \in [Requests -> Nat \cup {-1}]
  BY DEF RowTypes
<1>3. ChargedRequests \in SUBSET Requests /\ \A r \in ChargedRequests : charge[r] \in Nat
  BY <1>2 DEF ChargedRequests
<1>. QED BY <1>1, <1>3, AmountsNat DEF HeldRequests, ChargedRequests, HoldersOf, ChargedTo

\* The charge of a request enters the sum over the requests that have one.
LEMMA ChargeEnters ==
    ASSUME RowTypes, NEW S \in SUBSET ChargedRequests, NEW r \in Requests, charge[r] = -1,
           NEW c \in Nat, charge' = [charge EXCEPT ![r] = c]
    PROVE  SumFunctionOnSet(charge', S \cup {r}) = SumFunctionOnSet(charge, S) + c
<1>1. charge \in [Requests -> Nat \cup {-1}]
  BY DEF RowTypes
<1>2. r \notin S /\ charge'[r] = c
  BY <1>1 DEF ChargedRequests
<1>3. IsFiniteSet(S) /\ \A x \in S : charge[x] \in Int /\ charge'[x] = charge[x]
  BY <1>1, <1>2, RowsAreFinite DEF ChargedRequests
<1>4. charge'[r] \in Int
  BY <1>2
<1>5. SumFunctionOnSet(charge', S \cup {r}) = SumFunctionOnSet(charge, S) + charge'[r]
  <2>. DEFINE f == charge
              g == charge'
  <2>1. \A x \in S : f[x] \in Int /\ g[x] = f[x]
    BY <1>3
  <2>2. IsFiniteSet(S) /\ r \notin S /\ g[r] \in Int
    BY <1>2, <1>3, <1>4
  <2>. HIDE DEF f, g
  <2>3. SumFunctionOnSet(g, S \cup {r}) = SumFunctionOnSet(f, S) + g[r]
    BY <2>1, <2>2, SumGrow
  <2>. QED BY <2>3 DEF f, g
<1>. QED BY <1>2, <1>5

\* A hold enters the sum over the requests that have one.
LEMMA HoldEnters ==
    ASSUME NEW S \in SUBSET Requests, NEW r \in Requests, r \notin S
    PROVE  SumFunctionOnSet(Hold, S \cup {r}) = SumFunctionOnSet(Hold, S) + Hold[r]
<1>1. IsFiniteSet(S) /\ Hold[r] \in Int /\ \A x \in S : Hold[x] \in Int
  BY FS_Subset, BillingAssumption, AmountsNat
<1>. QED BY <1>1, SumAdd

\* A hold leaves the sum over the requests that have one.
LEMMA HoldLeaves ==
    ASSUME NEW S \in SUBSET Requests, NEW r \in S
    PROVE  SumFunctionOnSet(Hold, S \ {r}) = SumFunctionOnSet(Hold, S) - Hold[r]
<1>1. IsFiniteSet(S) /\ \A x \in S : Hold[x] \in Int
  BY FS_Subset, BillingAssumption, AmountsNat
<1>. QED BY <1>1, SumShrink

\* Reserve adds the hold to the windows it binds and to the key.
LEMMA AdmitKeepsSums ==
    ASSUME TInv, MInv, SInv, NEW r \in Requests, NEW b \in [Kinds -> Rows], pc[r] = "new", AdmitTx(r, b)
    PROVE  SInv'
<1>0. /\ RowTypes /\ status \in [Requests -> Statuses] /\ resv \in [Requests -> ReservationStates]
      /\ bind \in [Requests -> [Kinds -> 0..MaxRows]] /\ charge \in [Requests -> Nat \cup {-1}]
      /\ used \in [Windows -> Nat] /\ reserved \in [Windows -> Nat]
  BY Zenon DEF TInv, TypeOK, RowTypes
<1>1. /\ resv' = [resv EXCEPT ![r] = "held"] /\ bind' = [bind EXCEPT ![r] = b]
      /\ status' = [status EXCEPT ![r] = "reserved"]
      /\ reserved' = [w \in Windows |-> IF w[2] = b[w[1]] THEN reserved[w] + Hold[r] ELSE reserved[w]]
      /\ keyUsed' = keyUsed + Hold[r]
      /\ UNCHANGED <<charge, used>>
  BY Zenon DEF AdmitTx
<1>2. resv[r] = "none" /\ charge[r] = -1
  BY DEF MInv, ChargedIffConverted
<1>3. ASSUME NEW w \in Windows PROVE used'[w] = Rebuilt(w)'
  <2>1. ChargedTo(w)' = ChargedTo(w)
    BY <1>0, <1>1, <1>2 DEF ChargedTo, Bound
  <2>2. used'[w] = used[w] /\ used[w] = Rebuilt(w) /\ charge' = charge
    BY <1>1 DEF SInv
  <2>. QED BY <2>1, <2>2 DEF Rebuilt
<1>4. ASSUME NEW w \in Windows PROVE reserved'[w] = SumFunctionOnSet(Hold, HoldersOf(w)')
  <2>1. reserved[w] = SumFunctionOnSet(Hold, HoldersOf(w)) /\ HoldersOf(w) \in SUBSET Requests
    BY <1>0, RowsAreFinite DEF SInv, ReservedIsHeld
  <2>2. w \in Bound(r)' <=> w[2] = b[w[1]]
    BY <1>0, <1>1 DEF Bound, Windows
  <2>3. r \notin HoldersOf(w)
    BY <1>2 DEF HoldersOf
  <2>4. CASE w[2] = b[w[1]]
    <3>1. HoldersOf(w)' = HoldersOf(w) \cup {r}
      BY <1>0, <1>1, <2>2, <2>4 DEF HoldersOf, Bound
    <3>2. reserved'[w] = reserved[w] + Hold[r]
      BY <1>1, <2>4
    <3>. QED BY <2>1, <2>3, <3>1, <3>2, HoldEnters
  <2>5. CASE w[2] # b[w[1]]
    <3>1. HoldersOf(w)' = HoldersOf(w)
      BY <1>0, <1>1, <1>2, <2>2, <2>5 DEF HoldersOf, Bound
    <3>2. reserved'[w] = reserved[w]
      BY <1>1, <2>5
    <3>. QED BY <2>1, <3>1, <3>2
  <2>. QED BY <2>4, <2>5
<1>5. KeyBudgetAgrees'
  <2>1. HeldRequests' = HeldRequests \cup {r} /\ ChargedRequests' = ChargedRequests /\ r \notin HeldRequests
    BY <1>0, <1>1, <1>2 DEF HeldRequests, ChargedRequests
  <2>2. keyUsed = SumFunctionOnSet(Hold, HeldRequests) + SumFunctionOnSet(charge, ChargedRequests)
    BY DEF SInv, KeyBudgetAgrees, HeldRequests, ChargedRequests
  <2>3. SumFunctionOnSet(Hold, HeldRequests') = SumFunctionOnSet(Hold, HeldRequests) + Hold[r]
    BY <1>0, <2>1, HoldEnters, RowsAreFinite
  <2>4. keyUsed' = SumFunctionOnSet(Hold, HeldRequests') + SumFunctionOnSet(charge', ChargedRequests')
    <3>1. keyUsed' = keyUsed + Hold[r] /\ charge' = charge
      BY <1>1
    <3>. DEFINE h == SumFunctionOnSet(Hold, HeldRequests)
                k == SumFunctionOnSet(charge, ChargedRequests)
    <3>2. h \in Int /\ k \in Int /\ Hold[r] \in Int
      BY <1>0, RowsAreFinite, SumInt
    <3>3. (h + k) + Hold[r] = (h + Hold[r]) + k
      <4>. HIDE DEF h, k
      <4>. QED BY <3>2
    <3>. QED BY <2>1, <2>2, <2>3, <3>1, <3>3
  <2>. QED BY <2>4 DEF KeyBudgetAgrees, HeldRequests, ChargedRequests
<1>6. \A s \in Requests : resv'[s] = "held" => status'[s] \notin Terminal
  BY <1>0, <1>1 DEF SInv, Terminal
<1>. QED BY <1>3, <1>4, <1>5, <1>6 DEF SInv, ReservedIsHeld

\* A hold that ends leaves the windows it was pinned to, and no others.
LEMMA ReservedShrinks ==
    ASSUME RowTypes, ReservedIsHeld, NEW r \in Requests, resv[r] = "held", NEW x \in {"settled", "released"},
           resv' = [resv EXCEPT ![r] = x], UNCHANGED bind, reserved' = ReservedWithout(r)
    PROVE  ReservedIsHeld' /\ HeldRequests' = HeldRequests \ {r}
<1>0. resv \in [Requests -> ReservationStates]
  BY DEF RowTypes
<1>1. ASSUME NEW w \in Windows PROVE reserved'[w] = SumFunctionOnSet(Hold, HoldersOf(w)')
  <2>1. reserved[w] = SumFunctionOnSet(Hold, HoldersOf(w)) /\ HoldersOf(w) \in SUBSET Requests
    BY RowsAreFinite DEF ReservedIsHeld
  <2>2. CASE w \in Bound(r)
    <3>1. HoldersOf(w)' = HoldersOf(w) \ {r} /\ r \in HoldersOf(w)
      BY <1>0, <2>2 DEF HoldersOf, Bound
    <3>2. reserved'[w] = reserved[w] - Hold[r]
      BY <2>2 DEF ReservedWithout
    <3>. QED BY <2>1, <3>1, <3>2, HoldLeaves
  <2>3. CASE w \notin Bound(r)
    <3>1. HoldersOf(w)' = HoldersOf(w)
      BY <1>0, <2>3 DEF HoldersOf, Bound
    <3>2. reserved'[w] = reserved[w]
      BY <2>3 DEF ReservedWithout
    <3>. QED BY <2>1, <3>1, <3>2
  <2>. QED BY <2>2, <2>3
<1>. QED BY <1>0, <1>1 DEF ReservedIsHeld, HeldRequests

\* Release takes the hold out of the windows and of the key.
LEMMA ReleaseKeepsSums ==
    ASSUME TInv, SInv, NEW r \in Requests, NEW f \in BOOLEAN, ReleaseTx(r, f)
    PROVE  SInv'
<1>0. /\ RowTypes /\ status \in [Requests -> Statuses] /\ resv \in [Requests -> ReservationStates]
  BY Zenon DEF TInv, TypeOK, RowTypes
<1>1. /\ resv' = [resv EXCEPT ![r] = "released"] /\ status' = [status EXCEPT ![r] = "released"]
      /\ reserved' = ReservedWithout(r)
      /\ keyUsed' = keyUsed - Hold[r]
      /\ UNCHANGED <<bind, charge, used>>
      /\ resv[r] = "held"
  BY ZenonT(60) DEF ReleaseTx, ReleaseCommits
<1>2. \A w \in Windows : used'[w] = Rebuilt(w)'
  BY <1>1 DEF SInv, Rebuilt, ChargedTo, Bound
<1>3. ReservedIsHeld' /\ HeldRequests' = HeldRequests \ {r}
  BY <1>0, <1>1, ReservedShrinks DEF SInv
<1>4. KeyBudgetAgrees'
  <2>1. ChargedRequests' = ChargedRequests /\ r \in HeldRequests /\ charge' = charge
    BY <1>1 DEF HeldRequests, ChargedRequests
  <2>2. keyUsed = SumFunctionOnSet(Hold, HeldRequests) + SumFunctionOnSet(charge, ChargedRequests)
    BY DEF SInv, KeyBudgetAgrees, HeldRequests, ChargedRequests
  <2>3. SumFunctionOnSet(Hold, HeldRequests') = SumFunctionOnSet(Hold, HeldRequests) - Hold[r]
    BY <1>0, <1>3, <2>1, HoldLeaves, RowsAreFinite
  <2>4. keyUsed' = SumFunctionOnSet(Hold, HeldRequests') + SumFunctionOnSet(charge', ChargedRequests')
    <3>. DEFINE h == SumFunctionOnSet(Hold, HeldRequests)
                k == SumFunctionOnSet(charge, ChargedRequests)
    <3>1. h \in Int /\ k \in Int /\ Hold[r] \in Int
      BY <1>0, RowsAreFinite, SumInt
    <3>2. (h + k) - Hold[r] = (h - Hold[r]) + k
      <4>. HIDE DEF h, k
      <4>. QED BY <3>1
    <3>. QED BY <1>1, <2>1, <2>2, <2>3, <3>2
  <2>. QED BY <2>4 DEF KeyBudgetAgrees, HeldRequests, ChargedRequests
<1>5. \A s \in Requests : resv'[s] = "held" => status'[s] \notin Terminal
  BY <1>0, <1>1 DEF SInv, Terminal
<1>. QED BY <1>2, <1>3, <1>4, <1>5 DEF SInv

\* Settle turns the hold into the charge, in the windows and in the key.
LEMMA SettleKeepsSums ==
    ASSUME TInv, SInv, NEW r \in Requests, NEW c \in Nat, NEW reason \in JobReasons, SettleTx(r, c, reason)
    PROVE  SInv'
<1>0. /\ RowTypes /\ status \in [Requests -> Statuses] /\ resv \in [Requests -> ReservationStates]
      /\ charge \in [Requests -> Nat \cup {-1}]
  BY Zenon DEF TInv, TypeOK, RowTypes
<1>1. /\ resv' = [resv EXCEPT ![r] = "settled"] /\ status' = [status EXCEPT ![r] = "settled"]
      /\ charge' = [charge EXCEPT ![r] = c]
      /\ reserved' = ReservedWithout(r) /\ used' = UsedWith(r, c)
      /\ keyUsed' = keyUsed - Hold[r] + c
      /\ UNCHANGED bind
      /\ resv[r] = "held" /\ charge[r] = -1
  BY ZenonT(60) DEF SettleTx, SettleCommits, KeyCharged
<1>2. ASSUME NEW w \in Windows PROVE used'[w] = Rebuilt(w)'
  <2>1. used[w] = SumFunctionOnSet(charge, ChargedTo(w)) /\ ChargedTo(w) \in SUBSET ChargedRequests
    BY <1>0, RowsAreFinite DEF SInv, Rebuilt
  <2>2. CASE w \in Bound(r)
    <3>1. ChargedTo(w)' = ChargedTo(w) \cup {r}
      BY <1>0, <1>1, <2>2 DEF ChargedTo, Bound
    <3>2. used'[w] = used[w] + c
      BY <1>1, <2>2 DEF UsedWith
    <3>3. SumFunctionOnSet(charge', ChargedTo(w) \cup {r}) = SumFunctionOnSet(charge, ChargedTo(w)) + c
      BY <1>0, <1>1, <2>1, ChargeEnters
    <3>. QED BY <2>1, <3>1, <3>2, <3>3 DEF Rebuilt
  <2>3. CASE w \notin Bound(r)
    <3>1. ChargedTo(w)' = ChargedTo(w) /\ r \notin ChargedTo(w)
      BY <1>0, <1>1, <2>3 DEF ChargedTo, Bound
    <3>2. used'[w] = used[w]
      BY <1>1, <2>3 DEF UsedWith
    <3>3. SumFunctionOnSet(charge', ChargedTo(w)) = SumFunctionOnSet(charge, ChargedTo(w))
      <4>. DEFINE S == ChargedTo(w)
                  f == charge
                  g == charge'
      <4>1. IsFiniteSet(S) /\ \A x \in S : g[x] = f[x]
        BY <1>0, <1>1, <2>1, <3>1, RowsAreFinite DEF ChargedRequests
      <4>. HIDE DEF S, f, g
      <4>2. SumFunctionOnSet(g, S) = SumFunctionOnSet(f, S)
        BY <4>1, SumCong
      <4>. QED BY <4>2 DEF S, f, g
    <3>. QED BY <2>1, <3>1, <3>2, <3>3 DEF Rebuilt
  <2>. QED BY <2>2, <2>3
<1>3. ReservedIsHeld' /\ HeldRequests' = HeldRequests \ {r}
  BY <1>0, <1>1, ReservedShrinks DEF SInv
<1>4. KeyBudgetAgrees'
  <2>1. ChargedRequests' = ChargedRequests \cup {r} /\ r \in HeldRequests
    BY <1>0, <1>1 DEF HeldRequests, ChargedRequests
  <2>2. keyUsed = SumFunctionOnSet(Hold, HeldRequests) + SumFunctionOnSet(charge, ChargedRequests)
    BY DEF SInv, KeyBudgetAgrees, HeldRequests, ChargedRequests
  <2>3. SumFunctionOnSet(Hold, HeldRequests') = SumFunctionOnSet(Hold, HeldRequests) - Hold[r]
    BY <1>0, <1>3, <2>1, HoldLeaves, RowsAreFinite
  <2>4. SumFunctionOnSet(charge', ChargedRequests') = SumFunctionOnSet(charge, ChargedRequests) + c
    <3>1. ChargedRequests \in SUBSET ChargedRequests
      OBVIOUS
    <3>. QED BY <1>0, <1>1, <2>1, <3>1, ChargeEnters
  <2>5. keyUsed' = SumFunctionOnSet(Hold, HeldRequests') + SumFunctionOnSet(charge', ChargedRequests')
    <3>. DEFINE h == SumFunctionOnSet(Hold, HeldRequests)
                k == SumFunctionOnSet(charge, ChargedRequests)
    <3>1. h \in Int /\ k \in Int /\ Hold[r] \in Int
      BY <1>0, RowsAreFinite, SumInt
    <3>2. (h + k) - Hold[r] + c = (h - Hold[r]) + (k + c)
      <4>. HIDE DEF h, k
      <4>. QED BY <3>1
    <3>. QED BY <1>1, <2>2, <2>3, <2>4, <3>2
  <2>. QED BY <2>5 DEF KeyBudgetAgrees, HeldRequests, ChargedRequests
<1>5. \A s \in Requests : resv'[s] = "held" => status'[s] \notin Terminal
  BY <1>0, <1>1 DEF SInv, Terminal
<1>. QED BY <1>2, <1>3, <1>4, <1>5 DEF SInv

\* Only a transaction that ends the hold makes a request final.
LEMMA HoldKeepsOpen ==
    ASSUME TInv, [Next]_vars, NEW s \in Requests, resv'[s] = "held", status'[s] \in Terminal
    PROVE  status[s] \in Terminal
<1>. status \in [Requests -> Statuses] /\ resv \in [Requests -> ReservationStates]
  BY DEF TInv, TypeOK, RowTypes
<1>. DEFINE Opens(r) == \/ UNCHANGED status
                        \/ \E st \in Statuses \ Terminal : status' = [status EXCEPT ![r] = st]
<1>1. ASSUME NEW r \in Requests, Opens(r) PROVE status[s] \in Terminal
  BY <1>1
<1>2. ASSUME NEW r \in Requests, NEW f, ReleaseTx(r, f) PROVE status[s] \in Terminal
  BY <1>2 DEF ReleaseTx
<1>3. ASSUME NEW r \in Requests, NEW c, NEW q, SettleTx(r, c, q) PROVE status[s] \in Terminal
  BY <1>3 DEF SettleTx
<1>4. /\ "reserved" \in Statuses \ Terminal /\ "dispatching" \in Statuses \ Terminal
      /\ "streaming" \in Statuses \ Terminal /\ "non_streaming" \in Statuses \ Terminal
      /\ "reconciliation_required" \in Statuses \ Terminal
  BY DEF Statuses, OpenStatuses, Terminal
<1>5. ASSUME NEW r \in Requests, GatewayStep(r) PROVE status[s] \in Terminal
  <2>1. CASE Admit(r)
    <3>1. (\E b : AdmitTx(r, b)) \/ NoTx
      BY <2>1 DEF Admit, Committed
    <3>2. Opens(r)
      BY Zenon, <1>4, <3>1 DEF AdmitTx, NoTx, requestVars
    <3>. QED BY <1>1, <3>2
  <2>2. CASE Settle(r)
    BY <1>3, <2>2 DEF Settle
  <2>3. CASE Release(r)
    <3>1. ReleaseTx(r, FALSE) \/ NoTx
      BY <2>3 DEF Release
    <3>2. NoTx => Opens(r)
      BY DEF NoTx, requestVars
    <3>. QED BY <1>1, <1>2, <3>1, <3>2
  <2>4. CASE Park(r) \/ HoldForReconciliation(r)
    <3>1. ParkTx(r) \/ NoTx
      BY <2>4 DEF Park, HoldForReconciliation, Committed
    <3>2. Opens(r)
      BY Zenon, <1>4, <3>1 DEF ParkTx, NoTx, requestVars
    <3>. QED BY <1>1, <3>2
  <2>5. CASE PreDispatchFails(r) \/ MarkDispatching(r) \/ DispatchCompleted(r) \/ StreamOpens(r)
    <3>1. Opens(r)
      BY Zenon, <1>4, <2>5 DEF PreDispatchFails, MarkDispatching, DispatchCompleted, StreamOpens, MarkStatus
    <3>. QED BY <1>1, <3>1
  <2>6. CASE \/ AdmitRejected(r) \/ NoCandidate(r) \/ SkipCandidate(r) \/ PersistAttempt(r) \/ DispatchRejected(r)
             \/ DispatchUnknown(r) \/ DispatchCancelled(r) \/ StreamEnds(r) \/ SettleConflicts(r) \/ SettleFails(r)
             \/ EndLeases(r)
    <3>1. UNCHANGED status
      BY Zenon, <2>6 DEF AdmitRejected, NoCandidate, SkipCandidate, PersistAttempt, Committed, NoTx, DispatchRejected,
              DispatchUnknown, DispatchCancelled, StreamEnds, SettleConflicts, SettleFails, EndLeases, requestVars
    <3>. QED BY <1>1, <3>1
  <2>. QED BY <1>5, <2>1, <2>2, <2>3, <2>4, <2>5, <2>6 DEF GatewayStep
<1>6. ASSUME NEW w \in Workers, Recover(w) PROVE status[s] \in Terminal
  <2>. ProcessTypes
    BY DEF TInv, TypeOK
  <2>1. CASE (\E r \in Requests : Sweep(w, r) \/ TakeJob(w, r)) \/ LoadEvidence(w) \/ WorkerSkips(w)
    <3>1. UNCHANGED status
      BY Zenon, <2>1 DEF Sweep, TakeJob, LoadEvidence, WorkerSkips, requestVars
    <3>. QED BY <3>1
  <2>2. CASE ReleaseProvenZero(w)
    <3>1. pick[w] # Idle
      BY <2>2 DEF ReleaseProvenZero, Idle
    <3>. QED BY <1>2, <2>2, <3>1, PickedRequest DEF ReleaseProvenZero
  <2>3. CASE SettleUnknownCharge(w)
    <3>1. pick[w] # Idle
      BY <2>3 DEF SettleUnknownCharge, Idle
    <3>. QED BY <1>3, <2>3, <3>1, PickedRequest DEF SettleUnknownCharge
  <2>. QED BY <1>6, <2>1, <2>2, <2>3 DEF Recover
<1>7. CASE Environment \/ UNCHANGED vars \/ \E r \in Requests : Escalate(r)
  <2>1. UNCHANGED status
    BY ZenonT(60), <1>7 DEF Environment, UpstreamExecutes, Crash, GraceElapses, LeaseExpires, WindowEnds, SetAccountStatus,
                Escalate, vars, requestVars
  <2>. QED BY <2>1
<1>. QED BY <1>5, <1>6, <1>7 DEF Next

\* The sums are kept by every step.
LEMMA SumsInductive ==
    ASSUME TInv, MInv, SInv, [Next]_vars
    PROVE  SInv'
<1>1. CASE UNCHANGED moneyVars
  <2>1. UNCHANGED <<resv, bind, charge, used, reserved, keyUsed>>
    BY <1>1 DEF moneyVars
  <2>2. (\A w \in Windows : used'[w] = Rebuilt(w)') /\ ReservedIsHeld' /\ KeyBudgetAgrees'
    BY <2>1 DEF SInv, Rebuilt, ChargedTo, Bound, ReservedIsHeld, HoldersOf, KeyBudgetAgrees
  <2>3. \A r \in Requests : resv'[r] = "held" => status'[r] \notin Terminal
    BY <2>1, HoldKeepsOpen DEF SInv
  <2>. QED BY <2>2, <2>3 DEF SInv
<1>. QED BY Zenon, <1>1, OnlyMoneySteps, AdmitKeepsSums, ReleaseKeepsSums, SettleKeepsSums DEF MoneyStep

\* At the start every sum is empty.
LEMMA SumsInit == Init => SInv
<1>. SUFFICES ASSUME Init PROVE SInv
  OBVIOUS
<1>1. HeldRequests = {} /\ ChargedRequests = {} /\ \A w : HoldersOf(w) = {} /\ ChargedTo(w) = {}
  BY DEF Init, HeldRequests, ChargedRequests, HoldersOf, ChargedTo
<1>2. keyUsed = 0 /\ \A w \in Windows : used[w] = 0 /\ reserved[w] = 0
  BY DEF Init
<1>3. KeyBudgetAgrees
  BY <1>1, <1>2, SumEmpty DEF KeyBudgetAgrees, HeldRequests, ChargedRequests
<1>4. (\A w \in Windows : used[w] = Rebuilt(w)) /\ ReservedIsHeld
  BY <1>1, <1>2, SumEmpty DEF Rebuilt, ReservedIsHeld
<1>5. \A r \in Requests : resv[r] # "held"
  BY DEF Init
<1>. QED BY <1>3, <1>4, <1>5 DEF SInv

\* The sums are right in every reachable state.
LEMMA SumsHold == Spec => []SInv
<1>1. TInv /\ MInv /\ SInv /\ [Next]_vars => SInv'
  BY SumsInductive
<1>. QED BY <1>1, SumsInit, BooksHold, PTL DEF Spec

\* With sums that agree, a hold that is there is counted in full in its active
\* windows and in the key: Settle commits whatever the charge.
LEMMA HoldsConvert ==
    ASSUME TInv, MInv, SInv, NEW r \in Requests, resv[r] = "held", NEW c \in Charges
    PROVE  SettleCommits(r, c)
<1>. RowTypes
  BY DEF TInv, TypeOK
<1>1. status[r] \notin Terminal /\ charge[r] = -1
  BY DEF SInv, MInv, ChargedIffConverted
<1>2. ASSUME NEW w \in Bound(r) PROVE wstate[w] = "active" /\ reserved[w] >= Hold[r]
  <2>1. w \in Windows /\ wstate[w] = "active"
    BY BoundWindows DEF MInv, HeldWindowsActive
  <2>2. r \in HoldersOf(w) /\ reserved[w] = SumFunctionOnSet(Hold, HoldersOf(w))
    BY <2>1 DEF HoldersOf, SInv, ReservedIsHeld
  <2>3. SumFunctionOnSet(Hold, HoldersOf(w)) >= Hold[r]
    BY <2>2, RowsAreFinite, SumAtLeast
  <2>. QED BY <2>1, <2>2, <2>3
<1>3. KeyCharged(r, c) >= 0
  <2>. DEFINE h == SumFunctionOnSet(Hold, HeldRequests)
              k == SumFunctionOnSet(charge, ChargedRequests)
  <2>1. keyUsed = h + k
    BY DEF SInv, KeyBudgetAgrees, HeldRequests, ChargedRequests
  <2>2. r \in HeldRequests
    BY DEF HeldRequests
  <2>3. h >= Hold[r] /\ h \in Nat
    BY <2>2, RowsAreFinite, SumAtLeast, SumNat
  <2>4. k \in Nat
    <3>1. ChargedRequests \in SUBSET ChargedRequests
      OBVIOUS
    <3>. QED BY <3>1, RowsAreFinite, SumNat
  <2>5. Hold[r] \in Nat /\ c \in Nat
    BY AmountsNat
  <2>. HIDE DEF h, k
  <2>. QED BY <2>1, <2>3, <2>4, <2>5 DEF KeyCharged
<1>. QED BY <1>1, <1>2, <1>3 DEF SettleCommits

\* For any number of requests, workers and windows, under crashes, stalls, storage
\* errors and suspensions: the used and reserved amount of every window and the key
\* budget are the sums of their rows, the limit holds, and a conflict that settle
\* takes for a duplicate delivery is one.
THEOREM AggregatesAlwaysAgree == Spec => []AggregatesAgree
<1>1. TInv /\ MInv /\ SInv => AggregatesAgree
  <2>. SUFFICES ASSUME TInv, MInv, SInv PROVE AggregatesAgree
    OBVIOUS
  <2>1. LedgerRebuilds /\ ReservedIsHeld /\ KeyBudgetAgrees
    BY DEF SInv, LedgerRebuilds
  <2>2. ConflictIsDuplicate
    BY HoldsConvert DEF ConflictIsDuplicate
  <2>. QED BY <2>1, <2>2 DEF AggregatesAgree, MInv
<1>. QED BY <1>1, BooksHold, SumsHold, PTL

=============================================================================
