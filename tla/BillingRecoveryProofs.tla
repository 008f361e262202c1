----------------------- MODULE BillingRecoveryProofs ------------------------
(***************************************************************************)
(* Proofs about the request life cycle: with a process that never stalls   *)
(* past Grace, the recovery worker and the gateway never work on the same  *)
(* hold, whatever crashes, storage failures and suspensions there are.     *)
(***************************************************************************)
EXTENDS BillingProofs, FiniteSetTheorems

\* The gateway has nothing left to write for r but its leases.
Finished(r) == pc[r] \in {"unlease", "done", "dead"}

\* An attempt of r may have been served.
Anchored(r) == \E i \in Attempts : att[r][i] \in {"dispatching", "served"}

\* The request row, the reservation rows and the place of the call.
Agree(r) ==
    /\ resv[r] = "none" <=> status[r] = "absent"
    /\ resv[r] = "settled" <=> status[r] = "settled"
    /\ resv[r] = "released" <=> status[r] = "released"
    /\ pc[r] \in {"route", "checks", "inflight", "streaming", "hold", "release"} => resv[r] = "held"
    /\ pc[r] \in {"settle", "park"} => resv[r] \in {"held", "settled"}
    /\ status[r] = "reconciliation_required" => Finished(r) /\ Anchored(r)

\* What keeps the worker off a live call: a fresh row, or a lease.
Shielded(r) ==
    /\ pc[r] \in {"new", "route", "checks", "inflight", "hold", "release"} => ~quiet[r]
    /\ pc[r] \in {"checks", "inflight", "streaming"} => "upstream" \in leases[r]
    /\ pc[r] \in {"settle", "park"} /\ quiet[r] => leases[r] # {}
    /\ pc[r] = "new" => job[r].status = "none"
    /\ job[r].status # "none" /\ resv[r] = "held" => Finished(r)

\* What the attempt rows say about what the upstream did.
Evidence(r) ==
    /\ pc[r] \in {"checks", "inflight", "streaming"} => att[r][tries[r]] = "dispatching"
    /\ pc[r] \in {"new", "route", "checks"} => exec[r] = {}
    /\ pc[r] = "inflight" => exec[r] \subseteq {tries[r]}
    /\ exec[r] = {} \/ \E i \in Attempts : exec[r] = {i}
    /\ \A i \in exec[r] : att[r][i] \in {"dispatching", "served"} \/ cancelled[r]
    /\ pc[r] \in {"hold", "settle", "park"} => Anchored(r)
    /\ pc[r] = "release" \/ resv[r] = "released" => exec[r] = {} \/ cancelled[r]

\* A worker holds an open reservation only of a finished call, and what it
\* read of the attempts is still so.
PickSound(w) ==
    pick[w] # Idle =>
        /\ pc[pick[w].req] # "new"
        /\ resv[pick[w].req] = "held" =>
              /\ Finished(pick[w].req)
              /\ pick[w].cls = "not_sent" => ~Anchored(pick[w].req)

\* A charge beyond the hold has its anomaly job.
Tracked(r) == charge[r] > Hold[r] => job[r].status \in {"pending", "escalated"}

LInv(r) == Agree(r) /\ Shielded(r) /\ Evidence(r) /\ Tracked(r)

CInv ==
    /\ \A r \in Requests : LInv(r)
    /\ \A w \in Workers : PickSound(w)

\* Nothing that belongs to request s changes: its rows, or anything of it.
SameRows(s) ==
    /\ status'[s] = status[s] /\ resv'[s] = resv[s] /\ charge'[s] = charge[s]
    /\ att'[s] = att[s] /\ job'[s] = job[s] /\ leases'[s] = leases[s] /\ quiet'[s] = quiet[s]
    /\ exec'[s] = exec[s] /\ cancelled'[s] = cancelled[s]

Untouched(s) == SameRows(s) /\ pc'[s] = pc[s] /\ tries'[s] = tries[s]

\* A request nobody touches keeps its invariant.
LEMMA UntouchedKeeps ==
    ASSUME NEW s \in Requests, LInv(s), Untouched(s)
    PROVE  LInv(s)'
<1>1. Agree(s)'
  BY DEF LInv, Untouched, SameRows, Agree, Finished, Anchored
<1>2. Shielded(s)'
  BY DEF LInv, Untouched, SameRows, Shielded, Finished
<1>3. Evidence(s)'
  BY DEF LInv, Untouched, SameRows, Evidence, Anchored
<1>. QED BY <1>1, <1>2, <1>3 DEF LInv, Untouched, SameRows, Tracked

\* The store's transactions change the rows of their own request only.
LEMMA TransactionsAreLocal ==
    ASSUME TInv, NEW r \in Requests, NEW s \in Requests, s # r
    PROVE  /\ \A b : AdmitTx(r, b) => SameRows(s)
           /\ \A f : ReleaseTx(r, f) => SameRows(s)
           /\ \A c, q : SettleTx(r, c, q) => SameRows(s)
           /\ ParkTx(r) => SameRows(s)
           /\ NoTx => SameRows(s)
<1>. /\ status \in [Requests -> Statuses] /\ resv \in [Requests -> ReservationStates]
     /\ charge \in [Requests -> Nat \cup {-1}] /\ job \in [Requests -> Jobs]
     /\ leases \in [Requests -> SUBSET {"account", "upstream"}] /\ quiet \in [Requests -> BOOLEAN]
  BY DEF TInv, TypeOK, RowTypes
<1>. QED BY DEF AdmitTx, ReleaseTx, SettleTx, ParkTx, NoTx, SameRows, requestVars, history

\* So does every step of a gateway call.
LEMMA GatewayIsLocal ==
    ASSUME TInv, NEW r \in Requests, NEW s \in Requests, s # r, GatewayStep(r)
    PROVE  Untouched(s)
<1>. /\ status \in [Requests -> Statuses] /\ att \in [Requests -> [Attempts -> AttemptStates]]
     /\ leases \in [Requests -> SUBSET {"account", "upstream"}] /\ quiet \in [Requests -> BOOLEAN]
     /\ cancelled \in [Requests -> BOOLEAN]
     /\ pc \in [Requests -> GatewaySteps] /\ tries \in [Requests -> 0..MaxAttempts]
  BY Zenon DEF TInv, TypeOK, RowTypes, ProcessTypes
<1>1. pc'[s] = pc[s] /\ tries'[s] = tries[s]
  BY Zenon DEF GatewayStep, Admit, AdmitRejected, NoCandidate, SkipCandidate, PersistAttempt, PreDispatchFails,
         MarkDispatching, DispatchRejected, DispatchUnknown, DispatchCancelled, DispatchCompleted,
         StreamOpens, StreamEnds, Settle, SettleConflicts, SettleFails, Park, HoldForReconciliation,
         Release, EndLeases, Committed, Goto
<1>2. SameRows(s)
  <2>1. CASE Admit(r) \/ Settle(r) \/ Release(r) \/ Park(r) \/ HoldForReconciliation(r)
    BY ZenonT(60), <2>1, TransactionsAreLocal DEF Admit, Settle, Release, Park, HoldForReconciliation, Committed
  <2>2. CASE AdmitRejected(r) \/ NoCandidate(r) \/ SkipCandidate(r) \/ SettleConflicts(r) \/ SettleFails(r)
    BY SMTT(30), Z3T(30), <2>2 DEF AdmitRejected, NoCandidate, SkipCandidate, SettleConflicts, SettleFails,
                SameRows, requestVars, history
  <2>3. CASE PersistAttempt(r)
    BY SMTT(30), Z3T(30), <2>3, TransactionsAreLocal DEF PersistAttempt, Committed, SameRows, history
  <2>4. CASE PreDispatchFails(r) \/ MarkDispatching(r)
    BY <2>4 DEF PreDispatchFails, MarkDispatching, FinishAttempt, DropLeases, MarkStatus, SameRows, history
  <2>5. CASE DispatchRejected(r) \/ DispatchUnknown(r) \/ DispatchCancelled(r)
    BY <2>5 DEF DispatchRejected, DispatchUnknown, DispatchCancelled, FinishAttempt, DropLeases, SameRows, history
  <2>6. CASE DispatchCompleted(r) \/ StreamOpens(r) \/ StreamEnds(r) \/ EndLeases(r)
    BY Zenon, <2>6 DEF DispatchCompleted, StreamOpens, StreamEnds, EndLeases, FinishAttempt, DropLeases, MarkStatus,
                SameRows, history
  <2>. QED BY SMTT(30), Z3T(30), <2>1, <2>2, <2>3, <2>4, <2>5, <2>6 DEF GatewayStep
<1>. QED BY <1>1, <1>2 DEF Untouched

\* A finished call only ends its leases.
LEMMA FinishedStep ==
    ASSUME NEW r \in Requests, GatewayStep(r), Finished(r)
    PROVE  EndLeases(r)
  BY ZenonT(30) DEF Finished, GatewayStep, Admit, AdmitRejected, NoCandidate, SkipCandidate, PersistAttempt,
         PreDispatchFails, MarkDispatching, DispatchRejected, DispatchUnknown, DispatchCancelled,
         DispatchCompleted, StreamOpens, StreamEnds, Settle, SettleConflicts, SettleFails, Park,
         HoldForReconciliation, Release

\* Admission: the row is fresh and the call has a hold, or it is over.
LEMMA AdmitLife ==
    ASSUME TInv, MInv, NEW r \in Requests, LInv(r), Admit(r)
    PROVE  LInv(r)'
<1>. /\ status \in [Requests -> Statuses] /\ resv \in [Requests -> ReservationStates]
     /\ leases \in [Requests -> SUBSET {"account", "upstream"}] /\ quiet \in [Requests -> BOOLEAN]
     /\ pc \in [Requests -> GatewaySteps]
  BY DEF TInv, TypeOK, RowTypes, ProcessTypes
<1>1. pc[r] = "new" /\ resv[r] = "none" /\ tries'[r] = tries[r] /\ pc'[r] \in {"route", "done"}
  BY DEF Admit, MInv, Committed, Goto
<1>2. \/ /\ \E b : AdmitTx(r, b)
      \/ NoTx /\ pc'[r] = "done"
  BY SMTT(30), Z3T(30) DEF Admit, Committed, Goto
<1>3. CASE \E b : AdmitTx(r, b)
  <2>1. /\ status'[r] = "reserved" /\ resv'[r] = "held" /\ quiet'[r] = FALSE
        /\ charge' = charge /\ att' = att /\ job' = job /\ exec' = exec /\ cancelled' = cancelled
    BY <1>3 DEF AdmitTx, history
  <2>. QED BY SMTT(30), Z3T(30), <1>1, <2>1 DEF LInv, Agree, Shielded, Evidence, Tracked, Finished, Anchored
<1>4. CASE NoTx /\ pc'[r] = "done"
  <2>1. SameRows(r)
    BY Zenon, <1>4 DEF NoTx, requestVars, history, SameRows
  <2>. QED BY Zenon, <1>1, <1>4, <2>1 DEF SameRows, LInv, Agree, Shielded, Evidence, Tracked, Finished, Anchored
<1>. QED BY <1>2, <1>3, <1>4

\* Steps that only move the call.
LEMMA MoveLife ==
    ASSUME TInv, MInv, NEW r \in Requests, LInv(r),
           AdmitRejected(r) \/ NoCandidate(r) \/ SkipCandidate(r) \/ SettleConflicts(r) \/ SettleFails(r)
    PROVE  LInv(r)'
<1>. pc \in [Requests -> GatewaySteps]
  BY DEF TInv, TypeOK, ProcessTypes
<1>1. SameRows(r)
  BY DEF AdmitRejected, NoCandidate, SkipCandidate, SettleConflicts, SettleFails, SameRows, requestVars, history
<1>2. \/ pc[r] = "new" /\ pc'[r] = "done"
      \/ pc[r] = "route" /\ pc'[r] \in {"route", "release"}
      \/ pc[r] = "settle" /\ pc'[r] \in {"unlease", "park"}
  BY Zenon DEF AdmitRejected, NoCandidate, SkipCandidate, SettleConflicts, SettleFails, Goto
<1>. QED BY ZenonT(60), <1>1, <1>2 DEF SameRows, LInv, Agree, Shielded, Evidence, Tracked, Finished, Anchored

\* PersistAttempt: the attempt is open and leased before anything is sent.
LEMMA PersistLife ==
    ASSUME TInv, MInv, NEW r \in Requests, LInv(r), PersistAttempt(r)
    PROVE  LInv(r)'
<1>. /\ att \in [Requests -> [Attempts -> AttemptStates]]
     /\ leases \in [Requests -> SUBSET {"account", "upstream"}] /\ quiet \in [Requests -> BOOLEAN]
     /\ pc \in [Requests -> GatewaySteps] /\ tries \in [Requests -> 0..MaxAttempts]
  BY DEF TInv, TypeOK, RowTypes, ProcessTypes
<1>1. pc[r] = "route" /\ tries'[r] = tries[r] + 1 /\ tries[r] + 1 \in Attempts
  BY SMTT(30), Z3T(30), BillingAssumption DEF PersistAttempt, Attempts
<1>2. \/ /\ att'[r] = [att[r] EXCEPT ![tries[r] + 1] = "dispatching"]
         /\ leases'[r] = leases[r] \cup {"upstream"} /\ quiet'[r] = FALSE
         /\ UNCHANGED <<status, resv, charge, job, exec, cancelled>>
         /\ pc'[r] \in {"checks", "release"}
      \/ SameRows(r) /\ pc'[r] = "release"
  BY SMTT(30), Z3T(30) DEF PersistAttempt, Committed, Goto, NoTx, SameRows, requestVars, history
<1>3. CASE SameRows(r) /\ pc'[r] = "release"
  BY SMTT(30), Z3T(30), <1>1, <1>3 DEF SameRows, LInv, Agree, Shielded, Evidence, Tracked, Finished, Anchored
<1>4. CASE /\ att'[r] = [att[r] EXCEPT ![tries[r] + 1] = "dispatching"]
           /\ leases'[r] = leases[r] \cup {"upstream"} /\ quiet'[r] = FALSE
           /\ UNCHANGED <<status, resv, charge, job, exec, cancelled>>
           /\ pc'[r] \in {"checks", "release"}
  <2>1. att'[r][tries'[r]] = "dispatching"
    BY SMTT(30), Z3T(30), <1>1, <1>4
  <2>2. resv[r] = "held" /\ exec[r] = {} /\ status[r] # "reconciliation_required"
    BY <1>1 DEF LInv, Agree, Evidence, Finished
  <2>3. Agree(r)'
    BY ZenonT(60), <1>1, <1>4, <2>2 DEF LInv, Agree
  <2>4. Shielded(r)'
    BY SMTT(30), Z3T(30), <1>1, <1>4 DEF LInv, Shielded, Finished
  <2>5. Evidence(r)'
    BY SMTT(30), Z3T(30), <1>4, <2>1, <2>2 DEF Evidence
  <2>. QED BY SMTT(30), Z3T(30), <1>4, <2>3, <2>4, <2>5 DEF LInv, Tracked
<1>. QED BY ZenonT(60), <1>2, <1>3, <1>4

\* FinishAttempt rewrites the current attempt only.
LEMMA FinishedAttempt ==
    ASSUME TInv, NEW r \in Requests, NEW st \in AttemptStates, FinishAttempt(r, st), tries[r] \in Attempts
    PROVE  /\ att'[r][tries[r]] \in {st, att[r][tries[r]]}
           /\ \A i \in Attempts : i # tries[r] => att'[r][i] = att[r][i]
<1>. att \in [Requests -> [Attempts -> AttemptStates]]
  BY DEF TInv, TypeOK, RowTypes
<1>. QED BY DEF FinishAttempt

\* MarkStatus refreshes the row or leaves it.
LEMMA MarkedStatus ==
    ASSUME TInv, NEW r \in Requests, NEW st, MarkStatus(r, st)
    PROVE  \/ status'[r] = st /\ quiet'[r] = FALSE
           \/ status'[r] = status[r] /\ quiet'[r] = quiet[r]
<1>. status \in [Requests -> Statuses] /\ quiet \in [Requests -> BOOLEAN]
  BY DEF TInv, TypeOK, RowTypes
<1>. QED BY DEF MarkStatus

\* Before and at the dispatch, an attempt that served nothing is closed.
LEMMA FailedAttemptLife ==
    ASSUME TInv, MInv, NEW r \in Requests, LInv(r), PreDispatchFails(r) \/ DispatchRejected(r)
    PROVE  LInv(r)'
<1>. /\ pc \in [Requests -> GatewaySteps] /\ tries[r] \in Attempts
     /\ "zero" \in AttemptStates
  BY DEF TInv, TypeOK, ProcessTypes, OnAttempt, PreDispatchFails, DispatchRejected, AttemptStates
<1>1. /\ pc[r] \in {"checks", "inflight"} /\ pc'[r] \in {"route", "release"}
      /\ FinishAttempt(r, "zero") /\ DropLeases(r, {"upstream"})
      /\ UNCHANGED <<resv, charge, job, exec, cancelled, tries>>
  BY Zenon DEF PreDispatchFails, DispatchRejected, Goto, history
<1>2. exec[r] = {}
  BY Zenon DEF PreDispatchFails, DispatchRejected, LInv, Evidence
<1>3. /\ status'[r] \in {status[r], "dispatching"}
      /\ quiet'[r] = quiet[r] \/ quiet'[r] = FALSE
  BY ZenonT(60), MarkedStatus DEF PreDispatchFails, DispatchRejected
<1>4. resv[r] = "held" /\ status[r] # "reconciliation_required" /\ ~quiet[r] /\ job[r].status = "none"
  BY SMTT(30), Z3T(30), <1>1 DEF LInv, Agree, Shielded, Finished
<1>5. Agree(r)'
  BY SMTT(30), Z3T(30), <1>1, <1>3, <1>4 DEF LInv, Agree
<1>6. Shielded(r)'
  BY <1>1, <1>3, <1>4 DEF Shielded
<1>7. Evidence(r)'
  BY ZenonT(60), <1>1, <1>2, <1>4 DEF Evidence
<1>. QED BY ZenonT(60), <1>1, <1>5, <1>6, <1>7 DEF LInv, Tracked

\* MarkDispatching: the hold is still there, so the marker is not stale.
LEMMA MarkDispatchingLife ==
    ASSUME TInv, MInv, NEW r \in Requests, LInv(r), MarkDispatching(r)
    PROVE  LInv(r)'
<1>. /\ pc \in [Requests -> GatewaySteps] /\ status \in [Requests -> Statuses] /\ quiet \in [Requests -> BOOLEAN]
  BY DEF TInv, TypeOK, RowTypes, ProcessTypes
<1>1. /\ pc[r] = "checks" /\ pc'[r] = "inflight" /\ status'[r] = "dispatching" /\ quiet'[r] = FALSE
      /\ UNCHANGED <<resv, charge, att, job, leases, exec, cancelled, tries>>
  BY DEF MarkDispatching, Goto, history
<1>2. Agree(r)'
  BY ZenonT(60), <1>1 DEF LInv, Agree
<1>3. Shielded(r)'
  BY SMTT(30), Z3T(30), <1>1 DEF LInv, Shielded, Finished
<1>4. Evidence(r)'
  BY SMTT(30), Z3T(30), <1>1 DEF LInv, Evidence, Anchored
<1>. QED BY SMTT(30), Z3T(30), <1>1, <1>2, <1>3, <1>4 DEF LInv, Tracked

\* Outcomes that leave a possible charge behind keep its anchor.
LEMMA ServedAttemptLife ==
    ASSUME TInv, MInv, NEW r \in Requests, LInv(r),
           DispatchUnknown(r) \/ DispatchCompleted(r) \/ StreamEnds(r)
    PROVE  LInv(r)'
<1>. /\ pc \in [Requests -> GatewaySteps] /\ tries[r] \in Attempts
     /\ "served" \in AttemptStates /\ exec[r] \in SUBSET Attempts
  BY Zenon DEF TInv, TypeOK, RowTypes, ProcessTypes, OnAttempt, DispatchUnknown, DispatchCompleted, StreamEnds, AttemptStates
<1>1. /\ \/ pc[r] = "inflight" /\ pc'[r] = "hold" /\ UNCHANGED <<status, quiet>> /\ DropLeases(r, {"upstream"})
         \/ /\ pc[r] = "inflight" /\ pc'[r] = "settle" /\ MarkStatus(r, "non_streaming")
            /\ DropLeases(r, {"upstream"})
         \/ pc[r] = "streaming" /\ pc'[r] \in {"settle", "park"} /\ UNCHANGED <<status, quiet, leases>>
      /\ FinishAttempt(r, "served")
      /\ UNCHANGED <<resv, charge, job, exec, cancelled, tries>>
  BY Zenon DEF DispatchUnknown, DispatchCompleted, StreamEnds, Goto, history
<1>2. att'[r][tries[r]] \in {"dispatching", "served"}
  BY ZenonT(60), <1>1, FinishedAttempt DEF LInv, Evidence
<1>3. \A i \in exec[r] : att'[r][i] \in {"dispatching", "served"} \/ cancelled[r]
  BY ZenonT(60), <1>1, <1>2, FinishedAttempt DEF LInv, Evidence
<1>4. Anchored(r)'
  BY Zenon, <1>2 DEF Anchored
<1>5. /\ status'[r] \in {status[r], "non_streaming"}
      /\ pc[r] = "inflight" => ~quiet'[r]
      /\ pc[r] = "streaming" => leases'[r] = leases[r]
  BY ZenonT(60), <1>1, MarkedStatus DEF LInv, Shielded
<1>6. Agree(r)'
  BY <1>1, <1>5 DEF LInv, Agree, Finished
<1>7. Shielded(r)'
  BY ZenonT(60), <1>1, <1>5 DEF LInv, Shielded, Finished, Agree
<1>8. Evidence(r)'
  BY SMTT(30), Z3T(30), <1>1, <1>3, <1>4 DEF LInv, Evidence, Agree
<1>. QED BY SMTT(30), Z3T(30), <1>1, <1>6, <1>7, <1>8 DEF LInv, Tracked

\* DispatchCancelled: the release that follows is marked as the caller's.
LEMMA CancelledLife ==
    ASSUME TInv, MInv, NEW r \in Requests, LInv(r), DispatchCancelled(r)
    PROVE  LInv(r)'
<1>. /\ pc \in [Requests -> GatewaySteps] /\ cancelled \in [Requests -> BOOLEAN]
  BY DEF TInv, TypeOK, RowTypes, ProcessTypes
<1>1. /\ pc[r] = "inflight" /\ pc'[r] = "release" /\ cancelled'[r] = TRUE
      /\ UNCHANGED <<status, resv, charge, job, quiet, exec, tries>>
  BY DEF DispatchCancelled, Goto
<1>2. Agree(r)'
  BY Zenon, <1>1 DEF LInv, Agree, Finished
<1>3. Shielded(r)'
  BY Zenon, <1>1 DEF LInv, Shielded, Finished
<1>4. Evidence(r)'
  BY ZenonT(60), <1>1 DEF LInv, Evidence
<1>. QED BY SMTT(30), Z3T(30), <1>1, <1>2, <1>3, <1>4 DEF LInv, Tracked

\* StreamOpens: the stream goes on under the upstream lease.
LEMMA StreamOpensLife ==
    ASSUME TInv, MInv, NEW r \in Requests, LInv(r), StreamOpens(r)
    PROVE  LInv(r)'
<1>. pc \in [Requests -> GatewaySteps]
  BY Zenon DEF TInv, TypeOK, ProcessTypes
<1>1. /\ pc[r] = "inflight" /\ pc'[r] = "streaming" /\ MarkStatus(r, "streaming")
      /\ UNCHANGED <<resv, charge, att, job, leases, exec, cancelled, tries>>
  BY DEF StreamOpens, Goto, history
<1>2. status'[r] \in {status[r], "streaming"}
  BY ZenonT(60), <1>1, MarkedStatus
<1>3. Agree(r)'
  BY SMTT(30), Z3T(30), <1>1, <1>2 DEF LInv, Agree, Finished
<1>4. Shielded(r)'
  BY SMTT(30), Z3T(30), <1>1 DEF LInv, Shielded, Finished
<1>5. Evidence(r)'
  BY <1>1 DEF LInv, Evidence, Anchored
<1>. QED BY SMTT(30), Z3T(30), <1>1, <1>3, <1>4, <1>5 DEF LInv, Tracked

\* Settlement: no job can be there yet, so an overage opens one.
LEMMA SettleLife ==
    ASSUME TInv, MInv, NEW r \in Requests, LInv(r), Settle(r)
    PROVE  LInv(r)'
<1>. /\ pc \in [Requests -> GatewaySteps] /\ status \in [Requests -> Statuses]
     /\ resv \in [Requests -> ReservationStates] /\ quiet \in [Requests -> BOOLEAN]
     /\ charge \in [Requests -> Nat \cup {-1}] /\ job \in [Requests -> Jobs]
  BY DEF TInv, TypeOK, RowTypes, ProcessTypes
<1>1. PICK c \in Charges : SettleTx(r, c, OverageReason(r, c))
  BY DEF Settle
<1>2. /\ pc[r] = "settle" /\ pc'[r] \in {"settle", "unlease"} /\ UNCHANGED tries
  BY Zenon DEF Settle, Goto
<1>3. /\ resv[r] = "held" /\ status'[r] = "settled" /\ resv'[r] = "settled" /\ charge'[r] = c /\ quiet'[r] = FALSE
      /\ job'[r] = IF OverageReason(r, c) = "none" THEN job[r] ELSE Enqueue(job[r], OverageReason(r, c))
      /\ UNCHANGED <<att, leases, exec, cancelled>>
  BY Zenon, <1>1 DEF SettleTx, SettleCommits
<1>4. job[r].status = "none"
  BY ZenonT(60), <1>2, <1>3 DEF LInv, Shielded, Finished
<1>5. Agree(r)'
  BY ZenonT(60), <1>2, <1>3 DEF Agree
<1>6. Shielded(r)'
  BY Zenon, <1>2, <1>3 DEF Shielded
<1>7. Evidence(r)'
  BY ZenonT(60), <1>2, <1>3 DEF LInv, Evidence, Anchored
<1>8. Tracked(r)'
  BY <1>3, <1>4 DEF Tracked, OverageReason, Enqueue
<1>. QED BY ZenonT(60), <1>5, <1>6, <1>7, <1>8 DEF LInv

\* Parking: only a request that is not final moves, and it has an anchor.
LEMMA ParkLife ==
    ASSUME TInv, MInv, NEW r \in Requests, LInv(r), Park(r) \/ HoldForReconciliation(r)
    PROVE  LInv(r)'
<1>. /\ pc \in [Requests -> GatewaySteps] /\ status \in [Requests -> Statuses]
     /\ quiet \in [Requests -> BOOLEAN]
     /\ charge \in [Requests -> Nat \cup {-1}] /\ job \in [Requests -> Jobs]
  BY DEF TInv, TypeOK, RowTypes, ProcessTypes
<1>1. pc[r] \in {"park", "hold"} /\ pc'[r] \in {"unlease", "done"} /\ UNCHANGED tries
  BY DEF Park, HoldForReconciliation, Committed, Goto
<1>2. CASE ParkTx(r) /\ status[r] \notin Terminal
  <2>1. /\ status'[r] = "reconciliation_required" /\ job'[r] = Enqueue(job[r], "unknown_usage")
        /\ UNCHANGED <<resv, charge, att, leases, exec, cancelled>>
    BY Zenon, <1>2 DEF ParkTx, history
  <2>2. resv[r] = "held" /\ charge[r] = -1 /\ Anchored(r)
    BY ZenonT(60), <1>1, <1>2 DEF LInv, Agree, Evidence, MInv, ChargedIffConverted, Terminal
  <2>3. Agree(r)'
    BY ZenonT(60), <1>1, <2>1, <2>2 DEF Agree, Finished, Anchored
  <2>4. Shielded(r)'
    BY Zenon, <1>1 DEF Shielded, Finished
  <2>5. Evidence(r)'
    BY ZenonT(60), <1>1, <2>1, <2>2 DEF LInv, Evidence
  <2>6. Tracked(r)'
    BY SMTT(30), Z3T(30), <2>1, <2>2, AmountsNat DEF Tracked
  <2>. QED BY SMTT(30), Z3T(30), <2>3, <2>4, <2>5, <2>6 DEF LInv
<1>3. CASE SameRows(r)
  BY ZenonT(30), <1>1, <1>3 DEF SameRows, LInv, Agree, Shielded, Evidence, Tracked, Finished, Anchored
<1>4. ParkTx(r) \/ SameRows(r)
  BY Zenon DEF Park, HoldForReconciliation, Committed, NoTx, SameRows, requestVars, history
<1>5. ParkTx(r) /\ status[r] \in Terminal => SameRows(r)
  BY Zenon DEF ParkTx, SameRows, history
<1>. QED BY SMTT(30), Z3T(30), <1>2, <1>3, <1>4, <1>5

\* Release by the gateway, or by a worker that found no anchor.
LEMMA ReleaseTxLife ==
    ASSUME TInv, MInv, NEW r \in Requests, NEW f \in BOOLEAN, LInv(r), ReleaseTx(r, f),
           pc'[r] \in {"unlease", "done", "dead"}, tries'[r] = tries[r],
           exec[r] = {} \/ cancelled[r]
    PROVE  LInv(r)'
<1>. /\ status \in [Requests -> Statuses] /\ resv \in [Requests -> ReservationStates]
     /\ charge \in [Requests -> Nat \cup {-1}] /\ job \in [Requests -> Jobs]
  BY Zenon DEF TInv, TypeOK, RowTypes
<1>1. /\ status'[r] = "released" /\ resv'[r] = "released" /\ resv[r] = "held"
      /\ UNCHANGED <<charge, att, exec, cancelled>>
  BY ZenonT(60) DEF ReleaseTx, ReleaseCommits, history
<1>2. charge'[r] = -1
  BY <1>1 DEF MInv, ChargedIffConverted
<1>3. Agree(r)'
  BY Zenon, <1>1 DEF Agree
<1>4. Shielded(r)'
  BY Zenon, <1>1 DEF Shielded
<1>5. Evidence(r)'
  BY ZenonT(60), <1>1 DEF LInv, Evidence
<1>6. Tracked(r)'
  BY <1>2, AmountsNat DEF Tracked
<1>. QED BY ZenonT(60), <1>3, <1>4, <1>5, <1>6 DEF LInv

\* Release by the gateway: nothing was served, or the caller is gone.
LEMMA ReleaseLife ==
    ASSUME TInv, MInv, NEW r \in Requests, LInv(r), Release(r)
    PROVE  LInv(r)'
<1>. pc \in [Requests -> GatewaySteps]
  BY DEF TInv, TypeOK, ProcessTypes
<1>1. pc[r] = "release" /\ pc'[r] = "unlease" /\ tries' = tries
  BY DEF Release, Goto
<1>2. CASE ReleaseTx(r, FALSE)
  BY ZenonT(60), <1>1, <1>2, ReleaseTxLife DEF LInv, Evidence
<1>3. CASE NoTx
  <2>1. SameRows(r)
    BY Zenon, <1>3 DEF NoTx, SameRows, requestVars, history
  <2>. QED BY Zenon, <1>1, <2>1 DEF SameRows, LInv, Agree, Shielded, Evidence, Tracked, Finished, Anchored
<1>. QED BY ZenonT(60), <1>2, <1>3 DEF Release

\* EndLeases: the request is final, or left to the worker.
LEMMA EndLeasesLife ==
    ASSUME TInv, MInv, NEW r \in Requests, LInv(r), EndLeases(r)
    PROVE  LInv(r)'
<1>. pc \in [Requests -> GatewaySteps]
  BY DEF TInv, TypeOK, ProcessTypes
<1>1. /\ pc[r] = "unlease" /\ pc'[r] = "done"
      /\ UNCHANGED <<status, resv, charge, att, job, quiet, tries, exec, cancelled>>
  BY DEF EndLeases, Goto, history
<1>. QED BY ZenonT(60), <1>1 DEF LInv, Agree, Shielded, Evidence, Tracked, Finished, Anchored

\* Every gateway step keeps the invariant, also of what workers have picked.
LEMMA GatewayLife ==
    ASSUME TInv, MInv, CInv, NEW r \in Requests, GatewayStep(r)
    PROVE  CInv'
<1>1. LInv(r)'
  BY ZenonT(60), AdmitLife, MoveLife, PersistLife, FailedAttemptLife, MarkDispatchingLife, ServedAttemptLife,
     CancelledLife, StreamOpensLife, SettleLife, ParkLife, ReleaseLife, EndLeasesLife DEF GatewayStep, CInv
<1>2. ASSUME NEW s \in Requests, s # r PROVE LInv(s)'
  BY <1>2, GatewayIsLocal, UntouchedKeeps DEF CInv
<1>3. ASSUME NEW w \in Workers PROVE PickSound(w)'
  <2>1. pick' = pick
    BY ZenonT(60), GatewayKeepsPicks
  <2>. SUFFICES ASSUME pick[w] # Idle PROVE PickSound(w)'
    BY <2>1 DEF PickSound
  <2>2. pick[w].req \in Requests
    BY Zenon, PickedRequest DEF TInv, TypeOK
  <2>3. CASE pick[w].req # r
    BY ZenonT(60), <2>1, <2>2, <2>3, GatewayIsLocal DEF CInv, PickSound, Untouched, SameRows, Finished, Anchored
  <2>4. CASE pick[w].req = r
    <3>1. pc'[r] # "new"
      BY ZenonT(30), <2>4, NewOnlyOnce DEF CInv, PickSound, Next
    <3>2. ASSUME resv'[r] = "held" PROVE resv[r] = "held"
      <4>1. pc[r] # "new"
        BY Zenon, <2>4 DEF CInv, PickSound
      <4>2. \A s \in Requests, b \in [Kinds -> Rows] : AdmitTx(s, b) /\ pc[s] = "new" => resv'[r] = resv[r]
        BY ZenonT(60), <4>1, TransactionsAreLocal DEF SameRows
      <4>3. resv \in [Requests -> ReservationStates]
        BY SMTT(30), Z3T(30) DEF TInv, TypeOK, RowTypes
      <4>4. \A s \in Requests : (\E f \in BOOLEAN : ReleaseTx(s, f))
                                \/ (\E c \in Nat, q \in JobReasons : SettleTx(s, c, q)) => resv[r] = "held"
        BY SMTT(30), Z3T(30), <3>2, <4>3 DEF ReleaseTx, SettleTx
      <4>. QED BY ZenonT(60), <3>2, <4>2, <4>4, GatewayMoney DEF MoneyStep, moneyVars
    <3>3. ASSUME resv'[r] = "held" PROVE EndLeases(r)
      BY SMTT(30), Z3T(30), <2>4, <3>2, <3>3, FinishedStep DEF CInv, PickSound
    <3>4. pc \in [Requests -> GatewaySteps]
      BY DEF TInv, TypeOK, ProcessTypes
    <3>5. ASSUME EndLeases(r) PROVE pc'[r] = "done" /\ att' = att
      BY <3>4, <3>5 DEF EndLeases, Goto
    <3>. QED BY Zenon, <2>1, <2>4, <3>1, <3>2, <3>3, <3>5 DEF CInv, PickSound, Finished, Anchored
  <2>. QED BY <2>3, <2>4
<1>. QED BY ZenonT(60), <1>1, <1>2, <1>3 DEF CInv

\* Time, crashes and the upstream.
LEMMA EnvironmentLife ==
    ASSUME TInv, MInv, CInv, Environment, "stall" \notin Faults
    PROVE  CInv'
<1>. /\ pc \in [Requests -> GatewaySteps] /\ quiet \in [Requests -> BOOLEAN]
     /\ leases \in [Requests -> SUBSET {"account", "upstream"}] /\ exec \in [Requests -> SUBSET Attempts]
  BY DEF TInv, TypeOK, RowTypes, ProcessTypes
<1>. \A w \in Workers : pick[w] # Idle => pick[w].req \in Requests
  BY PickedRequest DEF TInv, TypeOK
<1>1. ASSUME NEW r \in Requests, UpstreamExecutes(r) PROVE CInv'
  <2>1. /\ pc[r] = "inflight" /\ exec'[r] = exec[r] \cup {tries[r]} /\ tries[r] \in Attempts
        /\ \A s \in Requests : s # r => exec'[s] = exec[s]
        /\ UNCHANGED <<status, resv, charge, att, job, leases, quiet, pc, tries, pick, cancelled>>
    BY <1>1 DEF UpstreamExecutes, TInv, OnAttempt, requestVars
  <2>2. LInv(r)'
    <3>1. Agree(r)' /\ Shielded(r)' /\ Tracked(r)'
      BY ZenonT(60), <2>1 DEF CInv, LInv, Agree, Shielded, Tracked, Finished, Anchored
    <3>2. Evidence(r)'
      BY SMTT(30), Z3T(30), <2>1 DEF CInv, LInv, Evidence, Anchored, Agree
    <3>. QED BY ZenonT(60), <3>1, <3>2 DEF LInv
  <2>3. \A s \in Requests : s # r => LInv(s)'
    BY ZenonT(60), <2>1, UntouchedKeeps DEF CInv, Untouched, SameRows
  <2>4. \A w \in Workers : PickSound(w)'
    BY ZenonT(60), <2>1 DEF CInv, PickSound, Finished, Anchored
  <2>. QED BY ZenonT(60), <2>2, <2>3, <2>4 DEF CInv
<1>2. ASSUME NEW r \in Requests, Crash(r) PROVE CInv'
  <2>1. /\ pc'[r] = "dead" /\ \A s \in Requests : s # r => pc'[s] = pc[s]
        /\ UNCHANGED <<status, resv, charge, att, job, leases, quiet, tries, pick, exec, cancelled>>
    BY ZenonT(60), <1>2 DEF Crash, Goto, requestVars, history
  <2>2. LInv(r)'
    BY <2>1 DEF CInv, LInv, Agree, Shielded, Evidence, Tracked, Finished, Anchored
  <2>3. \A s \in Requests : s # r => LInv(s)'
    BY ZenonT(60), <2>1, UntouchedKeeps DEF CInv, Untouched, SameRows
  <2>4. \A w \in Workers : PickSound(w)'
    BY SMTT(30), Z3T(30), <2>1 DEF CInv, PickSound, Finished, Anchored
  <2>. QED BY SMTT(30), Z3T(30), <2>2, <2>3, <2>4 DEF CInv
<1>3. ASSUME NEW r \in Requests, GraceElapses(r) \/ LeaseExpires(r) PROVE CInv'
  <2>1. /\ \/ leases' = leases /\ (Gone(r) \/ pc[r] = "streaming")
           \/ quiet' = quiet /\ Gone(r)
        /\ \A s \in Requests : s # r => quiet'[s] = quiet[s] /\ leases'[s] = leases[s]
        /\ UNCHANGED <<status, resv, charge, att, job, pc, tries, pick, exec, cancelled>>
    BY <1>3 DEF GraceElapses, LeaseExpires, history
  <2>2. LInv(r)'
    <3>1. Agree(r)' /\ Evidence(r)' /\ Tracked(r)'
      BY SMTT(30), Z3T(30), <2>1 DEF CInv, LInv, Agree, Evidence, Tracked, Finished, Anchored
    <3>2. Shielded(r)'
      BY Zenon, <2>1 DEF CInv, LInv, Shielded, Finished, Gone
    <3>. QED BY ZenonT(60), <3>1, <3>2 DEF LInv
  <2>3. \A s \in Requests : s # r => LInv(s)'
    BY Zenon, <2>1, UntouchedKeeps DEF CInv, Untouched, SameRows
  <2>4. \A w \in Workers : PickSound(w)'
    BY ZenonT(60), <2>1 DEF CInv, PickSound, Finished, Anchored
  <2>. QED BY <2>2, <2>3, <2>4 DEF CInv
<1>4. CASE SetAccountStatus \/ \E k \in Kinds : WindowEnds(k)
  <2>1. UNCHANGED <<status, resv, charge, att, job, leases, quiet, pc, tries, pick, exec, cancelled>>
    BY ZenonT(60), <1>4 DEF SetAccountStatus, WindowEnds, requestVars, history
  <2>2. \A s \in Requests : LInv(s)'
    BY SMTT(30), Z3T(30), <2>1, UntouchedKeeps DEF CInv, Untouched, SameRows
  <2>. QED BY <2>1, <2>2 DEF CInv, PickSound, Finished, Anchored
<1>. QED BY ZenonT(60), <1>1, <1>2, <1>3, <1>4 DEF Environment

\* The worker picks only finished calls, so its transactions find the call
\* where it was and the attempts as they were read.
LEMMA WorkerLife ==
    ASSUME TInv, MInv, CInv, NEW w \in Workers, Recover(w)
    PROVE  CInv'
<1>. /\ status \in [Requests -> Statuses] /\ resv \in [Requests -> ReservationStates]
     /\ charge \in [Requests -> Nat \cup {-1}] /\ job \in [Requests -> Jobs]
     /\ quiet \in [Requests -> BOOLEAN]
     /\ pick \in [Workers -> Picks]
  BY DEF TInv, TypeOK, RowTypes, ProcessTypes
<1>. \A v \in Workers : pick[v] # Idle => pick[v].req \in Requests
  BY PickedRequest DEF TInv, TypeOK
<1>1. pc' = pc /\ tries' = tries /\ \A v \in Workers : v # w => pick'[v] = pick[v]
  BY DEF Recover, Sweep, TakeJob, LoadEvidence, ReleaseProvenZero, SettleUnknownCharge, WorkerSkips
<1>2. CASE (\E r \in Requests : Sweep(w, r) \/ TakeJob(w, r)) \/ LoadEvidence(w) \/ WorkerSkips(w)
  <2>1. UNCHANGED <<status, resv, charge, att, job, leases, quiet, exec, cancelled>>
    BY ZenonT(60), <1>2 DEF Sweep, TakeJob, LoadEvidence, WorkerSkips, requestVars, history
  <2>2. \A s \in Requests : LInv(s)'
    BY ZenonT(60), <1>1, <2>1, UntouchedKeeps DEF CInv, Untouched, SameRows
  <2>3. \A v \in Workers : v # w => PickSound(v)'
    BY <1>1, <2>1 DEF CInv, PickSound, Finished, Anchored
  <2>4. PickSound(w)'
    <3>1. ASSUME NEW r \in Requests, Sweep(w, r) PROVE PickSound(w)'
      <4>1. resv[r] = "held" /\ quiet[r] /\ leases[r] = {}
        BY ZenonT(60), <3>1 DEF Sweep, Stale, CInv, LInv, Agree, OpenStatuses, ReservationStates
      <4>2. pc[r] \in GatewaySteps
        BY SMTT(30), Z3T(30) DEF TInv, TypeOK, ProcessTypes
      <4>3. Finished(r)
        BY <4>1, <4>2 DEF CInv, LInv, Shielded, Finished, GatewaySteps
      <4>4. pick'[w] = [req |-> r, via |-> "sweep", cls |-> "unread"]
        BY ZenonT(60), <3>1 DEF Sweep
      <4>5. pick'[w].req = r /\ pick'[w].cls # "not_sent"
        BY SMTT(30), Z3T(30), <4>4
      <4>6. pc[r] # "new"
        BY ZenonT(60), <4>3 DEF Finished
      <4>. QED BY ZenonT(60), <1>1, <2>1, <4>3, <4>5, <4>6 DEF PickSound, Finished
    <3>2. ASSUME NEW r \in Requests, TakeJob(w, r) PROVE PickSound(w)'
      <4>1. job[r].status # "none"
        BY ZenonT(60), <3>2 DEF TakeJob
      <4>2. pc[r] # "new" /\ (resv[r] = "held" => Finished(r))
        BY SMTT(30), Z3T(30), <4>1 DEF CInv, LInv, Shielded
      <4>3. pick'[w] = [req |-> r, via |-> "job", cls |-> "unread"]
        BY <3>2 DEF TakeJob
      <4>4. pick'[w].req = r /\ pick'[w].cls # "not_sent"
        BY SMTT(30), Z3T(30), <4>3
      <4>. QED BY ZenonT(60), <1>1, <2>1, <4>2, <4>4 DEF PickSound, Finished
    <3>3. CASE LoadEvidence(w)
      <4>1. \/ pick'[w] = Idle
            \/ pick'[w] = [pick[w] EXCEPT !.cls = Classify(pick[w].req)] /\ pick[w] # Idle
        BY <3>3 DEF LoadEvidence
      <4>2. CASE pick'[w] = [pick[w] EXCEPT !.cls = Classify(pick[w].req)] /\ pick[w] # Idle
        <5>1. pick'[w].req = pick[w].req /\ pick'[w].cls = Classify(pick[w].req)
          BY ZenonT(60), <4>2, PickedRequest DEF TInv, TypeOK
        <5>2. Classify(pick[w].req) = "not_sent" => ~Anchored(pick[w].req)
          BY ZenonT(60) DEF Classify, Anchored
        <5>. QED BY SMTT(30), Z3T(30), <1>1, <2>1, <4>2, <5>1, <5>2 DEF CInv, PickSound, Finished, Anchored
      <4>. QED BY <4>1, <4>2 DEF PickSound
    <3>4. CASE WorkerSkips(w)
      BY <3>4 DEF WorkerSkips, PickSound
    <3>. QED BY ZenonT(60), <1>2, <3>1, <3>2, <3>3, <3>4
  <2>. QED BY <2>2, <2>3, <2>4 DEF CInv
<1>3. ASSUME NEW r \in Requests, r = pick[w].req, pick[w] # Idle, pick'[w] = Idle, resv[r] = "held", resv'[r] # "held",
             LInv(r)', \A s \in Requests : s # r => SameRows(s)
      PROVE  CInv'
  <2>1. \A s \in Requests : LInv(s)'
    BY ZenonT(60), <1>1, <1>3, UntouchedKeeps DEF CInv, Untouched
  <2>2. \A v \in Workers : PickSound(v)'
    BY <1>1, <1>3 DEF CInv, PickSound, SameRows, Finished, Anchored
  <2>. QED BY Zenon, <2>1, <2>2 DEF CInv
<1>4. CASE ReleaseProvenZero(w)
  <2>1. pick[w] # Idle /\ pick[w].cls = "not_sent" /\ pick'[w] = Idle
    BY <1>4 DEF ReleaseProvenZero, Idle
  <2>2. PICK r \in Requests, f \in BOOLEAN : r = pick[w].req /\ ReleaseTx(r, f)
    BY ZenonT(60), <1>4, <2>1 DEF ReleaseProvenZero
  <2>3. resv[r] = "held" /\ resv'[r] = "released"
    BY <2>1, <2>2 DEF ReleaseTx, ReleaseCommits
  <2>4. Finished(r) /\ ~Anchored(r)
    BY ZenonT(60), <2>1, <2>2, <2>3 DEF CInv, PickSound
  <2>5. exec[r] = {} \/ cancelled[r]
    BY ZenonT(30), <2>2, <2>4 DEF CInv, LInv, Evidence, Anchored
  <2>6. LInv(r)'
    BY ZenonT(60), <1>1, <2>1, <2>2, <2>4, <2>5, ReleaseTxLife DEF CInv, Finished
  <2>7. \A s \in Requests : s # r => SameRows(s)
    BY ZenonT(60), <2>1, <2>2, TransactionsAreLocal
  <2>. QED BY ZenonT(60), <1>3, <2>1, <2>2, <2>3, <2>6, <2>7
<1>5. CASE SettleUnknownCharge(w)
  <2>1. pick[w] # Idle /\ pick'[w] = Idle
    BY SMTT(30), Z3T(30), <1>5 DEF SettleUnknownCharge, Idle
  <2>2. PICK r \in Requests : r = pick[w].req /\ SettleTx(r, Hold[r], "crash_recovery")
    BY Zenon, <1>5, <2>1 DEF SettleUnknownCharge
  <2>3. /\ resv[r] = "held" /\ resv'[r] = "settled" /\ status'[r] = "settled" /\ charge'[r] = Hold[r]
        /\ UNCHANGED <<att, leases, exec, cancelled>>
    BY ZenonT(60), <2>1, <2>2 DEF SettleTx, SettleCommits
  <2>4. Finished(r)
    BY ZenonT(60), <2>1, <2>2, <2>3 DEF CInv, PickSound
  <2>5. LInv(r)'
    <3>1. Agree(r)'
      BY ZenonT(60), <1>1, <2>3, <2>4 DEF Agree, Finished
    <3>2. Shielded(r)'
      BY ZenonT(60), <1>1, <2>3, <2>4 DEF Shielded, Finished
    <3>3. Evidence(r)'
      BY ZenonT(60), <1>1, <2>2, <2>3, <2>4 DEF CInv, LInv, Evidence, Finished
    <3>4. Tracked(r)'
      BY SMTT(30), Z3T(30), <2>2, <2>3, AmountsNat DEF Tracked
    <3>. QED BY ZenonT(60), <3>1, <3>2, <3>3, <3>4 DEF LInv
  <2>6. \A s \in Requests : s # r => SameRows(s)
    BY ZenonT(60), <2>1, <2>2, TransactionsAreLocal
  <2>. QED BY ZenonT(60), <1>3, <2>1, <2>2, <2>3, <2>5, <2>6
<1>. QED BY SMTT(30), Z3T(30), <1>2, <1>4, <1>5 DEF Recover

\* Escalation changes the job and nothing that a worker relies on.
LEMMA EscalateLife ==
    ASSUME TInv, CInv, NEW r \in Requests, Escalate(r)
    PROVE  CInv'
<1>0. job \in [Requests -> Jobs]
  BY Zenon DEF TInv, TypeOK, RowTypes
<1>1. /\ job[r].status = "pending" /\ job'[r].status = "escalated"
      /\ \A s \in Requests : s # r => job'[s] = job[s]
  BY <1>0 DEF Escalate, Escalated, Jobs
<1>2. UNCHANGED <<status, resv, charge, att, leases, quiet, pc, tries, pick, exec, cancelled>>
  BY Zenon DEF Escalate, history
<1>3. LInv(r)'
  <2>1. Agree(r) /\ Shielded(r) /\ Evidence(r) /\ Tracked(r)
    BY Zenon DEF CInv, LInv
  <2>2. Agree(r)'
    BY ZenonT(60), <1>2, <2>1 DEF Agree, Finished, Anchored
  <2>3. Shielded(r)'
    BY ZenonT(60), <1>1, <1>2, <2>1 DEF Shielded, Finished
  <2>4. Evidence(r)'
    BY ZenonT(60), <1>2, <2>1 DEF Evidence, Anchored
  <2>5. Tracked(r)'
    BY ZenonT(60), <1>1, <1>2, <2>1 DEF Tracked
  <2>. QED BY ZenonT(60), <2>2, <2>3, <2>4, <2>5 DEF LInv
<1>4. \A s \in Requests : s # r => LInv(s)'
  BY ZenonT(60), <1>1, <1>2, UntouchedKeeps DEF CInv, Untouched, SameRows
<1>5. \A w \in Workers : PickSound(w)'
  BY ZenonT(60), <1>1, <1>2 DEF CInv, PickSound, Finished, Anchored
<1>. QED BY SMTT(30), Z3T(30), <1>3, <1>4, <1>5 DEF CInv

\* The life-cycle invariant holds in every reachable state.
LEMMA LifeHolds ==
    ASSUME "stall" \notin Faults
    PROVE  Spec => [](TInv /\ MInv /\ CInv)
<1>1. Init => CInv
  <2>. SUFFICES ASSUME Init PROVE CInv
    OBVIOUS
  <2>1. \A w \in Workers : PickSound(w)
    BY Zenon DEF Init, PickSound
  <2>2. ASSUME NEW r \in Requests PROVE LInv(r)
    <3>1. /\ status[r] = "absent" /\ resv[r] = "none" /\ charge[r] = -1 /\ pc[r] = "new"
          /\ exec[r] = {} /\ leases[r] = {} /\ quiet[r] = FALSE /\ job[r] = NoJob
      BY ZenonT(60) DEF Init
    <3>2. Agree(r)
      BY SMTT(30), Z3T(30), <3>1 DEF Agree
    <3>3. Shielded(r)
      BY SMTT(30), Z3T(30), <3>1 DEF Shielded, NoJob
    <3>4. Evidence(r)
      BY SMTT(30), Z3T(30), <3>1 DEF Evidence
    <3>5. Tracked(r)
      BY SMTT(30), Z3T(30), <3>1, AmountsNat DEF Tracked
    <3>. QED BY SMTT(30), Z3T(30), <3>2, <3>3, <3>4, <3>5 DEF LInv
  <2>. QED BY SMTT(30), Z3T(30), <2>1, <2>2 DEF CInv
<1>2. TInv /\ MInv /\ CInv /\ [Next]_vars => CInv'
  <2>. SUFFICES ASSUME TInv, MInv, CInv, [Next]_vars PROVE CInv'
    OBVIOUS
  <2>1. CASE UNCHANGED vars
    <3>1. UNCHANGED <<status, resv, charge, att, job, leases, quiet, pc, tries, pick, exec, cancelled>>
      BY SMTT(30), Z3T(30), <2>1 DEF vars, requestVars, history
    <3>2. \A s \in Requests : LInv(s)'
      BY <3>1, UntouchedKeeps DEF CInv, Untouched, SameRows
    <3>. QED BY ZenonT(60), <3>1, <3>2 DEF CInv, PickSound, Finished, Anchored
  <2>. QED BY SMTT(30), Z3T(30), <2>1, GatewayLife, EnvironmentLife, WorkerLife, EscalateLife DEF Next
<1>. QED BY <1>1, <1>2, BooksHold, PTL DEF Spec

\* Status, reservations and recovery agree, for every mix of crashes, storage
\* failures and suspensions: a request row is settled or released exactly when
\* its hold is.
THEOREM StatusMatchesHold ==
    ASSUME "stall" \notin Faults PROVE Spec => []FinalAgrees
<1>1. CInv => FinalAgrees
  BY ZenonT(60) DEF CInv, LInv, Agree, FinalAgrees
<1>. QED BY <1>1, LifeHolds, PTL

\* The guards of ListStaleOpenRequests keep the worker off live calls.
THEOREM RecoveryOnlyAfterTheCall ==
    ASSUME "stall" \notin Faults PROVE Spec => []RecoveredIsGone
<1>1. CInv => RecoveredIsGone
  BY SMTT(30), Z3T(30) DEF CInv, PickSound, RecoveredIsGone, Finished, Gone
<1>. QED BY <1>1, LifeHolds, PTL

\* What the upstream has executed while the call is still choosing candidates.
OInv ==
    \A r \in Requests :
        /\ pc[r] \in {"new", "route", "checks"} => exec[r] = {}
        /\ pc[r] = "inflight" => exec[r] \subseteq {tries[r]}
        /\ exec[r] = {} \/ \E i \in Attempts : exec[r] = {i}

\* The call returns to its candidates only after an attempt that was not served.
LEMMA GatewayExecutes ==
    ASSUME TInv, OInv, NEW r \in Requests, GatewayStep(r)
    PROVE  OInv'
<1>. pc \in [Requests -> GatewaySteps] /\ tries \in [Requests -> 0..MaxAttempts]
  BY DEF TInv, TypeOK, ProcessTypes
<1>1. UNCHANGED exec
  <2>1. CASE Admit(r) \/ Settle(r) \/ Release(r) \/ Park(r) \/ HoldForReconciliation(r)
    BY ZenonT(60), <2>1 DEF Admit, Settle, Release, Park, HoldForReconciliation, Committed,
          AdmitTx, SettleTx, ReleaseTx, ParkTx, NoTx, history
  <2>2. CASE \/ AdmitRejected(r) \/ NoCandidate(r) \/ SkipCandidate(r) \/ PersistAttempt(r)
             \/ SettleConflicts(r) \/ SettleFails(r)
    BY ZenonT(60), <2>2 DEF AdmitRejected, NoCandidate, SkipCandidate, PersistAttempt, SettleConflicts,
          SettleFails, Committed, NoTx, history
  <2>3. CASE \/ PreDispatchFails(r) \/ MarkDispatching(r) \/ DispatchRejected(r) \/ DispatchUnknown(r)
             \/ DispatchCancelled(r) \/ DispatchCompleted(r) \/ StreamOpens(r) \/ StreamEnds(r) \/ EndLeases(r)
    BY ZenonT(60), <2>3 DEF PreDispatchFails, MarkDispatching, DispatchRejected, DispatchUnknown,
          DispatchCancelled, DispatchCompleted, StreamOpens, StreamEnds, EndLeases, history
  <2>. QED BY <2>1, <2>2, <2>3 DEF GatewayStep
<1>2. \A s \in Requests \ {r} : pc'[s] = pc[s] /\ tries'[s] = tries[s]
  BY GatewayIsLocal DEF Untouched
<1>3. \/ pc'[r] \in {"new", "route", "checks", "inflight"} => exec[r] = {}
      \/ pc'[r] = pc[r] /\ tries'[r] = tries[r]
  <2>1. CASE pc[r] \in {"new", "route", "checks"}
    BY <2>1 DEF OInv
  <2>2. CASE pc[r] = "inflight"
    <3>1. \/ DispatchRejected(r) \/ DispatchUnknown(r) \/ DispatchCancelled(r)
          \/ DispatchCompleted(r) \/ StreamOpens(r)
      BY ZenonT(60), <2>2 DEF GatewayStep, Admit, AdmitRejected, NoCandidate, SkipCandidate, PersistAttempt,
            PreDispatchFails, MarkDispatching, StreamEnds, Settle, SettleConflicts, SettleFails, Park,
            HoldForReconciliation, Release, EndLeases
    <3>2. CASE DispatchRejected(r)
      BY <2>2, <3>2 DEF DispatchRejected, OInv
    <3>3. CASE DispatchUnknown(r) \/ DispatchCancelled(r) \/ DispatchCompleted(r) \/ StreamOpens(r)
      <4>1. pc'[r] \in {"hold", "release", "settle", "streaming"}
        BY <3>3 DEF DispatchUnknown, DispatchCancelled, DispatchCompleted, StreamOpens, Goto
      <4>. QED BY <4>1
    <3>. QED BY <3>1, <3>2, <3>3
  <2>3. CASE pc[r] \notin {"new", "route", "checks", "inflight"}
    <3>1. \/ StreamEnds(r) \/ Settle(r) \/ SettleConflicts(r) \/ SettleFails(r) \/ Park(r)
          \/ HoldForReconciliation(r) \/ Release(r) \/ EndLeases(r)
      BY ZenonT(60), <2>3 DEF GatewayStep, Admit, AdmitRejected, NoCandidate, SkipCandidate, PersistAttempt,
            PreDispatchFails, MarkDispatching, DispatchRejected, DispatchUnknown, DispatchCancelled,
            DispatchCompleted, StreamOpens
    <3>2. UNCHANGED tries /\ (UNCHANGED pc \/ \E step \in {"settle", "park", "unlease", "done"} : Goto(r, step))
      BY ZenonT(60), <3>1 DEF StreamEnds, Settle, SettleConflicts, SettleFails, Park, HoldForReconciliation,
            Release, EndLeases, Committed
    <3>. QED BY <3>2 DEF Goto
  <2>. QED BY <2>1, <2>2, <2>3
<1>. QED BY <1>1, <1>2, <1>3 DEF OInv

\* The upstream serves a call once; nothing else is executed.
LEMMA OthersExecute ==
    ASSUME TInv, OInv, [Next]_vars, \A r \in Requests : ~GatewayStep(r)
    PROVE  OInv'
<1>. /\ pc \in [Requests -> GatewaySteps] /\ exec \in [Requests -> SUBSET Attempts] /\ OnAttempt
  BY DEF TInv, TypeOK, RowTypes, ProcessTypes
<1>1. ASSUME NEW r \in Requests, UpstreamExecutes(r) PROVE OInv'
  <2>1. exec[r] = {} /\ tries[r] \in Attempts /\ pc[r] = "inflight"
    BY <1>1 DEF UpstreamExecutes, OInv, OnAttempt
  <2>2. exec' = [exec EXCEPT ![r] = exec[r] \cup {tries[r]}] /\ UNCHANGED <<pc, tries>>
    BY <1>1 DEF UpstreamExecutes
  <2>3. exec'[r] = {tries[r]} /\ \A s \in Requests \ {r} : exec'[s] = exec[s]
    BY <2>1, <2>2
  <2>. QED BY <2>1, <2>2, <2>3 DEF OInv
<1>2. ASSUME NEW r \in Requests, Crash(r) PROVE OInv'
  <2>1. UNCHANGED <<exec, tries>> /\ Goto(r, "dead")
    BY <1>2 DEF Crash, history
  <2>. QED BY <2>1 DEF OInv, Goto
<1>3. ASSUME UNCHANGED <<pc, tries, exec>> PROVE OInv'
  BY <1>3 DEF OInv
<1>4. CASE Environment
  <2>1. CASE \/ \E r \in Requests : GraceElapses(r) \/ LeaseExpires(r)
             \/ (\E k \in Kinds : WindowEnds(k)) \/ SetAccountStatus
    BY ZenonT(60), <1>3, <2>1 DEF GraceElapses, LeaseExpires, WindowEnds, SetAccountStatus, history
  <2>. QED BY <1>1, <1>2, <1>4, <2>1 DEF Environment
<1>5. ASSUME NEW w \in Workers, Recover(w) PROVE OInv'
  BY ZenonT(60), <1>3, <1>5 DEF Recover, Sweep, TakeJob, LoadEvidence, ReleaseProvenZero, SettleUnknownCharge,
        WorkerSkips, ReleaseTx, SettleTx, history
<1>6. CASE UNCHANGED vars \/ \E r \in Requests : Escalate(r)
  BY ZenonT(60), <1>3, <1>6 DEF vars, Escalate, history
<1>. QED BY <1>4, <1>5, <1>6 DEF Next

\* The dispatch loop never has the upstream execute a request twice, also when
\* its process stalls and recovery overtakes it.
THEOREM AtMostOneExecution == Spec => []ExecutedOnce
<1>1. Init => OInv
  BY DEF Init, OInv
<1>2. TInv /\ OInv /\ [Next]_vars => OInv'
  BY GatewayExecutes, OthersExecute
<1>3. OInv => ExecutedOnce
  <2>. SUFFICES ASSUME OInv, NEW r \in Requests PROVE Cardinality(exec[r]) <= 1
    BY DEF ExecutedOnce
  <2>1. exec[r] = {} \/ \E i \in Attempts : exec[r] = {i}
    BY DEF OInv
  <2>2. Cardinality(exec[r]) = 0 \/ Cardinality(exec[r]) = 1
    BY <2>1, FS_EmptySet, FS_Singleton, ZenonT(60)
  <2>. QED BY <2>2
<1>. QED BY <1>1, <1>2, <1>3, TypesHold, PTL DEF Spec

\* Only a request whose caller went away is released after it was served.
THEOREM ReleasesWereUnserved ==
    ASSUME "stall" \notin Faults PROVE Spec => []ReleasedUnserved
<1>1. CInv => ReleasedUnserved
  BY ZenonT(60) DEF CInv, LInv, Evidence, ReleasedUnserved
<1>. QED BY <1>1, LifeHolds, PTL

\* The worker finds an attempt to charge for every parked request.
THEOREM ParkedRequestsAnchored ==
    ASSUME "stall" \notin Faults PROVE Spec => []ParkedHasAnchor
<1>1. CInv => ParkedHasAnchor
  BY ZenonT(60) DEF CInv, LInv, Agree, Anchored, ParkedHasAnchor, Classify
<1>. QED BY <1>1, LifeHolds, PTL

\* No request is settled above its hold without its anomaly job.
THEOREM OveragesTracked ==
    ASSUME "stall" \notin Faults PROVE Spec => []OverageTracked
<1>1. CInv => OverageTracked
  BY DEF CInv, LInv, Tracked, OverageTracked
<1>. QED BY <1>1, LifeHolds, PTL

\* Recovery is sound for every number of requests, workers and attempts, with a
\* process that may crash, lose answers and be suspended, but outlives no grace.
THEOREM RecoveryIsSound ==
    ASSUME "stall" \notin Faults PROVE Spec => []RecoverySound
<1>1. FinalAgrees /\ ReleasedUnserved /\ ParkedHasAnchor /\ RecoveredIsGone /\ OverageTracked => RecoverySound
  BY DEF RecoverySound
<1>. QED BY <1>1, StatusMatchesHold, ReleasesWereUnserved, ParkedRequestsAnchored, RecoveryOnlyAfterTheCall,
            OveragesTracked, PTL

\* Terminal statuses are final although UpdateRequestStatus checks nothing:
\* the gateway writes a marker only while it still has the hold.
THEOREM TerminalStatusFinal ==
    ASSUME "stall" \notin Faults PROVE Spec => TerminalFinal
<1>1. TInv /\ MInv /\ CInv /\ [Next]_vars
        => [\A r \in Requests : status[r] \in Terminal => status'[r] = status[r]]_vars
  <2>. SUFFICES ASSUME TInv, MInv, CInv, Next, NEW r \in Requests, status[r] \in Terminal
                PROVE  status'[r] = status[r]
    OBVIOUS
  <2>1. resv[r] \in {"settled", "released"}
    BY ZenonT(60) DEF CInv, LInv, Agree, Terminal
  <2>2. pc[r] \notin {"new", "route", "checks", "inflight", "streaming", "hold", "release"}
    BY <2>1 DEF CInv, LInv, Agree, MInv
  <2>3. ASSUME NEW s \in Requests, GatewayStep(s) PROVE status'[r] = status[r]
    <3>1. CASE s # r
      BY ZenonT(60), <2>3, <3>1, GatewayIsLocal DEF Untouched, SameRows
    <3>2. CASE s = r
      <4>1. \/ Settle(r) \/ SettleConflicts(r) \/ SettleFails(r) \/ Park(r) \/ EndLeases(r)
        BY ZenonT(60), <2>2, <2>3, <3>2 DEF GatewayStep, Admit, AdmitRejected, NoCandidate, SkipCandidate,
              PersistAttempt, PreDispatchFails, MarkDispatching, DispatchRejected, DispatchUnknown,
              DispatchCancelled, DispatchCompleted, StreamOpens, StreamEnds, HoldForReconciliation, Release
      <4>2. ~Settle(r)
        BY Zenon DEF Settle, SettleTx, SettleCommits
      <4>. QED BY ZenonT(60), <4>1, <4>2 DEF SettleConflicts, SettleFails, Park, EndLeases, Committed, ParkTx, NoTx, requestVars
    <3>. QED BY ZenonT(60), <3>1, <3>2
  <2>4. ASSUME NEW w \in Workers, Recover(w) PROVE status'[r] = status[r]
    <3>1. CASE (\E s \in Requests : Sweep(w, s) \/ TakeJob(w, s)) \/ LoadEvidence(w) \/ WorkerSkips(w)
      BY <3>1 DEF Sweep, TakeJob, LoadEvidence, WorkerSkips, requestVars
    <3>2. status \in [Requests -> Statuses]
      BY ZenonT(60) DEF TInv, TypeOK, RowTypes
    <3>3. CASE ReleaseProvenZero(w)
      BY ZenonT(60), <3>2, <3>3 DEF ReleaseProvenZero, ReleaseTx, ReleaseCommits
    <3>4. CASE SettleUnknownCharge(w)
      BY ZenonT(60), <3>2, <3>4 DEF SettleUnknownCharge, SettleTx, SettleCommits
    <3>. QED BY ZenonT(60), <2>4, <3>1, <3>3, <3>4 DEF Recover
  <2>5. ASSUME Environment \/ \E s \in Requests : Escalate(s) PROVE status'[r] = status[r]
    BY Zenon, <2>5 DEF Environment, UpstreamExecutes, Crash, GraceElapses, LeaseExpires, WindowEnds, SetAccountStatus,
                Escalate, requestVars
  <2>. QED BY ZenonT(60), <2>3, <2>4, <2>5 DEF Next
<1>. QED BY <1>1, LifeHolds, PTL DEF Spec, TerminalFinal

=============================================================================
