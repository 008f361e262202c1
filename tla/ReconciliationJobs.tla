------------------------- MODULE ReconciliationJobs -------------------------
(***************************************************************************)
(* The rows of inference_reconciliation_jobs that are scoped to a request: *)
(* at most one per request (UNIQUE(request_id)), updated by an upsert.     *)
(* Deadlines and the detail document are abstracted: a deadline passes     *)
(* when Escalate is taken, and detail is kept only as far as the reason.   *)
(* The status 'running' of the schema is written by no code path.          *)
(***************************************************************************)

JobReasons == {"none", "unknown_usage", "crash_recovery", "settlement_overage"}

JobStatuses == {"none", "pending", "escalated", "resolved"}

Jobs == [status : JobStatuses, reason : JobReasons]

NoJob == [status |-> "none", reason |-> "none"]

\* A reason that differs from the reason of a closed job is new information.
Reopens(j, reason) ==
    /\ j.status \in {"resolved", "escalated"}
    /\ j.reason # reason

\* EnqueueReconciliationJobTx for a request: insert, reopen, or merge the
\* detail into the row that is there.
Enqueue(j, reason) ==
    IF j.status = "none" \/ Reopens(j, reason)
    THEN [status |-> "pending", reason |-> reason]
    ELSE j

\* UPDATE ... SET status = 'resolved' WHERE status is open, as Release and
\* CorrectSettlement do it.
ResolveOpen(j) ==
    IF j.status = "pending" THEN [j EXCEPT !.status = "resolved"] ELSE j

\* EscalateOverdueReconciliationJobs on an open job past its deadline.
Escalated(j) == [j EXCEPT !.status = "escalated"]

=============================================================================
