---------------------------- MODULE BatchImageRepo ----------------------------
(* The rows of batch_image_jobs and the statements that write them           *)
(* (repository/batch_image_repo.go).  Each operator is one statement or one  *)
(* transaction and reports its outcome in out: "ok", a refusal of its own,   *)
(* or "error".  An error may roll back (FaultOps) or, when the connection    *)
(* drops after the commit, hide a write that took effect (LostAcks).         *)
EXTENDS BatchImageJob, Naturals

CONSTANTS Items,        \* item_count of every job
          MaxRetries,   \* batchImageSettlementMaxRetries
          FaultOps,     \* operations that may fail without effect
          LostAcks      \* operations that may take effect and still report an error

ASSUME RepoAssumption == Items \in Nat /\ MaxRetries \in Nat \ {0}

VARIABLE job            \* job[j]: the columns of the row that the handlers read

NoRow == [status |-> "none", provider |-> FALSE, success |-> 0, retry |-> 0,
          lastError |-> "none", stale |-> FALSE, hidden |-> FALSE]

Row == [status : Statuses \union {"none"},
        provider : BOOLEAN,                          \* provider_job_name is set
        success : 0..Items,                          \* success_count
        retry : 0..MaxRetries,                       \* retry_count, saturated at the limit
        lastError : {"none", "SETTLEMENT", "other"}, \* class of last_error_code
        stale : BOOLEAN,                             \* updated_at <= the recovery's cutoff
        hidden : BOOLEAN]                            \* user_deleted_at is set

RepoInit == job = [j \in Jobs |-> NoRow]

Commits(op, out) == out = "ok" \/ (out = "error" /\ op \in LostAcks)
RollsBack(op, out) == out = "error" /\ op \in FaultOps /\ UNCHANGED job

\* Every write sets updated_at, so the row leaves the range of an earlier cutoff.
Write(j, row) == job' = [job EXCEPT ![j] = [row EXCEPT !.stale = FALSE]]

\* A wrong variant: uploading rows are not looked at.
UnsubmittedCreated(j) == job[j].status = "created" /\ ~job[j].provider

Unsubmitted(j) == job[j].status \in {"created", "uploading"} /\ ~job[j].provider

-----------------------------------------------------------------------------
CreateBatchImageJob(j) ==
    /\ job[j] = NoRow
    /\ Write(j, [NoRow EXCEPT !.status = "created"])

\* SELECT ... FOR UPDATE, check the transition, UPDATE.
TransitionBatchImageJobStatus(j, to, code, out) ==
    \/ /\ Commits("transition", out)
       /\ CanTransition(job[j].status, to)
       /\ Write(j, [job[j] EXCEPT !.status = to,
                                  !.lastError = IF to = "failed" THEN code ELSE @])
    \/ /\ out = "invalid"
       /\ ~CanTransition(job[j].status, to)
       /\ UNCHANGED job
    \/ RollsBack("transition", out)

TouchBatchImageJobSubmitting(j) ==
    /\ job[j].status \in {"created", "uploading"}
    /\ Write(j, job[j])

\* A wrong variant: the listing is trusted.
FailListed(j, out) ==
    \/ /\ Commits("fail_stale", out)
       /\ Write(j, [job[j] EXCEPT !.status = "failed", !.lastError = "other"])
    \/ RollsBack("fail_stale", out)

\* One UPDATE that re-checks everything the listing selected on.
FailStaleUnsubmittedBatchImageJob(j, out) ==
    \/ /\ Commits("fail_stale", out)
       /\ Unsubmitted(j) /\ job[j].stale
       /\ Write(j, [job[j] EXCEPT !.status = "failed", !.lastError = "other"])
    \/ /\ out = "not_applied"
       /\ ~(Unsubmitted(j) /\ job[j].stale)
       /\ UNCHANGED job
    \/ RollsBack("fail_stale", out)

UpdateBatchImageJobProviderSubmit(j, out) ==
    \/ /\ Commits("provider_submit", out)
       /\ CanTransition(job[j].status, "submitted")
       /\ Write(j, [job[j] EXCEPT !.status = "submitted", !.provider = TRUE])
    \/ /\ out = "invalid"
       /\ ~CanTransition(job[j].status, "submitted")
       /\ UNCHANGED job
    \/ RollsBack("provider_submit", out)

\* Overwrites the status without looking at it.
RecordBatchImageJobSubmitFailure(j, markFailed, out) ==
    \/ /\ Commits("record_failure", out)
       /\ Write(j, [job[j] EXCEPT !.status = IF markFailed THEN "failed" ELSE @,
                                  !.lastError = "other"])
    \/ RollsBack("record_failure", out)

MarkBatchImageJobUserDeleted(j) ==
    IF ~job[j].hidden /\ IsTerminal(job[j].status)
    THEN Write(j, [job[j] EXCEPT !.hidden = TRUE])
    ELSE UNCHANGED job

\* Replaces the item table and the counts, only while the job is indexing.
ReplaceBatchImageItemsForJob(j, success, out) ==
    \/ /\ Commits("index", out)
       /\ job[j].status = "indexing"
       /\ Write(j, [job[j] EXCEPT !.success = success])
    \/ /\ out = "state_conflict"
       /\ job[j].status # "indexing"
       /\ UNCHANGED job
    \/ RollsBack("index", out)

MarkBatchImageJobSettled(j, out) ==
    \/ /\ Commits("mark_settled", out)
       /\ job[j].status = "settling"
       /\ Write(j, [job[j] EXCEPT !.status = "completed"])
    \/ /\ out = "invalid"
       /\ job[j].status # "settling"
       /\ UNCHANGED job
    \/ RollsBack("mark_settled", out)

SetBatchImageJobSettlementFailed(j, out) ==
    \/ /\ Commits("settlement_failed", out)
       /\ Write(j, [job[j] EXCEPT !.retry = IF @ < MaxRetries THEN @ + 1 ELSE @,
                                  !.lastError = "SETTLEMENT"])
    \/ RollsBack("settlement_failed", out)

MarkBatchImageOutputDeleted(j) ==
    Write(j, [job[j] EXCEPT !.status = IF @ = "completed" THEN "output_deleted" ELSE @])

\* Time passes the recovery's cutoff without a write to the row.
Ages(j) ==
    /\ job[j].status # "none" /\ ~job[j].stale
    /\ job' = [job EXCEPT ![j].stale = TRUE]
=============================================================================
