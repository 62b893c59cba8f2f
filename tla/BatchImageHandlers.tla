-------------------------- MODULE BatchImageHandlers --------------------------
(* The processes that create, cancel and recover batch image jobs, over the  *)
(* job rows (BatchImageRepo), the hold ledger (BatchImageLedger) and the     *)
(* Redis queue (BatchImageQueue).  A step is one database transaction, one   *)
(* Redis call or one call of the upstream provider, so that handlers         *)
(* interleave wherever they read and later write.                            *)
EXTENDS BatchImageRepo, BatchImageLedger, BatchImageQueue

CONSTANTS Price,        \* billable_unit_price of an image
          DiesAt,       \* handler steps at which a process may die or lose its request context
          SlowSubmit,   \* TRUE: a live submission may outlast the recovery's cutoff
          ClientOps     \* what owners do: subset of {"cancel", "resubmit", "delete"}

ASSUME PipelineAssumption ==
    /\ Price \in Nat
    /\ \A n \in 0..Items : Price * n \in Amounts
    /\ {"request", "manifest"} \subseteq Payloads
    /\ "idle" \notin DiesAt          \* who has not started cannot die

VARIABLES upstream,     \* the provider's batch job (external)
          sub,          \* Submit of each job: the next step
          client,       \* the owner's other calls on each job
          rec,          \* the billing recovery's work on each job
          wstep         \* inside Process: the next step of each worker

procVars == <<sub, client, rec, wstep>>
vars == <<job, ledgerVars, queueVars, upstream, procVars>>

Init ==
    /\ RepoInit /\ LedgerInit /\ QueueInit
    /\ upstream = [j \in Jobs |-> "none"]
    /\ sub = [j \in Jobs |-> "idle"]
    /\ client = [j \in Jobs |-> "idle"]
    /\ rec = [j \in Jobs |-> "idle"]
    /\ wstep = [w \in Workers |-> "none"]

Fault(op) == op \in FaultOps

-----------------------------------------------------------------------------
(* service/batch_image_billing_hold.go: a job without a hold skips reserve    *)
(* and release, and a release that conflicts counts as already released.     *)

LedgerCall(op, ok, call(_), good) ==
    \/ \E res \in Outcomes : call(res) /\ ok = (res \in good)
    \/ ~ok /\ Fault(op) /\ UNCHANGED ledgerVars
    \/ ~ok /\ op \in LostAcks /\ \E res \in good : call(res)

reserveBatchImageBalanceHold(j, ok) ==
    IF Hold[j] = 0
    THEN ok /\ UNCHANGED ledgerVars
    ELSE LET call(res) == ReserveBatchImageBalance(j, "request", res)
         IN  LedgerCall("reserve", ok, call, {"ok"})

captureBatchImageBalanceHold(j, ok) ==
    LET call(res) == CaptureBatchImageBalance(j, "manifest", Price * job[j].success, res)
    IN  LedgerCall("capture", ok, call, {"ok"})

releaseBatchImageBalanceHold(j, ok) ==
    IF Hold[j] = 0
    THEN ok /\ UNCHANGED ledgerVars
    ELSE LET call(res) == ReleaseBatchImageBalance(j, "request", res)
         IN  LedgerCall("release", ok, call, {"ok", "conflict"})

\* enqueueBillingRetry and enqueueReleaseRetry: a failing Redis is only logged.
EnqueueBestEffort(j) ==
    \/ Enqueue(j)
    \/ Fault("enqueue") /\ UNCHANGED queueVars

\* The two calls of Enqueue that report an error; the job may be queued all the same.
EnqueueReported(j, ok) ==
    \/ Enqueue(j) /\ (ok \/ "enqueue" \in LostAcks)
    \/ ~ok /\ Fault("enqueue") /\ UNCHANGED queueVars

-----------------------------------------------------------------------------
(* BatchImagePublicService.Submit.  Each job is one call: j is the batch id   *)
(* it creates.                                                               *)

SubTo(j, step) == sub' = [sub EXCEPT ![j] = step]
SubAt(j, step) == sub[j] = step /\ UNCHANGED <<client, rec, wstep>>

SubmitCreate(j) ==
    /\ SubAt(j, "idle")
    /\ CreateBatchImageJob(j)
    /\ SubTo(j, "reserve")
    /\ UNCHANGED <<ledgerVars, queueVars, upstream>>

SubmitReserve(j) ==
    /\ SubAt(j, "reserve")
    /\ \E ok \in BOOLEAN :
          /\ reserveBatchImageBalanceHold(j, ok)
          /\ SubTo(j, IF ok THEN "items" ELSE "fail")
    /\ UNCHANGED <<job, queueVars, upstream>>

SubmitItems(j) ==
    /\ SubAt(j, "items")
    /\ \/ SubTo(j, "upload")
       \/ Fault("items") /\ SubTo(j, "release_fail")
    /\ UNCHANGED <<job, ledgerVars, queueVars, upstream>>

\* A refused transition means a concurrent cancel: release, leave the status alone.
SubmitUpload(j) ==
    /\ SubAt(j, "upload")
    /\ \E out \in {"ok", "invalid", "error"} :
          /\ TransitionBatchImageJobStatus(j, "uploading", "other", out)
          /\ SubTo(j, CASE out = "ok"      -> "provider"
                        [] out = "invalid" -> "release"
                        [] out = "error"   -> "release_fail")
    /\ UNCHANGED <<ledgerVars, queueVars, upstream>>

\* runSubmitHeartbeat while provider.Submit is running.
SubmitHeartbeat(j) ==
    /\ SubAt(j, "provider")
    /\ job[j].stale
    /\ TouchBatchImageJobSubmitting(j)
    /\ UNCHANGED <<sub, ledgerVars, queueVars, upstream>>

\* An error may hide that the provider accepted the job: its name is never known then.
SubmitProvider(j) ==
    /\ SubAt(j, "provider")
    /\ \/ /\ upstream' = [upstream EXCEPT ![j] = "queued"]
          /\ \/ SubTo(j, "record")
             \/ "provider" \in LostAcks /\ SubTo(j, "release_fail")
       \/ /\ Fault("provider")
          /\ SubTo(j, "release_fail")
          /\ UNCHANGED upstream
    /\ UNCHANGED <<job, ledgerVars, queueVars>>

SubmitRecord(j) ==
    /\ SubAt(j, "record")
    /\ \E out \in {"ok", "invalid", "error"} :
          /\ UpdateBatchImageJobProviderSubmit(j, out)
          /\ SubTo(j, IF out = "ok" THEN "enqueue" ELSE "abort")
    /\ UNCHANGED <<ledgerVars, queueVars, upstream>>

Stops(j) == upstream' = [upstream EXCEPT ![j] = IF @ \in {"queued", "running"} THEN "cancelled" ELSE @]

\* abortOrphanProviderJob: best effort.
SubmitAbort(j) ==
    /\ SubAt(j, "abort")
    /\ \/ Stops(j)
       \/ Fault("provider_cancel") /\ UNCHANGED upstream
    /\ SubTo(j, "done")
    /\ UNCHANGED <<job, ledgerVars, queueVars>>

SubmitEnqueue(j) ==
    /\ SubAt(j, "enqueue")
    /\ \E ok \in BOOLEAN :
          /\ EnqueueReported(j, ok)
          /\ SubTo(j, IF ok THEN "done" ELSE "queue_failed")
    /\ UNCHANGED <<job, ledgerVars, upstream>>

SubmitQueueFailed(j) ==
    /\ SubAt(j, "queue_failed")
    /\ \E out \in {"ok", "error"} : RecordBatchImageJobSubmitFailure(j, FALSE, out)
    /\ SubTo(j, "done")
    /\ UNCHANGED <<ledgerVars, queueVars, upstream>>

\* releaseFailedSubmitHold; the failing submission then records its own error.
SubmitRelease(j) ==
    /\ sub[j] \in {"release", "release_fail"}
    /\ \E ok \in BOOLEAN :
          /\ releaseBatchImageBalanceHold(j, ok)
          /\ SubTo(j, IF ~ok THEN "release_failed" ELSE IF sub[j] = "release" THEN "done" ELSE "fail")
    /\ UNCHANGED <<job, queueVars, upstream, client, rec, wstep>>

SubmitReleaseFailed(j) ==
    /\ SubAt(j, "release_failed")
    /\ \E out \in {"ok", "error"} : RecordBatchImageJobSubmitFailure(j, TRUE, out)
    /\ SubTo(j, "retry")
    /\ UNCHANGED <<ledgerVars, queueVars, upstream>>

SubmitRetry(j) ==
    /\ SubAt(j, "retry")
    /\ EnqueueBestEffort(j)
    /\ SubTo(j, "done")
    /\ UNCHANGED <<job, ledgerVars, upstream>>

\* The error of RecordBatchImageJobSubmitFailure is dropped.
SubmitFail(j) ==
    /\ SubAt(j, "fail")
    /\ \E out \in {"ok", "error"} : RecordBatchImageJobSubmitFailure(j, TRUE, out)
    /\ SubTo(j, "hide")
    /\ UNCHANGED <<ledgerVars, queueVars, upstream>>

SubmitHide(j) ==
    /\ SubAt(j, "hide")
    /\ MarkBatchImageJobUserDeleted(j)
    /\ SubTo(j, "done")
    /\ UNCHANGED <<ledgerVars, queueVars, upstream>>

\* The process dies, or the client hangs up and every later call fails on its context.
SubmitDies(j) ==
    /\ sub[j] \in DiesAt
    /\ SubTo(j, "done")
    /\ UNCHANGED <<job, ledgerVars, queueVars, upstream, client, rec, wstep>>

Submit(j) ==
    \/ SubmitCreate(j)  \/ SubmitReserve(j) \/ SubmitItems(j)   \/ SubmitUpload(j)
    \/ SubmitProvider(j) \/ SubmitRecord(j) \/ SubmitAbort(j)   \/ SubmitEnqueue(j)
    \/ SubmitRelease(j) \/ SubmitReleaseFailed(j) \/ SubmitRetry(j)
    \/ SubmitFail(j)    \/ SubmitHide(j)    \/ SubmitQueueFailed(j)

-----------------------------------------------------------------------------
(* The owner's other calls: Cancel, a repeated Submit with the same           *)
(* idempotency key, DeleteRecord.  A branch taken on a row that was read      *)
(* earlier shows in the name of the next step.                               *)

ClientTo(j, step) == client' = [client EXCEPT ![j] = step]
ClientAt(j, step) == client[j] = step /\ UNCHANGED <<sub, rec, wstep>>

CancelRead(j) ==
    /\ "cancel" \in ClientOps
    /\ ClientAt(j, "idle")
    /\ job[j].status \notin {"none", "settling", "completed", "output_deleted"} /\ ~job[j].hidden
    /\ ClientTo(j, IF IsTerminal(job[j].status) THEN "cancel_release"
                   ELSE IF job[j].provider THEN "cancel_provider" ELSE "cancel_transition")
    /\ UNCHANGED <<job, ledgerVars, queueVars, upstream>>

CancelProvider(j) ==
    /\ ClientAt(j, "cancel_provider")
    /\ \/ Stops(j) /\ ClientTo(j, "cancel_enqueue")
       \/ Fault("provider_cancel") /\ ClientTo(j, "idle") /\ UNCHANGED upstream
    /\ UNCHANGED <<job, ledgerVars, queueVars>>

CancelEnqueue(j) ==
    /\ ClientAt(j, "cancel_enqueue")
    /\ EnqueueBestEffort(j)
    /\ ClientTo(j, "idle")
    /\ UNCHANGED <<job, ledgerVars, upstream>>

CancelTransition(j) ==
    /\ ClientAt(j, "cancel_transition")
    /\ \E out \in {"ok", "invalid", "error"} :
          /\ TransitionBatchImageJobStatus(j, "cancelled", "none", out)
          /\ ClientTo(j, IF out = "ok" THEN "cancel_release" ELSE "idle")
    /\ UNCHANGED <<ledgerVars, queueVars, upstream>>

CancelRelease(j) ==
    /\ ClientAt(j, "cancel_release")
    /\ \E ok \in BOOLEAN :
          /\ releaseBatchImageBalanceHold(j, ok)
          /\ ClientTo(j, IF ok THEN "idle" ELSE "cancel_retry")
    /\ UNCHANGED <<job, queueVars, upstream>>

CancelRetry(j) ==
    /\ ClientAt(j, "cancel_retry")
    /\ EnqueueBestEffort(j)
    /\ ClientTo(j, "idle")
    /\ UNCHANGED <<job, ledgerVars, upstream>>

ResubmitRead(j) ==
    /\ "resubmit" \in ClientOps
    /\ ClientAt(j, "idle")
    /\ job[j].status = "submitted"
    /\ ClientTo(j, "resubmit")
    /\ UNCHANGED <<job, ledgerVars, queueVars, upstream>>

ResubmitEnqueue(j) ==
    /\ ClientAt(j, "resubmit")
    /\ \E ok \in BOOLEAN :
          /\ EnqueueReported(j, ok)
          /\ ClientTo(j, IF ok THEN "idle" ELSE "resubmit_failed")
    /\ UNCHANGED <<job, ledgerVars, upstream>>

ResubmitFailed(j) ==
    /\ ClientAt(j, "resubmit_failed")
    /\ \E out \in {"ok", "error"} : RecordBatchImageJobSubmitFailure(j, FALSE, out)
    /\ ClientTo(j, "idle")
    /\ UNCHANGED <<ledgerVars, queueVars, upstream>>

DeleteRecord(j) ==
    /\ "delete" \in ClientOps
    /\ ClientAt(j, "idle")
    /\ IsTerminal(job[j].status) /\ ~job[j].hidden
    /\ MarkBatchImageJobUserDeleted(j)
    /\ UNCHANGED <<client, ledgerVars, queueVars, upstream>>

\* Output cleanup, by the owner or when the output expired: only of completed jobs.
CleanupOutput(j) ==
    /\ "delete" \in ClientOps
    /\ ClientAt(j, "idle")
    /\ job[j].status = "completed"
    /\ MarkBatchImageOutputDeleted(j)
    /\ UNCHANGED <<client, ledgerVars, queueVars, upstream>>

ClientDies(j) ==
    /\ client[j] \in DiesAt
    /\ ClientTo(j, "idle")
    /\ UNCHANGED <<job, ledgerVars, queueVars, upstream, sub, rec, wstep>>

ClientStep(j) ==
    \/ CancelProvider(j) \/ CancelEnqueue(j) \/ CancelTransition(j) \/ CancelRelease(j)
    \/ CancelRetry(j)    \/ ResubmitEnqueue(j) \/ ResubmitFailed(j)

Client(j) ==
    ClientStep(j) \/ CancelRead(j) \/ ResubmitRead(j) \/ DeleteRecord(j) \/ CleanupOutput(j)

-----------------------------------------------------------------------------
(* BatchImageBillingRecoveryService.ReleaseStaleUnsubmittedOnce.  The         *)
(* conditional UPDATE uses the cutoff of the listing.                        *)

RecTo(j, step) == rec' = [rec EXCEPT ![j] = step]
RecAt(j, step) == rec[j] = step /\ UNCHANGED <<sub, client, wstep>>

RecoveryList(j) ==
    /\ RecAt(j, "idle")
    /\ Unsubmitted(j) /\ job[j].stale
    /\ Hold[j] > 0
    /\ RecTo(j, "listed")
    /\ UNCHANGED <<job, ledgerVars, queueVars, upstream>>

RecoveryFail(j) ==
    /\ RecAt(j, "listed")
    /\ \E out \in {"ok", "not_applied", "error"} :
          /\ FailStaleUnsubmittedBatchImageJob(j, out)
          /\ RecTo(j, IF out = "ok" THEN "release" ELSE "idle")
    /\ UNCHANGED <<ledgerVars, queueVars, upstream>>

RecoveryRelease(j) ==
    /\ RecAt(j, "release")
    /\ \E ok \in BOOLEAN :
          /\ releaseBatchImageBalanceHold(j, ok)
          /\ RecTo(j, IF ok THEN "idle" ELSE "retry")
    /\ UNCHANGED <<job, queueVars, upstream>>

RecoveryRetry(j) ==
    /\ RecAt(j, "retry")
    /\ EnqueueBestEffort(j)
    /\ RecTo(j, "idle")
    /\ UNCHANGED <<job, ledgerVars, upstream>>

RecoveryDies(j) ==
    /\ rec[j] # "idle" /\ "recovery" \in DiesAt
    /\ RecTo(j, "idle")
    /\ UNCHANGED <<job, ledgerVars, queueVars, upstream, sub, client, wstep>>

Recovery(j) == RecoveryList(j) \/ RecoveryFail(j) \/ RecoveryRelease(j) \/ RecoveryRetry(j)

\* A live submission keeps its row young, unless it is slow.
RowAges(j) ==
    /\ Unsubmitted(j)
    /\ rec[j] # "listed"
    /\ SlowSubmit \/ sub[j] = "done"
    /\ Ages(j)
    /\ UNCHANGED <<ledgerVars, queueVars, upstream, procVars>>
=============================================================================
