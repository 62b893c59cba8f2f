-------------------------- MODULE BatchImagePipeline --------------------------
(* The whole batch image pipeline: the handlers of BatchImageHandlers, and   *)
(* the workers that take jobs from the queue and poll the provider, index    *)
(* the output and settle the bill (service/batch_image_processor.go,         *)
(* service/batch_image_settlement.go).                                       *)
EXTENDS BatchImageHandlers

-----------------------------------------------------------------------------
(* The upstream provider (external): a batch job runs, ends in one of three   *)
(* ways, or is cancelled on request.                                         *)

UpstreamStates == {"none", "queued", "running", "succeeded", "failed", "cancelled"}

ProviderRuns(j) ==
    /\ upstream[j] = "queued"
    /\ upstream' = [upstream EXCEPT ![j] = "running"]
    /\ UNCHANGED <<job, ledgerVars, queueVars, procVars>>

ProviderEnds(j) ==
    /\ upstream[j] = "running"
    /\ \E s \in {"succeeded"} \union (IF Fault("provider") THEN {"failed"} ELSE {}) :
          upstream' = [upstream EXCEPT ![j] = s]
    /\ UNCHANGED <<job, ledgerVars, queueVars, procVars>>

-----------------------------------------------------------------------------
(* Process of worker w on the job it holds.                                  *)

J(w) == wjob[w]
At(w, step) == wpc[w] = "processing" /\ wstep[w] = step /\ UNCHANGED <<sub, client, rec>>

\* The next step inside Process, or its result for the queue.
Continue(w, step) == wstep' = [wstep EXCEPT ![w] = step] /\ UNCHANGED queueVars
Return(w, result) == wstep' = [wstep EXCEPT ![w] = "none"] /\ Finish(w, result)
Next_(w, step) ==
    IF step \in {"ack", "requeue"} THEN Return(w, step) ELSE Continue(w, step)

ReadFails(w) == Fault("read") /\ Return(w, "requeue")

\* BatchImagePipelineProcessor.Process
ProcessStart(w) ==
    /\ At(w, "start")
    /\ \/ Next_(w, IF job[J(w)].status = "settling" THEN "settle" ELSE "read")
       \/ ReadFails(w)
    /\ UNCHANGED <<job, ledgerVars, upstream>>

\* BatchImageProviderProcessor.Process reads the row again.
AfterRead(row) ==
    CASE row.status \in {"failed", "cancelled"}                   -> "release"
      [] row.status \in {"completed", "output_deleted", "settling"} -> "ack"
      [] ~row.provider /\ ~IsTerminal(row.status) /\ row.status # "settling" -> "requeue"
      [] row.provider /\ row.status = "indexing"                  -> "index"
      [] row.provider /\ row.status = "running"                   -> "poll_running"
      [] OTHER                                                    -> "poll"

ProcessRead(w) ==
    /\ At(w, "read")
    /\ Next_(w, AfterRead(job[J(w)])) \/ ReadFails(w)
    /\ UNCHANGED <<job, ledgerVars, upstream>>

\* provider.Get, for a row that was read as running or as an earlier status.
AfterPoll(state, wasRunning) ==
    CASE state = "running"   -> IF wasRunning THEN "requeue" ELSE "running"
      [] state = "succeeded" -> "indexing"
      [] state = "failed"    -> "failed"
      [] state = "cancelled" -> "cancelled"
      [] OTHER               -> "requeue"

ProcessPoll(w) ==
    /\ \/ At(w, "poll")         /\ Next_(w, AfterPoll(upstream[J(w)], FALSE))
       \/ At(w, "poll_running") /\ Next_(w, AfterPoll(upstream[J(w)], TRUE))
       \/ At(w, "poll")         /\ Fault("poll") /\ Return(w, "requeue")
       \/ At(w, "poll_running") /\ Fault("poll") /\ Return(w, "requeue")
    /\ UNCHANGED <<job, ledgerVars, upstream>>

\* A wrong variant: a job that only has to be settled counts as done.
AfterTransitionDone(to) ==
    CASE to = "indexing"                -> "index"
      [] to \in {"failed", "cancelled"} -> "release"
      [] to = "running"                 -> "requeue"
      [] to = "settling"                -> "ack"

\* What follows a transition of Process: a refused or failed one is an error.
AfterTransition(to) ==
    CASE to = "indexing"                -> "index"
      [] to \in {"failed", "cancelled"} -> "release"
      [] to \in {"running", "settling"} -> "requeue"

ProcessTransition(w) ==
    /\ \E to \in {"running", "indexing", "settling", "failed", "cancelled"} :
          /\ At(w, to)
          /\ \E out \in {"ok", "invalid", "error"} :
                /\ TransitionBatchImageJobStatus(J(w), to, "other", out)
                /\ Next_(w, IF out = "ok" THEN AfterTransition(to) ELSE "requeue")
    /\ UNCHANGED <<ledgerVars, upstream>>

\* indexAndSettle: the output is missing, cannot be indexed, or replaces the items.
ProcessIndex(w) ==
    /\ At(w, "index")
    /\ \/ /\ Fault("output_missing")
          /\ Next_(w, "requeue")
          /\ UNCHANGED job
       \/ /\ Fault("output_invalid")
          /\ Next_(w, "failed")
          /\ UNCHANGED job
       \/ \E success \in 0..Items, out \in {"ok", "state_conflict", "error"} :
             /\ ReplaceBatchImageItemsForJob(J(w), success, out)
             /\ Next_(w, CASE out = "ok"             -> "settling"
                           [] out = "state_conflict" -> "requeue"
                           [] out = "error"          -> "failed")
    /\ UNCHANGED <<ledgerVars, upstream>>

\* A wrong variant: a worker that could not release the hold does not come back.
ProcessReleaseOnce(w) ==
    /\ At(w, "release")
    /\ \E ok \in BOOLEAN : releaseBatchImageBalanceHold(J(w), ok)
    /\ Next_(w, "ack")
    /\ UNCHANGED <<job, upstream>>

\* releaseTerminalHold
ProcessRelease(w) ==
    /\ At(w, "release")
    /\ \E ok \in BOOLEAN :
          /\ releaseBatchImageBalanceHold(J(w), ok)
          /\ Next_(w, IF ok THEN "ack" ELSE "requeue")
    /\ UNCHANGED <<job, upstream>>

-----------------------------------------------------------------------------
(* BatchImageSettlementService.Settle                                        *)

\* A wrong variant: the last allowed retry is not made.
RetryExhaustedEarly(row) ==
    row.status = "settling" /\ row.retry + 1 >= MaxRetries /\ row.lastError = "SETTLEMENT"

RetryExhausted(row) ==
    row.status = "settling" /\ row.retry >= MaxRetries /\ row.lastError = "SETTLEMENT"

AfterSettleRead(j) ==
    CASE job[j].status = "completed"             -> "ack"
      [] job[j].status \notin {"completed", "settling"} -> "requeue"
      [] RetryExhausted(job[j])                  -> "exhaust_release"
      [] job[j].status = "settling" /\ ~RetryExhausted(job[j]) ->
            IF Price * job[j].success > Hold[j] THEN "fail_exceeds" ELSE "capture"

SettleRead(w) ==
    /\ At(w, "settle")
    /\ Next_(w, AfterSettleRead(J(w))) \/ ReadFails(w)
    /\ UNCHANGED <<job, ledgerVars, upstream>>

\* A wrong variant: a failed capture is only reported.
SettleCaptureTrusting(w) ==
    /\ At(w, "capture")
    /\ \E ok \in BOOLEAN : captureBatchImageBalanceHold(J(w), ok)
    /\ Next_(w, "mark")
    /\ UNCHANGED <<job, upstream>>

SettleCapture(w) ==
    /\ At(w, "capture")
    /\ \E ok \in BOOLEAN :
          /\ captureBatchImageBalanceHold(J(w), ok)
          /\ Next_(w, IF ok THEN "mark" ELSE "fail_billing")
    /\ UNCHANGED <<job, upstream>>

SettleMark(w) ==
    /\ At(w, "mark")
    /\ \E out \in {"ok", "invalid", "error"} :
          /\ MarkBatchImageJobSettled(J(w), out)
          /\ Next_(w, IF out = "ok" THEN "ack" ELSE "requeue")
    /\ UNCHANGED <<ledgerVars, upstream>>

\* recordSettlementFailure: the last allowed failure takes the exit at once.
\* A billing error makes the pipeline read the row once more, any other requeues.
SettleRecordFailure(w) ==
    \E step \in {"fail_exceeds", "fail_billing"}, out \in {"ok", "error"} :
        /\ At(w, step)
        /\ SetBatchImageJobSettlementFailed(J(w), out)
        /\ Next_(w, IF out = "ok" /\ job'[J(w)].retry >= MaxRetries THEN "exhaust_release"
                    ELSE IF step = "fail_billing" THEN "recheck" ELSE "requeue")
        /\ UNCHANGED <<ledgerVars, upstream>>

\* A wrong variant: the job fails even if its hold could not be released.
ExhaustReleaseBlind(w) ==
    /\ At(w, "exhaust_release")
    /\ \E ok \in BOOLEAN : releaseBatchImageBalanceHold(J(w), ok)
    /\ Next_(w, "exhaust_fail")
    /\ UNCHANGED <<job, upstream>>

\* failExhaustedSettlement: the hold is released without asking whether it was captured.
ExhaustRelease(w) ==
    /\ At(w, "exhaust_release")
    /\ \E ok \in BOOLEAN :
          /\ releaseBatchImageBalanceHold(J(w), ok)
          /\ Next_(w, IF ok THEN "exhaust_fail" ELSE "exhaust_release_failed")
    /\ UNCHANGED <<job, upstream>>

ExhaustReleaseFailed(w) ==
    /\ At(w, "exhaust_release_failed")
    /\ \E out \in {"ok", "error"} : SetBatchImageJobSettlementFailed(J(w), out)
    /\ Next_(w, "recheck")
    /\ UNCHANGED <<ledgerVars, upstream>>

ExhaustFail(w) ==
    /\ At(w, "exhaust_fail")
    /\ \E out \in {"ok", "invalid", "error"} :
          /\ TransitionBatchImageJobStatus(J(w), "failed", "SETTLEMENT", out)
          /\ Next_(w, IF out = "ok" THEN "recheck" ELSE "requeue")
    /\ UNCHANGED <<ledgerVars, upstream>>

ProcessRecheck(w) ==
    /\ At(w, "recheck")
    /\ Next_(w, IF IsTerminal(job[J(w)].status) THEN "ack" ELSE "requeue") \/ ReadFails(w)
    /\ UNCHANGED <<job, ledgerVars, upstream>>

Process(w) ==
    \/ ProcessStart(w) \/ ProcessRead(w)  \/ ProcessPoll(w)   \/ ProcessTransition(w)
    \/ ProcessIndex(w) \/ ProcessRelease(w) \/ SettleRead(w)  \/ SettleCapture(w)
    \/ SettleMark(w)   \/ SettleRecordFailure(w) \/ ExhaustRelease(w)
    \/ ExhaustReleaseFailed(w) \/ ExhaustFail(w) \/ ProcessRecheck(w)

-----------------------------------------------------------------------------
(* The worker loop and the queue's maintenance, around Process.              *)

Outside(w) == UNCHANGED <<job, ledgerVars, upstream, sub, client, rec>>

WorkerTakesLock(w) ==
    /\ TryAcquireJobLock(w)
    /\ wstep' = [wstep EXCEPT ![w] = IF wpc'[w] = "processing" THEN "start" ELSE "none"]
    /\ Outside(w)

WorkerLoop(w) ==
    /\ Reserve(w) \/ RequeueAfter(w) \/ Ack(w) \/ ReleaseLock(w)
    /\ UNCHANGED wstep
    /\ Outside(w)

WorkerDies(w) ==
    /\ WorkerCrash(w)
    /\ wstep' = [wstep EXCEPT ![w] = "none"]
    /\ Outside(w)

Maintenance(j) ==
    /\ MoveDueDelayedToReady(j) \/ RecoverStaleActive(j) \/ LockExpires(j)
    /\ UNCHANGED <<job, ledgerVars, upstream, procVars>>

Worker(w) == WorkerTakesLock(w) \/ WorkerLoop(w) \/ Process(w)

Next ==
    \/ \E j \in Jobs :
          \/ Submit(j) \/ SubmitHeartbeat(j) \/ SubmitDies(j)
          \/ Client(j) \/ ClientDies(j)
          \/ Recovery(j) \/ RecoveryDies(j) \/ RowAges(j)
          \/ ProviderRuns(j) \/ ProviderEnds(j)
          \/ Maintenance(j)
    \/ \E w \in Workers : Worker(w) \/ WorkerDies(w)

Spec == Init /\ [][Next]_vars

(* Every process that is alive goes on, the provider finishes what it runs,   *)
(* time passes and the loops poll; nothing obliges a client to call.         *)
Fairness ==
    /\ \A j \in Jobs :
          /\ WF_vars(Submit(j)) /\ WF_vars(ClientStep(j))
          /\ WF_vars(Recovery(j)) /\ WF_vars(RowAges(j))
          /\ WF_vars(ProviderRuns(j)) /\ WF_vars(ProviderEnds(j))
          /\ WF_vars(MoveDueDelayedToReady(j) /\ Maintenance(j))
          /\ WF_vars(RecoverStaleActive(j) /\ Maintenance(j))
          /\ WF_vars(LockExpires(j) /\ Maintenance(j))
    /\ \A w \in Workers : WF_vars(Worker(w))

FairSpec == Spec /\ Fairness

-----------------------------------------------------------------------------
SubSteps    == {"idle", "reserve", "items", "upload", "provider", "record", "abort", "enqueue",
                "queue_failed", "release", "release_fail", "release_failed", "retry", "fail",
                "hide", "done"}
ClientSteps == {"idle", "cancel_provider", "cancel_enqueue", "cancel_transition",
                "cancel_release", "cancel_retry", "resubmit", "resubmit_failed"}
RecSteps    == {"idle", "listed", "release", "retry"}
ProcessSteps == {"start", "read", "poll", "poll_running", "running", "indexing", "settling",
                 "failed", "cancelled", "index", "release", "settle", "capture", "mark",
                 "fail_exceeds", "fail_billing", "exhaust_release", "exhaust_release_failed",
                 "exhaust_fail", "recheck"}

TypeOK ==
    /\ job \in [Jobs -> Row]
    /\ LedgerTypeOK
    /\ QueueTypeOK
    /\ upstream \in [Jobs -> UpstreamStates]
    /\ sub \in [Jobs -> SubSteps]
    /\ client \in [Jobs -> ClientSteps]
    /\ rec \in [Jobs -> RecSteps]
    /\ wstep \in [Workers -> ProcessSteps \union {"none"}]
    /\ \A w \in Workers : wpc[w] = "processing" <=> wstep[w] # "none"

-----------------------------------------------------------------------------
Closed(j)      == <<"capture", j>> \in moved \/ <<"release", j>> \in moved
Outstanding(j) == <<"hold", j>> \in moved /\ ~Closed(j)

\* A release that was claimed while there was no hold yet: it will never take effect.
Burned(j) == Claimed("release", j) /\ <<"release", j>> \notin moved

\* Somebody still has to release the hold, or is about to make somebody do it.
ReleasePending(j) ==
    \/ sub[j] \in {"reserve", "items", "upload", "release", "release_fail",
                   "release_failed", "retry"}
    \/ client[j] \in {"cancel_release", "cancel_retry"}
    \/ rec[j] \in {"release", "retry"}
    \/ j \in inflight

\* The retries of the settlement are used up, or workers may lose the job's lock.
Spent(j)   == job[j].retry >= MaxRetries
GivenUp(j) == Spent(j) \/ j \in MayLapse

(* The pipeline implements the abstract hold: whatever submissions, cancels,  *)
(* recoveries and workers do to a job, in any order and with any faults, its *)
(* hold is closed once and out of its own money, unless its settlement was   *)
(* given up (docs/BATCH_IMAGE_MVP.md:169).                                   *)
Phase(j) ==
    CASE Outstanding(j)                -> "held"
      [] <<"capture", j>> \in moved /\ <<"release", j>> \in moved -> "both"
      [] <<"capture", j>> \in moved /\ <<"release", j>> \notin moved -> "charged"
      [] <<"release", j>> \in moved /\ <<"capture", j>> \notin moved -> "refunded"
      [] OTHER                         -> "none"

AbstractHold == INSTANCE BatchImageHold WITH
    phase <- [j \in Jobs |-> Phase(j)], pool <- frozen, earned <- revenue,
    givenUp <- {j \in Jobs : GivenUp(j)}, Unsure <- Jobs \intersect MayLapse

ImplementsHold == AbstractHold!Spec

(* A hold is captured or released, never both, also after the retry limit:    *)
(* what is left of the hold is released then (docs/BATCH_IMAGE_MVP.md:170).  *)
NoDoubleClose ==
    \A j \in Jobs : ~(<<"capture", j>> \in moved /\ <<"release", j>> \in moved)

(* A completed job was charged exactly for the images its item table counts,  *)
(* although a lost acknowledgement, a dead worker or a second one may repeat *)
(* indexing and settlement.                                                  *)
CompletedIsPaid ==
    \A j \in Jobs : job[j].status \in {"completed", "output_deleted"} =>
        \/ Price * job[j].success = 0 /\ Hold[j] = 0
        \/ \E c \in claims : /\ c.op = "capture" /\ c.job = j
                             /\ c.actual = Price * job[j].success
                             /\ <<"capture", j>> \in moved

(* A job that ended as failed or cancelled keeps no charge: either it was not *)
(* charged, or its settlement was given up after a capture whose answer or    *)
(* mark was lost, and the charge was given back.                              *)
FailedKeepsNoCharge ==
    \A j \in Jobs \ MayLapse :
        job[j].status \in {"failed", "cancelled"} /\ <<"capture", j>> \in moved
            => Spent(j) /\ <<"release", j>> \in moved

(* The stronger claim that it was not charged.                                *)
FailedNotCharged ==
    \A j \in Jobs : job[j].status \in {"failed", "cancelled"} => <<"capture", j>> \notin moved

(* A charge stands: until its settlement is given up, nothing takes a charged *)
(* job elsewhere than to completed, and its images are not counted again,     *)
(* although the capture may be repeated, fail or hide that it happened.       *)
ChargeStands ==
    [][\A j \in Jobs : <<"capture", j>> \in moved /\ ~GivenUp(j)' =>
          /\ job'[j].success = job[j].success
          /\ job'[j].status \in {"settling", "completed", "output_deleted"}]_job

\* Nobody is left to release the hold, and it is not one that no release reaches.
Leaks(j) == /\ job[j].status \in {"failed", "cancelled"} /\ Outstanding(j)
            /\ ~Burned(j) /\ ~ReleasePending(j)

(* The hold of a failed or cancelled job must not stay frozen with nobody     *)
(* left to release it.  With every fault, lost reply and death, it starts to  *)
(* leak only when a handler that had to release it dies, when Redis refuses   *)
(* the retry of a release, or when the reply of a committed reservation,      *)
(* cancel or recovery is lost.  A failed release alone never does it, nor     *)
(* does a worker, the queue or the other handlers                             *)
(* (batch_image_billing_recovery.go:73).                                      *)
LeaksHaveACause ==
    [][\A j \in Jobs \ MayLapse : ~Leaks(j) /\ Leaks(j)' =>
          \/ SubmitDies(j) \/ ClientDies(j) \/ RecoveryDies(j)
          \/ SubmitRetry(j) \/ CancelRetry(j) \/ RecoveryRetry(j)
          \/ RecoveryFail(j)     /\ rec'[j] = "idle"
          \/ CancelTransition(j) /\ client'[j] = "idle"
          \/ SubmitReserve(j)    /\ sub'[j] = "fail"
          \/ SubmitFail(j)]_vars

(* A job leaves the queue only when its row has reached a final status,       *)
(* whatever fails, dies or is refused while workers, cancels and recoveries   *)
(* change the row that a worker has read (batch_image_worker.go).             *)
QueuedUntilEnded ==
    [][\A j \in Jobs \ MayLapse :
          j \in inflight /\ j \notin inflight' => IsTerminal(job[j].status)]_vars

(* A submitted job that is not finished is in the queue, or in the hands of   *)
(* the Submit that is about to put it there.                                  *)
SubmittedIsQueued ==
    \A j \in Jobs :
        job[j].status \in {"submitted", "running", "indexing", "settling"}
            => j \in inflight \/ sub[j] = "enqueue"

(* Once the row names the provider's job, no failing submission, recovery or  *)
(* worker refunds the hold while the provider still runs the job, whoever     *)
(* dies, is slow or is answered wrongly; only the owner's cancel does         *)
(* (batch_image_billing_recovery.go:53).                                      *)
RecordedEndsBeforeRefund ==
    \A j \in Jobs :
        job[j].provider /\ job[j].status # "cancelled" /\ <<"release", j>> \in moved
            => upstream[j] \notin {"queued", "running"}

(* A charged job can only become completed: no failure path, cancel or        *)
(* recovery takes it elsewhere, and its image count is frozen.               *)
ChargedIsFinal ==
    [][\A j \in Jobs : <<"capture", j>> \in moved =>
          /\ job'[j].success = job[j].success
          /\ job'[j].status \in {"settling", "completed", "output_deleted"}]_job

(* The money of every job is charged or given back in the end.                *)
EveryHoldCloses == \A j \in Jobs : Outstanding(j) ~> Closed(j)

(* Every submission that reached the provider ends in a final status.         *)
EverySubmittedEnds ==
    \A j \in Jobs : job[j].status = "submitted" ~> IsTerminal(job[j].status)
=============================================================================
