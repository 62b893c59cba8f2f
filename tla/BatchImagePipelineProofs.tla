----------------------- MODULE BatchImagePipelineProofs -----------------------
(* Proofs about the whole pipeline, for any sets of jobs and workers, any     *)
(* holds and prices, and any faults, lost acknowledgements and deaths that    *)
(* the theorem at hand does not rule out by name.                             *)
EXTENDS BatchImagePipeline, BatchImageStoreProofs

-----------------------------------------------------------------------------
(* The pipeline runs its two stores: it takes no step that the ledger or the  *)
(* queue, each on its own, could not take.                                    *)

JobTypeOK == job \in [Jobs -> Row]

(* The amount a capture asks for is one the ledger knows.                     *)
LEMMA PriceIsAmount ==
    ASSUME JobTypeOK, NEW j \in Jobs
    PROVE  Price * job[j].success \in Amounts
<1>1. job[j].success \in 0..Items
  BY DEF JobTypeOK, Row
<1> QED BY <1>1, PipelineAssumption

(* Each of the three billing calls is a step of the ledger, or nothing.       *)
LEMMA ReserveIsLedgerStep ==
    ASSUME NEW j \in Jobs, NEW ok \in BOOLEAN, reserveBatchImageBalanceHold(j, ok)
    PROVE  [LedgerNext]_ledgerVars
<1>1. CASE UNCHANGED ledgerVars
  BY <1>1
<1>2. CASE \E res \in Outcomes : ReserveBatchImageBalance(j, "request", res)
  BY <1>2, PipelineAssumption DEF LedgerNext
<1> QED BY <1>1, <1>2 DEF reserveBatchImageBalanceHold, LedgerCall, Outcomes

LEMMA CaptureIsLedgerStep ==
    ASSUME JobTypeOK, NEW j \in Jobs, NEW ok \in BOOLEAN, captureBatchImageBalanceHold(j, ok)
    PROVE  [LedgerNext]_ledgerVars
<1> DEFINE a == Price * job[j].success
<1>1. a \in Amounts
  BY PriceIsAmount
<1>2. \/ UNCHANGED ledgerVars
      \/ \E res \in Outcomes : CaptureBatchImageBalance(j, "manifest", a, res)
  BY DEF captureBatchImageBalanceHold, LedgerCall, Outcomes
<1> HIDE DEF a
<1> QED BY <1>1, <1>2, PipelineAssumption DEF LedgerNext

LEMMA ReleaseIsLedgerStep ==
    ASSUME NEW j \in Jobs, NEW ok \in BOOLEAN, releaseBatchImageBalanceHold(j, ok)
    PROVE  [LedgerNext]_ledgerVars
<1>1. CASE UNCHANGED ledgerVars
  BY <1>1
<1>2. CASE \E res \in Outcomes : ReleaseBatchImageBalance(j, "request", res)
  BY <1>2, PipelineAssumption DEF LedgerNext
<1> QED BY <1>1, <1>2 DEF releaseBatchImageBalanceHold, LedgerCall, Outcomes

-----------------------------------------------------------------------------
(* What a statement on one row does: it leaves the other rows alone and       *)
(* writes the columns it names.  The column stale plays no part below.        *)

OtherRows(j) == \A i \in Jobs \ {j} : job'[i] = job[i]

SameCounts(j) ==
    /\ job'[j].provider = job[j].provider
    /\ job'[j].success = job[j].success
    /\ job'[j].retry = job[j].retry

SameRow(j) ==
    /\ SameCounts(j)
    /\ job'[j].status = job[j].status
    /\ job'[j].lastError = job[j].lastError

(* A row that is written has the columns it was given.                        *)
LEMMA WriteEffect ==
    ASSUME JobTypeOK, NEW j \in Jobs, NEW row \in Row, Write(j, row)
    PROVE  /\ JobTypeOK' /\ OtherRows(j)
           /\ job'[j].status = row.status /\ job'[j].lastError = row.lastError
           /\ job'[j].provider = row.provider /\ job'[j].success = row.success
           /\ job'[j].retry = row.retry
<1>1. [row EXCEPT !.stale = FALSE] \in Row
  BY DEF Row
<1> QED BY <1>1 DEF Write, JobTypeOK, OtherRows, Row

(* A statement that fails or is refused leaves every row alone.               *)
LEMMA NothingWritten ==
    ASSUME JobTypeOK, NEW j \in Jobs, UNCHANGED job
    PROVE  JobTypeOK' /\ OtherRows(j) /\ SameRow(j)
BY DEF JobTypeOK, OtherRows, SameRow, SameCounts

(* A new row has nothing in it.                                              *)
LEMMA CreateEffect ==
    ASSUME JobTypeOK, NEW j \in Jobs,
           CreateBatchImageJob(j)
    PROVE  /\ JobTypeOK' /\ OtherRows(j)
           /\ job[j] = NoRow
           /\ job'[j].status = "created" /\ job'[j].lastError = "none"
           /\ ~job'[j].provider /\ job'[j].success = 0 /\ job'[j].retry = 0
<1> DEFINE row == [NoRow EXCEPT !.status = "created"]
<1>1. job[j] \in Row
  BY DEF JobTypeOK
<1>2. row \in Row
  <2>1. 0 \in 0..Items /\ 0 \in 0..MaxRetries
    BY RepoAssumption
  <2> QED BY <2>1 DEF Row, Statuses, ActiveStatuses, NoRow
<1>3. CASE Write(j, row) /\ job[j] = NoRow
  <2>1. /\ JobTypeOK' /\ OtherRows(j)
        /\ job'[j].status = row.status /\ job'[j].lastError = row.lastError
        /\ job'[j].provider = row.provider /\ job'[j].success = row.success
        /\ job'[j].retry = row.retry
    BY <1>2, <1>3, WriteEffect
  <2> QED BY <1>1, <1>3, <2>1 DEF Row, SameRow, SameCounts, NoRow
<1> QED BY <1>3 DEF CreateBatchImageJob

(* A transition that commits is one the status machine allows; one that does *)
(* not leaves the row alone.                                                 *)
LEMMA TransitionEffect ==
    ASSUME JobTypeOK, NEW j \in Jobs, NEW to \in Statuses, NEW code \in {"none", "SETTLEMENT", "other"}, NEW out,
           TransitionBatchImageJobStatus(j, to, code, out)
    PROVE  /\ JobTypeOK' /\ OtherRows(j)
           /\ SameCounts(j)
           /\ \/ /\ Commits("transition", out) /\ CanTransition(job[j].status, to)
                 /\ job'[j].status = to
                 /\ job'[j].lastError = IF to = "failed" THEN code ELSE job[j].lastError
              \/ /\ UNCHANGED job /\ out # "ok"
                 /\ out = "invalid" => ~CanTransition(job[j].status, to)
<1> DEFINE row == [job[j] EXCEPT !.status = to,
                            !.lastError = IF to = "failed" THEN code ELSE @]
<1>1. job[j] \in Row
  BY DEF JobTypeOK
<1>2. row \in Row
  BY <1>1, RepoAssumption DEF Row, Statuses, ActiveStatuses, TerminalStatuses, NoRow
<1>3. CASE Write(j, row) /\ Commits("transition", out) /\ CanTransition(job[j].status, to)
  <2>1. /\ JobTypeOK' /\ OtherRows(j)
        /\ job'[j].status = row.status /\ job'[j].lastError = row.lastError
        /\ job'[j].provider = row.provider /\ job'[j].success = row.success
        /\ job'[j].retry = row.retry
    BY <1>2, <1>3, WriteEffect
  <2> QED BY <1>1, <1>3, <2>1 DEF Row, SameRow, SameCounts, NoRow
<1>4. CASE UNCHANGED job /\ out # "ok" /\ (out = "invalid" => ~CanTransition(job[j].status, to))
  BY <1>4, NothingWritten DEF SameRow, SameCounts
<1> QED BY <1>3, <1>4 DEF TransitionBatchImageJobStatus, RollsBack

(* The heartbeat of a submission writes no column of interest.               *)
LEMMA TouchEffect ==
    ASSUME JobTypeOK, NEW j \in Jobs,
           TouchBatchImageJobSubmitting(j)
    PROVE  /\ JobTypeOK' /\ OtherRows(j)
           /\ SameRow(j)
<1> DEFINE row == job[j]
<1>1. job[j] \in Row
  BY DEF JobTypeOK
<1>2. row \in Row
  BY <1>1, RepoAssumption DEF Row, Statuses, ActiveStatuses, TerminalStatuses, NoRow
<1>3. CASE Write(j, row)
  <2>1. /\ JobTypeOK' /\ OtherRows(j)
        /\ job'[j].status = row.status /\ job'[j].lastError = row.lastError
        /\ job'[j].provider = row.provider /\ job'[j].success = row.success
        /\ job'[j].retry = row.retry
    BY <1>2, <1>3, WriteEffect
  <2> QED BY <1>1, <1>3, <2>1 DEF Row, SameRow, SameCounts, NoRow
<1> QED BY <1>3 DEF TouchBatchImageJobSubmitting

(* The recovery fails a row only while it is still unsubmitted.              *)
LEMMA FailStaleEffect ==
    ASSUME JobTypeOK, NEW j \in Jobs, NEW out,
           FailStaleUnsubmittedBatchImageJob(j, out)
    PROVE  /\ JobTypeOK' /\ OtherRows(j)
           /\ SameCounts(j)
           /\ \/ /\ Commits("fail_stale", out) /\ Unsubmitted(j)
                 /\ job'[j].status = "failed" /\ job'[j].lastError = "other"
              \/ UNCHANGED job /\ out # "ok"
<1> DEFINE row == [job[j] EXCEPT !.status = "failed", !.lastError = "other"]
<1>1. job[j] \in Row
  BY DEF JobTypeOK
<1>2. row \in Row
  BY <1>1, RepoAssumption DEF Row, Statuses, ActiveStatuses, TerminalStatuses, NoRow
<1>3. CASE Write(j, row) /\ Commits("fail_stale", out) /\ Unsubmitted(j)
  <2>1. /\ JobTypeOK' /\ OtherRows(j)
        /\ job'[j].status = row.status /\ job'[j].lastError = row.lastError
        /\ job'[j].provider = row.provider /\ job'[j].success = row.success
        /\ job'[j].retry = row.retry
    BY <1>2, <1>3, WriteEffect
  <2> QED BY <1>1, <1>3, <2>1 DEF Row, SameRow, SameCounts, NoRow
<1>4. CASE UNCHANGED job /\ out # "ok"
  BY <1>4, NothingWritten DEF SameRow, SameCounts
<1> QED BY <1>3, <1>4 DEF FailStaleUnsubmittedBatchImageJob, RollsBack

(* The submission is recorded only for a row that may still be submitted.    *)
LEMMA ProviderSubmitEffect ==
    ASSUME JobTypeOK, NEW j \in Jobs, NEW out,
           UpdateBatchImageJobProviderSubmit(j, out)
    PROVE  /\ JobTypeOK' /\ OtherRows(j)
           /\ job'[j].success = job[j].success /\ job'[j].retry = job[j].retry
           /\ job'[j].lastError = job[j].lastError
           /\ \/ /\ Commits("provider_submit", out) /\ CanTransition(job[j].status, "submitted")
                 /\ job'[j].status = "submitted" /\ job'[j].provider
              \/ UNCHANGED job /\ out # "ok"
<1> DEFINE row == [job[j] EXCEPT !.status = "submitted", !.provider = TRUE]
<1>1. job[j] \in Row
  BY DEF JobTypeOK
<1>2. row \in Row
  BY <1>1, RepoAssumption DEF Row, Statuses, ActiveStatuses, TerminalStatuses, NoRow
<1>3. CASE Write(j, row) /\ Commits("provider_submit", out) /\ CanTransition(job[j].status, "submitted")
  <2>1. /\ JobTypeOK' /\ OtherRows(j)
        /\ job'[j].status = row.status /\ job'[j].lastError = row.lastError
        /\ job'[j].provider = row.provider /\ job'[j].success = row.success
        /\ job'[j].retry = row.retry
    BY <1>2, <1>3, WriteEffect
  <2> QED BY <1>1, <1>3, <2>1 DEF Row, SameRow, SameCounts, NoRow
<1>4. CASE UNCHANGED job /\ out # "ok"
  BY <1>4, NothingWritten DEF SameRow, SameCounts
<1> QED BY <1>3, <1>4 DEF UpdateBatchImageJobProviderSubmit, RollsBack

(* A recorded submission failure overwrites the error code, and the status   *)
(* on request.                                                               *)
LEMMA RecordFailureEffect ==
    ASSUME JobTypeOK, NEW j \in Jobs, NEW mark \in BOOLEAN, NEW out,
           RecordBatchImageJobSubmitFailure(j, mark, out)
    PROVE  /\ JobTypeOK' /\ OtherRows(j)
           /\ SameCounts(j)
           /\ \/ /\ job'[j].status = IF mark THEN "failed" ELSE job[j].status
                 /\ job'[j].lastError = "other"
              \/ UNCHANGED job /\ out # "ok"
<1> DEFINE row == [job[j] EXCEPT !.status = IF mark THEN "failed" ELSE @,
                            !.lastError = "other"]
<1>1. job[j] \in Row
  BY DEF JobTypeOK
<1>2. row \in Row
  BY <1>1, RepoAssumption DEF Row, Statuses, ActiveStatuses, TerminalStatuses, NoRow
<1>3. CASE Write(j, row)
  <2>1. /\ JobTypeOK' /\ OtherRows(j)
        /\ job'[j].status = row.status /\ job'[j].lastError = row.lastError
        /\ job'[j].provider = row.provider /\ job'[j].success = row.success
        /\ job'[j].retry = row.retry
    BY <1>2, <1>3, WriteEffect
  <2> QED BY <1>1, <1>3, <2>1 DEF Row, SameRow, SameCounts, NoRow
<1>4. CASE UNCHANGED job /\ out # "ok"
  BY <1>4, NothingWritten DEF SameRow, SameCounts
<1> QED BY <1>3, <1>4 DEF RecordBatchImageJobSubmitFailure, RollsBack

(* Hiding a row writes no column of interest.                                *)
LEMMA UserDeletedEffect ==
    ASSUME JobTypeOK, NEW j \in Jobs,
           MarkBatchImageJobUserDeleted(j)
    PROVE  /\ JobTypeOK' /\ OtherRows(j)
           /\ SameRow(j)
<1> DEFINE row == [job[j] EXCEPT !.hidden = TRUE]
<1>1. job[j] \in Row
  BY DEF JobTypeOK
<1>2. row \in Row
  BY <1>1, RepoAssumption DEF Row, Statuses, ActiveStatuses, TerminalStatuses, NoRow
<1>3. CASE Write(j, row)
  <2>1. /\ JobTypeOK' /\ OtherRows(j)
        /\ job'[j].status = row.status /\ job'[j].lastError = row.lastError
        /\ job'[j].provider = row.provider /\ job'[j].success = row.success
        /\ job'[j].retry = row.retry
    BY <1>2, <1>3, WriteEffect
  <2> QED BY <1>1, <1>3, <2>1 DEF Row, SameRow, SameCounts, NoRow
<1>4. CASE UNCHANGED job
  BY <1>4, NothingWritten DEF SameRow, SameCounts
<1> QED BY <1>3, <1>4 DEF MarkBatchImageJobUserDeleted

(* The count of images changes only while the job is indexing.               *)
LEMMA ReplaceEffect ==
    ASSUME JobTypeOK, NEW j \in Jobs, NEW n \in 0..Items, NEW out,
           ReplaceBatchImageItemsForJob(j, n, out)
    PROVE  /\ JobTypeOK' /\ OtherRows(j)
           /\ job'[j].status = job[j].status /\ job'[j].lastError = job[j].lastError
           /\ job'[j].provider = job[j].provider /\ job'[j].retry = job[j].retry
           /\ job'[j].success # job[j].success => job[j].status = "indexing"
<1> DEFINE row == [job[j] EXCEPT !.success = n]
<1>1. job[j] \in Row
  BY DEF JobTypeOK
<1>2. row \in Row
  BY <1>1, RepoAssumption DEF Row, Statuses, ActiveStatuses, TerminalStatuses, NoRow
<1>3. CASE Write(j, row) /\ job[j].status = "indexing"
  <2>1. /\ JobTypeOK' /\ OtherRows(j)
        /\ job'[j].status = row.status /\ job'[j].lastError = row.lastError
        /\ job'[j].provider = row.provider /\ job'[j].success = row.success
        /\ job'[j].retry = row.retry
    BY <1>2, <1>3, WriteEffect
  <2> QED BY <1>1, <1>3, <2>1 DEF Row, SameRow, SameCounts, NoRow
<1>4. CASE UNCHANGED job
  BY <1>4, NothingWritten DEF SameRow, SameCounts
<1> QED BY <1>3, <1>4 DEF ReplaceBatchImageItemsForJob, RollsBack

(* A job is completed only from settling.                                    *)
LEMMA SettledEffect ==
    ASSUME JobTypeOK, NEW j \in Jobs, NEW out,
           MarkBatchImageJobSettled(j, out)
    PROVE  /\ JobTypeOK' /\ OtherRows(j)
           /\ SameCounts(j) /\ job'[j].lastError = job[j].lastError
           /\ \/ job[j].status = "settling" /\ job'[j].status = "completed"
              \/ UNCHANGED job /\ out # "ok"
<1> DEFINE row == [job[j] EXCEPT !.status = "completed"]
<1>1. job[j] \in Row
  BY DEF JobTypeOK
<1>2. row \in Row
  BY <1>1, RepoAssumption DEF Row, Statuses, ActiveStatuses, TerminalStatuses, NoRow
<1>3. CASE Write(j, row) /\ job[j].status = "settling"
  <2>1. /\ JobTypeOK' /\ OtherRows(j)
        /\ job'[j].status = row.status /\ job'[j].lastError = row.lastError
        /\ job'[j].provider = row.provider /\ job'[j].success = row.success
        /\ job'[j].retry = row.retry
    BY <1>2, <1>3, WriteEffect
  <2> QED BY <1>1, <1>3, <2>1 DEF Row, SameRow, SameCounts, NoRow
<1>4. CASE UNCHANGED job /\ out # "ok"
  BY <1>4, NothingWritten DEF SameRow, SameCounts
<1> QED BY <1>3, <1>4 DEF MarkBatchImageJobSettled, RollsBack

(* A failed settlement counts a retry and leaves the status alone.           *)
LEMMA SettlementFailedEffect ==
    ASSUME JobTypeOK, NEW j \in Jobs, NEW out,
           SetBatchImageJobSettlementFailed(j, out)
    PROVE  /\ JobTypeOK' /\ OtherRows(j)
           /\ job'[j].status = job[j].status /\ job'[j].provider = job[j].provider
           /\ job'[j].success = job[j].success /\ job'[j].retry >= job[j].retry
           /\ \/ job'[j].lastError = "SETTLEMENT"
              \/ UNCHANGED job /\ out # "ok"
<1> DEFINE row == [job[j] EXCEPT !.retry = IF @ < MaxRetries THEN @ + 1 ELSE @,
                            !.lastError = "SETTLEMENT"]
<1>1. job[j] \in Row
  BY DEF JobTypeOK
<1>2. row \in Row
  <2>1. job[j].retry \in 0..MaxRetries /\ MaxRetries \in Nat
    BY <1>1, RepoAssumption DEF Row
  <2>2. (IF job[j].retry < MaxRetries THEN job[j].retry + 1 ELSE job[j].retry)
          \in 0..MaxRetries
    BY <2>1
  <2> QED BY <1>1, <2>2 DEF Row
<1>3. CASE Write(j, row)
  <2>1. /\ JobTypeOK' /\ OtherRows(j)
        /\ job'[j].status = row.status /\ job'[j].lastError = row.lastError
        /\ job'[j].provider = row.provider /\ job'[j].success = row.success
        /\ job'[j].retry = row.retry
    BY <1>2, <1>3, WriteEffect
  <2> QED BY <1>1, <1>3, <2>1 DEF Row, SameRow, SameCounts, NoRow
<1>4. CASE UNCHANGED job /\ out # "ok"
  <2>1. job[j].retry \in Nat
    BY <1>1 DEF Row
  <2> QED BY <1>4, <2>1, NothingWritten DEF SameRow, SameCounts
<1> QED BY <1>3, <1>4 DEF SetBatchImageJobSettlementFailed, RollsBack

(* The output cleanup moves completed jobs only.                             *)
LEMMA OutputDeletedEffect ==
    ASSUME JobTypeOK, NEW j \in Jobs,
           MarkBatchImageOutputDeleted(j)
    PROVE  /\ JobTypeOK' /\ OtherRows(j)
           /\ SameCounts(j) /\ job'[j].lastError = job[j].lastError
           /\ job'[j].status = IF job[j].status = "completed" THEN "output_deleted" ELSE job[j].status
<1> DEFINE row == [job[j] EXCEPT !.status = IF @ = "completed" THEN "output_deleted" ELSE @]
<1>1. job[j] \in Row
  BY DEF JobTypeOK
<1>2. row \in Row
  BY <1>1, RepoAssumption DEF Row, Statuses, ActiveStatuses, TerminalStatuses, NoRow
<1>3. CASE Write(j, row)
  <2>1. /\ JobTypeOK' /\ OtherRows(j)
        /\ job'[j].status = row.status /\ job'[j].lastError = row.lastError
        /\ job'[j].provider = row.provider /\ job'[j].success = row.success
        /\ job'[j].retry = row.retry
    BY <1>2, <1>3, WriteEffect
  <2> QED BY <1>1, <1>3, <2>1 DEF Row, SameRow, SameCounts, NoRow
<1> QED BY <1>3 DEF MarkBatchImageOutputDeleted

(* Nor does the passing of time.                                              *)
LEMMA AgesEffect ==
    ASSUME JobTypeOK, NEW j \in Jobs, Ages(j)
    PROVE  JobTypeOK' /\ OtherRows(j) /\ SameRow(j)
<1>1. job[j] \in Row
  BY DEF JobTypeOK
<1>2. [job[j] EXCEPT !.stale = TRUE] \in Row
  BY <1>1 DEF Row
<1> QED BY <1>1, <1>2 DEF Ages, JobTypeOK, OtherRows, SameRow, SameCounts, Row

-----------------------------------------------------------------------------
(* Types.  The steps of one process leave the steps of the others alone.      *)

ProcTypeOK ==
    /\ upstream \in [Jobs -> UpstreamStates]
    /\ sub \in [Jobs -> SubSteps]
    /\ client \in [Jobs -> ClientSteps]
    /\ rec \in [Jobs -> RecSteps]
    /\ wstep \in [Workers -> ProcessSteps \union {"none"}]
    /\ \A w \in Workers : wpc[w] = "processing" <=> wstep[w] # "none"

LEMMA TypeParts == TypeOK <=> JobTypeOK /\ LedgerTypeOK /\ QueueTypeOK /\ ProcTypeOK
BY DEF TypeOK, JobTypeOK, ProcTypeOK

(* A step inside Process moves its worker on, or ends with a result for the   *)
(* queue; the queue itself and the other workers do not notice.               *)
WorkerMoves(w, step) ==
    /\ UNCHANGED <<ready, delayed, active, inflight, lock, wjob, crashes>>
    /\ \A v \in Workers \ {w} : wpc'[v] = wpc[v] /\ wstep'[v] = wstep[v]
    /\ IF step \in {"ack", "requeue"} THEN wpc'[w] = step /\ wstep'[w] = "none"
       ELSE wpc'[w] = "processing" /\ wstep'[w] = step

LEMMA NextEffect ==
    ASSUME QueueTypeOK, ProcTypeOK, NEW w \in Workers, wpc[w] = "processing",
           NEW step \in ProcessSteps \union {"ack", "requeue"}, Next_(w, step),
           UNCHANGED <<upstream, sub, client, rec>>
    PROVE  [QueueNext]_queueVars /\ ProcTypeOK' /\ WorkerMoves(w, step)
<1>1. CASE step \in {"ack", "requeue"}
  <2>1. Finish(w, step) /\ wstep' = [wstep EXCEPT ![w] = "none"]
    BY <1>1 DEF Next_, Return
  <2>2. QueueNext
    BY <1>1, <2>1 DEF QueueNext, WorkerStep
  <2>3. ProcTypeOK'
    BY <1>1, <2>1 DEF ProcTypeOK, QueueTypeOK, Finish, Goto, WorkerPcs
  <2>4. WorkerMoves(w, step)
    BY <1>1, <2>1 DEF ProcTypeOK, QueueTypeOK, Finish, Goto, redisVars, WorkerMoves
  <2> QED BY <2>2, <2>3, <2>4
<1>2. CASE step \notin {"ack", "requeue"}
  <2>1. wstep' = [wstep EXCEPT ![w] = step] /\ UNCHANGED queueVars
    BY <1>2 DEF Next_, Continue
  <2>2. step # "none" /\ step \in ProcessSteps
    BY <1>2 DEF ProcessSteps
  <2>3. ProcTypeOK'
    BY <2>1, <2>2 DEF ProcTypeOK, QueueTypeOK, queueVars
  <2>4. WorkerMoves(w, step)
    BY <1>2, <2>1 DEF ProcTypeOK, QueueTypeOK, queueVars, WorkerMoves
  <2> QED BY <2>1, <2>3, <2>4
<1> QED BY <1>1, <1>2

(* Who is inside Process has a job.                                           *)
LEMMA WorkerHasJob ==
    ASSUME QueueTypeOK, ProcTypeOK, NEW w \in Workers, wpc[w] = "processing"
    PROVE  J(w) \in Jobs /\ wjob[w] = J(w)
BY DEF QueueTypeOK, J


\* What a step may do to the types, the ledger and the queue.
StepOK == JobTypeOK' /\ [LedgerNext]_ledgerVars /\ [QueueNext]_queueVars /\ ProcTypeOK'

LEMMA StoreStep ==
    ASSUME TypeOK, [Next]_vars
    PROVE  StepOK
<1> USE TypeParts
<1> USE DEF StepOK
<1>1. CASE UNCHANGED vars
  BY <1>1 DEF vars, procVars, ledgerVars, queueVars, JobTypeOK, ProcTypeOK
<1>2. ASSUME NEW j \in Jobs, SubmitCreate(j) PROVE StepOK
  BY <1>2, CreateEffect
  DEF SubmitCreate, SubAt, SubTo, procVars, ProcTypeOK, UpstreamStates, SubSteps,
      ClientSteps, RecSteps, queueVars
<1>3. ASSUME NEW j \in Jobs, SubmitReserve(j) PROVE StepOK
  BY <1>3, ReserveIsLedgerStep
  DEF SubmitReserve, SubAt, SubTo, procVars, JobTypeOK, ProcTypeOK, UpstreamStates,
      SubSteps, ClientSteps, RecSteps, queueVars
<1>4. ASSUME NEW j \in Jobs, SubmitItems(j) PROVE StepOK
  BY <1>4
  DEF SubmitItems, SubAt, SubTo, procVars, JobTypeOK, ProcTypeOK, UpstreamStates,
      SubSteps, ClientSteps, RecSteps, queueVars
<1>5. ASSUME NEW j \in Jobs, SubmitUpload(j) PROVE StepOK
  BY <1>5, TransitionEffect
  DEF SubmitUpload, SubAt, SubTo, procVars, ProcTypeOK, UpstreamStates, SubSteps,
      ClientSteps, RecSteps, queueVars, Statuses, ActiveStatuses, TerminalStatuses
<1>6. ASSUME NEW j \in Jobs, SubmitHeartbeat(j) PROVE StepOK
  BY <1>6, TouchEffect
  DEF SubmitHeartbeat, SubAt, SubTo, procVars, ProcTypeOK, UpstreamStates, SubSteps,
      ClientSteps, RecSteps, queueVars
<1>7. ASSUME NEW j \in Jobs, SubmitProvider(j) PROVE StepOK
  BY <1>7
  DEF SubmitProvider, SubAt, SubTo, procVars, JobTypeOK, ProcTypeOK, UpstreamStates,
      SubSteps, ClientSteps, RecSteps, queueVars
<1>8. ASSUME NEW j \in Jobs, SubmitRecord(j) PROVE StepOK
  BY <1>8, ProviderSubmitEffect
  DEF SubmitRecord, SubAt, SubTo, procVars, ProcTypeOK, UpstreamStates, SubSteps,
      ClientSteps, RecSteps, queueVars
<1>9. ASSUME NEW j \in Jobs, SubmitAbort(j) PROVE StepOK
  BY <1>9
  DEF SubmitAbort, SubAt, SubTo, Stops, procVars, JobTypeOK, ProcTypeOK, UpstreamStates,
      SubSteps, ClientSteps, RecSteps, queueVars
<1>10. ASSUME NEW j \in Jobs, SubmitEnqueue(j) PROVE StepOK
  BY <1>10
  DEF SubmitEnqueue, EnqueueReported, SubAt, SubTo, procVars, QueueNext, Enqueue, MoveDueDelayedToReady,
      RecoverStaleActive, LockExpires, redisVars, JobTypeOK, ProcTypeOK, UpstreamStates,
      SubSteps, ClientSteps, RecSteps, queueVars
<1>11. ASSUME NEW j \in Jobs, SubmitQueueFailed(j) PROVE StepOK
  BY <1>11, RecordFailureEffect
  DEF SubmitQueueFailed, SubAt, SubTo, procVars, ProcTypeOK, UpstreamStates, SubSteps,
      ClientSteps, RecSteps, queueVars
<1>12. ASSUME NEW j \in Jobs, SubmitRelease(j) PROVE StepOK
  BY <1>12, ReleaseIsLedgerStep
  DEF SubmitRelease, SubAt, SubTo, procVars, JobTypeOK, ProcTypeOK, UpstreamStates,
      SubSteps, ClientSteps, RecSteps, queueVars
<1>13. ASSUME NEW j \in Jobs, SubmitReleaseFailed(j) PROVE StepOK
  BY <1>13, RecordFailureEffect
  DEF SubmitReleaseFailed, SubAt, SubTo, procVars, ProcTypeOK, UpstreamStates, SubSteps,
      ClientSteps, RecSteps, queueVars
<1>14. ASSUME NEW j \in Jobs, SubmitRetry(j) PROVE StepOK
  BY <1>14
  DEF SubmitRetry, SubAt, SubTo, EnqueueBestEffort, procVars, QueueNext, Enqueue,
      MoveDueDelayedToReady, RecoverStaleActive, LockExpires, redisVars, JobTypeOK,
      ProcTypeOK, UpstreamStates, SubSteps, ClientSteps, RecSteps, queueVars
<1>15. ASSUME NEW j \in Jobs, SubmitFail(j) PROVE StepOK
  BY <1>15, RecordFailureEffect
  DEF SubmitFail, SubAt, SubTo, procVars, ProcTypeOK, UpstreamStates, SubSteps,
      ClientSteps, RecSteps, queueVars
<1>16. ASSUME NEW j \in Jobs, SubmitHide(j) PROVE StepOK
  BY <1>16, UserDeletedEffect
  DEF SubmitHide, SubAt, SubTo, procVars, ProcTypeOK, UpstreamStates, SubSteps,
      ClientSteps, RecSteps, queueVars
<1>17. ASSUME NEW j \in Jobs, SubmitDies(j) PROVE StepOK
  BY <1>17
  DEF SubmitDies, SubAt, SubTo, procVars, JobTypeOK, ProcTypeOK, UpstreamStates, SubSteps,
      ClientSteps, RecSteps, queueVars
<1>18. ASSUME NEW j \in Jobs, CancelRead(j) PROVE StepOK
  BY <1>18
  DEF CancelRead, ClientAt, ClientTo, procVars, JobTypeOK, ProcTypeOK, UpstreamStates,
      SubSteps, ClientSteps, RecSteps, queueVars
<1>19. ASSUME NEW j \in Jobs, CancelProvider(j) PROVE StepOK
  BY <1>19
  DEF CancelProvider, ClientAt, ClientTo, Stops, procVars, JobTypeOK, ProcTypeOK,
      UpstreamStates, SubSteps, ClientSteps, RecSteps, queueVars
<1>20. ASSUME NEW j \in Jobs, CancelEnqueue(j) PROVE StepOK
  BY <1>20
  DEF CancelEnqueue, ClientAt, ClientTo, EnqueueBestEffort, procVars, QueueNext, Enqueue,
      MoveDueDelayedToReady, RecoverStaleActive, LockExpires, redisVars, JobTypeOK,
      ProcTypeOK, UpstreamStates, SubSteps, ClientSteps, RecSteps, queueVars
<1>21. ASSUME NEW j \in Jobs, CancelTransition(j) PROVE StepOK
  BY <1>21, TransitionEffect
  DEF CancelTransition, ClientAt, ClientTo, procVars, ProcTypeOK, UpstreamStates,
      SubSteps, ClientSteps, RecSteps, queueVars, Statuses, ActiveStatuses,
      TerminalStatuses
<1>22. ASSUME NEW j \in Jobs, CancelRelease(j) PROVE StepOK
  BY <1>22, ReleaseIsLedgerStep
  DEF CancelRelease, ClientAt, ClientTo, procVars, JobTypeOK, ProcTypeOK, UpstreamStates,
      SubSteps, ClientSteps, RecSteps, queueVars
<1>23. ASSUME NEW j \in Jobs, CancelRetry(j) PROVE StepOK
  BY <1>23
  DEF CancelRetry, ClientAt, ClientTo, EnqueueBestEffort, procVars, QueueNext, Enqueue,
      MoveDueDelayedToReady, RecoverStaleActive, LockExpires, redisVars, JobTypeOK,
      ProcTypeOK, UpstreamStates, SubSteps, ClientSteps, RecSteps, queueVars
<1>24. ASSUME NEW j \in Jobs, ResubmitRead(j) PROVE StepOK
  BY <1>24
  DEF ResubmitRead, ClientAt, ClientTo, procVars, JobTypeOK, ProcTypeOK, UpstreamStates,
      SubSteps, ClientSteps, RecSteps, queueVars
<1>25. ASSUME NEW j \in Jobs, ResubmitEnqueue(j) PROVE StepOK
  BY <1>25
  DEF ResubmitEnqueue, EnqueueReported, ClientAt, ClientTo, procVars, QueueNext, Enqueue,
      MoveDueDelayedToReady, RecoverStaleActive, LockExpires, redisVars, JobTypeOK,
      ProcTypeOK, UpstreamStates, SubSteps, ClientSteps, RecSteps, queueVars
<1>26. ASSUME NEW j \in Jobs, ResubmitFailed(j) PROVE StepOK
  BY <1>26, RecordFailureEffect
  DEF ResubmitFailed, ClientAt, ClientTo, procVars, ProcTypeOK, UpstreamStates, SubSteps,
      ClientSteps, RecSteps, queueVars
<1>27. ASSUME NEW j \in Jobs, DeleteRecord(j) PROVE StepOK
  BY <1>27, UserDeletedEffect
  DEF DeleteRecord, ClientAt, ClientTo, procVars, ProcTypeOK, UpstreamStates, SubSteps,
      ClientSteps, RecSteps, queueVars
<1>28. ASSUME NEW j \in Jobs, CleanupOutput(j) PROVE StepOK
  BY <1>28, OutputDeletedEffect
  DEF CleanupOutput, ClientAt, ClientTo, procVars, ProcTypeOK, UpstreamStates, SubSteps,
      ClientSteps, RecSteps, queueVars
<1>29. ASSUME NEW j \in Jobs, ClientDies(j) PROVE StepOK
  BY <1>29
  DEF ClientDies, ClientAt, ClientTo, procVars, JobTypeOK, ProcTypeOK, UpstreamStates,
      SubSteps, ClientSteps, RecSteps, queueVars
<1>30. ASSUME NEW j \in Jobs, RecoveryList(j) PROVE StepOK
  BY <1>30
  DEF RecoveryList, RecAt, RecTo, procVars, JobTypeOK, ProcTypeOK, UpstreamStates,
      SubSteps, ClientSteps, RecSteps, queueVars
<1>31. ASSUME NEW j \in Jobs, RecoveryFail(j) PROVE StepOK
  BY <1>31, FailStaleEffect
  DEF RecoveryFail, RecAt, RecTo, procVars, ProcTypeOK, UpstreamStates, SubSteps,
      ClientSteps, RecSteps, queueVars
<1>32. ASSUME NEW j \in Jobs, RecoveryRelease(j) PROVE StepOK
  BY <1>32, ReleaseIsLedgerStep
  DEF RecoveryRelease, RecAt, RecTo, procVars, JobTypeOK, ProcTypeOK, UpstreamStates,
      SubSteps, ClientSteps, RecSteps, queueVars
<1>33. ASSUME NEW j \in Jobs, RecoveryRetry(j) PROVE StepOK
  BY <1>33
  DEF RecoveryRetry, RecAt, RecTo, EnqueueBestEffort, procVars, QueueNext, Enqueue,
      MoveDueDelayedToReady, RecoverStaleActive, LockExpires, redisVars, JobTypeOK,
      ProcTypeOK, UpstreamStates, SubSteps, ClientSteps, RecSteps, queueVars
<1>34. ASSUME NEW j \in Jobs, RecoveryDies(j) PROVE StepOK
  BY <1>34
  DEF RecoveryDies, RecAt, RecTo, procVars, JobTypeOK, ProcTypeOK, UpstreamStates,
      SubSteps, ClientSteps, RecSteps, queueVars
<1>35. ASSUME NEW j \in Jobs, RowAges(j) PROVE StepOK
  BY <1>35, AgesEffect
  DEF RowAges, procVars, ProcTypeOK, UpstreamStates, SubSteps, ClientSteps, RecSteps,
      queueVars
<1>36. ASSUME NEW j \in Jobs, ProviderRuns(j) PROVE StepOK
  BY <1>36
  DEF ProviderRuns, procVars, JobTypeOK, ProcTypeOK, UpstreamStates, SubSteps,
      ClientSteps, RecSteps, queueVars
<1>37. ASSUME NEW j \in Jobs, ProviderEnds(j) PROVE StepOK
  BY <1>37
  DEF ProviderEnds, procVars, JobTypeOK, ProcTypeOK, UpstreamStates, SubSteps,
      ClientSteps, RecSteps, queueVars
<1>38. ASSUME NEW j \in Jobs, Maintenance(j) PROVE StepOK
  BY <1>38
  DEF Maintenance, procVars, QueueNext, Enqueue, MoveDueDelayedToReady,
      RecoverStaleActive, LockExpires, redisVars, JobTypeOK, ProcTypeOK, UpstreamStates,
      SubSteps, ClientSteps, RecSteps, queueVars
<1>39. ASSUME NEW w \in Workers, ProcessStart(w) PROVE StepOK
  <2>1. wpc[w] = "processing" /\ UNCHANGED <<upstream, sub, client, rec>>
    BY <1>39 DEF ProcessStart, At
  <2>2. PICK step \in ProcessSteps \union {"ack", "requeue"} : Next_(w, step)
    BY <1>39 DEF ProcessStart, At, Next_, ProcessSteps, ReadFails
  <2>3. J(w) \in Jobs
    BY <2>1, WorkerHasJob
  <2>4. JobTypeOK' /\ [LedgerNext]_ledgerVars
    BY <1>39, <2>3 DEF ProcessStart, JobTypeOK
  <2> QED BY <2>1, <2>2, <2>4, NextEffect
<1>40. ASSUME NEW w \in Workers, ProcessRead(w) PROVE StepOK
  <2>1. wpc[w] = "processing" /\ UNCHANGED <<upstream, sub, client, rec>>
    BY <1>40 DEF ProcessRead, At
  <2>2. PICK step \in ProcessSteps \union {"ack", "requeue"} : Next_(w, step)
    BY <1>40 DEF ProcessRead, At, Next_, ProcessSteps, ReadFails, AfterRead
  <2>3. J(w) \in Jobs
    BY <2>1, WorkerHasJob
  <2>4. JobTypeOK' /\ [LedgerNext]_ledgerVars
    BY <1>40, <2>3 DEF ProcessRead, JobTypeOK
  <2> QED BY <2>1, <2>2, <2>4, NextEffect
<1>41. ASSUME NEW w \in Workers, ProcessPoll(w) PROVE StepOK
  <2>1. wpc[w] = "processing" /\ UNCHANGED <<upstream, sub, client, rec>>
    BY <1>41 DEF ProcessPoll, At
  <2>2. PICK step \in ProcessSteps \union {"ack", "requeue"} : Next_(w, step)
    BY <1>41 DEF ProcessPoll, At, Next_, ProcessSteps, AfterPoll
  <2>3. J(w) \in Jobs
    BY <2>1, WorkerHasJob
  <2>4. JobTypeOK' /\ [LedgerNext]_ledgerVars
    BY <1>41, <2>3 DEF ProcessPoll, JobTypeOK
  <2> QED BY <2>1, <2>2, <2>4, NextEffect
<1>42. ASSUME NEW w \in Workers, ProcessTransition(w) PROVE StepOK
  <2>1. wpc[w] = "processing" /\ UNCHANGED <<upstream, sub, client, rec>>
    BY <1>42 DEF ProcessTransition, At
  <2>2. PICK step \in ProcessSteps \union {"ack", "requeue"} : Next_(w, step)
    BY <1>42 DEF ProcessTransition, At, Next_, ProcessSteps, AfterTransition
  <2>3. J(w) \in Jobs
    BY <2>1, WorkerHasJob
  <2>4. JobTypeOK' /\ [LedgerNext]_ledgerVars
    BY <1>42, <2>3, TransitionEffect DEF ProcessTransition, Statuses, ActiveStatuses,
        TerminalStatuses
  <2> QED BY <2>1, <2>2, <2>4, NextEffect
<1>43. ASSUME NEW w \in Workers, ProcessIndex(w) PROVE StepOK
  <2>1. wpc[w] = "processing" /\ UNCHANGED <<upstream, sub, client, rec>>
    BY <1>43 DEF ProcessIndex, At
  <2>2. PICK step \in ProcessSteps \union {"ack", "requeue"} : Next_(w, step)
    BY <1>43 DEF ProcessIndex, At, Next_, ProcessSteps
  <2>3. J(w) \in Jobs
    BY <2>1, WorkerHasJob
  <2>4. JobTypeOK' /\ [LedgerNext]_ledgerVars
    BY <1>43, <2>3, ReplaceEffect DEF ProcessIndex, JobTypeOK
  <2> QED BY <2>1, <2>2, <2>4, NextEffect
<1>44. ASSUME NEW w \in Workers, ProcessRelease(w) PROVE StepOK
  <2>1. wpc[w] = "processing" /\ UNCHANGED <<upstream, sub, client, rec>>
    BY <1>44 DEF ProcessRelease, At
  <2>2. PICK step \in ProcessSteps \union {"ack", "requeue"} : Next_(w, step)
    BY <1>44 DEF ProcessRelease, At, Next_, ProcessSteps
  <2>3. J(w) \in Jobs
    BY <2>1, WorkerHasJob
  <2>4. JobTypeOK' /\ [LedgerNext]_ledgerVars
    BY <1>44, <2>3, ReleaseIsLedgerStep DEF ProcessRelease, JobTypeOK
  <2> QED BY <2>1, <2>2, <2>4, NextEffect
<1>45. ASSUME NEW w \in Workers, SettleRead(w) PROVE StepOK
  <2>1. wpc[w] = "processing" /\ UNCHANGED <<upstream, sub, client, rec>>
    BY <1>45 DEF SettleRead, At
  <2>2. PICK step \in ProcessSteps \union {"ack", "requeue"} : Next_(w, step)
    BY <1>45 DEF SettleRead, At, Next_, ProcessSteps, ReadFails, AfterSettleRead
  <2>3. J(w) \in Jobs
    BY <2>1, WorkerHasJob
  <2>4. JobTypeOK' /\ [LedgerNext]_ledgerVars
    BY <1>45, <2>3 DEF SettleRead, JobTypeOK
  <2> QED BY <2>1, <2>2, <2>4, NextEffect
<1>46. ASSUME NEW w \in Workers, SettleCapture(w) PROVE StepOK
  <2>1. wpc[w] = "processing" /\ UNCHANGED <<upstream, sub, client, rec>>
    BY <1>46 DEF SettleCapture, At
  <2>2. PICK step \in ProcessSteps \union {"ack", "requeue"} : Next_(w, step)
    BY <1>46 DEF SettleCapture, At, Next_, ProcessSteps
  <2>3. J(w) \in Jobs
    BY <2>1, WorkerHasJob
  <2>4. JobTypeOK' /\ [LedgerNext]_ledgerVars
    BY <1>46, <2>3, CaptureIsLedgerStep DEF SettleCapture, JobTypeOK
  <2> QED BY <2>1, <2>2, <2>4, NextEffect
<1>47. ASSUME NEW w \in Workers, SettleMark(w) PROVE StepOK
  <2>1. wpc[w] = "processing" /\ UNCHANGED <<upstream, sub, client, rec>>
    BY <1>47 DEF SettleMark, At
  <2>2. PICK step \in ProcessSteps \union {"ack", "requeue"} : Next_(w, step)
    BY <1>47 DEF SettleMark, At, Next_, ProcessSteps
  <2>3. J(w) \in Jobs
    BY <2>1, WorkerHasJob
  <2>4. JobTypeOK' /\ [LedgerNext]_ledgerVars
    BY <1>47, <2>3, SettledEffect DEF SettleMark
  <2> QED BY <2>1, <2>2, <2>4, NextEffect
<1>48. ASSUME NEW w \in Workers, SettleRecordFailure(w) PROVE StepOK
  <2>1. wpc[w] = "processing" /\ UNCHANGED <<upstream, sub, client, rec>>
    BY <1>48 DEF SettleRecordFailure, At
  <2>2. PICK step \in ProcessSteps \union {"ack", "requeue"} : Next_(w, step)
    BY <1>48 DEF SettleRecordFailure, At, Next_, ProcessSteps
  <2>3. J(w) \in Jobs
    BY <2>1, WorkerHasJob
  <2>4. JobTypeOK' /\ [LedgerNext]_ledgerVars
    BY <1>48, <2>3, SettlementFailedEffect DEF SettleRecordFailure
  <2> QED BY <2>1, <2>2, <2>4, NextEffect
<1>49. ASSUME NEW w \in Workers, ExhaustRelease(w) PROVE StepOK
  <2>1. wpc[w] = "processing" /\ UNCHANGED <<upstream, sub, client, rec>>
    BY <1>49 DEF ExhaustRelease, At
  <2>2. PICK step \in ProcessSteps \union {"ack", "requeue"} : Next_(w, step)
    BY <1>49 DEF ExhaustRelease, At, Next_, ProcessSteps
  <2>3. J(w) \in Jobs
    BY <2>1, WorkerHasJob
  <2>4. JobTypeOK' /\ [LedgerNext]_ledgerVars
    BY <1>49, <2>3, ReleaseIsLedgerStep DEF ExhaustRelease, JobTypeOK
  <2> QED BY <2>1, <2>2, <2>4, NextEffect
<1>50. ASSUME NEW w \in Workers, ExhaustReleaseFailed(w) PROVE StepOK
  <2>1. wpc[w] = "processing" /\ UNCHANGED <<upstream, sub, client, rec>>
    BY <1>50 DEF ExhaustReleaseFailed, At
  <2>2. PICK step \in ProcessSteps \union {"ack", "requeue"} : Next_(w, step)
    BY <1>50 DEF ExhaustReleaseFailed, At, Next_, ProcessSteps
  <2>3. J(w) \in Jobs
    BY <2>1, WorkerHasJob
  <2>4. JobTypeOK' /\ [LedgerNext]_ledgerVars
    BY <1>50, <2>3, SettlementFailedEffect DEF ExhaustReleaseFailed
  <2> QED BY <2>1, <2>2, <2>4, NextEffect
<1>51. ASSUME NEW w \in Workers, ExhaustFail(w) PROVE StepOK
  <2>1. wpc[w] = "processing" /\ UNCHANGED <<upstream, sub, client, rec>>
    BY <1>51 DEF ExhaustFail, At
  <2>2. PICK step \in ProcessSteps \union {"ack", "requeue"} : Next_(w, step)
    BY <1>51 DEF ExhaustFail, At, Next_, ProcessSteps
  <2>3. J(w) \in Jobs
    BY <2>1, WorkerHasJob
  <2>4. JobTypeOK' /\ [LedgerNext]_ledgerVars
    BY <1>51, <2>3, TransitionEffect DEF ExhaustFail, Statuses, ActiveStatuses,
        TerminalStatuses
  <2> QED BY <2>1, <2>2, <2>4, NextEffect
<1>52. ASSUME NEW w \in Workers, ProcessRecheck(w) PROVE StepOK
  <2>1. wpc[w] = "processing" /\ UNCHANGED <<upstream, sub, client, rec>>
    BY <1>52 DEF ProcessRecheck, At
  <2>2. PICK step \in ProcessSteps \union {"ack", "requeue"} : Next_(w, step)
    BY <1>52 DEF ProcessRecheck, At, Next_, ProcessSteps, ReadFails
  <2>3. J(w) \in Jobs
    BY <2>1, WorkerHasJob
  <2>4. JobTypeOK' /\ [LedgerNext]_ledgerVars
    BY <1>52, <2>3 DEF ProcessRecheck, JobTypeOK
  <2> QED BY <2>1, <2>2, <2>4, NextEffect
<1>53. ASSUME NEW w \in Workers, WorkerTakesLock(w) PROVE StepOK
  BY <1>53
  DEF WorkerTakesLock, QueueNext, WorkerStep, Outside, JobTypeOK, ProcTypeOK, QueueTypeOK,
      TryAcquireJobLock, Reserve, RequeueAfter, Ack, AfterQueueCall, ReleaseLock,
      WorkerCrash, Goto, ProcessSteps
<1>54. ASSUME NEW w \in Workers, WorkerLoop(w) PROVE StepOK
  BY <1>54
  DEF WorkerLoop, QueueNext, WorkerStep, Outside, JobTypeOK, ProcTypeOK, QueueTypeOK,
      TryAcquireJobLock, Reserve, RequeueAfter, Ack, AfterQueueCall, ReleaseLock,
      WorkerCrash, Goto, ProcessSteps
<1>55. ASSUME NEW w \in Workers, WorkerDies(w) PROVE StepOK
  BY <1>55
  DEF WorkerDies, QueueNext, WorkerStep, Outside, JobTypeOK, ProcTypeOK, QueueTypeOK,
      TryAcquireJobLock, Reserve, RequeueAfter, Ack, AfterQueueCall, ReleaseLock,
      WorkerCrash, Goto, ProcessSteps
<1> QED BY <1>1, <1>2, <1>3, <1>4, <1>5, <1>6, <1>7, <1>8, <1>9, <1>10, <1>11, <1>12,
    <1>13, <1>14, <1>15, <1>16, <1>17, <1>18, <1>19, <1>20, <1>21, <1>22, <1>23, <1>24,
    <1>25, <1>26, <1>27, <1>28, <1>29, <1>30, <1>31, <1>32, <1>33, <1>34, <1>35, <1>36,
    <1>37, <1>38, <1>39, <1>40, <1>41, <1>42, <1>43, <1>44, <1>45, <1>46, <1>47, <1>48,
    <1>49, <1>50, <1>51, <1>52, <1>53, <1>54, <1>55
  DEF Next, Submit, Client, ClientStep, Recovery, Worker, Process

LEMMA TypeStep ==
    ASSUME TypeOK, [Next]_vars
    PROVE  TypeOK'
<1>1. StepOK
  BY StoreStep
<1>2. LedgerTypeOK' /\ QueueTypeOK'
  BY <1>1, TypeParts, LedgerTypeStep, QueueTypeStep DEF StepOK
<1> QED BY <1>1, <1>2 DEF StepOK, TypeOK, JobTypeOK, ProcTypeOK

LEMMA InitTypes == Init => TypeOK
<1> SUFFICES ASSUME Init PROVE TypeOK
  OBVIOUS
<1>1. JobTypeOK
  <2>1. 0 \in 0..Items /\ 0 \in 0..MaxRetries
    BY RepoAssumption
  <2>2. NoRow \in Row
    BY <2>1 DEF NoRow, Row
  <2> QED BY <2>2 DEF Init, RepoInit, JobTypeOK
<1>2. LedgerTypeOK
  BY LedgerAssumption DEF Init, LedgerInit, LedgerTypeOK
<1>3. QueueTypeOK
  BY QueueAssumption DEF Init, QueueInit, QueueTypeOK, WorkerPcs
<1>4. ProcTypeOK
  BY DEF Init, QueueInit, ProcTypeOK, UpstreamStates, SubSteps, ClientSteps, RecSteps
<1> QED BY <1>1, <1>2, <1>3, <1>4, TypeParts

(* Every variable of the pipeline keeps its type, and a worker is inside      *)
(* Process exactly while the queue's loop says so.                            *)
THEOREM PipelineTypeCorrect == Spec => []TypeOK
<1> QED BY InitTypes, TypeStep, PTL DEF Spec

(* The pipeline moves money only as the ledger does: what is proved of the    *)
(* ledger holds of the pipeline, whatever its handlers and workers do.        *)
THEOREM PipelineImplementsLedger == Spec => LedgerSpec
<1>1. Init => LedgerInit
  BY DEF Init
<1>2. TypeOK /\ [Next]_vars => [LedgerNext]_ledgerVars
  BY StoreStep DEF StepOK
<1> QED BY <1>1, <1>2, PipelineTypeCorrect, PTL DEF Spec, LedgerSpec

(* And it uses the queue only as its producers, maintenance loops and workers *)
(* do.                                                                        *)
THEOREM PipelineImplementsQueue == Spec => QueueSpec
<1>1. Init => QueueInit
  BY DEF Init
<1>2. TypeOK /\ [Next]_vars => [QueueNext]_queueVars
  BY StoreStep DEF StepOK
<1> QED BY <1>1, <1>2, PipelineTypeCorrect, PTL DEF Spec, QueueSpec

-----------------------------------------------------------------------------
(* The inductive invariant, for one job.  Its parts say what each process may *)
(* assume of the row, the ledger and the provider at the step it has reached, *)
(* however the others interleave.                                             *)

Failed(j)       == job[j].status \in {"failed", "cancelled"}
PastIndexing(j) == job[j].status \in {"settling", "completed", "failed", "cancelled",
                                      "output_deleted"}
Exhausted(j)    == RetryExhausted(job[j])
Ended(j)        == upstream[j] \in {"succeeded", "failed", "cancelled"}
HoldTaken(j)    == Hold[j] = 0 \/ Claimed("hold", j)
Charged(j)      == <<"capture", j>> \in moved
Refunded(j)     == <<"release", j>> \in moved
Covered(j)      == Price * job[j].success <= Hold[j]

\* The capture of the job as its item table counts it now is recorded, or there is nothing to pay.
Billed(j) == HoldCommand("capture", j, "manifest", Price * job[j].success) \in claims
Paid(j)   == (Hold[j] = 0 /\ Price * job[j].success = 0) \/ Billed(j)

\* Every recorded capture of the job moved money, unless there was nothing to move.
CapturesMoved(j) == \A c \in claims : c.op = "capture" /\ c.job = j =>
    (Hold[j] = 0 /\ c.actual = 0) \/ Charged(j)

Preparing == {"reserve", "items", "upload", "provider", "record"}
Aborting  == {"release", "release_fail", "release_failed", "retry", "fail", "hide"}
SettleSteps == {"settle", "capture", "mark", "fail_exceeds", "fail_billing",
                "exhaust_release", "exhaust_release_failed", "exhaust_fail"}

\* A submission that has not reached the provider works on a row without a provider job.
SubKnows(j) ==
    /\ sub[j] = "idle" => job[j].status = "none" /\ \A op \in Ops : ~Claimed(op, j)
    /\ sub[j] # "idle" => job[j].status # "none"
    /\ sub[j] \in Preparing \union Aborting => ~job[j].provider
    /\ sub[j] = "reserve" => ~Claimed("hold", j)
    /\ sub[j] \in Preparing \ {"reserve"} => HoldTaken(j)

\* A row has a provider job exactly from its submission on, and a hold by then.
RowKnows(j) ==
    /\ job[j].provider => /\ job[j].status \notin {"none", "created", "uploading"}
                          /\ HoldTaken(j)
    /\ ~job[j].provider => job[j].status \in {"none", "created", "uploading", "failed",
                                              "cancelled"}

\* Cancel, recovery and worker release the hold of failed jobs only.
HandlersKnow(j) ==
    /\ client[j] \in {"cancel_release", "cancel_retry"} => Failed(j)
    /\ rec[j] \in {"release", "retry"} => Failed(j)

WorkersKnow(j) == \A w \in Workers : wjob[w] = j =>
    /\ wstep[w] \in SettleSteps \union {"recheck"} => PastIndexing(j)
    /\ wstep[w] = "release" => Failed(j)
    /\ wstep[w] \in {"running", "indexing", "settling", "failed", "cancelled", "index",
                     "poll", "poll_running"} => job[j].provider

\* A hold is given back before the submission or after the indexing, never in between.
RefundedKnows(j) == Refunded(j) =>
    \/ PastIndexing(j)
    \/ /\ job[j].status \in {"created", "uploading"}
       /\ sub[j] \in Aborting \union {"done"}

\* Nobody indexes, settles or completes a job that the provider still runs.
UpstreamKnows(j) ==
    /\ sub[j] \in {"idle"} \union (Preparing \ {"record"}) => upstream[j] = "none"
    /\ job[j].status \in {"indexing", "settling", "completed", "output_deleted"} => Ended(j)
    /\ \A w \in Workers : wjob[w] = j =>
         (wstep[w] \in {"indexing", "index", "settling", "failed", "cancelled"} => Ended(j))

\* Who is about to complete a job has charged it, for the count the row still has.
PaidKnows(j) ==
    /\ job[j].status \in {"completed", "output_deleted"} => Paid(j)
    /\ \A w \in Workers : wjob[w] = j => (wstep[w] = "mark" => Paid(j))
    /\ CapturesMoved(j)

\* Unless its lock may lapse, nobody but its worker takes a job out of settling.
AloneKnows(j) == j \notin MayLapse =>
    \A w \in Workers : wjob[w] = j =>
        /\ wstep[w] \in {"read", "settling"} => job[j].status # "settling"
        /\ wstep[w] \in SettleSteps => job[j].status = "settling"
        /\ wstep[w] = "recheck" => job[j].status \in {"settling", "failed"}
        /\ wpc[w] = "ack" => IsTerminal(job[j].status)

(* A submission that was recorded reaches its Enqueue, and Redis accepts it.  *)
SubmissionsEnqueue ==
    "enqueue" \notin FaultOps \union DiesAt /\ "provider_submit" \notin LostAcks

Submitted == {"submitted", "running", "indexing", "settling"}

\* Somebody will look at a submitted job.
QueuedKnows(j) == SubmissionsEnqueue /\ j \notin MayLapse =>
    (job[j].status \in Submitted => j \in inflight \/ sub[j] = "enqueue")

\* The job of the provider ended before the row says that it failed.
StopKnows(j) == job[j].provider /\ job[j].status = "failed" => Ended(j)

Knows(j) ==
    /\ SubKnows(j) /\ RowKnows(j) /\ HandlersKnow(j) /\ WorkersKnow(j) /\ RefundedKnows(j)
    /\ UpstreamKnows(j) /\ PaidKnows(j) /\ AloneKnows(j) /\ QueuedKnows(j)
    /\ StopKnows(j)

EveryJobKnown == \A j \in Jobs : Knows(j)

\* A worker may have the job, or get it from the queue.
Held(j) ==
    InReady(j) \/ j \in delayed \/ j \in active \/ \E w \in Workers : wjob[w] = j

\* A job that a worker may have or get is inflight, unless it is finished.
HeldKnown ==
    \A j \in Jobs \ MayLapse : Held(j) => j \in inflight \/ IsTerminal(job[j].status)

-----------------------------------------------------------------------------
(* What the billing calls do to the records of their own job, and of others.  *)

Recorded == TypeOK /\ HoldClaimMovesMoney

SameClaims(j, ops) == \A op \in ops :
    /\ Claimed(op, j)' <=> Claimed(op, j)
    /\ <<op, j>> \in moved' <=> <<op, j>> \in moved
    /\ \A c \in Claim : c.op = op /\ c.job = j => (c \in claims' <=> c \in claims)

OtherMoney(j) == \A i \in Jobs \ {j} : SameClaims(i, Ops)

LEMMA NoMoneyMoved ==
    ASSUME UNCHANGED ledgerVars
    PROVE  \A j : SameClaims(j, Ops)
BY DEF ledgerVars, SameClaims, Claimed

(* A transaction that commits the claim c writes the records of c.op only.    *)
LEMMA ClaimEffect ==
    ASSUME NEW c \in Claim, ClaimStep(c)
    PROVE  /\ claims' = claims \union {c}
           /\ moved' = moved \/ moved' = moved \union {<<c.op, c.job>>}
           /\ ~Claimed(c.op, c.job)
           /\ OtherMoney(c.job) /\ SameClaims(c.job, Ops \ {c.op})
<1>1. /\ claims' = claims \union {c} /\ ~Claimed(c.op, c.job)
      /\ moved' = moved \/ moved' = moved \union {<<c.op, c.job>>}
  BY DEF ClaimStep, OnlyClaims, Reserves, Captures, Releases, Moves, money
<1>2. \A op, i : op # c.op \/ i # c.job =>
        /\ Claimed(op, i)' <=> Claimed(op, i)
        /\ <<op, i>> \in moved' <=> <<op, i>> \in moved
        /\ \A d \in Claim : d.op = op /\ d.job = i => (d \in claims' <=> d \in claims)
  BY <1>1 DEF Claimed
<1> QED BY <1>1, <1>2 DEF OtherMoney, SameClaims

(* A release that answers well has its claim recorded, now or before.         *)
LEMMA ReleaseRecorded ==
    ASSUME NEW j \in Jobs, NEW p \in Payloads, NEW res \in {"ok", "conflict"},
           ReleaseBatchImageBalance(j, p, res)
    PROVE  Claimed("release", j)'
<1> DEFINE c == HoldCommand("release", j, p, 0)
<1>1. c.op = "release" /\ c.job = j
  BY DEF HoldCommand
<1>2. applyBatchImageBalanceHold(c, res, releaseUsageBillingBatchImageBalance(c, res))
  BY DEF ReleaseBatchImageBalance
<1> HIDE DEF c
<1>3. CASE (c \in claims \/ Claimed("release", j)) /\ UNCHANGED claims
  BY <1>1, <1>3 DEF Claimed
<1>4. CASE /\ releaseUsageBillingBatchImageBalance(c, res)
           /\ claims' = IF res = "ok" THEN claims \union {c} ELSE claims
  <2>1. res = "ok"
    BY <1>4 DEF releaseUsageBillingBatchImageBalance, NothingMoves
  <2> QED BY <1>1, <1>4, <2>1 DEF Claimed
<1> QED BY <1>1, <1>2, <1>3, <1>4 DEF applyBatchImageBalanceHold

LEMMA ReleaseEffect ==
    ASSUME Recorded, NEW j \in Jobs, NEW ok \in BOOLEAN, releaseBatchImageBalanceHold(j, ok)
    PROVE  /\ OtherMoney(j) /\ SameClaims(j, {"hold", "capture"})
           /\ claims \subseteq claims'
           /\ Claimed("release", j) => Claimed("release", j)'
           /\ Refunded(j) => Refunded(j)'
           /\ Refunded(j)' => \/ Refunded(j)
                              \/ Claimed("hold", j) /\ Hold[j] > 0 /\ ~Claimed("release", j)
           /\ ok => Hold[j] = 0 \/ Claimed("release", j)'
<1>1. \/ UNCHANGED ledgerVars
      \/ \E c \in Claim : c.op = "release" /\ c.job = j /\ ClaimStep(c)
  <2>1. CASE \E res \in Outcomes : ReleaseBatchImageBalance(j, "request", res)
    BY <2>1, ReleaseCases, TypeParts, PipelineAssumption DEF Recorded, HoldCommand
  <2> QED BY <2>1 DEF releaseBatchImageBalanceHold, LedgerCall, Outcomes
<1>2. ok => Hold[j] = 0 \/ Claimed("release", j)'
  <2>1. CASE Hold[j] # 0 /\ ok
    <3>1. PICK res \in {"ok", "conflict"} : ReleaseBatchImageBalance(j, "request", res)
      BY <2>1 DEF releaseBatchImageBalanceHold, LedgerCall
    <3> QED BY <3>1, ReleaseRecorded, PipelineAssumption
  <2> QED BY <2>1
<1>3. CASE UNCHANGED ledgerVars
  BY <1>2, <1>3, NoMoneyMoved DEF ledgerVars, OtherMoney, SameClaims, Refunded, Ops
<1>4. ASSUME NEW c \in Claim, c.op = "release", c.job = j, ClaimStep(c)
      PROVE  /\ OtherMoney(j) /\ SameClaims(j, {"hold", "capture"})
             /\ claims \subseteq claims'
             /\ Claimed("release", j) => Claimed("release", j)'
             /\ Refunded(j) => Refunded(j)'
             /\ Refunded(j)' => \/ Refunded(j)
                                \/ /\ Claimed("hold", j) /\ Hold[j] > 0
                                   /\ ~Claimed("release", j)
  <2>1. /\ OtherMoney(j) /\ SameClaims(j, Ops \ {"release"}) /\ ~Claimed("release", j)
        /\ claims' = claims \union {c}
        /\ moved \subseteq moved'
    BY <1>4, ClaimEffect
  <2>2. SameClaims(j, {"hold", "capture"})
    BY <2>1 DEF SameClaims, Ops
  <2>3. CASE OnlyClaims(c)
    BY <2>1, <2>2, <2>3 DEF OnlyClaims, money, Refunded
  <2>4. CASE Releases(c)
    BY <1>4, <2>1, <2>2, <2>4 DEF Releases, Refunded
  <2> QED BY <1>4, <2>3, <2>4 DEF ClaimStep, Reserves, Captures
<1> QED BY <1>1, <1>2, <1>3, <1>4

(* A reservation that answers well has its claim recorded, and one that       *)
(* answers badly has not, unless the answer was lost.                         *)
LEMMA ReserveRecorded ==
    ASSUME NEW j \in Jobs, NEW p \in Payloads, NEW res \in Outcomes,
           ReserveBatchImageBalance(j, p, res), ~Claimed("hold", j), LedgerTypeOK
    PROVE  IF res = "ok" THEN Claimed("hold", j)' ELSE UNCHANGED ledgerVars
<1> DEFINE c == HoldCommand("hold", j, p, 0)
<1>1. /\ c.op = "hold" /\ c.job = j
      /\ Hold[j] \in Nat
  BY LedgerAssumption DEF HoldCommand
<1>2. /\ applyBatchImageBalanceHold(c, res, reserveUsageBillingBatchImageBalance(c, res))
      /\ UNCHANGED spent
  BY DEF ReserveBatchImageBalance
<1> HIDE DEF c
<1>3. c \notin claims
  BY <1>1 DEF Claimed
<1>4. /\ reserveUsageBillingBatchImageBalance(c, res)
      /\ claims' = IF res = "ok" THEN claims \union {c} ELSE claims
  BY <1>1, <1>2, <1>3 DEF applyBatchImageBalanceHold
<1>5. CASE res = "ok"
  BY <1>1, <1>4, <1>5 DEF Claimed
<1>6. CASE res # "ok"
  BY <1>2, <1>4, <1>6
  DEF reserveUsageBillingBatchImageBalance, NothingMoves, money, ledgerVars
<1> QED BY <1>5, <1>6

LEMMA ReserveEffect ==
    ASSUME Recorded, NEW j \in Jobs, NEW ok \in BOOLEAN, reserveBatchImageBalanceHold(j, ok),
           ~Claimed("hold", j)
    PROVE  /\ OtherMoney(j) /\ SameClaims(j, {"capture", "release"})
           /\ claims \subseteq claims'
           /\ ok => HoldTaken(j)'
           /\ ~ok /\ "reserve" \notin LostAcks => ~Claimed("hold", j)'
<1>1. CASE Hold[j] = 0
  BY <1>1, NoMoneyMoved
  DEF reserveBatchImageBalanceHold, HoldTaken, ledgerVars, OtherMoney, SameClaims, Ops
<1>2. CASE Hold[j] # 0
  <2>1. CASE UNCHANGED ledgerVars /\ ~ok
    BY <2>1, NoMoneyMoved DEF ledgerVars, OtherMoney, SameClaims, Ops, Claimed
  <2>2. ASSUME NEW res \in Outcomes, ReserveBatchImageBalance(j, "request", res),
               ok => res = "ok", ~ok /\ "reserve" \notin LostAcks => res # "ok"
        PROVE  /\ OtherMoney(j) /\ SameClaims(j, {"capture", "release"})
               /\ claims \subseteq claims'
               /\ ok => HoldTaken(j)'
               /\ ~ok /\ "reserve" \notin LostAcks => ~Claimed("hold", j)'
    <3>1. IF res = "ok" THEN Claimed("hold", j)' ELSE UNCHANGED ledgerVars
      BY <2>2, ReserveRecorded, PipelineAssumption, TypeParts DEF Recorded
    <3>2. \/ UNCHANGED ledgerVars
          \/ \E c \in Claim : c.op = "hold" /\ c.job = j /\ ClaimStep(c)
      BY <2>2, ReserveCases, PipelineAssumption, TypeParts DEF Recorded, HoldCommand
    <3>3. /\ OtherMoney(j) /\ SameClaims(j, {"capture", "release"})
          /\ claims \subseteq claims'
      <4>1. CASE UNCHANGED ledgerVars
        BY <4>1, NoMoneyMoved DEF ledgerVars, OtherMoney, SameClaims, Ops
      <4>2. CASE \E c \in Claim : c.op = "hold" /\ c.job = j /\ ClaimStep(c)
        BY <4>2, ClaimEffect DEF SameClaims, Ops
      <4> QED BY <3>2, <4>1, <4>2
    <3> QED BY <2>2, <3>1, <3>3 DEF HoldTaken, ledgerVars, Claimed
  <2> QED
    BY <1>2, <2>1, <2>2 DEF reserveBatchImageBalanceHold, LedgerCall, Outcomes
<1> QED BY <1>1, <1>2

(* A capture asks for what the item table counts; it records only that, and   *)
(* it answers well only if that is recorded.                                  *)
LEMMA CaptureRecorded ==
    ASSUME NEW j \in Jobs, NEW p \in Payloads, NEW a \in Amounts, NEW res \in Outcomes,
           CaptureBatchImageBalance(j, p, a, res)
    PROVE  IF res = "ok" THEN HoldCommand("capture", j, p, a) \in claims'
           ELSE UNCHANGED ledgerVars
<1> DEFINE c == HoldCommand("capture", j, p, a)
<1>1. /\ applyBatchImageBalanceHold(c, res, captureUsageBillingBatchImageBalance(c, res))
      /\ UNCHANGED spent
  BY DEF CaptureBatchImageBalance
<1> HIDE DEF c
<1>2. CASE res = "ok"
  BY <1>1, <1>2 DEF applyBatchImageBalanceHold, c
<1>3. CASE res # "ok"
  BY <1>1, <1>3
  DEF applyBatchImageBalanceHold, captureUsageBillingBatchImageBalance, NothingMoves, money,
      ledgerVars
<1> QED BY <1>2, <1>3 DEF c

LEMMA CaptureEffect ==
    ASSUME Recorded, NEW j \in Jobs, CapturesMoved(j), NEW ok \in BOOLEAN,
           captureBatchImageBalanceHold(j, ok), UNCHANGED job
    PROVE  /\ OtherMoney(j) /\ SameClaims(j, {"hold", "release"})
           /\ claims \subseteq claims'
           /\ Charged(j) => Charged(j)'
           /\ Charged(j)' => Charged(j) \/ (Billed(j)' /\ Covered(j) /\ Hold[j] > 0)
           /\ CapturesMoved(j)'
           /\ ok => Billed(j)'
<1> DEFINE a == Price * job[j].success
           bill == HoldCommand("capture", j, "manifest", a)
<1>1. /\ a \in Amounts /\ bill.op = "capture" /\ bill.job = j /\ bill.actual = a
      /\ LedgerTypeOK
  BY PriceIsAmount, TypeParts DEF Recorded, HoldCommand
<1>2. /\ Billed(j)' <=> bill \in claims'
      /\ Covered(j) <=> a <= Hold[j]
  BY DEF Billed, Covered
<1>3. captureBatchImageBalanceHold(j, ok) =>
        \/ UNCHANGED ledgerVars /\ ~ok
        \/ \E res \in Outcomes :
             /\ CaptureBatchImageBalance(j, "manifest", a, res)
             /\ ok => res = "ok"
  BY DEF captureBatchImageBalanceHold, LedgerCall, Outcomes
<1> HIDE DEF a, bill
<1>4. CASE UNCHANGED ledgerVars /\ ~ok
  BY <1>4, NoMoneyMoved
  DEF ledgerVars, OtherMoney, SameClaims, Ops, Charged, CapturesMoved
<1>5. ASSUME NEW res \in Outcomes, CaptureBatchImageBalance(j, "manifest", a, res),
             ok => res = "ok"
      PROVE  /\ OtherMoney(j) /\ SameClaims(j, {"hold", "release"})
             /\ claims \subseteq claims'
             /\ Charged(j) => Charged(j)'
             /\ Charged(j)' => Charged(j) \/ (Billed(j)' /\ Covered(j) /\ Hold[j] > 0)
             /\ CapturesMoved(j)'
             /\ ok => Billed(j)'
  <2>1. IF res = "ok" THEN bill \in claims' ELSE UNCHANGED ledgerVars
    BY <1>1, <1>5, CaptureRecorded, PipelineAssumption DEF bill
  <2>2. \/ UNCHANGED ledgerVars
        \/ bill \in Claim /\ ClaimStep(bill)
    BY <1>1, <1>5, CaptureCases, PipelineAssumption DEF bill
  <2>3. CASE UNCHANGED ledgerVars
    BY <1>2, <1>5, <2>1, <2>3, NoMoneyMoved
    DEF ledgerVars, OtherMoney, SameClaims, Ops, Charged, CapturesMoved
  <2>4. CASE bill \in Claim /\ ClaimStep(bill)
    <3>1. /\ OtherMoney(j) /\ SameClaims(j, Ops \ {"capture"})
          /\ claims' = claims \union {bill}
          /\ moved \subseteq moved'
      BY <1>1, <2>4, ClaimEffect
    <3>2. SameClaims(j, {"hold", "release"})
      BY <3>1 DEF SameClaims, Ops
    <3>3. CASE OnlyClaims(bill) /\ Hold[j] = 0 /\ a = 0
      BY <1>1, <1>2, <1>5, <2>1, <3>1, <3>2, <3>3, NoMoneyMoved
      DEF OnlyClaims, money, Charged, CapturesMoved
    <3>4. CASE Captures(bill)
      BY <1>1, <1>2, <1>5, <2>1, <3>1, <3>2, <3>4, NoMoneyMoved
      DEF Captures, Moves, Charged, CapturesMoved
    <3> QED
      BY <1>1, <2>4, <3>3, <3>4 DEF ClaimStep, Reserves, Releases
  <2> QED BY <2>2, <2>3, <2>4
<1> QED BY <1>3, <1>4, <1>5

-----------------------------------------------------------------------------
(* A step leaves everything the invariant says of a job alone unless it is a  *)
(* step of that job.                                                          *)

SameWorkers(j) == \A w \in Workers :
    /\ wjob'[w] = j <=> wjob[w] = j
    /\ wjob[w] = j => wpc'[w] = wpc[w] /\ wstep'[w] = wstep[w]

SameHandlers(j) == sub'[j] = sub[j] /\ client'[j] = client[j] /\ rec'[j] = rec[j]

Untouched(j) ==
    /\ SameRow(j) /\ SameClaims(j, Ops) /\ SameWorkers(j) /\ SameHandlers(j)
    /\ upstream'[j] = upstream[j]
    /\ j \in inflight => j \in inflight'

\* What is said of a row alone.
SameVerdicts(j) ==
    /\ Failed(j)' <=> Failed(j)
    /\ PastIndexing(j)' <=> PastIndexing(j)
    /\ Exhausted(j)' <=> Exhausted(j)
    /\ Covered(j)' <=> Covered(j)

LEMMA RowVerdicts ==
    ASSUME NEW j \in Jobs, SameRow(j)
    PROVE  SameVerdicts(j)
BY DEF SameRow, SameCounts, SameVerdicts, Failed, PastIndexing, Exhausted, RetryExhausted, Covered

\* What is said of the records of a job.
SameMoney(j) ==
    /\ \A op \in Ops : Claimed(op, j)' <=> Claimed(op, j)
    /\ HoldTaken(j)' <=> HoldTaken(j)
    /\ Charged(j)' <=> Charged(j)
    /\ Refunded(j)' <=> Refunded(j)
    /\ CapturesMoved(j)' <=> CapturesMoved(j)

LEMMA MoneyKept ==
    ASSUME TypeOK, TypeOK', NEW j \in Jobs, SameClaims(j, Ops)
    PROVE  SameMoney(j)
<1>1. claims \subseteq Claim /\ claims' \subseteq Claim
  BY DEF TypeOK, LedgerTypeOK
<1> QED
  BY <1>1 DEF SameClaims, SameMoney, HoldTaken, Charged, Refunded, CapturesMoved, Ops

LEMMA BillKept ==
    ASSUME TypeOK, TypeOK', NEW j \in Jobs, NEW ops, SameClaims(j, ops), "capture" \in ops,
           job'[j].success = job[j].success
    PROVE  /\ Billed(j)' <=> Billed(j)
           /\ Paid(j)' <=> Paid(j)
           /\ Charged(j)' <=> Charged(j)
           /\ CapturesMoved(j)' <=> CapturesMoved(j)
<1> DEFINE bill == HoldCommand("capture", j, "manifest", Price * job[j].success)
<1>1. bill \in Claim /\ bill.op = "capture" /\ bill.job = j
  BY PriceIsAmount, TypeParts, PipelineAssumption DEF HoldCommand, Claim, Ops
<1>2. Billed(j)' <=> bill \in claims'
  BY DEF Billed
<1>3. Billed(j) <=> bill \in claims
  BY DEF Billed
<1>4. claims \subseteq Claim /\ claims' \subseteq Claim
  BY DEF TypeOK, LedgerTypeOK
<1> HIDE DEF bill
<1> QED BY <1>1, <1>2, <1>3, <1>4 DEF SameClaims, Paid, Charged, CapturesMoved

LEMMA UntouchedKept ==
    ASSUME TypeOK, TypeOK', NEW j \in Jobs, Knows(j), Untouched(j)
    PROVE  Knows(j)'
<1> USE DEF Knows, Untouched, SameHandlers, SameRow, SameCounts
<1>1. SameVerdicts(j) /\ SameMoney(j) /\ (Paid(j)' <=> Paid(j)) /\ (Billed(j)' <=> Billed(j))
  <2>1. "capture" \in Ops
    BY DEF Ops
  <2> QED BY <2>1, RowVerdicts, MoneyKept, BillKept
<1> USE DEF SameVerdicts, SameMoney
<1>2. SubKnows(j)' /\ RowKnows(j)' /\ HandlersKnow(j)' /\ RefundedKnows(j)'
  BY <1>1 DEF SubKnows, RowKnows, HandlersKnow, RefundedKnows, Ops
<1>3. WorkersKnow(j)' /\ UpstreamKnows(j)'
  BY <1>1 DEF WorkersKnow, UpstreamKnows, SameWorkers, Ended
<1>4. PaidKnows(j)'
  BY <1>1 DEF PaidKnows, SameWorkers
<1>5. AloneKnows(j)'
  BY <1>1 DEF AloneKnows, SameWorkers
<1>6. QueuedKnows(j)' /\ StopKnows(j)'
  BY <1>1 DEF QueuedKnows, StopKnows, Ended
<1> QED BY <1>2, <1>3, <1>4, <1>5, <1>6

-----------------------------------------------------------------------------
(* Footprints: a handler or a provider job writes what belongs to its own job *)
(* and takes nothing out of the queue, a worker what belongs to the job it    *)
(* holds.                                                                     *)

Elsewhere(j) == \A i \in Jobs \ {j} : Untouched(i)

HandlerOf(j) ==
    /\ OtherRows(j) /\ OtherMoney(j)
    /\ UNCHANGED <<wpc, wjob, wstep>>
    /\ inflight \subseteq inflight'
    /\ \A i \in Jobs \ {j} : SameHandlers(i) /\ upstream'[i] = upstream[i]

LEMMA HandlerElsewhere ==
    ASSUME NEW j \in Jobs, HandlerOf(j)
    PROVE  Elsewhere(j) /\ SameWorkers(j)
BY DEF HandlerOf, OtherRows, OtherMoney, Elsewhere, Untouched, SameWorkers, SameRow, SameCounts

LEMMA OthersKept ==
    ASSUME TypeOK, TypeOK', EveryJobKnown, NEW j \in Jobs, Elsewhere(j), Knows(j)'
    PROVE  EveryJobKnown'
BY UntouchedKept DEF EveryJobKnown, Elsewhere

LEMMA SubmitFootprint ==
    ASSUME Recorded, EveryJobKnown, NEW j \in Jobs,
           SubmitCreate(j) \/ SubmitReserve(j) \/ SubmitItems(j) \/ SubmitUpload(j) \/
           SubmitHeartbeat(j) \/ SubmitProvider(j) \/ SubmitRecord(j) \/ SubmitAbort(j) \/
           SubmitEnqueue(j) \/ SubmitQueueFailed(j) \/ SubmitRelease(j) \/
           SubmitReleaseFailed(j) \/ SubmitRetry(j) \/ SubmitFail(j) \/ SubmitHide(j) \/
           SubmitDies(j)
    PROVE  HandlerOf(j)
<1> USE NoMoneyMoved, TypeParts
<1> USE DEF Recorded, HandlerOf, OtherMoney, SameHandlers
<1>1. CASE SubmitCreate(j)
  BY <1>1, CreateEffect DEF SubmitCreate, SubAt, SubTo, queueVars, TypeOK, ProcTypeOK
<1>2. CASE SubmitReserve(j)
  BY <1>2, ReserveEffect DEF SubmitReserve, SubAt, SubTo, queueVars, OtherRows,
      EveryJobKnown, Knows, SubKnows, TypeOK, ProcTypeOK
<1>3. CASE SubmitItems(j)
  BY <1>3 DEF SubmitItems, SubAt, SubTo, queueVars, OtherRows, TypeOK, ProcTypeOK
<1>4. CASE SubmitUpload(j)
  BY <1>4, TransitionEffect DEF SubmitUpload, SubAt, SubTo, queueVars, Statuses,
      ActiveStatuses, TerminalStatuses, TypeOK, ProcTypeOK
<1>5. CASE SubmitHeartbeat(j)
  BY <1>5, TouchEffect DEF SubmitHeartbeat, SubAt, SubTo, queueVars, TypeOK, ProcTypeOK
<1>6. CASE SubmitProvider(j)
  BY <1>6 DEF SubmitProvider, SubAt, SubTo, queueVars, OtherRows, TypeOK, ProcTypeOK
<1>7. CASE SubmitRecord(j)
  BY <1>7, ProviderSubmitEffect DEF SubmitRecord, SubAt, SubTo, queueVars, TypeOK,
      ProcTypeOK
<1>8. CASE SubmitAbort(j)
  BY <1>8 DEF SubmitAbort, SubAt, SubTo, Stops, queueVars, OtherRows, TypeOK, ProcTypeOK
<1>9. CASE SubmitEnqueue(j)
  BY <1>9 DEF SubmitEnqueue, EnqueueReported, SubAt, SubTo, queueVars, Enqueue, MoveDueDelayedToReady,
      RecoverStaleActive, LockExpires, redisVars, OtherRows, TypeOK, ProcTypeOK
<1>10. CASE SubmitQueueFailed(j)
  BY <1>10, RecordFailureEffect DEF SubmitQueueFailed, SubAt, SubTo, queueVars, TypeOK,
      ProcTypeOK
<1>11. CASE SubmitRelease(j)
  BY <1>11, ReleaseEffect DEF SubmitRelease, SubAt, SubTo, queueVars, OtherRows, TypeOK,
      ProcTypeOK
<1>12. CASE SubmitReleaseFailed(j)
  BY <1>12, RecordFailureEffect DEF SubmitReleaseFailed, SubAt, SubTo, queueVars, TypeOK,
      ProcTypeOK
<1>13. CASE SubmitRetry(j)
  BY <1>13 DEF SubmitRetry, SubAt, SubTo, EnqueueBestEffort, queueVars, Enqueue,
      MoveDueDelayedToReady, RecoverStaleActive, LockExpires, redisVars, OtherRows,
      TypeOK, ProcTypeOK
<1>14. CASE SubmitFail(j)
  BY <1>14, RecordFailureEffect DEF SubmitFail, SubAt, SubTo, queueVars, TypeOK,
      ProcTypeOK
<1>15. CASE SubmitHide(j)
  BY <1>15, UserDeletedEffect DEF SubmitHide, SubAt, SubTo, queueVars, TypeOK, ProcTypeOK
<1>16. CASE SubmitDies(j)
  BY <1>16 DEF SubmitDies, SubAt, SubTo, queueVars, OtherRows, TypeOK, ProcTypeOK
<1> QED BY <1>1, <1>2, <1>3, <1>4, <1>5, <1>6, <1>7, <1>8, <1>9, <1>10, <1>11, <1>12, <1>13, <1>14, <1>15, <1>16

LEMMA ClientFootprint ==
    ASSUME Recorded, EveryJobKnown, NEW j \in Jobs,
           CancelRead(j) \/ CancelProvider(j) \/ CancelEnqueue(j) \/ CancelTransition(j)
           \/ CancelRelease(j) \/ CancelRetry(j) \/ ResubmitRead(j) \/ ResubmitEnqueue(j)
           \/ ResubmitFailed(j) \/ DeleteRecord(j) \/ CleanupOutput(j) \/ ClientDies(j)
    PROVE  HandlerOf(j)
<1> USE NoMoneyMoved, TypeParts
<1> USE DEF Recorded, HandlerOf, OtherMoney, SameHandlers
<1>1. CASE CancelRead(j)
  BY <1>1 DEF CancelRead, ClientAt, ClientTo, queueVars, OtherRows, TypeOK, ProcTypeOK
<1>2. CASE CancelProvider(j)
  BY <1>2 DEF CancelProvider, ClientAt, ClientTo, Stops, queueVars, OtherRows, TypeOK,
      ProcTypeOK
<1>3. CASE CancelEnqueue(j)
  BY <1>3 DEF CancelEnqueue, ClientAt, ClientTo, EnqueueBestEffort, queueVars, Enqueue,
      MoveDueDelayedToReady, RecoverStaleActive, LockExpires, redisVars, OtherRows,
      TypeOK, ProcTypeOK
<1>4. CASE CancelTransition(j)
  BY <1>4, TransitionEffect DEF CancelTransition, ClientAt, ClientTo, queueVars, Statuses,
      ActiveStatuses, TerminalStatuses, TypeOK, ProcTypeOK
<1>5. CASE CancelRelease(j)
  BY <1>5, ReleaseEffect DEF CancelRelease, ClientAt, ClientTo, queueVars, OtherRows,
      TypeOK, ProcTypeOK
<1>6. CASE CancelRetry(j)
  BY <1>6 DEF CancelRetry, ClientAt, ClientTo, EnqueueBestEffort, queueVars, Enqueue,
      MoveDueDelayedToReady, RecoverStaleActive, LockExpires, redisVars, OtherRows,
      TypeOK, ProcTypeOK
<1>7. CASE ResubmitRead(j)
  BY <1>7 DEF ResubmitRead, ClientAt, ClientTo, queueVars, OtherRows, TypeOK, ProcTypeOK
<1>8. CASE ResubmitEnqueue(j)
  BY <1>8 DEF ResubmitEnqueue, EnqueueReported, ClientAt, ClientTo, queueVars, Enqueue,
      MoveDueDelayedToReady, RecoverStaleActive, LockExpires, redisVars, OtherRows,
      TypeOK, ProcTypeOK
<1>9. CASE ResubmitFailed(j)
  BY <1>9, RecordFailureEffect DEF ResubmitFailed, ClientAt, ClientTo, queueVars, TypeOK,
      ProcTypeOK
<1>10. CASE DeleteRecord(j)
  BY <1>10, UserDeletedEffect DEF DeleteRecord, ClientAt, ClientTo, queueVars, TypeOK,
      ProcTypeOK
<1>11. CASE CleanupOutput(j)
  BY <1>11, OutputDeletedEffect DEF CleanupOutput, ClientAt, ClientTo, queueVars, TypeOK,
      ProcTypeOK
<1>12. CASE ClientDies(j)
  BY <1>12 DEF ClientDies, ClientAt, ClientTo, queueVars, OtherRows, TypeOK, ProcTypeOK
<1> QED BY <1>1, <1>2, <1>3, <1>4, <1>5, <1>6, <1>7, <1>8, <1>9, <1>10, <1>11, <1>12

LEMMA RecoveryFootprint ==
    ASSUME Recorded, EveryJobKnown, NEW j \in Jobs,
           RecoveryList(j) \/ RecoveryFail(j) \/ RecoveryRelease(j) \/ RecoveryRetry(j) \/
           RecoveryDies(j) \/ RowAges(j) \/ ProviderRuns(j) \/ ProviderEnds(j) \/
           Maintenance(j)
    PROVE  HandlerOf(j)
<1> USE NoMoneyMoved, TypeParts
<1> USE DEF Recorded, HandlerOf, OtherMoney, SameHandlers
<1>1. CASE RecoveryList(j)
  BY <1>1 DEF RecoveryList, RecAt, RecTo, queueVars, OtherRows, TypeOK, ProcTypeOK
<1>2. CASE RecoveryFail(j)
  BY <1>2, FailStaleEffect DEF RecoveryFail, RecAt, RecTo, queueVars, TypeOK, ProcTypeOK
<1>3. CASE RecoveryRelease(j)
  BY <1>3, ReleaseEffect DEF RecoveryRelease, RecAt, RecTo, queueVars, OtherRows, TypeOK,
      ProcTypeOK
<1>4. CASE RecoveryRetry(j)
  BY <1>4 DEF RecoveryRetry, RecAt, RecTo, EnqueueBestEffort, queueVars, Enqueue,
      MoveDueDelayedToReady, RecoverStaleActive, LockExpires, redisVars, OtherRows,
      TypeOK, ProcTypeOK
<1>5. CASE RecoveryDies(j)
  BY <1>5 DEF RecoveryDies, RecAt, RecTo, queueVars, OtherRows, TypeOK, ProcTypeOK
<1>6. CASE RowAges(j)
  BY <1>6, AgesEffect DEF RowAges, queueVars, procVars, TypeOK, ProcTypeOK
<1>7. CASE ProviderRuns(j)
  BY <1>7 DEF ProviderRuns, queueVars, procVars, OtherRows, TypeOK, ProcTypeOK
<1>8. CASE ProviderEnds(j)
  BY <1>8 DEF ProviderEnds, queueVars, procVars, OtherRows, TypeOK, ProcTypeOK
<1>9. CASE Maintenance(j)
  BY <1>9 DEF Maintenance, queueVars, procVars, Enqueue, MoveDueDelayedToReady,
      RecoverStaleActive, LockExpires, redisVars, OtherRows, TypeOK, ProcTypeOK
<1> QED BY <1>1, <1>2, <1>3, <1>4, <1>5, <1>6, <1>7, <1>8, <1>9


-----------------------------------------------------------------------------
(* The invariant, step by step.                                               *)

(* What the status machine allows.                                            *)
LEMMA TransitionsAllowed ==
    ASSUME NEW s
    PROVE  /\ CanTransition(s, "uploading") => s = "created"
           /\ CanTransition(s, "submitted") => s \in {"created", "uploading"}
           /\ CanTransition(s, "running") => s \in {"submitted", "running"}
           /\ CanTransition(s, "indexing") => s \in {"submitted", "running"}
           /\ CanTransition(s, "settling") => s = "indexing"
           /\ CanTransition(s, "cancelled") =>
                s \in {"created", "uploading", "submitted", "running"}
           /\ CanTransition(s, "failed") <=> s \notin TerminalStatuses
BY DEF CanTransition, IsTerminal, TerminalStatuses

(* A step that writes neither row nor records nor workers of the job keeps    *)
(* what the invariant says of those alone.                                    *)
LEMMA RestKept ==
    ASSUME Recorded, TypeOK', NEW j \in Jobs, Knows(j),
           SameRow(j), SameClaims(j, Ops), SameWorkers(j)
    PROVE  /\ RowKnows(j)' /\ WorkersKnow(j)' /\ PaidKnows(j)' /\ AloneKnows(j)'
           /\ SameVerdicts(j) /\ SameMoney(j)
<1>1. SameVerdicts(j) /\ SameMoney(j) /\ (Paid(j)' <=> Paid(j)) /\ (Billed(j)' <=> Billed(j))
  <2>1. "capture" \in Ops
    BY DEF Ops
  <2> QED BY <2>1, RowVerdicts, MoneyKept, BillKept DEF SameRow, SameCounts, Recorded
<1> USE DEF Knows, SameRow, SameCounts, SameVerdicts, SameMoney
<1>2. RowKnows(j)' /\ WorkersKnow(j)'
  BY <1>1 DEF RowKnows, WorkersKnow, SameWorkers
<1>3. PaidKnows(j)' /\ AloneKnows(j)'
  BY <1>1 DEF PaidKnows, AloneKnows, SameWorkers
<1> QED BY <1>1, <1>2, <1>3

LEMMA SubmitKeeps ==
    ASSUME Recorded, TypeOK', EveryJobKnown, NEW j \in Jobs, SameWorkers(j),
           Submit(j) \/ SubmitHeartbeat(j) \/ SubmitDies(j)
    PROVE  Knows(j)'
<1>0. Knows(j) /\ JobTypeOK
  BY TypeParts DEF EveryJobKnown, Recorded
<1> USE <1>0
<1> USE DEF Knows, SameRow, SameCounts, SameVerdicts, SameMoney
<1>1. CASE SubmitCreate(j)
  <2>1. /\ job[j].status = "none" /\ job'[j].status = "created"
        /\ job'[j].lastError = "none"
        /\ ~job'[j].provider
    BY <1>1, CreateEffect DEF SubmitCreate, SameRow, SameCounts, Recorded, NoRow
  <2>2. /\ sub[j] = "idle" /\ sub'[j] = "reserve"
        /\ client'[j] = client[j] /\ rec'[j] = rec[j] /\ upstream'[j] = upstream[j]
        /\ inflight' = inflight
    BY <1>1, <2>1 DEF SubmitCreate, SubAt, SubTo, Recorded, TypeOK, ProcTypeOK, queueVars,
        Ops
  <2>3. /\ SameClaims(j, Ops) /\ SameMoney(j)
    BY <1>1, <2>1, <2>2, NoMoneyMoved, MoneyKept DEF SubmitCreate, Recorded
  <2>4. SubKnows(j)' /\ RowKnows(j)' /\ HandlersKnow(j)' /\ RefundedKnows(j)'
    BY <2>1, <2>2, <2>3 DEF SubKnows, RowKnows, HandlersKnow, RefundedKnows, Ops, Failed,
        PastIndexing, Preparing, Aborting
  <2>5. WorkersKnow(j)' /\ UpstreamKnows(j)'
    BY <2>1, <2>2, <2>3 DEF WorkersKnow, SettleSteps, SameWorkers, UpstreamKnows,
        SubKnows, RowKnows, Ended, Failed, PastIndexing, Preparing, Aborting
  <2>6. PaidKnows(j)' /\ AloneKnows(j)'
    BY <2>1, <2>2, <2>3 DEF PaidKnows, AloneKnows, SettleSteps, SameWorkers, WorkersKnow,
        SubKnows, RowKnows, IsTerminal, TerminalStatuses, PastIndexing, Preparing,
        Aborting
  <2>7. QueuedKnows(j)' /\ StopKnows(j)'
    BY <2>1, <2>2, <2>3 DEF QueuedKnows, StopKnows, UpstreamKnows, SubKnows, RowKnows,
        RefundedKnows, Ended, Failed, PastIndexing, Preparing, Aborting, Submitted,
        SubmissionsEnqueue, Fault
  <2> QED BY <2>4, <2>5, <2>6, <2>7
<1>2. CASE SubmitReserve(j)
  <2>1. PICK ok \in BOOLEAN :
          /\ SameClaims(j, {"capture", "release"})
          /\ ok => HoldTaken(j)'
          /\ ~ok /\ "reserve" \notin LostAcks => ~Claimed("hold", j)'
          /\ SubTo(j, IF ok THEN "items" ELSE "fail")
    BY <1>2, ReserveEffect DEF SubmitReserve, Recorded, TypeOK, ProcTypeOK, SubKnows,
        SubAt, SubTo, queueVars, Ops
  <2>2. /\ SameRow(j) /\ SameVerdicts(j)
        /\ sub[j] = "reserve" /\ sub'[j] = IF ok THEN "items" ELSE "fail"
        /\ client'[j] = client[j] /\ rec'[j] = rec[j] /\ upstream'[j] = upstream[j]
        /\ inflight' = inflight
    BY <1>2, <2>1, NothingWritten, RowVerdicts DEF SubmitReserve, SubAt, SubTo, Recorded,
        TypeOK, ProcTypeOK, queueVars, Ops
  <2>3. /\ Billed(j)' <=> Billed(j)
        /\ Paid(j)' <=> Paid(j)
        /\ Charged(j)' <=> Charged(j)
        /\ CapturesMoved(j)' <=> CapturesMoved(j)
    BY <1>2, <2>1, <2>2, BillKept DEF Recorded
  <2>4. /\ Claimed("release", j)' <=> Claimed("release", j)
        /\ Refunded(j)' <=> Refunded(j)
    BY <1>2, <2>1, <2>2, <2>3 DEF SameClaims, Refunded, HoldTaken
  <2>5. SubKnows(j)' /\ RowKnows(j)' /\ HandlersKnow(j)' /\ RefundedKnows(j)'
    BY <2>1, <2>2, <2>3, <2>4 DEF SubKnows, RowKnows, HandlersKnow, RefundedKnows, Ops,
        Failed, PastIndexing, Preparing, Aborting
  <2>6. WorkersKnow(j)' /\ UpstreamKnows(j)'
    BY <2>1, <2>2, <2>3, <2>4 DEF WorkersKnow, SettleSteps, SameWorkers, UpstreamKnows,
        SubKnows, RowKnows, Ended, Failed, PastIndexing, Preparing, Aborting
  <2>7. PaidKnows(j)' /\ AloneKnows(j)'
    BY <2>1, <2>2, <2>3, <2>4 DEF PaidKnows, AloneKnows, SettleSteps, SameWorkers,
        WorkersKnow, SubKnows, RowKnows, IsTerminal, TerminalStatuses, PastIndexing,
        Preparing, Aborting
  <2>8. QueuedKnows(j)' /\ StopKnows(j)'
    BY <2>1, <2>2, <2>3, <2>4 DEF QueuedKnows, StopKnows, UpstreamKnows, SubKnows,
        RowKnows, RefundedKnows, Ended, Failed, PastIndexing, Preparing, Aborting,
        Submitted, SubmissionsEnqueue, Fault
  <2> QED BY <2>5, <2>6, <2>7, <2>8
<1>3. CASE SubmitItems(j)
  <2>1. /\ SameRow(j) /\ SameClaims(j, Ops)
        /\ sub[j] = "items"
        /\ sub'[j] \in {"upload", "release_fail"}
        /\ client'[j] = client[j] /\ rec'[j] = rec[j] /\ upstream'[j] = upstream[j]
        /\ inflight' = inflight
    BY <1>3, NothingWritten, NoMoneyMoved DEF SubmitItems, SubAt, SubTo, Recorded, TypeOK,
        ProcTypeOK, queueVars, Ops, OtherRows
  <2>2. /\ RowKnows(j)' /\ WorkersKnow(j)' /\ PaidKnows(j)' /\ AloneKnows(j)'
        /\ SameVerdicts(j) /\ SameMoney(j)
    BY <2>1, RestKept DEF SameRow, SameCounts
  <2>3. SubKnows(j)' /\ HandlersKnow(j)' /\ RefundedKnows(j)'
    BY <2>1, <2>2 DEF SubKnows, HandlersKnow, RefundedKnows, Ops, Failed, PastIndexing,
        Preparing, Aborting
  <2>4. UpstreamKnows(j)'
    BY <2>1, <2>2 DEF UpstreamKnows, SubKnows, RowKnows, WorkersKnow, SameWorkers,
        Ended, Failed, Preparing, Aborting, Fault
  <2>5. QueuedKnows(j)' /\ StopKnows(j)'
    BY <2>1, <2>2 DEF QueuedKnows, StopKnows, UpstreamKnows, SubKnows, RowKnows,
        RefundedKnows, Ended, Failed, PastIndexing, Preparing, Aborting, Submitted,
        SubmissionsEnqueue, Fault
  <2> QED BY <2>2, <2>3, <2>4, <2>5
<1>4. CASE SubmitUpload(j)
  <2>1. /\ SameCounts(j) /\ job'[j].lastError = job[j].lastError
        /\ SameRow(j) \/ (job[j].status = "created" /\ job'[j].status = "uploading")
    BY <1>4, TransitionEffect, TransitionsAllowed DEF SubmitUpload, SameRow, SameCounts,
        Recorded, Statuses, ActiveStatuses, TerminalStatuses
  <2>2. /\ sub[j] = "upload" /\ sub'[j] \in {"provider", "release", "release_fail"}
        /\ client'[j] = client[j] /\ rec'[j] = rec[j] /\ upstream'[j] = upstream[j]
        /\ inflight' = inflight
    BY <1>4, <2>1 DEF SubmitUpload, SubAt, SubTo, Recorded, TypeOK, ProcTypeOK, queueVars,
        Ops
  <2>3. /\ SameClaims(j, Ops) /\ SameMoney(j)
    BY <1>4, <2>1, <2>2, NoMoneyMoved, MoneyKept DEF SubmitUpload, Recorded
  <2>4. /\ (Billed(j)' <=> Billed(j)) /\ (Paid(j)' <=> Paid(j))
    BY <1>4, <2>1, <2>2, <2>3, BillKept DEF Recorded, Ops, SameCounts
  <2>5. SubKnows(j)' /\ RowKnows(j)' /\ HandlersKnow(j)' /\ RefundedKnows(j)'
    BY <2>1, <2>2, <2>3, <2>4 DEF SubKnows, RowKnows, HandlersKnow, RefundedKnows, Ops,
        Failed, PastIndexing, Preparing, Aborting
  <2>6. WorkersKnow(j)' /\ UpstreamKnows(j)'
    BY <2>1, <2>2, <2>3, <2>4 DEF WorkersKnow, SettleSteps, SameWorkers, UpstreamKnows,
        SubKnows, RowKnows, Ended, Failed, PastIndexing, Preparing, Aborting
  <2>7. PaidKnows(j)' /\ AloneKnows(j)'
    BY <2>1, <2>2, <2>3, <2>4 DEF PaidKnows, AloneKnows, SettleSteps, SameWorkers,
        WorkersKnow, SubKnows, RowKnows, IsTerminal, TerminalStatuses, PastIndexing,
        Preparing, Aborting
  <2>8. QueuedKnows(j)' /\ StopKnows(j)'
    BY <2>1, <2>2, <2>3, <2>4 DEF QueuedKnows, StopKnows, UpstreamKnows, SubKnows,
        RowKnows, RefundedKnows, Ended, Failed, PastIndexing, Preparing, Aborting,
        Submitted, SubmissionsEnqueue, Fault
  <2> QED BY <2>5, <2>6, <2>7, <2>8
<1>5. CASE SubmitHeartbeat(j)
  <2>1. /\ SameRow(j) /\ SameClaims(j, Ops)
        /\ sub[j] = "provider"
        /\ sub'[j] = "provider"
        /\ client'[j] = client[j] /\ rec'[j] = rec[j] /\ upstream'[j] = upstream[j]
        /\ inflight' = inflight
    BY <1>5, TouchEffect, NoMoneyMoved DEF SubmitHeartbeat, SubAt, SubTo, Recorded,
        TypeOK, ProcTypeOK, queueVars, Ops, OtherRows
  <2>2. /\ RowKnows(j)' /\ WorkersKnow(j)' /\ PaidKnows(j)' /\ AloneKnows(j)'
        /\ SameVerdicts(j) /\ SameMoney(j)
    BY <2>1, RestKept DEF SameRow, SameCounts
  <2>3. SubKnows(j)' /\ HandlersKnow(j)' /\ RefundedKnows(j)'
    BY <2>1, <2>2 DEF SubKnows, HandlersKnow, RefundedKnows, Ops, Failed, PastIndexing,
        Preparing, Aborting
  <2>4. UpstreamKnows(j)'
    BY <2>1, <2>2 DEF UpstreamKnows, SubKnows, RowKnows, WorkersKnow, SameWorkers,
        Ended, Failed, Preparing, Aborting, Fault
  <2>5. QueuedKnows(j)' /\ StopKnows(j)'
    BY <2>1, <2>2 DEF QueuedKnows, StopKnows, UpstreamKnows, SubKnows, RowKnows,
        RefundedKnows, Ended, Failed, PastIndexing, Preparing, Aborting, Submitted,
        SubmissionsEnqueue, Fault
  <2> QED BY <2>2, <2>3, <2>4, <2>5
<1>6. CASE SubmitProvider(j)
  <2>1. /\ SameRow(j) /\ SameClaims(j, Ops)
        /\ sub[j] = "provider"
        /\ sub'[j] \in {"record", "release_fail"}
        /\ client'[j] = client[j] /\ rec'[j] = rec[j]
        /\ inflight' = inflight
    BY <1>6, NothingWritten, NoMoneyMoved DEF SubmitProvider, SubAt, SubTo, Recorded,
        TypeOK, ProcTypeOK, queueVars, Ops, OtherRows
  <2>2. /\ RowKnows(j)' /\ WorkersKnow(j)' /\ PaidKnows(j)' /\ AloneKnows(j)'
        /\ SameVerdicts(j) /\ SameMoney(j)
    BY <2>1, RestKept DEF SameRow, SameCounts
  <2>3. SubKnows(j)' /\ HandlersKnow(j)' /\ RefundedKnows(j)'
    BY <2>1, <2>2 DEF SubKnows, HandlersKnow, RefundedKnows, Ops, Failed, PastIndexing,
        Preparing, Aborting
  <2>4. UpstreamKnows(j)'
    <3>1. ~job[j].provider
      BY <2>1 DEF SubKnows, Preparing
    <3>2. /\ job[j].status \notin {"indexing", "settling", "completed", "output_deleted"}
          /\ \A w \in Workers : wjob[w] = j =>
               wstep[w] \notin {"indexing", "index", "settling", "failed", "cancelled"}
      BY <3>1 DEF RowKnows, WorkersKnow
    <3>3. /\ job'[j].status = job[j].status
          /\ \A w \in Workers : wjob'[w] = j =>
               wstep'[w] \notin {"indexing", "index", "settling", "failed", "cancelled"}
      BY <2>1, <3>2 DEF SameRow, SameCounts, SameWorkers
    <3>4. sub'[j] \notin {"idle"} \union (Preparing \ {"record"})
      BY <2>1 DEF Preparing
    <3> QED BY <3>2, <3>3, <3>4 DEF UpstreamKnows
  <2>5. QueuedKnows(j)' /\ StopKnows(j)'
    BY <2>1, <2>2 DEF QueuedKnows, StopKnows, UpstreamKnows, SubKnows, RowKnows,
        RefundedKnows, Ended, Failed, PastIndexing, Preparing, Aborting, Submitted,
        SubmissionsEnqueue, Fault
  <2> QED BY <2>2, <2>3, <2>4, <2>5
<1>7. CASE SubmitRecord(j)
  <2>1. PICK out \in {"ok", "invalid", "error"} :
          /\ job'[j].lastError = job[j].lastError /\ job'[j].success = job[j].success
          /\ \/ /\ job[j].status \in {"created", "uploading"}
                /\ job'[j].status = "submitted" /\ job'[j].provider
                /\ out = "ok" \/ "provider_submit" \in LostAcks
             \/ SameRow(j) /\ out # "ok"
          /\ SubTo(j, IF out = "ok" THEN "enqueue" ELSE "abort")
    BY <1>7, ProviderSubmitEffect, TransitionsAllowed DEF SubmitRecord, SameRow,
        SameCounts, Recorded, Commits
  <2>2. /\ sub[j] = "record" /\ sub'[j] = IF out = "ok" THEN "enqueue" ELSE "abort"
        /\ client'[j] = client[j] /\ rec'[j] = rec[j] /\ upstream'[j] = upstream[j]
        /\ inflight' = inflight
    BY <1>7, <2>1 DEF SubmitRecord, SubAt, SubTo, Recorded, TypeOK, ProcTypeOK, queueVars,
        Ops
  <2>3. /\ SameClaims(j, Ops) /\ SameMoney(j)
    BY <1>7, <2>1, <2>2, NoMoneyMoved, MoneyKept DEF SubmitRecord, Recorded
  <2>4. /\ (Billed(j)' <=> Billed(j)) /\ (Paid(j)' <=> Paid(j))
    BY <1>7, <2>1, <2>2, <2>3, BillKept DEF Recorded, Ops, SameCounts
  <2>5. SubKnows(j)' /\ RowKnows(j)' /\ HandlersKnow(j)' /\ RefundedKnows(j)'
    BY <2>1, <2>2, <2>3, <2>4 DEF SubKnows, RowKnows, HandlersKnow, RefundedKnows, Ops,
        Failed, PastIndexing, Preparing, Aborting
  <2>6. WorkersKnow(j)' /\ UpstreamKnows(j)'
    BY <2>1, <2>2, <2>3, <2>4 DEF WorkersKnow, SettleSteps, SameWorkers, UpstreamKnows,
        SubKnows, RowKnows, Ended, Failed, PastIndexing, Preparing, Aborting
  <2>7. PaidKnows(j)' /\ AloneKnows(j)'
    BY <2>1, <2>2, <2>3, <2>4 DEF PaidKnows, AloneKnows, SettleSteps, SameWorkers,
        WorkersKnow, SubKnows, RowKnows, IsTerminal, TerminalStatuses, PastIndexing,
        Preparing, Aborting
  <2>8. QueuedKnows(j)' /\ StopKnows(j)'
    BY <2>1, <2>2, <2>3, <2>4 DEF QueuedKnows, StopKnows, UpstreamKnows, SubKnows,
        RowKnows, RefundedKnows, Ended, Failed, PastIndexing, Preparing, Aborting,
        Submitted, SubmissionsEnqueue, Fault
  <2> QED BY <2>5, <2>6, <2>7, <2>8
<1>8. CASE SubmitAbort(j)
  <2>1. /\ SameRow(j) /\ SameClaims(j, Ops)
        /\ sub[j] = "abort"
        /\ sub'[j] = "done"
        /\ client'[j] = client[j] /\ rec'[j] = rec[j]
        /\ \/ /\ upstream'[j] = upstream[j]
              /\ upstream[j] \notin {"queued", "running"} \/ "provider_cancel" \in FaultOps
           \/ upstream[j] \in {"queued", "running"} /\ upstream'[j] = "cancelled"
        /\ inflight' = inflight
    BY <1>8, NothingWritten, NoMoneyMoved DEF SubmitAbort, SubAt, SubTo, Recorded, TypeOK,
        ProcTypeOK, queueVars, Ops, OtherRows, Stops, Fault
  <2>2. /\ RowKnows(j)' /\ WorkersKnow(j)' /\ PaidKnows(j)' /\ AloneKnows(j)'
        /\ SameVerdicts(j) /\ SameMoney(j)
    BY <2>1, RestKept DEF SameRow, SameCounts
  <2>3. SubKnows(j)' /\ HandlersKnow(j)' /\ RefundedKnows(j)'
    BY <2>1, <2>2 DEF SubKnows, HandlersKnow, RefundedKnows, Ops, Failed, PastIndexing,
        Preparing, Aborting
  <2>4. UpstreamKnows(j)'
    BY <2>1, <2>2 DEF UpstreamKnows, SubKnows, RowKnows, WorkersKnow, SameWorkers,
        Ended, Failed, Preparing, Aborting, Fault
  <2>5. QueuedKnows(j)' /\ StopKnows(j)'
    BY <2>1, <2>2 DEF QueuedKnows, StopKnows, UpstreamKnows, SubKnows, RowKnows,
        RefundedKnows, Ended, Failed, PastIndexing, Preparing, Aborting, Submitted,
        SubmissionsEnqueue, Fault
  <2> QED BY <2>2, <2>3, <2>4, <2>5
<1>9. CASE SubmitEnqueue(j)
  <2>1. /\ SameRow(j) /\ SameClaims(j, Ops)
        /\ sub[j] = "enqueue"
        /\ \/ sub'[j] = "done" /\ j \in inflight'
           \/ sub'[j] = "queue_failed" /\ (j \in inflight' \/ "enqueue" \in FaultOps)
        /\ client'[j] = client[j] /\ rec'[j] = rec[j] /\ upstream'[j] = upstream[j]
        /\ inflight \subseteq inflight'
    BY <1>9, NothingWritten, NoMoneyMoved DEF SubmitEnqueue, EnqueueReported, SubAt, SubTo, Recorded,
        TypeOK, ProcTypeOK, queueVars, Ops, OtherRows, Enqueue, Fault
  <2>2. /\ RowKnows(j)' /\ WorkersKnow(j)' /\ PaidKnows(j)' /\ AloneKnows(j)'
        /\ SameVerdicts(j) /\ SameMoney(j)
    BY <2>1, RestKept DEF SameRow, SameCounts
  <2>3. SubKnows(j)' /\ HandlersKnow(j)' /\ RefundedKnows(j)'
    BY <2>1, <2>2 DEF SubKnows, HandlersKnow, RefundedKnows, Ops, Failed, PastIndexing,
        Preparing, Aborting
  <2>4. UpstreamKnows(j)'
    BY <2>1, <2>2 DEF UpstreamKnows, SubKnows, RowKnows, WorkersKnow, SameWorkers,
        Ended, Failed, Preparing, Aborting, Fault
  <2>5. QueuedKnows(j)' /\ StopKnows(j)'
    BY <2>1, <2>2 DEF QueuedKnows, StopKnows, UpstreamKnows, SubKnows, RowKnows,
        RefundedKnows, Ended, Failed, PastIndexing, Preparing, Aborting, Submitted,
        SubmissionsEnqueue, Fault
  <2> QED BY <2>2, <2>3, <2>4, <2>5
<1>10. CASE SubmitQueueFailed(j)
  <2>1. /\ SameCounts(j) /\ job'[j].status = job[j].status
        /\ SameRow(j) \/ job'[j].lastError = "other"
    BY <1>10, RecordFailureEffect DEF SubmitQueueFailed, SameRow, SameCounts, Recorded
  <2>2. /\ sub[j] = "queue_failed" /\ sub'[j] = "done"
        /\ client'[j] = client[j] /\ rec'[j] = rec[j] /\ upstream'[j] = upstream[j]
        /\ inflight' = inflight
    BY <1>10, <2>1 DEF SubmitQueueFailed, SubAt, SubTo, Recorded, TypeOK, ProcTypeOK,
        queueVars, Ops
  <2>3. /\ SameClaims(j, Ops) /\ SameMoney(j)
    BY <1>10, <2>1, <2>2, NoMoneyMoved, MoneyKept DEF SubmitQueueFailed, Recorded
  <2>4. /\ (Billed(j)' <=> Billed(j)) /\ (Paid(j)' <=> Paid(j))
    BY <1>10, <2>1, <2>2, <2>3, BillKept DEF Recorded, Ops, SameCounts
  <2>5. SubKnows(j)' /\ RowKnows(j)' /\ HandlersKnow(j)' /\ RefundedKnows(j)'
    BY <2>1, <2>2, <2>3, <2>4 DEF SubKnows, RowKnows, HandlersKnow, RefundedKnows, Ops,
        Failed, PastIndexing, Preparing, Aborting
  <2>6. WorkersKnow(j)' /\ UpstreamKnows(j)'
    BY <2>1, <2>2, <2>3, <2>4 DEF WorkersKnow, SettleSteps, SameWorkers, UpstreamKnows,
        SubKnows, RowKnows, Ended, Failed, PastIndexing, Preparing, Aborting
  <2>7. PaidKnows(j)' /\ AloneKnows(j)'
    BY <2>1, <2>2, <2>3, <2>4 DEF PaidKnows, AloneKnows, SettleSteps, SameWorkers,
        WorkersKnow, SubKnows, RowKnows, IsTerminal, TerminalStatuses, PastIndexing,
        Preparing, Aborting
  <2>8. QueuedKnows(j)' /\ StopKnows(j)'
    BY <2>1, <2>2, <2>3, <2>4 DEF QueuedKnows, StopKnows, UpstreamKnows, SubKnows,
        RowKnows, RefundedKnows, Ended, Failed, PastIndexing, Preparing, Aborting,
        Submitted, SubmissionsEnqueue, Fault
  <2> QED BY <2>5, <2>6, <2>7, <2>8
<1>11. CASE SubmitRelease(j)
  <2>1. PICK ok \in BOOLEAN :
          /\ SameClaims(j, {"hold", "capture"})
          /\ Claimed("release", j) => Claimed("release", j)'
          /\ Refunded(j) => Refunded(j)'
          /\ ok => Hold[j] = 0 \/ Claimed("release", j)'
          /\ SubTo(j, IF ~ok THEN "release_failed"
                       ELSE IF sub[j] = "release" THEN "done" ELSE "fail")
    BY <1>11, ReleaseEffect DEF SubmitRelease, Recorded, TypeOK, ProcTypeOK, SubAt, SubTo,
        queueVars, Ops
  <2>2. /\ SameRow(j) /\ SameVerdicts(j)
        /\ sub[j] \in {"release", "release_fail"}
        /\ sub'[j] \in {"done", "fail", "release_failed"}
        /\ sub'[j] = "fail" => ok
        /\ client'[j] = client[j] /\ rec'[j] = rec[j] /\ upstream'[j] = upstream[j]
        /\ inflight' = inflight
    BY <1>11, <2>1, NothingWritten, RowVerdicts DEF SubmitRelease, SubAt, SubTo, Recorded,
        TypeOK, ProcTypeOK, queueVars, Ops
  <2>3. /\ Billed(j)' <=> Billed(j)
        /\ Paid(j)' <=> Paid(j)
        /\ Charged(j)' <=> Charged(j)
        /\ CapturesMoved(j)' <=> CapturesMoved(j)
    BY <1>11, <2>1, <2>2, BillKept DEF Recorded
  <2>4. /\ Claimed("hold", j)' <=> Claimed("hold", j)
        /\ HoldTaken(j)' <=> HoldTaken(j)
    BY <1>11, <2>1, <2>2, <2>3 DEF SameClaims, Refunded, HoldTaken
  <2>5. SubKnows(j)' /\ RowKnows(j)' /\ HandlersKnow(j)' /\ RefundedKnows(j)'
    BY <2>1, <2>2, <2>3, <2>4 DEF SubKnows, RowKnows, HandlersKnow, RefundedKnows, Ops,
        Failed, PastIndexing, Preparing, Aborting
  <2>6. WorkersKnow(j)' /\ UpstreamKnows(j)'
    BY <2>1, <2>2, <2>3, <2>4 DEF WorkersKnow, SettleSteps, SameWorkers, UpstreamKnows,
        SubKnows, RowKnows, Ended, Failed, PastIndexing, Preparing, Aborting
  <2>7. PaidKnows(j)' /\ AloneKnows(j)'
    BY <2>1, <2>2, <2>3, <2>4 DEF PaidKnows, AloneKnows, SettleSteps, SameWorkers,
        WorkersKnow, SubKnows, RowKnows, IsTerminal, TerminalStatuses, PastIndexing,
        Preparing, Aborting
  <2>8. QueuedKnows(j)' /\ StopKnows(j)'
    BY <2>1, <2>2, <2>3, <2>4 DEF QueuedKnows, StopKnows, UpstreamKnows, SubKnows,
        RowKnows, RefundedKnows, Ended, Failed, PastIndexing, Preparing, Aborting,
        Submitted, SubmissionsEnqueue, Fault
  <2> QED BY <2>5, <2>6, <2>7, <2>8
<1>12. CASE SubmitReleaseFailed(j)
  <2>1. /\ SameCounts(j)
        /\ SameRow(j) \/ (job'[j].status = "failed" /\ job'[j].lastError = "other")
    BY <1>12, RecordFailureEffect DEF SubmitReleaseFailed, SameRow, SameCounts, Recorded
  <2>2. /\ sub[j] = "release_failed" /\ sub'[j] = "retry"
        /\ client'[j] = client[j] /\ rec'[j] = rec[j] /\ upstream'[j] = upstream[j]
        /\ inflight' = inflight
    BY <1>12, <2>1 DEF SubmitReleaseFailed, SubAt, SubTo, Recorded, TypeOK, ProcTypeOK,
        queueVars, Ops
  <2>3. /\ SameClaims(j, Ops) /\ SameMoney(j)
    BY <1>12, <2>1, <2>2, NoMoneyMoved, MoneyKept DEF SubmitReleaseFailed, Recorded
  <2>4. /\ (Billed(j)' <=> Billed(j)) /\ (Paid(j)' <=> Paid(j))
    BY <1>12, <2>1, <2>2, <2>3, BillKept DEF Recorded, Ops, SameCounts
  <2>5. SubKnows(j)' /\ RowKnows(j)' /\ HandlersKnow(j)' /\ RefundedKnows(j)'
    BY <2>1, <2>2, <2>3, <2>4 DEF SubKnows, RowKnows, HandlersKnow, RefundedKnows, Ops,
        Failed, PastIndexing, Preparing, Aborting
  <2>6. WorkersKnow(j)' /\ UpstreamKnows(j)'
    BY <2>1, <2>2, <2>3, <2>4 DEF WorkersKnow, SettleSteps, SameWorkers, UpstreamKnows,
        SubKnows, RowKnows, Ended, Failed, PastIndexing, Preparing, Aborting
  <2>7. PaidKnows(j)' /\ AloneKnows(j)'
    BY <2>1, <2>2, <2>3, <2>4 DEF PaidKnows, AloneKnows, SettleSteps, SameWorkers,
        WorkersKnow, SubKnows, RowKnows, IsTerminal, TerminalStatuses, PastIndexing,
        Preparing, Aborting
  <2>8. QueuedKnows(j)' /\ StopKnows(j)'
    BY <2>1, <2>2, <2>3, <2>4 DEF QueuedKnows, StopKnows, UpstreamKnows, SubKnows,
        RowKnows, RefundedKnows, Ended, Failed, PastIndexing, Preparing, Aborting,
        Submitted, SubmissionsEnqueue, Fault
  <2> QED BY <2>5, <2>6, <2>7, <2>8
<1>17. CASE SubmitRetry(j)
  <2>1. /\ SameRow(j) /\ SameClaims(j, Ops)
        /\ sub[j] = "retry"
        /\ sub'[j] = "done"
        /\ client'[j] = client[j] /\ rec'[j] = rec[j] /\ upstream'[j] = upstream[j]
        /\ inflight \subseteq inflight' /\ (j \in inflight' \/ "enqueue" \in FaultOps)
    BY <1>17, NothingWritten, NoMoneyMoved DEF SubmitRetry, SubAt, SubTo, Recorded,
        TypeOK, ProcTypeOK, queueVars, Ops, OtherRows, EnqueueBestEffort, Enqueue, Fault
  <2>2. /\ RowKnows(j)' /\ WorkersKnow(j)' /\ PaidKnows(j)' /\ AloneKnows(j)'
        /\ SameVerdicts(j) /\ SameMoney(j)
    BY <2>1, RestKept DEF SameRow, SameCounts
  <2>3. SubKnows(j)' /\ HandlersKnow(j)' /\ RefundedKnows(j)'
    BY <2>1, <2>2 DEF SubKnows, HandlersKnow, RefundedKnows, Ops, Failed, PastIndexing,
        Preparing, Aborting
  <2>4. UpstreamKnows(j)'
    BY <2>1, <2>2 DEF UpstreamKnows, SubKnows, RowKnows, WorkersKnow, SameWorkers,
        Ended, Failed, Preparing, Aborting, Fault
  <2>5. QueuedKnows(j)' /\ StopKnows(j)'
    BY <2>1, <2>2 DEF QueuedKnows, StopKnows, UpstreamKnows, SubKnows, RowKnows,
        RefundedKnows, Ended, Failed, PastIndexing, Preparing, Aborting, Submitted,
        SubmissionsEnqueue, Fault
  <2> QED BY <2>2, <2>3, <2>4, <2>5
<1>14. CASE SubmitFail(j)
  <2>1. /\ SameCounts(j)
        /\ SameRow(j) \/ (job'[j].status = "failed" /\ job'[j].lastError = "other")
    BY <1>14, RecordFailureEffect DEF SubmitFail, SameRow, SameCounts, Recorded
  <2>2. /\ sub[j] = "fail" /\ sub'[j] = "hide"
        /\ client'[j] = client[j] /\ rec'[j] = rec[j] /\ upstream'[j] = upstream[j]
        /\ inflight' = inflight
    BY <1>14, <2>1 DEF SubmitFail, SubAt, SubTo, Recorded, TypeOK, ProcTypeOK, queueVars,
        Ops
  <2>3. /\ SameClaims(j, Ops) /\ SameMoney(j)
    BY <1>14, <2>1, <2>2, NoMoneyMoved, MoneyKept DEF SubmitFail, Recorded
  <2>4. /\ (Billed(j)' <=> Billed(j)) /\ (Paid(j)' <=> Paid(j))
    BY <1>14, <2>1, <2>2, <2>3, BillKept DEF Recorded, Ops, SameCounts
  <2>5. SubKnows(j)' /\ RowKnows(j)' /\ HandlersKnow(j)' /\ RefundedKnows(j)'
    BY <2>1, <2>2, <2>3, <2>4 DEF SubKnows, RowKnows, HandlersKnow, RefundedKnows, Ops,
        Failed, PastIndexing, Preparing, Aborting
  <2>6. WorkersKnow(j)' /\ UpstreamKnows(j)'
    BY <2>1, <2>2, <2>3, <2>4 DEF WorkersKnow, SettleSteps, SameWorkers, UpstreamKnows,
        SubKnows, RowKnows, Ended, Failed, PastIndexing, Preparing, Aborting
  <2>7. PaidKnows(j)' /\ AloneKnows(j)'
    BY <2>1, <2>2, <2>3, <2>4 DEF PaidKnows, AloneKnows, SettleSteps, SameWorkers,
        WorkersKnow, SubKnows, RowKnows, IsTerminal, TerminalStatuses, PastIndexing,
        Preparing, Aborting
  <2>8. QueuedKnows(j)' /\ StopKnows(j)'
    BY <2>1, <2>2, <2>3, <2>4 DEF QueuedKnows, StopKnows, UpstreamKnows, SubKnows,
        RowKnows, RefundedKnows, Ended, Failed, PastIndexing, Preparing, Aborting,
        Submitted, SubmissionsEnqueue, Fault
  <2> QED BY <2>5, <2>6, <2>7, <2>8
<1>15. CASE SubmitHide(j)
  <2>1. /\ SameRow(j) /\ SameClaims(j, Ops)
        /\ sub[j] = "hide"
        /\ sub'[j] = "done"
        /\ client'[j] = client[j] /\ rec'[j] = rec[j] /\ upstream'[j] = upstream[j]
        /\ inflight' = inflight
    BY <1>15, UserDeletedEffect, NoMoneyMoved DEF SubmitHide, SubAt, SubTo, Recorded,
        TypeOK, ProcTypeOK, queueVars, Ops, OtherRows
  <2>2. /\ RowKnows(j)' /\ WorkersKnow(j)' /\ PaidKnows(j)' /\ AloneKnows(j)'
        /\ SameVerdicts(j) /\ SameMoney(j)
    BY <2>1, RestKept DEF SameRow, SameCounts
  <2>3. SubKnows(j)' /\ HandlersKnow(j)' /\ RefundedKnows(j)'
    BY <2>1, <2>2 DEF SubKnows, HandlersKnow, RefundedKnows, Ops, Failed, PastIndexing,
        Preparing, Aborting
  <2>4. UpstreamKnows(j)'
    BY <2>1, <2>2 DEF UpstreamKnows, SubKnows, RowKnows, WorkersKnow, SameWorkers,
        Ended, Failed, Preparing, Aborting, Fault
  <2>5. QueuedKnows(j)' /\ StopKnows(j)'
    BY <2>1, <2>2 DEF QueuedKnows, StopKnows, UpstreamKnows, SubKnows, RowKnows,
        RefundedKnows, Ended, Failed, PastIndexing, Preparing, Aborting, Submitted,
        SubmissionsEnqueue, Fault
  <2> QED BY <2>2, <2>3, <2>4, <2>5
<1>16. CASE SubmitDies(j)
  <2>1. /\ SameRow(j) /\ SameClaims(j, Ops)
        /\ sub[j] \in DiesAt /\ sub[j] # "idle"
        /\ sub'[j] = "done"
        /\ client'[j] = client[j] /\ rec'[j] = rec[j] /\ upstream'[j] = upstream[j]
        /\ inflight' = inflight
    BY <1>16, NothingWritten, PipelineAssumption, NoMoneyMoved DEF SubmitDies, SubAt,
        SubTo, Recorded, TypeOK, ProcTypeOK, queueVars, Ops, OtherRows
  <2>2. /\ RowKnows(j)' /\ WorkersKnow(j)' /\ PaidKnows(j)' /\ AloneKnows(j)'
        /\ SameVerdicts(j) /\ SameMoney(j)
    BY <2>1, RestKept DEF SameRow, SameCounts
  <2>3. SubKnows(j)' /\ HandlersKnow(j)' /\ RefundedKnows(j)'
    BY <2>1, <2>2 DEF SubKnows, HandlersKnow, RefundedKnows, Ops, Failed, PastIndexing,
        Preparing, Aborting
  <2>4. UpstreamKnows(j)'
    BY <2>1, <2>2 DEF UpstreamKnows, SubKnows, RowKnows, WorkersKnow, SameWorkers,
        Ended, Failed, Preparing, Aborting, Fault
  <2>5. QueuedKnows(j)' /\ StopKnows(j)'
    BY <2>1, <2>2 DEF QueuedKnows, StopKnows, UpstreamKnows, SubKnows, RowKnows,
        RefundedKnows, Ended, Failed, PastIndexing, Preparing, Aborting, Submitted,
        SubmissionsEnqueue, Fault
  <2> QED BY <2>2, <2>3, <2>4, <2>5
<1> QED BY <1>1, <1>2, <1>3, <1>4, <1>5, <1>6, <1>7, <1>8, <1>9, <1>10, <1>11, <1>12,
    <1>17, <1>14, <1>15, <1>16
  DEF Submit

LEMMA ClientKeeps ==
    ASSUME Recorded, TypeOK', EveryJobKnown, NEW j \in Jobs, SameWorkers(j),
           Client(j) \/ ClientDies(j)
    PROVE  Knows(j)'
<1>0. Knows(j) /\ JobTypeOK
  BY TypeParts DEF EveryJobKnown, Recorded
<1> USE <1>0
<1> USE DEF Knows, SameRow, SameCounts, SameVerdicts, SameMoney
<1>1. CASE CancelRead(j)
  <2>1. /\ SameRow(j) /\ SameClaims(j, Ops)
        /\ client[j] = "idle" /\ "cancel" \in ClientOps
        /\ client'[j] \in {"cancel_release", "cancel_provider", "cancel_transition"}
        /\ client'[j] = "cancel_release" => Failed(j)
        /\ sub'[j] = sub[j] /\ rec'[j] = rec[j]
        /\ upstream'[j] = upstream[j]
        /\ inflight' = inflight
    BY <1>1, NothingWritten, NoMoneyMoved DEF CancelRead, ClientAt, ClientTo, Recorded,
        TypeOK, ProcTypeOK, queueVars, Ops, OtherRows, Failed, IsTerminal,
        TerminalStatuses
  <2>2. /\ RowKnows(j)' /\ WorkersKnow(j)' /\ PaidKnows(j)' /\ AloneKnows(j)'
        /\ SameVerdicts(j) /\ SameMoney(j)
    BY <2>1, RestKept DEF SameRow, SameCounts
  <2>3. SubKnows(j)' /\ HandlersKnow(j)' /\ RefundedKnows(j)'
    BY <2>1, <2>2 DEF SubKnows, HandlersKnow, RefundedKnows, Ops, Failed, PastIndexing,
        Preparing, Aborting
  <2>4. UpstreamKnows(j)'
    BY <2>1, <2>2 DEF UpstreamKnows, SubKnows, RowKnows, WorkersKnow, SameWorkers,
        Ended, Failed, Preparing, Aborting, Fault
  <2>5. QueuedKnows(j)' /\ StopKnows(j)'
    BY <2>1, <2>2 DEF QueuedKnows, StopKnows, UpstreamKnows, SubKnows, RowKnows,
        RefundedKnows, Ended, Failed, PastIndexing, Preparing, Aborting, Submitted,
        SubmissionsEnqueue, Fault
  <2> QED BY <2>2, <2>3, <2>4, <2>5
<1>2. CASE CancelProvider(j)
  <2>1. /\ SameRow(j) /\ SameClaims(j, Ops)
        /\ client[j] = "cancel_provider"
        /\ client'[j] \in {"idle", "cancel_enqueue"}
        /\ sub'[j] = sub[j] /\ rec'[j] = rec[j]
        /\ \/ /\ upstream'[j] = upstream[j]
              /\ upstream[j] \notin {"queued", "running"} \/ "provider_cancel" \in FaultOps
           \/ upstream[j] \in {"queued", "running"} /\ upstream'[j] = "cancelled"
        /\ inflight' = inflight
    BY <1>2, NothingWritten, NoMoneyMoved DEF CancelProvider, ClientAt, ClientTo,
        Recorded, TypeOK, ProcTypeOK, queueVars, Ops, OtherRows, Stops, Fault
  <2>2. /\ RowKnows(j)' /\ WorkersKnow(j)' /\ PaidKnows(j)' /\ AloneKnows(j)'
        /\ SameVerdicts(j) /\ SameMoney(j)
    BY <2>1, RestKept DEF SameRow, SameCounts
  <2>3. SubKnows(j)' /\ HandlersKnow(j)' /\ RefundedKnows(j)'
    BY <2>1, <2>2 DEF SubKnows, HandlersKnow, RefundedKnows, Ops, Failed, PastIndexing,
        Preparing, Aborting
  <2>4. UpstreamKnows(j)'
    BY <2>1, <2>2 DEF UpstreamKnows, SubKnows, RowKnows, WorkersKnow, SameWorkers,
        Ended, Failed, Preparing, Aborting, Fault
  <2>5. QueuedKnows(j)' /\ StopKnows(j)'
    BY <2>1, <2>2 DEF QueuedKnows, StopKnows, UpstreamKnows, SubKnows, RowKnows,
        RefundedKnows, Ended, Failed, PastIndexing, Preparing, Aborting, Submitted,
        SubmissionsEnqueue, Fault
  <2> QED BY <2>2, <2>3, <2>4, <2>5
<1>3. CASE CancelEnqueue(j)
  <2>1. /\ SameRow(j) /\ SameClaims(j, Ops)
        /\ client[j] = "cancel_enqueue"
        /\ client'[j] = "idle"
        /\ sub'[j] = sub[j] /\ rec'[j] = rec[j]
        /\ upstream'[j] = upstream[j]
        /\ inflight \subseteq inflight' /\ (j \in inflight' \/ "enqueue" \in FaultOps)
    BY <1>3, NothingWritten, NoMoneyMoved DEF CancelEnqueue, ClientAt, ClientTo, Recorded,
        TypeOK, ProcTypeOK, queueVars, Ops, OtherRows, EnqueueBestEffort, Enqueue, Fault,
        MoveDueDelayedToReady, RecoverStaleActive, LockExpires, redisVars
  <2>2. /\ RowKnows(j)' /\ WorkersKnow(j)' /\ PaidKnows(j)' /\ AloneKnows(j)'
        /\ SameVerdicts(j) /\ SameMoney(j)
    BY <2>1, RestKept DEF SameRow, SameCounts
  <2>3. SubKnows(j)' /\ HandlersKnow(j)' /\ RefundedKnows(j)'
    BY <2>1, <2>2 DEF SubKnows, HandlersKnow, RefundedKnows, Ops, Failed, PastIndexing,
        Preparing, Aborting
  <2>4. UpstreamKnows(j)'
    BY <2>1, <2>2 DEF UpstreamKnows, SubKnows, RowKnows, WorkersKnow, SameWorkers,
        Ended, Failed, Preparing, Aborting, Fault
  <2>5. QueuedKnows(j)' /\ StopKnows(j)'
    BY <2>1, <2>2 DEF QueuedKnows, StopKnows, UpstreamKnows, SubKnows, RowKnows,
        RefundedKnows, Ended, Failed, PastIndexing, Preparing, Aborting, Submitted,
        SubmissionsEnqueue, Fault
  <2> QED BY <2>2, <2>3, <2>4, <2>5
<1>4. CASE CancelTransition(j)
  <2>1. PICK out \in {"ok", "invalid", "error"} :
          /\ SameCounts(j) /\ job'[j].lastError = job[j].lastError
          /\ \/ /\ job[j].status \in {"created", "uploading", "submitted", "running"}
                /\ job'[j].status = "cancelled"
                /\ out = "ok" \/ "transition" \in LostAcks
             \/ SameRow(j) /\ out # "ok"
          /\ ClientTo(j, IF out = "ok" THEN "cancel_release" ELSE "idle")
    BY <1>4, TransitionEffect, TransitionsAllowed DEF CancelTransition, SameRow,
        SameCounts, Recorded, Statuses, ActiveStatuses, TerminalStatuses, Commits
  <2>2. /\ client[j] = "cancel_transition"
        /\ client'[j] = IF out = "ok" THEN "cancel_release" ELSE "idle"
        /\ sub'[j] = sub[j] /\ rec'[j] = rec[j]
        /\ upstream'[j] = upstream[j]
        /\ inflight' = inflight
    BY <1>4, <2>1 DEF CancelTransition, ClientAt, ClientTo, Recorded, TypeOK, ProcTypeOK,
        queueVars, Ops
  <2>3. /\ SameClaims(j, Ops) /\ SameMoney(j)
    BY <1>4, <2>1, <2>2, NoMoneyMoved, MoneyKept DEF CancelTransition, Recorded
  <2>4. /\ (Billed(j)' <=> Billed(j)) /\ (Paid(j)' <=> Paid(j))
    BY <1>4, <2>1, <2>2, <2>3, BillKept DEF Recorded, Ops, SameCounts
  <2>5. SubKnows(j)' /\ RowKnows(j)' /\ HandlersKnow(j)' /\ RefundedKnows(j)'
    BY <2>1, <2>2, <2>3, <2>4 DEF SubKnows, RowKnows, HandlersKnow, RefundedKnows, Ops,
        Failed, PastIndexing, Preparing, Aborting
  <2>6. WorkersKnow(j)' /\ UpstreamKnows(j)'
    BY <2>1, <2>2, <2>3, <2>4 DEF WorkersKnow, SettleSteps, SameWorkers, UpstreamKnows,
        SubKnows, RowKnows, Ended, Failed, PastIndexing, Preparing, Aborting
  <2>7. PaidKnows(j)' /\ AloneKnows(j)'
    BY <2>1, <2>2, <2>3, <2>4 DEF PaidKnows, AloneKnows, SettleSteps, SameWorkers,
        WorkersKnow, SubKnows, RowKnows, IsTerminal, TerminalStatuses, PastIndexing,
        Preparing, Aborting
  <2>8. QueuedKnows(j)' /\ StopKnows(j)'
    BY <2>1, <2>2, <2>3, <2>4 DEF QueuedKnows, StopKnows, UpstreamKnows, SubKnows,
        RowKnows, RefundedKnows, Ended, Failed, PastIndexing, Preparing, Aborting,
        Submitted, SubmissionsEnqueue, Fault
  <2> QED BY <2>5, <2>6, <2>7, <2>8
<1>5. CASE CancelRelease(j)
  <2>1. PICK ok \in BOOLEAN :
          /\ SameClaims(j, {"hold", "capture"})
          /\ Claimed("release", j) => Claimed("release", j)'
          /\ Refunded(j) => Refunded(j)'
          /\ ok => Hold[j] = 0 \/ Claimed("release", j)'
          /\ ClientTo(j, IF ok THEN "idle" ELSE "cancel_retry")
    BY <1>5, ReleaseEffect DEF CancelRelease, ClientAt, ClientTo, Recorded, TypeOK,
        ProcTypeOK, queueVars, Ops
  <2>2. /\ SameRow(j) /\ SameVerdicts(j)
        /\ client[j] = "cancel_release" /\ Failed(j)
        /\ client'[j] = IF ok THEN "idle" ELSE "cancel_retry"
        /\ sub'[j] = sub[j] /\ rec'[j] = rec[j]
        /\ upstream'[j] = upstream[j]
        /\ inflight' = inflight
    BY <1>5, <2>1, NothingWritten, RowVerdicts DEF CancelRelease, HandlersKnow, ClientAt,
        ClientTo, Recorded, TypeOK, ProcTypeOK, queueVars, Ops
  <2>3. /\ Billed(j)' <=> Billed(j)
        /\ Paid(j)' <=> Paid(j)
        /\ Charged(j)' <=> Charged(j)
        /\ CapturesMoved(j)' <=> CapturesMoved(j)
    BY <1>5, <2>1, <2>2, BillKept DEF Recorded
  <2>4. /\ Claimed("hold", j)' <=> Claimed("hold", j)
        /\ HoldTaken(j)' <=> HoldTaken(j)
    BY <1>5, <2>1, <2>2, <2>3 DEF SameClaims, Refunded, HoldTaken
  <2>5. SubKnows(j)' /\ RowKnows(j)' /\ HandlersKnow(j)' /\ RefundedKnows(j)'
    BY <2>1, <2>2, <2>3, <2>4 DEF SubKnows, RowKnows, HandlersKnow, RefundedKnows, Ops,
        Failed, PastIndexing, Preparing, Aborting
  <2>6. WorkersKnow(j)' /\ UpstreamKnows(j)'
    BY <2>1, <2>2, <2>3, <2>4 DEF WorkersKnow, SettleSteps, SameWorkers, UpstreamKnows,
        SubKnows, RowKnows, Ended, Failed, PastIndexing, Preparing, Aborting
  <2>7. PaidKnows(j)' /\ AloneKnows(j)'
    BY <2>1, <2>2, <2>3, <2>4 DEF PaidKnows, AloneKnows, SettleSteps, SameWorkers,
        WorkersKnow, SubKnows, RowKnows, IsTerminal, TerminalStatuses, PastIndexing,
        Preparing, Aborting
  <2>8. QueuedKnows(j)' /\ StopKnows(j)'
    BY <2>1, <2>2, <2>3, <2>4 DEF QueuedKnows, StopKnows, UpstreamKnows, SubKnows,
        RowKnows, RefundedKnows, Ended, Failed, PastIndexing, Preparing, Aborting,
        Submitted, SubmissionsEnqueue, Fault
  <2> QED BY <2>5, <2>6, <2>7, <2>8
<1>6. CASE CancelRetry(j)
  <2>1. /\ SameRow(j) /\ SameClaims(j, Ops)
        /\ client[j] = "cancel_retry"
        /\ client'[j] = "idle"
        /\ sub'[j] = sub[j] /\ rec'[j] = rec[j]
        /\ upstream'[j] = upstream[j]
        /\ inflight \subseteq inflight' /\ (j \in inflight' \/ "enqueue" \in FaultOps)
    BY <1>6, NothingWritten, NoMoneyMoved DEF CancelRetry, ClientAt, ClientTo, Recorded,
        TypeOK, ProcTypeOK, queueVars, Ops, OtherRows, EnqueueBestEffort, Enqueue, Fault,
        MoveDueDelayedToReady, RecoverStaleActive, LockExpires, redisVars
  <2>2. /\ RowKnows(j)' /\ WorkersKnow(j)' /\ PaidKnows(j)' /\ AloneKnows(j)'
        /\ SameVerdicts(j) /\ SameMoney(j)
    BY <2>1, RestKept DEF SameRow, SameCounts
  <2>3. SubKnows(j)' /\ HandlersKnow(j)' /\ RefundedKnows(j)'
    BY <2>1, <2>2 DEF SubKnows, HandlersKnow, RefundedKnows, Ops, Failed, PastIndexing,
        Preparing, Aborting
  <2>4. UpstreamKnows(j)'
    BY <2>1, <2>2 DEF UpstreamKnows, SubKnows, RowKnows, WorkersKnow, SameWorkers,
        Ended, Failed, Preparing, Aborting, Fault
  <2>5. QueuedKnows(j)' /\ StopKnows(j)'
    BY <2>1, <2>2 DEF QueuedKnows, StopKnows, UpstreamKnows, SubKnows, RowKnows,
        RefundedKnows, Ended, Failed, PastIndexing, Preparing, Aborting, Submitted,
        SubmissionsEnqueue, Fault
  <2> QED BY <2>2, <2>3, <2>4, <2>5
<1>7. CASE ResubmitRead(j)
  <2>1. /\ SameRow(j) /\ SameClaims(j, Ops)
        /\ client[j] = "idle"
        /\ client'[j] = "resubmit"
        /\ sub'[j] = sub[j] /\ rec'[j] = rec[j]
        /\ upstream'[j] = upstream[j]
        /\ inflight' = inflight
    BY <1>7, NothingWritten, NoMoneyMoved DEF ResubmitRead, ClientAt, ClientTo, Recorded,
        TypeOK, ProcTypeOK, queueVars, Ops, OtherRows
  <2>2. /\ RowKnows(j)' /\ WorkersKnow(j)' /\ PaidKnows(j)' /\ AloneKnows(j)'
        /\ SameVerdicts(j) /\ SameMoney(j)
    BY <2>1, RestKept DEF SameRow, SameCounts
  <2>3. SubKnows(j)' /\ HandlersKnow(j)' /\ RefundedKnows(j)'
    BY <2>1, <2>2 DEF SubKnows, HandlersKnow, RefundedKnows, Ops, Failed, PastIndexing,
        Preparing, Aborting
  <2>4. UpstreamKnows(j)'
    BY <2>1, <2>2 DEF UpstreamKnows, SubKnows, RowKnows, WorkersKnow, SameWorkers,
        Ended, Failed, Preparing, Aborting, Fault
  <2>5. QueuedKnows(j)' /\ StopKnows(j)'
    BY <2>1, <2>2 DEF QueuedKnows, StopKnows, UpstreamKnows, SubKnows, RowKnows,
        RefundedKnows, Ended, Failed, PastIndexing, Preparing, Aborting, Submitted,
        SubmissionsEnqueue, Fault
  <2> QED BY <2>2, <2>3, <2>4, <2>5
<1>8. CASE ResubmitEnqueue(j)
  <2>1. /\ SameRow(j) /\ SameClaims(j, Ops)
        /\ client[j] = "resubmit"
        /\ client'[j] \in {"idle", "resubmit_failed"}
        /\ sub'[j] = sub[j] /\ rec'[j] = rec[j]
        /\ upstream'[j] = upstream[j]
        /\ inflight \subseteq inflight'
    BY <1>8, NothingWritten, NoMoneyMoved DEF ResubmitEnqueue, EnqueueReported, ClientAt, ClientTo,
        Recorded, TypeOK, ProcTypeOK, queueVars, Ops, OtherRows, EnqueueBestEffort,
        Enqueue, Fault, MoveDueDelayedToReady, RecoverStaleActive,
        LockExpires, redisVars
  <2>2. /\ RowKnows(j)' /\ WorkersKnow(j)' /\ PaidKnows(j)' /\ AloneKnows(j)'
        /\ SameVerdicts(j) /\ SameMoney(j)
    BY <2>1, RestKept DEF SameRow, SameCounts
  <2>3. SubKnows(j)' /\ HandlersKnow(j)' /\ RefundedKnows(j)'
    BY <2>1, <2>2 DEF SubKnows, HandlersKnow, RefundedKnows, Ops, Failed, PastIndexing,
        Preparing, Aborting
  <2>4. UpstreamKnows(j)'
    BY <2>1, <2>2 DEF UpstreamKnows, SubKnows, RowKnows, WorkersKnow, SameWorkers,
        Ended, Failed, Preparing, Aborting, Fault
  <2>5. QueuedKnows(j)' /\ StopKnows(j)'
    BY <2>1, <2>2 DEF QueuedKnows, StopKnows, UpstreamKnows, SubKnows, RowKnows,
        RefundedKnows, Ended, Failed, PastIndexing, Preparing, Aborting, Submitted,
        SubmissionsEnqueue, Fault
  <2> QED BY <2>2, <2>3, <2>4, <2>5
<1>9. CASE ResubmitFailed(j)
  <2>1. /\ SameCounts(j) /\ job'[j].status = job[j].status
        /\ SameRow(j) \/ job'[j].lastError = "other"
    BY <1>9, RecordFailureEffect DEF ResubmitFailed, SameRow, SameCounts, Recorded
  <2>2. /\ client[j] = "resubmit_failed" /\ client'[j] = "idle"
        /\ sub'[j] = sub[j] /\ rec'[j] = rec[j]
        /\ upstream'[j] = upstream[j]
        /\ inflight' = inflight
    BY <1>9, <2>1 DEF ResubmitFailed, ClientAt, ClientTo, Recorded, TypeOK, ProcTypeOK,
        queueVars, Ops
  <2>3. /\ SameClaims(j, Ops) /\ SameMoney(j)
    BY <1>9, <2>1, <2>2, NoMoneyMoved, MoneyKept DEF ResubmitFailed, Recorded
  <2>4. /\ (Billed(j)' <=> Billed(j)) /\ (Paid(j)' <=> Paid(j))
    BY <1>9, <2>1, <2>2, <2>3, BillKept DEF Recorded, Ops, SameCounts
  <2>5. SubKnows(j)' /\ RowKnows(j)' /\ HandlersKnow(j)' /\ RefundedKnows(j)'
    BY <2>1, <2>2, <2>3, <2>4 DEF SubKnows, RowKnows, HandlersKnow, RefundedKnows, Ops,
        Failed, PastIndexing, Preparing, Aborting
  <2>6. WorkersKnow(j)' /\ UpstreamKnows(j)'
    BY <2>1, <2>2, <2>3, <2>4 DEF WorkersKnow, SettleSteps, SameWorkers, UpstreamKnows,
        SubKnows, RowKnows, Ended, Failed, PastIndexing, Preparing, Aborting
  <2>7. PaidKnows(j)' /\ AloneKnows(j)'
    BY <2>1, <2>2, <2>3, <2>4 DEF PaidKnows, AloneKnows, SettleSteps, SameWorkers,
        WorkersKnow, SubKnows, RowKnows, IsTerminal, TerminalStatuses, PastIndexing,
        Preparing, Aborting
  <2>8. QueuedKnows(j)' /\ StopKnows(j)'
    BY <2>1, <2>2, <2>3, <2>4 DEF QueuedKnows, StopKnows, UpstreamKnows, SubKnows,
        RowKnows, RefundedKnows, Ended, Failed, PastIndexing, Preparing, Aborting,
        Submitted, SubmissionsEnqueue, Fault
  <2> QED BY <2>5, <2>6, <2>7, <2>8
<1>10. CASE DeleteRecord(j)
  <2>1. /\ SameRow(j) /\ SameClaims(j, Ops)
        /\ client'[j] = client[j]
        /\ sub'[j] = sub[j] /\ rec'[j] = rec[j]
        /\ upstream'[j] = upstream[j]
        /\ inflight' = inflight
    BY <1>10, UserDeletedEffect, NoMoneyMoved DEF DeleteRecord, ClientAt, ClientTo,
        Recorded, TypeOK, ProcTypeOK, queueVars, Ops, OtherRows
  <2>2. /\ RowKnows(j)' /\ WorkersKnow(j)' /\ PaidKnows(j)' /\ AloneKnows(j)'
        /\ SameVerdicts(j) /\ SameMoney(j)
    BY <2>1, RestKept DEF SameRow, SameCounts
  <2>3. SubKnows(j)' /\ HandlersKnow(j)' /\ RefundedKnows(j)'
    BY <2>1, <2>2 DEF SubKnows, HandlersKnow, RefundedKnows, Ops, Failed, PastIndexing,
        Preparing, Aborting
  <2>4. UpstreamKnows(j)'
    BY <2>1, <2>2 DEF UpstreamKnows, SubKnows, RowKnows, WorkersKnow, SameWorkers,
        Ended, Failed, Preparing, Aborting, Fault
  <2>5. QueuedKnows(j)' /\ StopKnows(j)'
    BY <2>1, <2>2 DEF QueuedKnows, StopKnows, UpstreamKnows, SubKnows, RowKnows,
        RefundedKnows, Ended, Failed, PastIndexing, Preparing, Aborting, Submitted,
        SubmissionsEnqueue, Fault
  <2> QED BY <2>2, <2>3, <2>4, <2>5
<1>11. CASE CleanupOutput(j)
  <2>1. /\ SameCounts(j) /\ job'[j].lastError = job[j].lastError
        /\ job[j].status = "completed" /\ job'[j].status = "output_deleted"
    BY <1>11, OutputDeletedEffect DEF CleanupOutput, SameRow, SameCounts, Recorded
  <2>2. /\ client'[j] = client[j]
        /\ sub'[j] = sub[j] /\ rec'[j] = rec[j]
        /\ upstream'[j] = upstream[j]
        /\ inflight' = inflight
    BY <1>11, <2>1 DEF CleanupOutput, ClientAt, ClientTo, Recorded, TypeOK, ProcTypeOK,
        queueVars, Ops
  <2>3. /\ SameClaims(j, Ops) /\ SameMoney(j)
    BY <1>11, <2>1, <2>2, NoMoneyMoved, MoneyKept DEF CleanupOutput, Recorded
  <2>4. /\ (Billed(j)' <=> Billed(j)) /\ (Paid(j)' <=> Paid(j))
    BY <1>11, <2>1, <2>2, <2>3, BillKept DEF Recorded, Ops, SameCounts
  <2>5. SubKnows(j)' /\ RowKnows(j)' /\ HandlersKnow(j)' /\ RefundedKnows(j)'
    BY <2>1, <2>2, <2>3, <2>4 DEF SubKnows, RowKnows, HandlersKnow, RefundedKnows, Ops,
        Failed, PastIndexing, Preparing, Aborting
  <2>6. WorkersKnow(j)' /\ UpstreamKnows(j)'
    BY <2>1, <2>2, <2>3, <2>4 DEF WorkersKnow, SettleSteps, SameWorkers, UpstreamKnows,
        SubKnows, RowKnows, Ended, Failed, PastIndexing, Preparing, Aborting
  <2>7. PaidKnows(j)' /\ AloneKnows(j)'
    BY <2>1, <2>2, <2>3, <2>4 DEF PaidKnows, AloneKnows, SettleSteps, SameWorkers,
        WorkersKnow, SubKnows, RowKnows, IsTerminal, TerminalStatuses, PastIndexing,
        Preparing, Aborting
  <2>8. QueuedKnows(j)' /\ StopKnows(j)'
    BY <2>1, <2>2, <2>3, <2>4 DEF QueuedKnows, StopKnows, UpstreamKnows, SubKnows,
        RowKnows, RefundedKnows, Ended, Failed, PastIndexing, Preparing, Aborting,
        Submitted, SubmissionsEnqueue, Fault
  <2> QED BY <2>5, <2>6, <2>7, <2>8
<1>12. CASE ClientDies(j)
  <2>1. /\ SameRow(j) /\ SameClaims(j, Ops)
        /\ client[j] \in DiesAt
        /\ client'[j] = "idle"
        /\ sub'[j] = sub[j] /\ rec'[j] = rec[j]
        /\ upstream'[j] = upstream[j]
        /\ inflight' = inflight
    BY <1>12, NothingWritten, NoMoneyMoved DEF ClientDies, ClientAt, ClientTo, Recorded,
        TypeOK, ProcTypeOK, queueVars, Ops, OtherRows
  <2>2. /\ RowKnows(j)' /\ WorkersKnow(j)' /\ PaidKnows(j)' /\ AloneKnows(j)'
        /\ SameVerdicts(j) /\ SameMoney(j)
    BY <2>1, RestKept DEF SameRow, SameCounts
  <2>3. SubKnows(j)' /\ HandlersKnow(j)' /\ RefundedKnows(j)'
    BY <2>1, <2>2 DEF SubKnows, HandlersKnow, RefundedKnows, Ops, Failed, PastIndexing,
        Preparing, Aborting
  <2>4. UpstreamKnows(j)'
    BY <2>1, <2>2 DEF UpstreamKnows, SubKnows, RowKnows, WorkersKnow, SameWorkers,
        Ended, Failed, Preparing, Aborting, Fault
  <2>5. QueuedKnows(j)' /\ StopKnows(j)'
    BY <2>1, <2>2 DEF QueuedKnows, StopKnows, UpstreamKnows, SubKnows, RowKnows,
        RefundedKnows, Ended, Failed, PastIndexing, Preparing, Aborting, Submitted,
        SubmissionsEnqueue, Fault
  <2> QED BY <2>2, <2>3, <2>4, <2>5
<1> QED BY <1>1, <1>2, <1>3, <1>4, <1>5, <1>6, <1>7, <1>8, <1>9, <1>10, <1>11, <1>12 DEF
    Client, ClientStep

LEMMA RecoveryKeeps ==
    ASSUME Recorded, TypeOK', EveryJobKnown, NEW j \in Jobs, SameWorkers(j),
           Recovery(j) \/ RecoveryDies(j) \/ RowAges(j) \/ ProviderRuns(j) \/
           ProviderEnds(j) \/ Maintenance(j)
    PROVE  Knows(j)'
<1>0. Knows(j) /\ JobTypeOK
  BY TypeParts DEF EveryJobKnown, Recorded
<1> USE <1>0
<1> USE DEF Knows, SameRow, SameCounts, SameVerdicts, SameMoney
<1>1. CASE RecoveryList(j)
  <2>1. /\ SameRow(j) /\ SameClaims(j, Ops)
        /\ rec[j] = "idle" /\ rec'[j] = "listed"
        /\ sub'[j] = sub[j] /\ client'[j] = client[j]
        /\ upstream'[j] = upstream[j]
        /\ inflight' = inflight
    BY <1>1, NothingWritten, NoMoneyMoved DEF RecoveryList, RecAt, RecTo, Recorded,
        TypeOK, ProcTypeOK, queueVars, Ops, OtherRows
  <2>2. /\ RowKnows(j)' /\ WorkersKnow(j)' /\ PaidKnows(j)' /\ AloneKnows(j)'
        /\ SameVerdicts(j) /\ SameMoney(j)
    BY <2>1, RestKept DEF SameRow, SameCounts
  <2>3. SubKnows(j)' /\ HandlersKnow(j)' /\ RefundedKnows(j)'
    BY <2>1, <2>2 DEF SubKnows, HandlersKnow, RefundedKnows, Ops, Failed, PastIndexing,
        Preparing, Aborting
  <2>4. UpstreamKnows(j)'
    BY <2>1, <2>2 DEF UpstreamKnows, SubKnows, RowKnows, WorkersKnow, SameWorkers,
        Ended, Failed, Preparing, Aborting, Fault
  <2>5. QueuedKnows(j)' /\ StopKnows(j)'
    BY <2>1, <2>2 DEF QueuedKnows, StopKnows, UpstreamKnows, SubKnows, RowKnows,
        RefundedKnows, Ended, Failed, PastIndexing, Preparing, Aborting, Submitted,
        SubmissionsEnqueue, Fault
  <2> QED BY <2>2, <2>3, <2>4, <2>5
<1>2. CASE RecoveryFail(j)
  <2>1. PICK out \in {"ok", "not_applied", "error"} :
          /\ SameCounts(j)
          /\ \/ /\ job[j].status \in {"created", "uploading"} /\ ~job[j].provider
                /\ job'[j].status = "failed"
                /\ out = "ok" \/ "fail_stale" \in LostAcks
             \/ SameRow(j) /\ out # "ok"
          /\ RecTo(j, IF out = "ok" THEN "release" ELSE "idle")
    BY <1>2, FailStaleEffect DEF RecoveryFail, SameRow, SameCounts, Recorded, Commits,
        Unsubmitted
  <2>2. /\ rec[j] = "listed"
        /\ rec'[j] = IF out = "ok" THEN "release" ELSE "idle"
        /\ sub'[j] = sub[j] /\ client'[j] = client[j]
        /\ upstream'[j] = upstream[j]
        /\ inflight' = inflight
    BY <1>2, <2>1 DEF RecoveryFail, RecAt, RecTo, Recorded, TypeOK, ProcTypeOK, queueVars,
        Ops
  <2>3. /\ SameClaims(j, Ops) /\ SameMoney(j)
    BY <1>2, <2>1, <2>2, NoMoneyMoved, MoneyKept DEF RecoveryFail, Recorded
  <2>4. /\ (Billed(j)' <=> Billed(j)) /\ (Paid(j)' <=> Paid(j))
    BY <1>2, <2>1, <2>2, <2>3, BillKept DEF Recorded, Ops, SameCounts
  <2>5. SubKnows(j)' /\ RowKnows(j)' /\ HandlersKnow(j)' /\ RefundedKnows(j)'
    BY <2>1, <2>2, <2>3, <2>4 DEF SubKnows, RowKnows, HandlersKnow, RefundedKnows, Ops,
        Failed, PastIndexing, Preparing, Aborting
  <2>6. WorkersKnow(j)' /\ UpstreamKnows(j)'
    BY <2>1, <2>2, <2>3, <2>4 DEF WorkersKnow, SettleSteps, SameWorkers, UpstreamKnows,
        SubKnows, RowKnows, Ended, Failed, PastIndexing, Preparing, Aborting
  <2>7. PaidKnows(j)' /\ AloneKnows(j)'
    BY <2>1, <2>2, <2>3, <2>4 DEF PaidKnows, AloneKnows, SettleSteps, SameWorkers,
        WorkersKnow, SubKnows, RowKnows, IsTerminal, TerminalStatuses, PastIndexing,
        Preparing, Aborting
  <2>8. QueuedKnows(j)' /\ StopKnows(j)'
    BY <2>1, <2>2, <2>3, <2>4 DEF QueuedKnows, StopKnows, UpstreamKnows, SubKnows,
        RowKnows, RefundedKnows, Ended, Failed, PastIndexing, Preparing, Aborting,
        Submitted, SubmissionsEnqueue, Fault
  <2> QED BY <2>5, <2>6, <2>7, <2>8
<1>3. CASE RecoveryRelease(j)
  <2>1. PICK ok \in BOOLEAN :
          /\ SameClaims(j, {"hold", "capture"})
          /\ Claimed("release", j) => Claimed("release", j)'
          /\ Refunded(j) => Refunded(j)'
          /\ ok => Hold[j] = 0 \/ Claimed("release", j)'
          /\ RecTo(j, IF ok THEN "idle" ELSE "retry")
    BY <1>3, ReleaseEffect DEF RecoveryRelease, RecAt, RecTo, Recorded, TypeOK,
        ProcTypeOK, queueVars, Ops
  <2>2. /\ SameRow(j) /\ SameVerdicts(j)
        /\ rec[j] = "release" /\ Failed(j)
        /\ rec'[j] = IF ok THEN "idle" ELSE "retry"
        /\ sub'[j] = sub[j] /\ client'[j] = client[j]
        /\ upstream'[j] = upstream[j]
        /\ inflight' = inflight
    BY <1>3, <2>1, NothingWritten, RowVerdicts DEF RecoveryRelease, HandlersKnow, RecAt,
        RecTo, Recorded, TypeOK, ProcTypeOK, queueVars, Ops
  <2>3. /\ Billed(j)' <=> Billed(j)
        /\ Paid(j)' <=> Paid(j)
        /\ Charged(j)' <=> Charged(j)
        /\ CapturesMoved(j)' <=> CapturesMoved(j)
    BY <1>3, <2>1, <2>2, BillKept DEF Recorded
  <2>4. /\ Claimed("hold", j)' <=> Claimed("hold", j)
        /\ HoldTaken(j)' <=> HoldTaken(j)
    BY <1>3, <2>1, <2>2, <2>3 DEF SameClaims, Refunded, HoldTaken
  <2>5. SubKnows(j)' /\ RowKnows(j)' /\ HandlersKnow(j)' /\ RefundedKnows(j)'
    BY <2>1, <2>2, <2>3, <2>4 DEF SubKnows, RowKnows, HandlersKnow, RefundedKnows, Ops,
        Failed, PastIndexing, Preparing, Aborting
  <2>6. WorkersKnow(j)' /\ UpstreamKnows(j)'
    BY <2>1, <2>2, <2>3, <2>4 DEF WorkersKnow, SettleSteps, SameWorkers, UpstreamKnows,
        SubKnows, RowKnows, Ended, Failed, PastIndexing, Preparing, Aborting
  <2>7. PaidKnows(j)' /\ AloneKnows(j)'
    BY <2>1, <2>2, <2>3, <2>4 DEF PaidKnows, AloneKnows, SettleSteps, SameWorkers,
        WorkersKnow, SubKnows, RowKnows, IsTerminal, TerminalStatuses, PastIndexing,
        Preparing, Aborting
  <2>8. QueuedKnows(j)' /\ StopKnows(j)'
    BY <2>1, <2>2, <2>3, <2>4 DEF QueuedKnows, StopKnows, UpstreamKnows, SubKnows,
        RowKnows, RefundedKnows, Ended, Failed, PastIndexing, Preparing, Aborting,
        Submitted, SubmissionsEnqueue, Fault
  <2> QED BY <2>5, <2>6, <2>7, <2>8
<1>4. CASE RecoveryRetry(j)
  <2>1. /\ SameRow(j) /\ SameClaims(j, Ops)
        /\ rec[j] = "retry"
        /\ rec'[j] = "idle"
        /\ sub'[j] = sub[j] /\ client'[j] = client[j]
        /\ upstream'[j] = upstream[j]
        /\ inflight \subseteq inflight' /\ (j \in inflight' \/ "enqueue" \in FaultOps)
    BY <1>4, NothingWritten, NoMoneyMoved DEF RecoveryRetry, RecAt, RecTo, Recorded,
        TypeOK, ProcTypeOK, queueVars, Ops, OtherRows, EnqueueBestEffort, Enqueue, Fault,
        MoveDueDelayedToReady, RecoverStaleActive, LockExpires, redisVars
  <2>2. /\ RowKnows(j)' /\ WorkersKnow(j)' /\ PaidKnows(j)' /\ AloneKnows(j)'
        /\ SameVerdicts(j) /\ SameMoney(j)
    BY <2>1, RestKept DEF SameRow, SameCounts
  <2>3. SubKnows(j)' /\ HandlersKnow(j)' /\ RefundedKnows(j)'
    BY <2>1, <2>2 DEF SubKnows, HandlersKnow, RefundedKnows, Ops, Failed, PastIndexing,
        Preparing, Aborting
  <2>4. UpstreamKnows(j)'
    BY <2>1, <2>2 DEF UpstreamKnows, SubKnows, RowKnows, WorkersKnow, SameWorkers,
        Ended, Failed, Preparing, Aborting, Fault
  <2>5. QueuedKnows(j)' /\ StopKnows(j)'
    BY <2>1, <2>2 DEF QueuedKnows, StopKnows, UpstreamKnows, SubKnows, RowKnows,
        RefundedKnows, Ended, Failed, PastIndexing, Preparing, Aborting, Submitted,
        SubmissionsEnqueue, Fault
  <2> QED BY <2>2, <2>3, <2>4, <2>5
<1>5. CASE RecoveryDies(j)
  <2>1. /\ SameRow(j) /\ SameClaims(j, Ops)
        /\ "recovery" \in DiesAt
        /\ rec'[j] = "idle"
        /\ sub'[j] = sub[j] /\ client'[j] = client[j]
        /\ upstream'[j] = upstream[j]
        /\ inflight' = inflight
    BY <1>5, NothingWritten, NoMoneyMoved DEF RecoveryDies, RecAt, RecTo, Recorded,
        TypeOK, ProcTypeOK, queueVars, Ops, OtherRows
  <2>2. /\ RowKnows(j)' /\ WorkersKnow(j)' /\ PaidKnows(j)' /\ AloneKnows(j)'
        /\ SameVerdicts(j) /\ SameMoney(j)
    BY <2>1, RestKept DEF SameRow, SameCounts
  <2>3. SubKnows(j)' /\ HandlersKnow(j)' /\ RefundedKnows(j)'
    BY <2>1, <2>2 DEF SubKnows, HandlersKnow, RefundedKnows, Ops, Failed, PastIndexing,
        Preparing, Aborting
  <2>4. UpstreamKnows(j)'
    BY <2>1, <2>2 DEF UpstreamKnows, SubKnows, RowKnows, WorkersKnow, SameWorkers,
        Ended, Failed, Preparing, Aborting, Fault
  <2>5. QueuedKnows(j)' /\ StopKnows(j)'
    BY <2>1, <2>2 DEF QueuedKnows, StopKnows, UpstreamKnows, SubKnows, RowKnows,
        RefundedKnows, Ended, Failed, PastIndexing, Preparing, Aborting, Submitted,
        SubmissionsEnqueue, Fault
  <2> QED BY <2>2, <2>3, <2>4, <2>5
<1>6. CASE RowAges(j)
  <2>1. /\ SameRow(j) /\ SameClaims(j, Ops)
        /\ rec'[j] = rec[j]
        /\ sub'[j] = sub[j] /\ client'[j] = client[j]
        /\ upstream'[j] = upstream[j]
        /\ inflight' = inflight
    BY <1>6, AgesEffect, NoMoneyMoved DEF RowAges, procVars, Recorded, TypeOK, ProcTypeOK,
        queueVars, Ops, OtherRows
  <2>2. /\ RowKnows(j)' /\ WorkersKnow(j)' /\ PaidKnows(j)' /\ AloneKnows(j)'
        /\ SameVerdicts(j) /\ SameMoney(j)
    BY <2>1, RestKept DEF SameRow, SameCounts
  <2>3. SubKnows(j)' /\ HandlersKnow(j)' /\ RefundedKnows(j)'
    BY <2>1, <2>2 DEF SubKnows, HandlersKnow, RefundedKnows, Ops, Failed, PastIndexing,
        Preparing, Aborting
  <2>4. UpstreamKnows(j)'
    BY <2>1, <2>2 DEF UpstreamKnows, SubKnows, RowKnows, WorkersKnow, SameWorkers,
        Ended, Failed, Preparing, Aborting, Fault
  <2>5. QueuedKnows(j)' /\ StopKnows(j)'
    BY <2>1, <2>2 DEF QueuedKnows, StopKnows, UpstreamKnows, SubKnows, RowKnows,
        RefundedKnows, Ended, Failed, PastIndexing, Preparing, Aborting, Submitted,
        SubmissionsEnqueue, Fault
  <2> QED BY <2>2, <2>3, <2>4, <2>5
<1>7. CASE ProviderRuns(j)
  <2>1. /\ SameRow(j) /\ SameClaims(j, Ops)
        /\ rec'[j] = rec[j]
        /\ sub'[j] = sub[j] /\ client'[j] = client[j]
        /\ upstream[j] = "queued" /\ upstream'[j] = "running"
        /\ inflight' = inflight
    BY <1>7, NothingWritten, NoMoneyMoved DEF ProviderRuns, procVars, Recorded, TypeOK,
        ProcTypeOK, queueVars, Ops, OtherRows
  <2>2. /\ RowKnows(j)' /\ WorkersKnow(j)' /\ PaidKnows(j)' /\ AloneKnows(j)'
        /\ SameVerdicts(j) /\ SameMoney(j)
    BY <2>1, RestKept DEF SameRow, SameCounts
  <2>3. SubKnows(j)' /\ HandlersKnow(j)' /\ RefundedKnows(j)'
    BY <2>1, <2>2 DEF SubKnows, HandlersKnow, RefundedKnows, Ops, Failed, PastIndexing,
        Preparing, Aborting
  <2>4. UpstreamKnows(j)'
    BY <2>1, <2>2 DEF UpstreamKnows, SubKnows, RowKnows, WorkersKnow, SameWorkers,
        Ended, Failed, Preparing, Aborting, Fault
  <2>5. QueuedKnows(j)' /\ StopKnows(j)'
    BY <2>1, <2>2 DEF QueuedKnows, StopKnows, UpstreamKnows, SubKnows, RowKnows,
        RefundedKnows, Ended, Failed, PastIndexing, Preparing, Aborting, Submitted,
        SubmissionsEnqueue, Fault
  <2> QED BY <2>2, <2>3, <2>4, <2>5
<1>8. CASE ProviderEnds(j)
  <2>1. /\ SameRow(j) /\ SameClaims(j, Ops)
        /\ rec'[j] = rec[j]
        /\ sub'[j] = sub[j] /\ client'[j] = client[j]
        /\ upstream[j] = "running" /\ upstream'[j] \in {"succeeded", "failed"}
        /\ inflight' = inflight
    BY <1>8, NothingWritten, NoMoneyMoved DEF ProviderEnds, procVars, Recorded, TypeOK,
        ProcTypeOK, queueVars, Ops, OtherRows
  <2>2. /\ RowKnows(j)' /\ WorkersKnow(j)' /\ PaidKnows(j)' /\ AloneKnows(j)'
        /\ SameVerdicts(j) /\ SameMoney(j)
    BY <2>1, RestKept DEF SameRow, SameCounts
  <2>3. SubKnows(j)' /\ HandlersKnow(j)' /\ RefundedKnows(j)'
    BY <2>1, <2>2 DEF SubKnows, HandlersKnow, RefundedKnows, Ops, Failed, PastIndexing,
        Preparing, Aborting
  <2>4. UpstreamKnows(j)'
    BY <2>1, <2>2 DEF UpstreamKnows, SubKnows, RowKnows, WorkersKnow, SameWorkers,
        Ended, Failed, Preparing, Aborting, Fault
  <2>5. QueuedKnows(j)' /\ StopKnows(j)'
    BY <2>1, <2>2 DEF QueuedKnows, StopKnows, UpstreamKnows, SubKnows, RowKnows,
        RefundedKnows, Ended, Failed, PastIndexing, Preparing, Aborting, Submitted,
        SubmissionsEnqueue, Fault
  <2> QED BY <2>2, <2>3, <2>4, <2>5
<1>9. CASE Maintenance(j)
  <2>1. /\ SameRow(j) /\ SameClaims(j, Ops)
        /\ rec'[j] = rec[j]
        /\ sub'[j] = sub[j] /\ client'[j] = client[j]
        /\ upstream'[j] = upstream[j]
        /\ inflight' = inflight
    BY <1>9, NothingWritten, NoMoneyMoved DEF Maintenance, procVars, Recorded, TypeOK,
        ProcTypeOK, queueVars, Ops, OtherRows, MoveDueDelayedToReady, RecoverStaleActive,
        LockExpires, redisVars
  <2>2. /\ RowKnows(j)' /\ WorkersKnow(j)' /\ PaidKnows(j)' /\ AloneKnows(j)'
        /\ SameVerdicts(j) /\ SameMoney(j)
    BY <2>1, RestKept DEF SameRow, SameCounts
  <2>3. SubKnows(j)' /\ HandlersKnow(j)' /\ RefundedKnows(j)'
    BY <2>1, <2>2 DEF SubKnows, HandlersKnow, RefundedKnows, Ops, Failed, PastIndexing,
        Preparing, Aborting
  <2>4. UpstreamKnows(j)'
    BY <2>1, <2>2 DEF UpstreamKnows, SubKnows, RowKnows, WorkersKnow, SameWorkers,
        Ended, Failed, Preparing, Aborting, Fault
  <2>5. QueuedKnows(j)' /\ StopKnows(j)'
    BY <2>1, <2>2 DEF QueuedKnows, StopKnows, UpstreamKnows, SubKnows, RowKnows,
        RefundedKnows, Ended, Failed, PastIndexing, Preparing, Aborting, Submitted,
        SubmissionsEnqueue, Fault
  <2> QED BY <2>2, <2>3, <2>4, <2>5
<1> QED BY <1>1, <1>2, <1>3, <1>4, <1>5, <1>6, <1>7, <1>8, <1>9 DEF Recovery

-----------------------------------------------------------------------------
(* What stays: a final status, the count of a job that is not being indexed,  *)
(* and a job in the queue until its row is final.                             *)
RowStays(i) ==
    /\ IsTerminal(job[i].status) => IsTerminal(job'[i].status)
    /\ job[i].status \notin {"none", "indexing"} => job'[i].success = job[i].success

LEMMA RowsStay ==
    ASSUME TypeOK, [Next]_vars, NEW i \in Jobs
    PROVE  RowStays(i)
<1> USE TypeParts
<1> USE DEF RowStays, OtherRows, SameRow, SameCounts, IsTerminal, TerminalStatuses
<1>1. CASE UNCHANGED job
  BY <1>1
<1>2. ASSUME NEW j \in Jobs, SubmitCreate(j) PROVE RowStays(i)
  BY <1>2, CreateEffect DEF SubmitCreate, NoRow
<1>3. ASSUME NEW j \in Jobs, SubmitUpload(j) PROVE RowStays(i)
  BY <1>3, TransitionEffect, TransitionsAllowed DEF SubmitUpload, Statuses, ActiveStatuses
<1>4. ASSUME NEW j \in Jobs, SubmitHeartbeat(j) PROVE RowStays(i)
  BY <1>4, TouchEffect DEF SubmitHeartbeat
<1>5. ASSUME NEW j \in Jobs, SubmitRecord(j) PROVE RowStays(i)
  BY <1>5, ProviderSubmitEffect, TransitionsAllowed DEF SubmitRecord
<1>6. ASSUME NEW j \in Jobs, SubmitQueueFailed(j) PROVE RowStays(i)
  BY <1>6, RecordFailureEffect DEF SubmitQueueFailed
<1>7. ASSUME NEW j \in Jobs, SubmitReleaseFailed(j) PROVE RowStays(i)
  BY <1>7, RecordFailureEffect DEF SubmitReleaseFailed
<1>8. ASSUME NEW j \in Jobs, SubmitFail(j) PROVE RowStays(i)
  BY <1>8, RecordFailureEffect DEF SubmitFail
<1>9. ASSUME NEW j \in Jobs, SubmitHide(j) PROVE RowStays(i)
  BY <1>9, UserDeletedEffect DEF SubmitHide
<1>10. ASSUME NEW j \in Jobs, CancelTransition(j) PROVE RowStays(i)
  BY <1>10, TransitionEffect, TransitionsAllowed DEF CancelTransition, Statuses,
      ActiveStatuses
<1>11. ASSUME NEW j \in Jobs, ResubmitFailed(j) PROVE RowStays(i)
  BY <1>11, RecordFailureEffect DEF ResubmitFailed
<1>12. ASSUME NEW j \in Jobs, DeleteRecord(j) PROVE RowStays(i)
  BY <1>12, UserDeletedEffect DEF DeleteRecord
<1>13. ASSUME NEW j \in Jobs, CleanupOutput(j) PROVE RowStays(i)
  BY <1>13, OutputDeletedEffect DEF CleanupOutput
<1>14. ASSUME NEW j \in Jobs, RecoveryFail(j) PROVE RowStays(i)
  BY <1>14, FailStaleEffect DEF RecoveryFail, Unsubmitted
<1>15. ASSUME NEW j \in Jobs, RowAges(j) PROVE RowStays(i)
  BY <1>15, AgesEffect DEF RowAges
<1>16. ASSUME NEW w \in Workers, ProcessTransition(w) PROVE RowStays(i)
  BY <1>16, TransitionEffect, TransitionsAllowed, WorkerHasJob DEF ProcessTransition,
      Statuses, ActiveStatuses, At
<1>17. ASSUME NEW w \in Workers, ProcessIndex(w) PROVE RowStays(i)
  BY <1>17, ReplaceEffect, WorkerHasJob DEF ProcessIndex, At
<1>18. ASSUME NEW w \in Workers, SettleMark(w) PROVE RowStays(i)
  BY <1>18, SettledEffect, WorkerHasJob DEF SettleMark, At
<1>19. ASSUME NEW w \in Workers, SettleRecordFailure(w) PROVE RowStays(i)
  BY <1>19, SettlementFailedEffect, WorkerHasJob DEF SettleRecordFailure, At
<1>20. ASSUME NEW w \in Workers, ExhaustReleaseFailed(w) PROVE RowStays(i)
  BY <1>20, SettlementFailedEffect, WorkerHasJob DEF ExhaustReleaseFailed, At
<1>21. ASSUME NEW w \in Workers, ExhaustFail(w) PROVE RowStays(i)
  BY <1>21, TransitionEffect, TransitionsAllowed, WorkerHasJob DEF ExhaustFail, Statuses,
      ActiveStatuses, At
<1>22. ASSUME NEW j \in Jobs, 
             SubmitReserve(j) \/ SubmitItems(j) \/ SubmitProvider(j) \/
             SubmitAbort(j) \/ SubmitEnqueue(j) \/ SubmitRelease(j) \/
             SubmitRetry(j) \/ SubmitDies(j) \/ CancelRead(j) \/
             CancelProvider(j) \/ CancelEnqueue(j) \/ CancelRelease(j) \/
             CancelRetry(j) \/ ResubmitRead(j) \/ ResubmitEnqueue(j) \/
             ClientDies(j) \/ RecoveryList(j) \/ RecoveryRelease(j) \/
             RecoveryRetry(j) \/ RecoveryDies(j) \/ ProviderRuns(j) \/
             ProviderEnds(j) \/ Maintenance(j)
      PROVE  UNCHANGED job
  BY <1>22 DEF SubmitReserve, SubmitItems, SubmitProvider, SubmitAbort, SubmitEnqueue,
      SubmitRelease, SubmitRetry, SubmitDies, CancelRead, CancelProvider, CancelEnqueue,
      CancelRelease, CancelRetry, ResubmitRead, ResubmitEnqueue, ClientDies, RecoveryList,
      RecoveryRelease, RecoveryRetry, RecoveryDies, ProviderRuns, ProviderEnds,
      Maintenance
<1>23. ASSUME NEW w \in Workers,
             ProcessStart(w) \/ ProcessRead(w) \/ ProcessPoll(w) \/
             ProcessRelease(w) \/ SettleRead(w) \/ SettleCapture(w) \/
             ExhaustRelease(w) \/ ProcessRecheck(w) \/ WorkerTakesLock(w) \/
             WorkerLoop(w) \/ WorkerDies(w)
      PROVE  UNCHANGED job
  BY <1>23 DEF ProcessStart, ProcessRead, ProcessPoll, ProcessRelease, SettleRead,
      SettleCapture, ExhaustRelease, ProcessRecheck, WorkerTakesLock, WorkerLoop,
      WorkerDies, Outside
<1>24. CASE UNCHANGED vars
  BY <1>24 DEF vars
<1> HIDE DEF RowStays, OtherRows, SameRow, SameCounts
<1> QED BY <1>1, <1>2, <1>3, <1>4, <1>5, <1>6, <1>7, <1>8, <1>9, <1>10, <1>11, <1>12,
    <1>13, <1>14, <1>15, <1>16, <1>17, <1>18, <1>19, <1>20, <1>21, <1>22, <1>23, <1>24 DEF
    Next, Submit, Client, ClientStep, Recovery, Worker, Process

(* Only Enqueue brings a job to the queue that was not there, and only an Ack *)
(* takes it off the inflight set.                                             *)
LEMMA HeldStep ==
    ASSUME QueueTypeOK, [QueueNext]_queueVars, NEW j \in Jobs
    PROVE  /\ Held(j)' => Held(j) \/ j \in inflight'
           /\ j \in inflight =>
                j \in inflight' \/ \E w \in Workers : wpc[w] = "ack" /\ wjob[w] = j
<1> DEFINE Goal == /\ Held(j)' => Held(j) \/ j \in inflight'
                   /\ j \in inflight => \/ j \in inflight'
                                        \/ \E w \in Workers : wpc[w] = "ack" /\ wjob[w] = j
<1> USE DEF QueueTypeOK
<1>1. CASE UNCHANGED queueVars
  BY <1>1 DEF queueVars, Held, InReady
<1>2. ASSUME NEW i \in Jobs, Enqueue(i) PROVE Goal
  <2>1. CASE i \in inflight
    BY <1>2, <2>1 DEF Enqueue, Held, InReady
  <2>2. CASE i \notin inflight
    <3>1. InReady(j)' => InReady(j) \/ j = i
      BY <1>2, <2>2, PushesOne DEF Enqueue
    <3> QED BY <1>2, <2>2, <3>1 DEF Enqueue, Held
  <2> QED BY <2>1, <2>2
<1>3. ASSUME NEW i \in Jobs, MoveDueDelayedToReady(i) PROVE Goal
  <2>1. InReady(j)' => InReady(j) \/ j = i
    BY <1>3, PushesOne DEF MoveDueDelayedToReady
  <2> QED BY <1>3, <2>1 DEF MoveDueDelayedToReady, Held
<1>4. ASSUME NEW i \in Jobs, RecoverStaleActive(i) PROVE Goal
  <2>1. InReady(j)' => InReady(j) \/ j = i
    BY <1>4, PushesOne DEF RecoverStaleActive
  <2> QED BY <1>4, <2>1 DEF RecoverStaleActive, Held
<1>5. ASSUME NEW i \in Jobs, LockExpires(i) PROVE Goal
  BY <1>5 DEF LockExpires, redisVars, Held, InReady
<1>6. ASSUME NEW w \in Workers, Reserve(w) PROVE Goal
  <2>1. /\ InReady(j)' => InReady(j)
        /\ InReady(ready[Len(ready)])
    BY <1>6, PopsLast DEF Reserve
  <2>2. \A v \in Workers : wjob'[v] = wjob[v] \/ wjob'[v] = ready[Len(ready)]
    BY <1>6 DEF Reserve
  <2>3. delayed' = delayed /\ inflight' = inflight
        /\ active' = active \union {ready[Len(ready)]}
    BY <1>6 DEF Reserve
  <2> HIDE DEF QueueTypeOK
  <2> QED BY <2>1, <2>2, <2>3 DEF Held
<1>7. ASSUME NEW w \in Workers,
             TryAcquireJobLock(w) \/ Finish(w, "ack") \/ Finish(w, "requeue")
      PROVE  Goal
  BY <1>7 DEF TryAcquireJobLock, Finish, redisVars, Held, InReady
<1>8. ASSUME NEW w \in Workers, RequeueAfter(w) \/ Ack(w) PROVE Goal
  <2>1. /\ ready' = ready /\ active' \subseteq active
        /\ delayed' \subseteq delayed \union {wjob[w]}
        /\ inflight' = inflight \/ (inflight' = inflight \ {wjob[w]} /\ wpc[w] = "ack")
    BY <1>8 DEF RequeueAfter, Ack
  <2>2. \A v \in Workers : wjob'[v] = wjob[v] \/ wjob'[v] = NoJob
    BY <1>8 DEF RequeueAfter, Ack, AfterQueueCall
  <2> QED BY <2>1, <2>2, QueueAssumption DEF Held, InReady
<1>9. ASSUME NEW w \in Workers, ReleaseLock(w) \/ WorkerCrash(w) PROVE Goal
  <2>1. \A v \in Workers : wjob'[v] = wjob[v] \/ wjob'[v] = NoJob
    BY <1>9 DEF ReleaseLock, WorkerCrash
  <2> QED BY <1>9, <2>1, QueueAssumption DEF ReleaseLock, WorkerCrash, redisVars, Held, InReady
<1> QED BY <1>1, <1>2, <1>3, <1>4, <1>5, <1>6, <1>7, <1>8, <1>9 DEF QueueNext, WorkerStep

(* An inflight entry is given up only for a finished job.                     *)
LEMMA HeldInductive ==
    ASSUME TypeOK, EveryJobKnown, HeldKnown, [Next]_vars
    PROVE  HeldKnown'
<1> SUFFICES ASSUME NEW j \in Jobs \ MayLapse, Held(j)'
             PROVE  j \in inflight' \/ IsTerminal(job'[j].status)
  BY DEF HeldKnown
<1>1. /\ Held(j)' => Held(j) \/ j \in inflight'
      /\ j \in inflight => j \in inflight' \/ \E w \in Workers : wpc[w] = "ack" /\ wjob[w] = j
  <2>1. [QueueNext]_queueVars
    BY StoreStep DEF StepOK
  <2> QED BY <2>1, HeldStep, TypeParts
<1>2. (\E w \in Workers : wpc[w] = "ack" /\ wjob[w] = j) => IsTerminal(job[j].status)
  BY DEF EveryJobKnown, Knows, AloneKnows
<1>3. IsTerminal(job[j].status) => IsTerminal(job'[j].status)
  BY RowsStay DEF RowStays
<1> QED BY <1>1, <1>2, <1>3 DEF HeldKnown

-----------------------------------------------------------------------------
(* The workers.  A worker enters a step only with what the invariant grants   *)
(* to whoever is there.                                                       *)

\* Where a worker is, as far as the invariant cares.
StepOf(v) == IF wpc[v] = "ack" THEN "ack" ELSE wstep[v]

MayEnter(j, step) ==
    /\ step \in SettleSteps \union {"recheck"} => PastIndexing(j)
    /\ step = "release" => Failed(j)
    /\ step \in {"running", "indexing", "settling", "failed", "cancelled", "index", "poll",
                 "poll_running"} => job[j].provider
    /\ step \in {"indexing", "index", "settling", "failed", "cancelled"} => Ended(j)
    /\ step = "mark" => Paid(j)
    /\ j \notin MayLapse =>
         /\ step \in {"read", "settling"} => job[j].status # "settling"
         /\ step \in SettleSteps => job[j].status = "settling"
         /\ step = "recheck" => job[j].status \in {"settling", "failed"}
         /\ step = "ack" => IsTerminal(job[j].status)

LEMMA StepKnown ==
    ASSUME TypeOK, NEW j \in Jobs, Knows(j), NEW v \in Workers, wjob[v] = j
    PROVE  MayEnter(j, StepOf(v))
<1> DEFINE s == StepOf(v)
<1>1. \/ s = "ack" /\ wpc[v] = "ack" /\ wstep[v] = "none"
      \/ s = wstep[v] /\ wpc[v] # "ack" /\ s # "ack"
  BY DEF TypeOK, StepOf, ProcessSteps
<1> HIDE DEF s
<1> USE DEF Knows
<1>2. /\ s \in SettleSteps \union {"recheck"} => PastIndexing(j)
      /\ s = "release" => Failed(j)
      /\ s \in {"running", "indexing", "settling", "failed", "cancelled", "index", "poll",
                "poll_running"} => job[j].provider
      /\ s \in {"indexing", "index", "settling", "failed", "cancelled"} => Ended(j)
      /\ s = "mark" => Paid(j)
  BY <1>1 DEF WorkersKnow, UpstreamKnows, PaidKnows, SettleSteps
<1>3. j \notin MayLapse =>
        /\ s \in {"read", "settling"} => job[j].status # "settling"
        /\ s \in SettleSteps => job[j].status = "settling"
        /\ s = "recheck" => job[j].status \in {"settling", "failed"}
        /\ s = "ack" => IsTerminal(job[j].status)
  BY <1>1 DEF AloneKnows, SettleSteps
<1> QED BY <1>2, <1>3 DEF MayEnter, s

\* Each worker that has the job stays where it was or enters a step it may enter.
WorkersGo(j) == \A v \in Workers : wjob'[v] = j =>
    \/ wjob[v] = j /\ StepOf(v)' = StepOf(v)
    \/ MayEnter(j, StepOf(v)')

\* Nobody has to look at the job any more.
MayForget(j) == j \notin MayLapse => IsTerminal(job[j].status)

LEMMA WorkersGoKept ==
    ASSUME TypeOK, TypeOK', NEW j \in Jobs, Knows(j),
           SameRow(j), SameClaims(j, Ops), SameHandlers(j), upstream'[j] = upstream[j],
           WorkersGo(j), j \in inflight => j \in inflight' \/ MayForget(j)
    PROVE  Knows(j)'
<1> USE DEF Knows, SameHandlers, SameRow, SameCounts
<1>1. SameVerdicts(j) /\ SameMoney(j) /\ (Paid(j)' <=> Paid(j)) /\ (Billed(j)' <=> Billed(j))
  <2>1. "capture" \in Ops
    BY DEF Ops
  <2> QED BY <2>1, RowVerdicts, MoneyKept, BillKept
<1>2. Ended(j)' <=> Ended(j)
  BY DEF Ended
<1> USE DEF SameVerdicts, SameMoney
<1>3. ASSUME NEW v \in Workers, wjob'[v] = j
      PROVE  MayEnter(j, StepOf(v)')
  BY <1>3, StepKnown DEF WorkersGo
<1>4. ASSUME NEW v \in Workers, wjob'[v] = j
      PROVE  /\ wpc'[v] = "ack" => MayEnter(j, "ack")
             /\ wpc'[v] # "ack" => MayEnter(j, wstep'[v])
             /\ wpc'[v] = "ack" => wstep'[v] = "none"
  BY <1>3, <1>4 DEF StepOf, TypeOK
<1>5. SubKnows(j)' /\ RowKnows(j)' /\ HandlersKnow(j)' /\ RefundedKnows(j)'
  BY <1>1 DEF SubKnows, RowKnows, HandlersKnow, RefundedKnows, Ops
<1>6. WorkersKnow(j)'
  BY <1>1, <1>4 DEF WorkersKnow, MayEnter, SettleSteps
<1>7. UpstreamKnows(j)'
  BY <1>1, <1>2, <1>4 DEF UpstreamKnows, MayEnter
<1>8. PaidKnows(j)'
  BY <1>1, <1>4 DEF PaidKnows, MayEnter
<1>9. AloneKnows(j)'
  BY <1>1, <1>4 DEF AloneKnows, MayEnter, SettleSteps
<1>10. QueuedKnows(j)' /\ StopKnows(j)'
  BY <1>1, <1>2 DEF QueuedKnows, StopKnows, MayForget, Submitted, IsTerminal, TerminalStatuses
<1> QED BY <1>5, <1>6, <1>7, <1>8, <1>9, <1>10

(* A step inside Process, of the worker w on its job.                         *)
LEMMA MovesElsewhere ==
    ASSUME NEW w \in Workers, NEW step, WorkerMoves(w, step), OtherRows(J(w)), OtherMoney(J(w)),
           UNCHANGED <<upstream, sub, client, rec>>
    PROVE  /\ Elsewhere(J(w)) /\ SameHandlers(J(w)) /\ upstream'[J(w)] = upstream[J(w)]
           /\ inflight' = inflight
BY DEF WorkerMoves, OtherRows, OtherMoney, Elsewhere, Untouched, SameWorkers, SameHandlers,
    SameRow, SameCounts, J

LEMMA MovesGo ==
    ASSUME NEW w \in Workers, NEW step, WorkerMoves(w, step), NEW j, MayEnter(j, step),
           J(w) = j
    PROVE  WorkersGo(j)
<1>1. \A v \in Workers \ {w} : wjob'[v] = wjob[v] /\ StepOf(v)' = StepOf(v)
  BY DEF WorkerMoves, StepOf
<1>2. StepOf(w)' = IF step = "requeue" THEN "none" ELSE step
  BY DEF WorkerMoves, StepOf
<1>3. MayEnter(j, "none")
  BY DEF MayEnter, SettleSteps
<1> QED BY <1>1, <1>2, <1>3 DEF WorkersGo

LEMMA ProcessReadsKeep ==
    ASSUME Recorded, TypeOK', EveryJobKnown, NEW w \in Workers, NEW j \in Jobs, J(w) = j,
           ProcessStart(w) \/ ProcessRead(w) \/ ProcessPoll(w) \/ SettleRead(w)
             \/ ProcessRecheck(w)
    PROVE  Knows(j)' /\ Elsewhere(j)
<1>0. /\ Knows(j) /\ TypeOK /\ JobTypeOK /\ QueueTypeOK /\ ProcTypeOK
      /\ job[j] \in Row
  BY TypeParts DEF EveryJobKnown, Recorded, JobTypeOK
<1> USE <1>0
\* Such a step reads the row and goes on.
<1>1. ASSUME wpc[w] = "processing", UNCHANGED <<job, ledgerVars, upstream, sub, client, rec>>,
             NEW step \in ProcessSteps \union {"ack", "requeue"}, Next_(w, step),
             MayEnter(j, step)
      PROVE  Knows(j)' /\ Elsewhere(j)
  <2>1. WorkerMoves(w, step)
    BY <1>1, NextEffect
  <2>2. /\ OtherRows(j) /\ OtherMoney(j) /\ SameRow(j) /\ SameClaims(j, Ops)
    BY <1>1, NothingWritten, NoMoneyMoved DEF OtherMoney, ledgerVars
  <2>3. WorkersGo(j)
    BY <1>1, <2>1, MovesGo
  <2> QED BY <1>1, <2>1, <2>2, <2>3, MovesElsewhere, WorkersGoKept
<1>2. wjob[w] = j /\ (wpc[w] = "processing" => MayEnter(j, wstep[w]))
  <2>1. wjob[w] = j
    BY DEF J
  <2> QED BY <2>1, StepKnown DEF StepOf
<1>3. MayEnter(j, "requeue")
  BY DEF MayEnter, SettleSteps
<1>4. CASE ProcessStart(w)
  <2>1. wpc[w] = "processing" /\ UNCHANGED <<job, ledgerVars, upstream, sub, client, rec>>
    BY <1>4 DEF ProcessStart, At
  <2>2. PICK step \in ProcessSteps \union {"ack", "requeue"} :
          /\ Next_(w, step) /\ wstep[w] = "start"
          /\ step = "requeue" \/ step = IF job[j].status = "settling" THEN "settle" ELSE "read"
    BY <1>4 DEF ProcessStart, At, Next_, ProcessSteps, ReadFails
  <2>3. step # "requeue" => MayEnter(j, step)
    BY <1>2, <2>1, <2>2 DEF MayEnter, Knows, RowKnows, UpstreamKnows, Failed,
        PastIndexing, Ended, Exhausted, RetryExhausted, IsTerminal, TerminalStatuses,
        SettleSteps, Statuses, ActiveStatuses, Row
  <2> QED BY <1>1, <1>3, <2>1, <2>2, <2>3
<1>5. CASE ProcessRead(w)
  <2>1. wpc[w] = "processing" /\ UNCHANGED <<job, ledgerVars, upstream, sub, client, rec>>
    BY <1>5 DEF ProcessRead, At
  <2>2. PICK step \in ProcessSteps \union {"ack", "requeue"} :
          /\ Next_(w, step) /\ wstep[w] = "read"
          /\ step = "requeue" \/ step = AfterRead(job[j])
    BY <1>5 DEF ProcessRead, At, Next_, ProcessSteps, ReadFails, AfterRead
  <2>3. step # "requeue" => MayEnter(j, step)
    BY <1>2, <2>1, <2>2 DEF MayEnter, Knows, AfterRead, RowKnows, UpstreamKnows,
        Failed, PastIndexing, Ended, Exhausted, RetryExhausted, IsTerminal,
        TerminalStatuses, SettleSteps, Statuses, ActiveStatuses, Row
  <2> QED BY <1>1, <1>3, <2>1, <2>2, <2>3
<1>6. CASE ProcessPoll(w)
  <2>1. wpc[w] = "processing" /\ UNCHANGED <<job, ledgerVars, upstream, sub, client, rec>>
    BY <1>6 DEF ProcessPoll, At
  <2>2. PICK step \in ProcessSteps \union {"ack", "requeue"} :
          /\ Next_(w, step) /\ wstep[w] \in {"poll", "poll_running"}
          /\ step = "requeue" \/ \E b \in BOOLEAN : step = AfterPoll(upstream[j], b)
    BY <1>6 DEF ProcessPoll, At, Next_, ProcessSteps, ReadFails, AfterPoll
  <2>3. step # "requeue" => MayEnter(j, step)
    BY <1>2, <2>1, <2>2 DEF MayEnter, Knows, AfterPoll, RowKnows, UpstreamKnows,
        Failed, PastIndexing, Ended, Exhausted, RetryExhausted, IsTerminal,
        TerminalStatuses, SettleSteps, Statuses, ActiveStatuses, Row
  <2> QED BY <1>1, <1>3, <2>1, <2>2, <2>3
<1>7. CASE SettleRead(w)
  <2>1. wpc[w] = "processing" /\ UNCHANGED <<job, ledgerVars, upstream, sub, client, rec>>
    BY <1>7 DEF SettleRead, At
  <2>2. PICK step \in ProcessSteps \union {"ack", "requeue"} :
          /\ Next_(w, step) /\ wstep[w] = "settle"
          /\ step = "requeue" \/ step = AfterSettleRead(j)
    BY <1>7 DEF SettleRead, At, Next_, ProcessSteps, ReadFails, AfterSettleRead
  <2>3. step = "fail_exceeds" => ~Covered(j)
    <3> DEFINE a == Price * job[j].success
    <3>1. a \in Amounts
      BY PriceIsAmount
    <3>2. step = "fail_exceeds" => a > Hold[j]
      BY <2>2 DEF AfterSettleRead
    <3>3. Covered(j) <=> a <= Hold[j]
      BY DEF Covered
    <3> HIDE DEF a
    <3>4. a \in Int /\ Hold[j] \in Int
      BY <3>1, LedgerAssumption
    <3> QED BY <3>2, <3>3, <3>4
  <2>4. step # "requeue" => MayEnter(j, step)
    BY <1>2, <2>1, <2>2, <2>3 DEF MayEnter, Knows, AfterSettleRead, RowKnows,
        UpstreamKnows, Failed, PastIndexing, Ended, Exhausted, RetryExhausted, IsTerminal,
        TerminalStatuses, SettleSteps, Statuses, ActiveStatuses, Row
  <2> QED BY <1>1, <1>3, <2>1, <2>2, <2>4
<1>8. CASE ProcessRecheck(w)
  <2>1. wpc[w] = "processing" /\ UNCHANGED <<job, ledgerVars, upstream, sub, client, rec>>
    BY <1>8 DEF ProcessRecheck, At
  <2>2. PICK step \in ProcessSteps \union {"ack", "requeue"} :
          /\ Next_(w, step) /\ wstep[w] = "recheck"
          /\ step = "requeue" \/ step = IF IsTerminal(job[j].status) THEN "ack" ELSE "requeue"
    BY <1>8 DEF ProcessRecheck, At, Next_, ProcessSteps, ReadFails
  <2>3. step # "requeue" => MayEnter(j, step)
    BY <1>2, <2>1, <2>2 DEF MayEnter, Knows, RowKnows, UpstreamKnows, Failed,
        PastIndexing, Ended, Exhausted, RetryExhausted, IsTerminal, TerminalStatuses,
        SettleSteps, Statuses, ActiveStatuses, Row
  <2> QED BY <1>1, <1>3, <2>1, <2>2, <2>3
<1> QED BY <1>4, <1>5, <1>6, <1>7, <1>8

(* Around Process a worker takes a job, or lets it go once it is finished.    *)
LEMMA LoopKeeps ==
    ASSUME Recorded, TypeOK', EveryJobKnown, NEW w \in Workers,
           WorkerTakesLock(w) \/ WorkerLoop(w) \/ WorkerDies(w)
    PROVE  EveryJobKnown'
<1> SUFFICES ASSUME NEW j \in Jobs PROVE Knows(j)'
  BY DEF EveryJobKnown
<1>0. /\ Knows(j) /\ TypeOK /\ JobTypeOK /\ QueueTypeOK /\ ProcTypeOK
  BY TypeParts DEF EveryJobKnown, Recorded
<1> USE <1>0
<1>1. /\ SameRow(j) /\ SameClaims(j, Ops) /\ SameHandlers(j)
      /\ upstream'[j] = upstream[j]
  <2>1. UNCHANGED <<job, ledgerVars, upstream, sub, client, rec>>
    BY DEF WorkerTakesLock, WorkerLoop, WorkerDies, Outside
  <2> QED BY <2>1, NoMoneyMoved DEF SameRow, SameCounts, SameHandlers
<1>2. MayEnter(j, "none") /\ MayEnter(j, "start")
  BY DEF MayEnter, SettleSteps
<1>3. WorkersGo(j)
  <2>1. CASE WorkerTakesLock(w)
    <3>1. /\ wjob' = wjob
          /\ \A v \in Workers \ {w} : wpc'[v] = wpc[v] /\ wstep'[v] = wstep[v]
          /\ wpc'[w] # "ack" /\ wstep'[w] \in {"none", "start"}
      BY <2>1 DEF WorkerTakesLock, TryAcquireJobLock, Goto, QueueTypeOK, ProcTypeOK
    <3> QED BY <1>2, <3>1 DEF WorkersGo, StepOf
  <2>2. CASE WorkerLoop(w) \/ WorkerDies(w)
    <3>1. /\ \A v \in Workers \ {w} : wjob'[v] = wjob[v] /\ wpc'[v] = wpc[v] /\ wstep'[v] = wstep[v]
          /\ wpc'[w] # "ack" /\ wstep'[w] = "none"
      BY <2>2
      DEF WorkerLoop, WorkerDies, Reserve, RequeueAfter, Ack, ReleaseLock, AfterQueueCall,
          WorkerCrash, Goto, QueueTypeOK, ProcTypeOK
    <3> QED BY <1>2, <3>1 DEF WorkersGo, StepOf
  <2> QED BY <2>1, <2>2
<1>4. j \in inflight => j \in inflight' \/ MayForget(j)
  <2>1. CASE WorkerLoop(w) /\ Ack(w)
    <3>1. wpc[w] = "ack" /\ (j \in inflight => j \in inflight' \/ wjob[w] = j)
      BY <2>1 DEF Ack
    <3> QED BY <3>1 DEF Knows, AloneKnows, MayForget
  <2>2. CASE ~Ack(w)
    BY <2>2
    DEF WorkerTakesLock, WorkerLoop, WorkerDies, TryAcquireJobLock, Reserve, RequeueAfter,
        ReleaseLock, WorkerCrash, redisVars
  <2>3. CASE Ack(w) /\ ~WorkerLoop(w)
    BY <2>3 DEF WorkerTakesLock, WorkerDies, TryAcquireJobLock, WorkerCrash, redisVars
  <2> QED BY <2>1, <2>2, <2>3
<1> QED BY <1>1, <1>3, <1>4, WorkersGoKept

(* The steps of Process that write the row or call the ledger.                *)
LEMMA ProcessWritesKeep ==
    ASSUME Recorded, TypeOK', EveryJobKnown, HeldKnown, OneWorkerPerJob,
           NEW w \in Workers, NEW j \in Jobs, J(w) = j,
           ProcessTransition(w) \/ ProcessIndex(w) \/ ProcessRelease(w) \/ SettleCapture(w)
             \/ SettleMark(w) \/ SettleRecordFailure(w) \/ ExhaustRelease(w)
             \/ ExhaustReleaseFailed(w) \/ ExhaustFail(w)
    PROVE  Knows(j)' /\ Elsewhere(j)
<1>0. /\ Knows(j) /\ TypeOK /\ JobTypeOK /\ QueueTypeOK /\ ProcTypeOK
      /\ job[j] \in Row
  BY TypeParts DEF EveryJobKnown, Recorded, JobTypeOK
<1> USE <1>0
<1> USE DEF Knows, SameRow, SameCounts, SameVerdicts, SameMoney, SameHandlers
<1>a. wjob[w] = j /\ (wpc[w] = "processing" => MayEnter(j, wstep[w]))
  <2>1. wjob[w] = j
    BY DEF J
  <2> QED BY <2>1, StepKnown DEF StepOf
<1>b. wpc[w] = "processing" /\ j \notin MayLapse =>
        \A v \in Workers \ {w} : wjob[v] = j => wstep[v] = "none" /\ wpc[v] # "ack"
  BY <1>a DEF OneWorkerPerJob, Critical, ProcTypeOK
<1>c. j \notin MayLapse => j \in inflight \/ IsTerminal(job[j].status)
  BY <1>a DEF HeldKnown, Held
<1>1. CASE ProcessTransition(w)
  <2>1. PICK to \in {"running", "indexing", "settling", "failed", "cancelled"},
              out \in {"ok", "invalid", "error"} :
          /\ wpc[w] = "processing" /\ wstep[w] = to
          /\ TransitionBatchImageJobStatus(j, to, "other", out)
          /\ Next_(w, IF out = "ok" THEN AfterTransition(to) ELSE "requeue")
    BY <1>1 DEF ProcessTransition, At
  <2>2. /\ UNCHANGED <<upstream, sub, client, rec>>
        /\ UNCHANGED ledgerVars
    BY <1>1 DEF ProcessTransition, At
  <2>3. /\ (IF out = "ok" THEN AfterTransition(to) ELSE "requeue") \in ProcessSteps \union {"ack", "requeue"}
    BY <2>1 DEF ProcessSteps, AfterTransition
  <2>4. /\ WorkerMoves(w, IF out = "ok" THEN AfterTransition(to) ELSE "requeue")
    BY <2>1, <2>2, <2>3, NextEffect
  <2>5. /\ OtherRows(j)
        /\ SameCounts(j)
        /\ \/ /\ job'[j].status = to /\ CanTransition(job[j].status, to)
              /\ job[j].status \notin TerminalStatuses
           \/ SameRow(j) /\ out # "ok"
        /\ to = "running" => job'[j].status = job[j].status \/ job[j].status \in {"submitted", "running"}
        /\ to = "indexing" => job'[j].status = job[j].status \/ job[j].status \in {"submitted", "running"}
        /\ to = "settling" => job'[j].status = job[j].status \/ job[j].status = "indexing"
        /\ to = "cancelled" => job'[j].status = job[j].status \/ job[j].status \in {"created", "uploading", "submitted", "running"}
    BY <2>1, TransitionEffect, TransitionsAllowed DEF Statuses, ActiveStatuses,
        TerminalStatuses
  <2>6. /\ OtherMoney(j) /\ SameClaims(j, Ops) /\ SameMoney(j)
    BY <2>2, NoMoneyMoved, MoneyKept DEF OtherMoney, Recorded
  <2>7. /\ (Billed(j)' <=> Billed(j)) /\ (Paid(j)' <=> Paid(j))
    BY <2>5, <2>6, BillKept DEF Ops
  <2>8. /\ Elsewhere(j) /\ SameHandlers(j) /\ upstream'[j] = upstream[j]
        /\ inflight' = inflight
    BY <2>2, <2>4, <2>5, <2>6, MovesElsewhere
  <2>9. /\ wjob' = wjob
        /\ \A v \in Workers \ {w} : wpc'[v] = wpc[v] /\ wstep'[v] = wstep[v]
        /\ wstep'[w] \in {"index", "release", "none"} /\ wpc'[w] # "ack"
        /\ wstep'[w] = "index" => to = "indexing" /\ out = "ok"
        /\ wstep'[w] = "release" => to \in {"failed", "cancelled"} /\ out = "ok"
        /\ MayEnter(j, to)
    BY <1>a, <2>1, <2>4 DEF WorkerMoves, AfterTransition
  <2>10. SubKnows(j)' /\ RowKnows(j)' /\ HandlersKnow(j)' /\ RefundedKnows(j)'
    BY <1>a, <1>b, <1>c, <2>1, <2>5, <2>6, <2>7, <2>8, <2>9 DEF SubKnows, RowKnows,
        HandlersKnow, RefundedKnows, Ops, Failed, PastIndexing, Preparing, Aborting,
        MayEnter, SettleSteps
  <2>11. WorkersKnow(j)'
    BY <1>a, <1>b, <1>c, <2>1, <2>5, <2>6, <2>7, <2>8, <2>9 DEF WorkersKnow, MayEnter,
        SettleSteps, PastIndexing, Failed
  <2>12. UpstreamKnows(j)'
    BY <1>a, <1>b, <1>c, <2>1, <2>5, <2>6, <2>7, <2>8, <2>9 DEF UpstreamKnows, MayEnter,
        Ended, PastIndexing, SettleSteps
  <2>13. PaidKnows(j)'
    BY <1>a, <1>b, <1>c, <2>1, <2>5, <2>6, <2>7, <2>8, <2>9 DEF PaidKnows, WorkersKnow,
        MayEnter, PastIndexing, SettleSteps
  <2>14. AloneKnows(j)'
    BY <1>a, <1>b, <1>c, <2>1, <2>5, <2>6, <2>7, <2>8, <2>9 DEF AloneKnows, MayEnter,
        SettleSteps, IsTerminal, TerminalStatuses, Failed
  <2>15. QueuedKnows(j)'
    BY <1>a, <1>b, <1>c, <2>1, <2>5, <2>6, <2>7, <2>8, <2>9 DEF QueuedKnows, RowKnows,
        Submitted, MayEnter, IsTerminal, TerminalStatuses
  <2>16. StopKnows(j)'
    BY <1>a, <1>b, <1>c, <2>1, <2>5, <2>6, <2>7, <2>8, <2>9 DEF StopKnows, UpstreamKnows,
        MayEnter, Ended, Failed, PastIndexing, SettleSteps, RowKnows
  <2> QED BY <2>8, <2>10, <2>11, <2>12, <2>13, <2>14, <2>15, <2>16
<1>2. CASE ProcessRelease(w)
  <2>1. PICK ok \in BOOLEAN :
          /\ wpc[w] = "processing" /\ wstep[w] = "release"
          /\ releaseBatchImageBalanceHold(j, ok)
          /\ Next_(w, IF ok THEN "ack" ELSE "requeue")
    BY <1>2 DEF ProcessRelease, At
  <2>2. /\ UNCHANGED <<upstream, sub, client, rec>>
        /\ UNCHANGED job
    BY <1>2 DEF ProcessRelease, At
  <2>3. /\ (IF ok THEN "ack" ELSE "requeue") \in ProcessSteps \union {"ack", "requeue"}
    BY <2>1 DEF ProcessSteps
  <2>4. /\ WorkerMoves(w, IF ok THEN "ack" ELSE "requeue")
    BY <2>1, <2>2, <2>3, NextEffect
  <2>5. /\ OtherRows(j) /\ SameRow(j) /\ SameVerdicts(j)
    BY <2>2, NothingWritten, RowVerdicts
  <2>6. /\ OtherMoney(j)
        /\ SameClaims(j, {"hold", "capture"})
        /\ Claimed("release", j) => Claimed("release", j)'
        /\ Refunded(j) => Refunded(j)'
        /\ ok => Hold[j] = 0 \/ Claimed("release", j)'
    BY <2>1, <2>2, ReleaseEffect
  <2>7. /\ Billed(j)' <=> Billed(j)
        /\ Paid(j)' <=> Paid(j)
        /\ Charged(j)' <=> Charged(j)
        /\ CapturesMoved(j)' <=> CapturesMoved(j)
    BY <2>5, <2>6, BillKept
  <2>8. /\ (Claimed("hold", j)' <=> Claimed("hold", j)) /\ (HoldTaken(j)' <=> HoldTaken(j))
        /\ Claimed("capture", j)' <=> Claimed("capture", j)
    BY <2>6 DEF SameClaims, HoldTaken
  <2>9. /\ Elsewhere(j) /\ SameHandlers(j) /\ upstream'[j] = upstream[j]
        /\ inflight' = inflight
    BY <2>2, <2>4, <2>5, <2>6, MovesElsewhere
  <2>10. /\ wjob' = wjob
         /\ \A v \in Workers \ {w} : wpc'[v] = wpc[v] /\ wstep'[v] = wstep[v]
         /\ wstep'[w] = "none" /\ (wpc'[w] = "ack" => ok)
         /\ MayEnter(j, "release")
    BY <1>a, <2>1, <2>4 DEF WorkerMoves
  <2>11. SubKnows(j)' /\ RowKnows(j)' /\ HandlersKnow(j)' /\ RefundedKnows(j)'
    BY <1>a, <1>b, <1>c, <2>1, <2>5, <2>6, <2>7, <2>8, <2>9, <2>10 DEF SubKnows, RowKnows,
        HandlersKnow, RefundedKnows, Ops, Failed, PastIndexing, Preparing, Aborting,
        MayEnter, SettleSteps
  <2>12. WorkersKnow(j)'
    BY <1>a, <1>b, <1>c, <2>1, <2>5, <2>6, <2>7, <2>8, <2>9, <2>10 DEF WorkersKnow,
        MayEnter, SettleSteps, PastIndexing, Failed
  <2>13. UpstreamKnows(j)'
    BY <1>a, <1>b, <1>c, <2>1, <2>5, <2>6, <2>7, <2>8, <2>9, <2>10 DEF UpstreamKnows,
        MayEnter, Ended, PastIndexing, SettleSteps
  <2>14. PaidKnows(j)'
    BY <1>a, <1>b, <1>c, <2>1, <2>5, <2>6, <2>7, <2>8, <2>9, <2>10 DEF PaidKnows,
        WorkersKnow, MayEnter, PastIndexing, SettleSteps
  <2>15. AloneKnows(j)'
    BY <1>a, <1>b, <1>c, <2>1, <2>5, <2>6, <2>7, <2>8, <2>9, <2>10 DEF AloneKnows,
        MayEnter, SettleSteps, IsTerminal, TerminalStatuses, Failed
  <2>16. QueuedKnows(j)'
    BY <1>a, <1>b, <1>c, <2>1, <2>5, <2>6, <2>7, <2>8, <2>9, <2>10 DEF QueuedKnows,
        RowKnows, Submitted, MayEnter, IsTerminal, TerminalStatuses
  <2>17. StopKnows(j)'
    BY <1>a, <1>b, <1>c, <2>1, <2>5, <2>6, <2>7, <2>8, <2>9, <2>10 DEF StopKnows,
        UpstreamKnows, MayEnter, Ended, Failed, PastIndexing, SettleSteps, RowKnows
  <2> QED BY <2>9, <2>11, <2>12, <2>13, <2>14, <2>15, <2>16, <2>17
<1>3. CASE SettleCapture(w)
  <2>1. PICK ok \in BOOLEAN :
          /\ wpc[w] = "processing" /\ wstep[w] = "capture"
          /\ captureBatchImageBalanceHold(j, ok)
          /\ Next_(w, IF ok THEN "mark" ELSE "fail_billing")
    BY <1>3 DEF SettleCapture, At
  <2>2. /\ UNCHANGED <<upstream, sub, client, rec>>
        /\ UNCHANGED job
    BY <1>3 DEF SettleCapture, At
  <2>3. /\ (IF ok THEN "mark" ELSE "fail_billing") \in ProcessSteps \union {"ack", "requeue"}
    BY <2>1 DEF ProcessSteps
  <2>4. /\ WorkerMoves(w, IF ok THEN "mark" ELSE "fail_billing")
    BY <2>1, <2>2, <2>3, NextEffect
  <2>5. /\ OtherRows(j) /\ SameRow(j) /\ SameVerdicts(j)
    BY <2>2, NothingWritten, RowVerdicts
  <2>6. /\ OtherMoney(j)
        /\ SameClaims(j, {"hold", "release"})
        /\ claims \subseteq claims'
        /\ Charged(j) => Charged(j)'
        /\ Charged(j)' => Charged(j) \/ (Billed(j)' /\ Covered(j) /\ Hold[j] > 0)
        /\ CapturesMoved(j)'
        /\ ok => Billed(j)'
    BY <2>1, <2>2, CaptureEffect DEF PaidKnows
  <2>7. /\ Paid(j) => Paid(j)'
        /\ Billed(j) => Billed(j)'
        /\ ok => Paid(j)'
    BY <2>5, <2>6 DEF Paid, Billed
  <2>8. /\ (Claimed("hold", j)' <=> Claimed("hold", j)) /\ (HoldTaken(j)' <=> HoldTaken(j))
        /\ Claimed("release", j)' <=> Claimed("release", j)
        /\ Refunded(j)' <=> Refunded(j)
    BY <2>6 DEF SameClaims, HoldTaken, Refunded
  <2>9. /\ Elsewhere(j) /\ SameHandlers(j) /\ upstream'[j] = upstream[j]
         /\ inflight' = inflight
    BY <2>2, <2>4, <2>5, <2>6, MovesElsewhere
  <2>10. /\ wjob' = wjob
         /\ \A v \in Workers \ {w} : wpc'[v] = wpc[v] /\ wstep'[v] = wstep[v]
         /\ wstep'[w] = IF ok THEN "mark" ELSE "fail_billing"
         /\ wpc'[w] = "processing"
         /\ MayEnter(j, "capture")
    BY <1>a, <2>1, <2>4 DEF WorkerMoves
  <2>11. SubKnows(j)' /\ RowKnows(j)' /\ HandlersKnow(j)' /\ RefundedKnows(j)'
    BY <1>a, <1>b, <1>c, <2>1, <2>5, <2>6, <2>7, <2>8, <2>9, <2>10 DEF SubKnows,
        RowKnows, HandlersKnow, RefundedKnows, Ops, Failed, PastIndexing, Preparing,
        Aborting, MayEnter, SettleSteps
  <2>12. WorkersKnow(j)'
    BY <1>a, <1>b, <1>c, <2>1, <2>5, <2>6, <2>7, <2>8, <2>9, <2>10 DEF WorkersKnow,
        MayEnter, SettleSteps, PastIndexing, Failed
  <2>13. UpstreamKnows(j)'
    BY <1>a, <1>b, <1>c, <2>1, <2>5, <2>6, <2>7, <2>8, <2>9, <2>10 DEF
        UpstreamKnows, MayEnter, Ended, PastIndexing, SettleSteps
  <2>14. PaidKnows(j)'
    BY <1>a, <1>b, <1>c, <2>1, <2>5, <2>6, <2>7, <2>8, <2>9, <2>10 DEF PaidKnows,
        WorkersKnow, MayEnter, PastIndexing, SettleSteps
  <2>15. AloneKnows(j)'
    BY <1>a, <1>b, <1>c, <2>1, <2>5, <2>6, <2>7, <2>8, <2>9, <2>10 DEF AloneKnows,
        MayEnter, SettleSteps, IsTerminal, TerminalStatuses, Failed
  <2>16. QueuedKnows(j)'
    BY <1>a, <1>b, <1>c, <2>1, <2>5, <2>6, <2>7, <2>8, <2>9, <2>10 DEF QueuedKnows,
        RowKnows, Submitted, MayEnter, IsTerminal, TerminalStatuses
  <2>17. StopKnows(j)'
    BY <1>a, <1>b, <1>c, <2>1, <2>5, <2>6, <2>7, <2>8, <2>9, <2>10 DEF StopKnows,
        UpstreamKnows, MayEnter, Ended, Failed, PastIndexing, SettleSteps, RowKnows
  <2> QED BY <2>9, <2>11, <2>12, <2>13, <2>14, <2>15, <2>16, <2>17
<1>4. CASE SettleMark(w)
  <2>1. PICK out \in {"ok", "invalid", "error"} :
          /\ wpc[w] = "processing" /\ wstep[w] = "mark"
          /\ MarkBatchImageJobSettled(j, out)
          /\ Next_(w, IF out = "ok" THEN "ack" ELSE "requeue")
    BY <1>4 DEF SettleMark, At
  <2>2. /\ UNCHANGED <<upstream, sub, client, rec>>
        /\ UNCHANGED ledgerVars
    BY <1>4 DEF SettleMark, At
  <2>3. /\ (IF out = "ok" THEN "ack" ELSE "requeue") \in ProcessSteps \union {"ack", "requeue"}
    BY <2>1 DEF ProcessSteps
  <2>4. /\ WorkerMoves(w, IF out = "ok" THEN "ack" ELSE "requeue")
    BY <2>1, <2>2, <2>3, NextEffect
  <2>5. /\ OtherRows(j)
        /\ SameCounts(j) /\ job'[j].lastError = job[j].lastError
        /\ \/ job[j].status = "settling" /\ job'[j].status = "completed"
           \/ SameRow(j) /\ out # "ok"
    BY <2>1, SettledEffect
  <2>6. /\ OtherMoney(j) /\ SameClaims(j, Ops) /\ SameMoney(j)
    BY <2>2, NoMoneyMoved, MoneyKept DEF OtherMoney, Recorded
  <2>7. /\ (Billed(j)' <=> Billed(j)) /\ (Paid(j)' <=> Paid(j))
    BY <2>5, <2>6, BillKept DEF Ops
  <2>8. /\ Elsewhere(j) /\ SameHandlers(j) /\ upstream'[j] = upstream[j]
        /\ inflight' = inflight
    BY <2>2, <2>4, <2>5, <2>6, MovesElsewhere
  <2>9. /\ wjob' = wjob
        /\ \A v \in Workers \ {w} : wpc'[v] = wpc[v] /\ wstep'[v] = wstep[v]
        /\ wstep'[w] = "none" /\ (wpc'[w] = "ack" => out = "ok")
        /\ MayEnter(j, "mark")
    BY <1>a, <2>1, <2>4 DEF WorkerMoves
  <2>10. SubKnows(j)' /\ RowKnows(j)' /\ HandlersKnow(j)' /\ RefundedKnows(j)'
    BY <1>a, <1>b, <1>c, <2>1, <2>5, <2>6, <2>7, <2>8, <2>9 DEF SubKnows, RowKnows,
        HandlersKnow, RefundedKnows, Ops, Failed, PastIndexing, Preparing, Aborting,
        MayEnter, SettleSteps
  <2>11. WorkersKnow(j)'
    BY <1>a, <1>b, <1>c, <2>1, <2>5, <2>6, <2>7, <2>8, <2>9 DEF WorkersKnow, MayEnter,
        SettleSteps, PastIndexing, Failed
  <2>12. UpstreamKnows(j)'
    BY <1>a, <1>b, <1>c, <2>1, <2>5, <2>6, <2>7, <2>8, <2>9 DEF UpstreamKnows, MayEnter,
        Ended, PastIndexing, SettleSteps
  <2>13. PaidKnows(j)'
    BY <1>a, <1>b, <1>c, <2>1, <2>5, <2>6, <2>7, <2>8, <2>9 DEF PaidKnows, WorkersKnow,
        MayEnter, PastIndexing, SettleSteps
  <2>14. AloneKnows(j)'
    BY <1>a, <1>b, <1>c, <2>1, <2>5, <2>6, <2>7, <2>8, <2>9 DEF AloneKnows, MayEnter,
        SettleSteps, IsTerminal, TerminalStatuses, Failed
  <2>15. QueuedKnows(j)'
    BY <1>a, <1>b, <1>c, <2>1, <2>5, <2>6, <2>7, <2>8, <2>9 DEF QueuedKnows, RowKnows,
        Submitted, MayEnter, IsTerminal, TerminalStatuses
  <2>16. StopKnows(j)'
    BY <1>a, <1>b, <1>c, <2>1, <2>5, <2>6, <2>7, <2>8, <2>9 DEF StopKnows, UpstreamKnows,
        MayEnter, Ended, Failed, PastIndexing, SettleSteps, RowKnows
  <2> QED BY <2>8, <2>10, <2>11, <2>12, <2>13, <2>14, <2>15, <2>16
<1>5. CASE SettleRecordFailure(w)
  <2>1. PICK from \in {"fail_exceeds", "fail_billing"}, out \in {"ok", "error"} :
          /\ wpc[w] = "processing" /\ wstep[w] = from
          /\ SetBatchImageJobSettlementFailed(j, out)
          /\ Next_(w, IF out = "ok" /\ job'[j].retry >= MaxRetries THEN "exhaust_release"
                    ELSE IF from = "fail_billing" THEN "recheck" ELSE "requeue")
    BY <1>5 DEF SettleRecordFailure, At
  <2>2. /\ UNCHANGED <<upstream, sub, client, rec>>
        /\ UNCHANGED ledgerVars
    BY <1>5 DEF SettleRecordFailure, At
  <2>3. /\ (IF out = "ok" /\ job'[j].retry >= MaxRetries THEN "exhaust_release"
                    ELSE IF from = "fail_billing" THEN "recheck" ELSE "requeue") \in ProcessSteps \union {"ack", "requeue"}
    BY <2>1 DEF ProcessSteps
  <2>4. /\ WorkerMoves(w, IF out = "ok" /\ job'[j].retry >= MaxRetries THEN "exhaust_release"
                    ELSE IF from = "fail_billing" THEN "recheck" ELSE "requeue")
    BY <2>1, <2>2, <2>3, NextEffect
  <2>5. /\ OtherRows(j)
        /\ job'[j].status = job[j].status /\ job'[j].provider = job[j].provider
        /\ job'[j].success = job[j].success
        /\ out = "ok" => job'[j].lastError = "SETTLEMENT"
    BY <2>1, SettlementFailedEffect
  <2>6. /\ OtherMoney(j) /\ SameClaims(j, Ops) /\ SameMoney(j)
    BY <2>2, NoMoneyMoved, MoneyKept DEF OtherMoney, Recorded
  <2>7. /\ (Billed(j)' <=> Billed(j)) /\ (Paid(j)' <=> Paid(j))
    BY <2>5, <2>6, BillKept DEF Ops
  <2>8. /\ Elsewhere(j) /\ SameHandlers(j) /\ upstream'[j] = upstream[j]
        /\ inflight' = inflight
    BY <2>2, <2>4, <2>5, <2>6, MovesElsewhere
  <2>9. /\ wjob' = wjob
        /\ \A v \in Workers \ {w} : wpc'[v] = wpc[v] /\ wstep'[v] = wstep[v]
        /\ wstep'[w] \in {"exhaust_release", "recheck", "none"} /\ wpc'[w] # "ack"
        /\ wstep'[w] = "exhaust_release" => out = "ok" /\ job'[j].retry >= MaxRetries
        /\ MayEnter(j, from)
    BY <1>a, <2>1, <2>4 DEF WorkerMoves
  <2>10. SubKnows(j)' /\ RowKnows(j)' /\ HandlersKnow(j)' /\ RefundedKnows(j)'
    BY <1>a, <1>b, <1>c, <2>1, <2>5, <2>6, <2>7, <2>8, <2>9 DEF SubKnows, RowKnows,
        HandlersKnow, RefundedKnows, Ops, Failed, PastIndexing, Preparing, Aborting,
        MayEnter, SettleSteps
  <2>11. WorkersKnow(j)'
    BY <1>a, <1>b, <1>c, <2>1, <2>5, <2>6, <2>7, <2>8, <2>9 DEF WorkersKnow, MayEnter,
        SettleSteps, PastIndexing, Failed
  <2>12. UpstreamKnows(j)'
    BY <1>a, <1>b, <1>c, <2>1, <2>5, <2>6, <2>7, <2>8, <2>9 DEF UpstreamKnows, MayEnter,
        Ended, PastIndexing, SettleSteps
  <2>13. PaidKnows(j)'
    BY <1>a, <1>b, <1>c, <2>1, <2>5, <2>6, <2>7, <2>8, <2>9 DEF PaidKnows, WorkersKnow,
        MayEnter, PastIndexing, SettleSteps
  <2>14. AloneKnows(j)'
    BY <1>a, <1>b, <1>c, <2>1, <2>5, <2>6, <2>7, <2>8, <2>9 DEF AloneKnows, MayEnter,
        SettleSteps, IsTerminal, TerminalStatuses, Failed
  <2>15. QueuedKnows(j)'
    BY <1>a, <1>b, <1>c, <2>1, <2>5, <2>6, <2>7, <2>8, <2>9 DEF QueuedKnows, RowKnows,
        Submitted, MayEnter, IsTerminal, TerminalStatuses
  <2>16. StopKnows(j)'
    BY <1>a, <1>b, <1>c, <2>1, <2>5, <2>6, <2>7, <2>8, <2>9 DEF StopKnows, UpstreamKnows,
        MayEnter, Ended, Failed, PastIndexing, SettleSteps, RowKnows
  <2> QED BY <2>8, <2>10, <2>11, <2>12, <2>13, <2>14, <2>15, <2>16
<1>6. CASE ExhaustRelease(w)
  <2>1. PICK ok \in BOOLEAN :
          /\ wpc[w] = "processing" /\ wstep[w] = "exhaust_release"
          /\ releaseBatchImageBalanceHold(j, ok)
          /\ Next_(w, IF ok THEN "exhaust_fail" ELSE "exhaust_release_failed")
    BY <1>6 DEF ExhaustRelease, At
  <2>2. /\ UNCHANGED <<upstream, sub, client, rec>>
        /\ UNCHANGED job
    BY <1>6 DEF ExhaustRelease, At
  <2>3. /\ (IF ok THEN "exhaust_fail" ELSE "exhaust_release_failed") \in ProcessSteps \union {"ack", "requeue"}
    BY <2>1 DEF ProcessSteps
  <2>4. /\ WorkerMoves(w, IF ok THEN "exhaust_fail" ELSE "exhaust_release_failed")
    BY <2>1, <2>2, <2>3, NextEffect
  <2>5. /\ OtherRows(j) /\ SameRow(j) /\ SameVerdicts(j)
    BY <2>2, NothingWritten, RowVerdicts
  <2>6. /\ OtherMoney(j)
        /\ SameClaims(j, {"hold", "capture"})
        /\ Claimed("release", j) => Claimed("release", j)'
        /\ Refunded(j) => Refunded(j)'
        /\ ok => Hold[j] = 0 \/ Claimed("release", j)'
    BY <2>1, <2>2, ReleaseEffect
  <2>7. /\ Billed(j)' <=> Billed(j)
        /\ Paid(j)' <=> Paid(j)
        /\ Charged(j)' <=> Charged(j)
        /\ CapturesMoved(j)' <=> CapturesMoved(j)
    BY <2>5, <2>6, BillKept
  <2>8. /\ (Claimed("hold", j)' <=> Claimed("hold", j)) /\ (HoldTaken(j)' <=> HoldTaken(j))
        /\ Claimed("capture", j)' <=> Claimed("capture", j)
    BY <2>6 DEF SameClaims, HoldTaken
  <2>9. /\ Elsewhere(j) /\ SameHandlers(j) /\ upstream'[j] = upstream[j]
        /\ inflight' = inflight
    BY <2>2, <2>4, <2>5, <2>6, MovesElsewhere
  <2>10. /\ wjob' = wjob
         /\ \A v \in Workers \ {w} : wpc'[v] = wpc[v] /\ wstep'[v] = wstep[v]
         /\ wstep'[w] = IF ok THEN "exhaust_fail" ELSE "exhaust_release_failed"
         /\ wpc'[w] = "processing"
         /\ MayEnter(j, "exhaust_release")
    BY <1>a, <2>1, <2>4 DEF WorkerMoves
  <2>11. SubKnows(j)' /\ RowKnows(j)' /\ HandlersKnow(j)' /\ RefundedKnows(j)'
    BY <1>a, <1>b, <1>c, <2>1, <2>5, <2>6, <2>7, <2>8, <2>9, <2>10 DEF SubKnows, RowKnows,
        HandlersKnow, RefundedKnows, Ops, Failed, PastIndexing, Preparing, Aborting,
        MayEnter, SettleSteps
  <2>12. WorkersKnow(j)'
    BY <1>a, <1>b, <1>c, <2>1, <2>5, <2>6, <2>7, <2>8, <2>9, <2>10 DEF WorkersKnow,
        MayEnter, SettleSteps, PastIndexing, Failed
  <2>13. UpstreamKnows(j)'
    BY <1>a, <1>b, <1>c, <2>1, <2>5, <2>6, <2>7, <2>8, <2>9, <2>10 DEF UpstreamKnows,
        MayEnter, Ended, PastIndexing, SettleSteps
  <2>14. PaidKnows(j)'
    BY <1>a, <1>b, <1>c, <2>1, <2>5, <2>6, <2>7, <2>8, <2>9, <2>10 DEF PaidKnows,
        WorkersKnow, MayEnter, PastIndexing, SettleSteps
  <2>15. AloneKnows(j)'
    BY <1>a, <1>b, <1>c, <2>1, <2>5, <2>6, <2>7, <2>8, <2>9, <2>10 DEF AloneKnows,
        MayEnter, SettleSteps, IsTerminal, TerminalStatuses, Failed
  <2>16. QueuedKnows(j)'
    BY <1>a, <1>b, <1>c, <2>1, <2>5, <2>6, <2>7, <2>8, <2>9, <2>10 DEF QueuedKnows,
        RowKnows, Submitted, MayEnter, IsTerminal, TerminalStatuses
  <2>17. StopKnows(j)'
    BY <1>a, <1>b, <1>c, <2>1, <2>5, <2>6, <2>7, <2>8, <2>9, <2>10 DEF StopKnows,
        UpstreamKnows, MayEnter, Ended, Failed, PastIndexing, SettleSteps, RowKnows
  <2> QED BY <2>9, <2>11, <2>12, <2>13, <2>14, <2>15, <2>16, <2>17
<1>7. CASE ExhaustReleaseFailed(w)
  <2>1. PICK out \in {"ok", "error"} :
          /\ wpc[w] = "processing" /\ wstep[w] = "exhaust_release_failed"
          /\ SetBatchImageJobSettlementFailed(j, out)
          /\ Next_(w, "recheck")
    BY <1>7 DEF ExhaustReleaseFailed, At
  <2>2. /\ UNCHANGED <<upstream, sub, client, rec>>
        /\ UNCHANGED ledgerVars
    BY <1>7 DEF ExhaustReleaseFailed, At
  <2>3. /\ ("recheck") \in ProcessSteps \union {"ack", "requeue"}
    BY <2>1 DEF ProcessSteps
  <2>4. /\ WorkerMoves(w, "recheck")
    BY <2>1, <2>2, <2>3, NextEffect
  <2>5. /\ OtherRows(j)
        /\ job'[j].status = job[j].status /\ job'[j].provider = job[j].provider
        /\ job'[j].success = job[j].success
    BY <2>1, SettlementFailedEffect
  <2>6. /\ OtherMoney(j) /\ SameClaims(j, Ops) /\ SameMoney(j)
    BY <2>2, NoMoneyMoved, MoneyKept DEF OtherMoney, Recorded
  <2>7. /\ (Billed(j)' <=> Billed(j)) /\ (Paid(j)' <=> Paid(j))
    BY <2>5, <2>6, BillKept DEF Ops
  <2>8. /\ Elsewhere(j) /\ SameHandlers(j) /\ upstream'[j] = upstream[j]
        /\ inflight' = inflight
    BY <2>2, <2>4, <2>5, <2>6, MovesElsewhere
  <2>9. /\ wjob' = wjob
        /\ \A v \in Workers \ {w} : wpc'[v] = wpc[v] /\ wstep'[v] = wstep[v]
        /\ wstep'[w] = "recheck" /\ wpc'[w] = "processing"
        /\ MayEnter(j, "exhaust_release_failed")
    BY <1>a, <2>1, <2>4 DEF WorkerMoves
  <2>10. SubKnows(j)' /\ RowKnows(j)' /\ HandlersKnow(j)' /\ RefundedKnows(j)'
    BY <1>a, <1>b, <1>c, <2>1, <2>5, <2>6, <2>7, <2>8, <2>9 DEF SubKnows, RowKnows,
        HandlersKnow, RefundedKnows, Ops, Failed, PastIndexing, Preparing, Aborting,
        MayEnter, SettleSteps
  <2>11. WorkersKnow(j)'
    BY <1>a, <1>b, <1>c, <2>1, <2>5, <2>6, <2>7, <2>8, <2>9 DEF WorkersKnow, MayEnter,
        SettleSteps, PastIndexing, Failed
  <2>12. UpstreamKnows(j)'
    BY <1>a, <1>b, <1>c, <2>1, <2>5, <2>6, <2>7, <2>8, <2>9 DEF UpstreamKnows, MayEnter,
        Ended, PastIndexing, SettleSteps
  <2>13. PaidKnows(j)'
    BY <1>a, <1>b, <1>c, <2>1, <2>5, <2>6, <2>7, <2>8, <2>9 DEF PaidKnows, WorkersKnow,
        MayEnter, PastIndexing, SettleSteps
  <2>14. AloneKnows(j)'
    BY <1>a, <1>b, <1>c, <2>1, <2>5, <2>6, <2>7, <2>8, <2>9 DEF AloneKnows, MayEnter,
        SettleSteps, IsTerminal, TerminalStatuses, Failed
  <2>15. QueuedKnows(j)'
    BY <1>a, <1>b, <1>c, <2>1, <2>5, <2>6, <2>7, <2>8, <2>9 DEF QueuedKnows, RowKnows,
        Submitted, MayEnter, IsTerminal, TerminalStatuses
  <2>16. StopKnows(j)'
    BY <1>a, <1>b, <1>c, <2>1, <2>5, <2>6, <2>7, <2>8, <2>9 DEF StopKnows, UpstreamKnows,
        MayEnter, Ended, Failed, PastIndexing, SettleSteps, RowKnows
  <2> QED BY <2>8, <2>10, <2>11, <2>12, <2>13, <2>14, <2>15, <2>16
<1>8. CASE ExhaustFail(w)
  <2>1. PICK out \in {"ok", "invalid", "error"} :
          /\ wpc[w] = "processing" /\ wstep[w] = "exhaust_fail"
          /\ TransitionBatchImageJobStatus(j, "failed", "SETTLEMENT", out)
          /\ Next_(w, IF out = "ok" THEN "recheck" ELSE "requeue")
    BY <1>8 DEF ExhaustFail, At
  <2>2. /\ UNCHANGED <<upstream, sub, client, rec>>
        /\ UNCHANGED ledgerVars
    BY <1>8 DEF ExhaustFail, At
  <2>3. /\ (IF out = "ok" THEN "recheck" ELSE "requeue") \in ProcessSteps \union {"ack", "requeue"}
    BY <2>1 DEF ProcessSteps
  <2>4. /\ WorkerMoves(w, IF out = "ok" THEN "recheck" ELSE "requeue")
    BY <2>1, <2>2, <2>3, NextEffect
  <2>5. /\ OtherRows(j)
        /\ SameCounts(j)
        /\ \/ job'[j].status = "failed" /\ job[j].status \notin TerminalStatuses
           \/ SameRow(j) /\ out # "ok"
    BY <2>1, TransitionEffect, TransitionsAllowed DEF Statuses, ActiveStatuses,
        TerminalStatuses
  <2>6. /\ OtherMoney(j) /\ SameClaims(j, Ops) /\ SameMoney(j)
    BY <2>2, NoMoneyMoved, MoneyKept DEF OtherMoney, Recorded
  <2>7. /\ (Billed(j)' <=> Billed(j)) /\ (Paid(j)' <=> Paid(j))
    BY <2>5, <2>6, BillKept DEF Ops
  <2>8. /\ Elsewhere(j) /\ SameHandlers(j) /\ upstream'[j] = upstream[j]
        /\ inflight' = inflight
    BY <2>2, <2>4, <2>5, <2>6, MovesElsewhere
  <2>9. /\ wjob' = wjob
        /\ \A v \in Workers \ {w} : wpc'[v] = wpc[v] /\ wstep'[v] = wstep[v]
        /\ wstep'[w] \in {"recheck", "none"} /\ wpc'[w] # "ack"
        /\ wstep'[w] = "recheck" => out = "ok"
        /\ MayEnter(j, "exhaust_fail")
    BY <1>a, <2>1, <2>4 DEF WorkerMoves
  <2>10. SubKnows(j)' /\ RowKnows(j)' /\ HandlersKnow(j)' /\ RefundedKnows(j)'
    BY <1>a, <1>b, <1>c, <2>1, <2>5, <2>6, <2>7, <2>8, <2>9 DEF SubKnows, RowKnows,
        HandlersKnow, RefundedKnows, Ops, Failed, PastIndexing, Preparing, Aborting,
        MayEnter, SettleSteps
  <2>11. WorkersKnow(j)'
    BY <1>a, <1>b, <1>c, <2>1, <2>5, <2>6, <2>7, <2>8, <2>9 DEF WorkersKnow, MayEnter,
        SettleSteps, PastIndexing, Failed
  <2>12. UpstreamKnows(j)'
    BY <1>a, <1>b, <1>c, <2>1, <2>5, <2>6, <2>7, <2>8, <2>9 DEF UpstreamKnows, MayEnter,
        Ended, PastIndexing, SettleSteps
  <2>13. PaidKnows(j)'
    BY <1>a, <1>b, <1>c, <2>1, <2>5, <2>6, <2>7, <2>8, <2>9 DEF PaidKnows, WorkersKnow,
        MayEnter, PastIndexing, SettleSteps
  <2>14. AloneKnows(j)'
    BY <1>a, <1>b, <1>c, <2>1, <2>5, <2>6, <2>7, <2>8, <2>9 DEF AloneKnows, MayEnter,
        SettleSteps, IsTerminal, TerminalStatuses, Failed
  <2>15. QueuedKnows(j)'
    BY <1>a, <1>b, <1>c, <2>1, <2>5, <2>6, <2>7, <2>8, <2>9 DEF QueuedKnows, RowKnows,
        Submitted, MayEnter, IsTerminal, TerminalStatuses
  <2>16. StopKnows(j)'
    BY <1>a, <1>b, <1>c, <2>1, <2>5, <2>6, <2>7, <2>8, <2>9 DEF StopKnows, UpstreamKnows,
        MayEnter, Ended, Failed, PastIndexing, SettleSteps, RowKnows, TerminalStatuses
  <2> QED BY <2>8, <2>10, <2>11, <2>12, <2>13, <2>14, <2>15, <2>16
<1>9. CASE ProcessIndex(w)
  <2>1. PICK step \in {"requeue", "failed", "settling"} :
          /\ wpc[w] = "processing" /\ wstep[w] = "index" /\ Next_(w, step)
          /\ \/ UNCHANGED job /\ step # "settling"
             \/ \E n \in 0..Items, out \in {"ok", "state_conflict", "error"} :
                  /\ ReplaceBatchImageItemsForJob(j, n, out)
                  /\ step = "settling" => out = "ok"
    BY <1>9 DEF ProcessIndex, At
  <2>2. UNCHANGED <<upstream, sub, client, rec>> /\ UNCHANGED ledgerVars
    BY <1>9 DEF ProcessIndex, At
  <2>3. WorkerMoves(w, step)
    BY <2>1, <2>2, NextEffect DEF ProcessSteps
  <2>4. /\ OtherRows(j)
        /\ job'[j].status = job[j].status /\ job'[j].lastError = job[j].lastError
        /\ job'[j].provider = job[j].provider /\ job'[j].retry = job[j].retry
        /\ job'[j].success # job[j].success => job[j].status = "indexing"
        /\ step = "settling" => job[j].status = "indexing"
    <3>1. CASE UNCHANGED job /\ step # "settling"
      BY <3>1, NothingWritten
    <3>2. ASSUME NEW n \in 0..Items, NEW out \in {"ok", "state_conflict", "error"},
                 ReplaceBatchImageItemsForJob(j, n, out), step = "settling" => out = "ok"
          PROVE  /\ OtherRows(j)
                 /\ job'[j].status = job[j].status /\ job'[j].lastError = job[j].lastError
                 /\ job'[j].provider = job[j].provider /\ job'[j].retry = job[j].retry
                 /\ job'[j].success # job[j].success => job[j].status = "indexing"
                 /\ step = "settling" => job[j].status = "indexing"
      <4>1. out = "ok" => job[j].status = "indexing"
        BY <3>2 DEF ReplaceBatchImageItemsForJob, RollsBack
      <4> QED BY <3>2, <4>1, ReplaceEffect
    <3> QED BY <2>1, <3>1, <3>2
  <2>5. OtherMoney(j) /\ SameClaims(j, Ops) /\ SameMoney(j)
    BY <2>2, NoMoneyMoved, MoneyKept DEF OtherMoney, Recorded
  <2>6. job[j].status # "indexing" =>
          (Billed(j)' <=> Billed(j)) /\ (Paid(j)' <=> Paid(j)) /\ (Covered(j)' <=> Covered(j))
    <3>1. "capture" \in Ops
      BY DEF Ops
    <3> QED BY <2>4, <2>5, <3>1, BillKept DEF Covered
  <2>7. /\ Elsewhere(j) /\ SameHandlers(j) /\ upstream'[j] = upstream[j]
        /\ inflight' = inflight
    BY <2>2, <2>3, <2>4, <2>5, MovesElsewhere
  <2>8. /\ wjob' = wjob
        /\ \A v \in Workers \ {w} : wpc'[v] = wpc[v] /\ wstep'[v] = wstep[v]
        /\ wstep'[w] = (IF step = "requeue" THEN "none" ELSE step) /\ wpc'[w] # "ack"
        /\ MayEnter(j, "index")
    BY <1>a, <2>1, <2>3 DEF WorkerMoves
  <2>9. SubKnows(j)' /\ RowKnows(j)' /\ HandlersKnow(j)' /\ RefundedKnows(j)'
    BY <1>a, <1>b, <1>c, <2>1, <2>4, <2>5, <2>6, <2>7, <2>8 DEF SubKnows, RowKnows,
        HandlersKnow, RefundedKnows, Ops, Failed, PastIndexing, Preparing, Aborting,
        MayEnter, SettleSteps
  <2>10. WorkersKnow(j)'
    BY <1>a, <1>b, <1>c, <2>1, <2>4, <2>5, <2>6, <2>7, <2>8 DEF WorkersKnow, MayEnter,
        SettleSteps, PastIndexing, Failed
  <2>11. UpstreamKnows(j)'
    BY <1>a, <1>b, <1>c, <2>1, <2>4, <2>5, <2>6, <2>7, <2>8 DEF UpstreamKnows, MayEnter,
        Ended, PastIndexing, SettleSteps
  <2>12. PaidKnows(j)'
    BY <1>a, <1>b, <1>c, <2>1, <2>4, <2>5, <2>6, <2>7, <2>8 DEF PaidKnows, WorkersKnow,
        MayEnter, PastIndexing, SettleSteps
  <2>13. AloneKnows(j)'
    BY <1>a, <1>b, <1>c, <2>1, <2>4, <2>5, <2>6, <2>7, <2>8 DEF AloneKnows, MayEnter,
        SettleSteps, IsTerminal, TerminalStatuses, Failed
  <2>14. QueuedKnows(j)'
    BY <1>a, <1>b, <1>c, <2>1, <2>4, <2>5, <2>6, <2>7, <2>8 DEF QueuedKnows, RowKnows,
        Submitted, MayEnter, IsTerminal, TerminalStatuses
  <2>15. StopKnows(j)'
    BY <1>a, <1>b, <1>c, <2>1, <2>4, <2>5, <2>6, <2>7, <2>8 DEF StopKnows, UpstreamKnows,
        MayEnter, Ended, Failed, PastIndexing, SettleSteps, RowKnows
  <2> QED BY <2>7, <2>9, <2>10, <2>11, <2>12, <2>13, <2>14, <2>15
<1> QED BY <1>1, <1>2, <1>3, <1>4, <1>5, <1>6, <1>7, <1>8, <1>9

-----------------------------------------------------------------------------
(* The invariant holds initially, every step keeps it, and so does every run. *)
LEMMA InitKnown == Init => EveryJobKnown /\ HeldKnown
<1> SUFFICES ASSUME Init PROVE EveryJobKnown /\ HeldKnown
  OBVIOUS
<1>1. /\ claims = {} /\ moved = {} /\ ready = <<>> /\ delayed = {} /\ active = {}
      /\ \A w \in Workers : wjob[w] = NoJob /\ wpc[w] = "idle" /\ wstep[w] = "none"
      /\ \A j \in Jobs : /\ job[j] = NoRow /\ upstream[j] = "none"
                         /\ sub[j] = "idle" /\ client[j] = "idle" /\ rec[j] = "idle"
  <2>1. claims = {} /\ moved = {} /\ ready = <<>> /\ delayed = {} /\ active = {}
    BY DEF Init, LedgerInit, QueueInit
  <2>2. \A w \in Workers : wjob[w] = NoJob /\ wpc[w] = "idle" /\ wstep[w] = "none"
    BY DEF Init, QueueInit
  <2> QED
    BY <2>1, <2>2 DEF Init, RepoInit
<1>2. NoJob \notin Jobs
  BY QueueAssumption
<1>3. HeldKnown
  BY <1>1, <1>2 DEF HeldKnown, Held, InReady
<1>4. ASSUME NEW j \in Jobs PROVE Knows(j)
  <2>1. /\ job[j].status = "none" /\ ~job[j].provider
        /\ \A w \in Workers : wjob[w] # j
    BY <1>1, <1>2 DEF NoRow
  <2>2. /\ \A op : ~Claimed(op, j)
        /\ ~Charged(j) /\ ~Refunded(j) /\ CapturesMoved(j)
    BY <1>1 DEF Claimed, Charged, Refunded, CapturesMoved
  <2>3. SubKnows(j) /\ RowKnows(j) /\ HandlersKnow(j) /\ WorkersKnow(j)
    BY <1>1, <2>1, <2>2 DEF SubKnows, RowKnows, HandlersKnow, WorkersKnow, Preparing, Aborting
  <2>4. RefundedKnows(j) /\ UpstreamKnows(j) /\ PaidKnows(j) /\ AloneKnows(j)
    BY <1>1, <2>1, <2>2 DEF RefundedKnows, UpstreamKnows, PaidKnows, AloneKnows, Preparing,
      Aborting
  <2>5. QueuedKnows(j) /\ StopKnows(j)
    BY <1>1, <2>1, <2>2 DEF QueuedKnows, StopKnows, Submitted
  <2> QED BY <2>3, <2>4, <2>5 DEF Knows
<1> QED BY <1>3, <1>4 DEF EveryJobKnown

LEMMA StutterKeeps ==
    ASSUME TypeOK, TypeOK', EveryJobKnown, UNCHANGED vars
    PROVE  EveryJobKnown'
<1>1. ASSUME NEW j \in Jobs PROVE Untouched(j)
  <2>1. UNCHANGED <<job, ledgerVars, inflight, wjob, wpc, wstep, sub, client, rec, upstream>>
    BY DEF vars, procVars, queueVars
  <2>2. SameClaims(j, Ops)
    BY <2>1, NoMoneyMoved
  <2> QED
    BY <2>1, <2>2 DEF Untouched, SameRow, SameCounts, SameWorkers, SameHandlers
<1> QED BY <1>1, UntouchedKept DEF EveryJobKnown

LEMMA HandlersKeep ==
    ASSUME Recorded, TypeOK', EveryJobKnown, NEW j \in Jobs,
           \/ Submit(j) \/ SubmitHeartbeat(j) \/ SubmitDies(j)
           \/ Client(j) \/ ClientDies(j)
           \/ Recovery(j) \/ RecoveryDies(j) \/ RowAges(j)
           \/ ProviderRuns(j) \/ ProviderEnds(j)
           \/ Maintenance(j)
    PROVE  EveryJobKnown'
<1>1. SUFFICES HandlerOf(j) /\ (SameWorkers(j) => Knows(j)')
  BY <1>1, HandlerElsewhere, OthersKept DEF Recorded
<1>2. CASE Submit(j) \/ SubmitHeartbeat(j) \/ SubmitDies(j)
  BY <1>2, SubmitFootprint, SubmitKeeps DEF Submit
<1>3. CASE Client(j) \/ ClientDies(j)
  BY <1>3, ClientFootprint, ClientKeeps DEF Client, ClientStep
<1>4. CASE \/ Recovery(j) \/ RecoveryDies(j) \/ RowAges(j)
           \/ ProviderRuns(j) \/ ProviderEnds(j) \/ Maintenance(j)
  BY <1>4, RecoveryFootprint, RecoveryKeeps DEF Recovery
<1> QED BY <1>2, <1>3, <1>4

LEMMA WorkersKeep ==
    ASSUME Recorded, TypeOK', EveryJobKnown, HeldKnown, OneWorkerPerJob, NEW w \in Workers,
           Worker(w) \/ WorkerDies(w)
    PROVE  EveryJobKnown'
<1>1. CASE WorkerTakesLock(w) \/ WorkerLoop(w) \/ WorkerDies(w)
  BY <1>1, LoopKeeps
<1>2. CASE Process(w)
  <2>1. wpc[w] = "processing"
    BY <1>2 DEF Process, ProcessStart, ProcessRead, ProcessPoll, ProcessTransition,
      ProcessIndex, ProcessRelease, SettleRead, SettleCapture, SettleMark,
      SettleRecordFailure, ExhaustRelease, ExhaustReleaseFailed, ExhaustFail,
      ProcessRecheck, At
  <2>2. J(w) \in Jobs
    BY <2>1, WorkerHasJob, TypeParts DEF Recorded
  <2>3. EveryJobKnown'
    <3>1. PICK j \in Jobs : J(w) = j
      BY <2>2
    <3>2. Knows(j)' /\ Elsewhere(j)
      <4>1. CASE ProcessStart(w) \/ ProcessRead(w) \/ ProcessPoll(w) \/ SettleRead(w)
                   \/ ProcessRecheck(w)
        BY <3>1, <4>1, ProcessReadsKeep
      <4>2. CASE ProcessTransition(w) \/ ProcessIndex(w) \/ ProcessRelease(w)
                   \/ SettleCapture(w) \/ SettleMark(w) \/ SettleRecordFailure(w)
                   \/ ExhaustRelease(w) \/ ExhaustReleaseFailed(w) \/ ExhaustFail(w)
        BY <3>1, <4>2, ProcessWritesKeep
      <4> QED BY <1>2, <4>1, <4>2 DEF Process
    <3> QED BY <3>2, OthersKept DEF Recorded
  <2> QED BY <2>3
<1> QED BY <1>1, <1>2 DEF Worker

LEMMA KnownStep ==
    ASSUME Recorded, EveryJobKnown, HeldKnown, OneWorkerPerJob, [Next]_vars
    PROVE  EveryJobKnown'
<1>1. TypeOK /\ TypeOK'
  BY TypeStep DEF Recorded
<1>2. CASE UNCHANGED vars
  BY <1>1, <1>2, StutterKeeps
<1>3. CASE Next
  BY <1>1, <1>3, HandlersKeep, WorkersKeep DEF Next
<1> QED BY <1>2, <1>3

PipelineInv ==
    /\ TypeOK /\ HoldClaimMovesMoney /\ NoPhantomRelease /\ MovesArePositive
    /\ OneWorkerPerJob /\ EveryJobKnown /\ HeldKnown

LEMMA PipelineInvariant == Spec => []PipelineInv
<1>1. Init => EveryJobKnown /\ HeldKnown
  BY InitKnown
<1>2. TypeOK /\ HoldClaimMovesMoney /\ OneWorkerPerJob /\ EveryJobKnown /\ HeldKnown
        /\ [Next]_vars => EveryJobKnown' /\ HeldKnown'
  BY KnownStep, HeldInductive DEF Recorded
<1>3. Spec => []TypeOK /\ []OneWorkerPerJob
  BY PipelineTypeCorrect, PipelineImplementsQueue, MutualExclusion, PTL
<1>4. Spec => []HoldClaimMovesMoney /\ []NoPhantomRelease /\ []MovesArePositive
  BY PipelineImplementsLedger, HoldClaimInvariant, NoPhantom, OnlyHoldsMove, PTL
<1>5. Spec => []EveryJobKnown /\ []HeldKnown
  BY <1>1, <1>2, <1>3, <1>4, PTL DEF Spec
<1> QED BY <1>3, <1>4, <1>5, PTL DEF PipelineInv

-----------------------------------------------------------------------------
(* The pipeline's properties.                                                 *)

(* What Settle and CleanupOutput leave behind is paid: a completed job has a  *)
(* recorded capture for the images its item table counts, whatever fails, is  *)
(* repeated or lapses.                                                        *)
THEOREM CompletedPays == Spec => []CompletedIsPaid
<1>1. PipelineInv => CompletedIsPaid
  <2> SUFFICES ASSUME PipelineInv, NEW j \in Jobs,
                      job[j].status \in {"completed", "output_deleted"}
               PROVE  \/ Price * job[j].success = 0 /\ Hold[j] = 0
                      \/ \E c \in claims : /\ c.op = "capture" /\ c.job = j
                                           /\ c.actual = Price * job[j].success
                                           /\ <<"capture", j>> \in moved
    BY DEF CompletedIsPaid
  <2> DEFINE a == Price * job[j].success
             bill == HoldCommand("capture", j, "manifest", a)
  <2>1. (Hold[j] = 0 /\ a = 0) \/ bill \in claims
    BY DEF PipelineInv, EveryJobKnown, Knows, PaidKnows, Paid, Billed
  <2>2. bill.op = "capture" /\ bill.job = j /\ bill.actual = a
    BY DEF HoldCommand
  <2>3. bill \in claims => (Hold[j] = 0 /\ a = 0) \/ <<"capture", j>> \in moved
    BY <2>2 DEF PipelineInv, EveryJobKnown, Knows, PaidKnows, CapturesMoved, Charged
  <2> HIDE DEF a, bill
  <2>4. (a = 0 /\ Hold[j] = 0) \/ \E c \in claims : /\ c.op = "capture" /\ c.job = j
                                                    /\ c.actual = a
                                                    /\ <<"capture", j>> \in moved
    BY <2>1, <2>2, <2>3
  <2> QED BY <2>4 DEF a
<1> QED BY <1>1, PipelineInvariant, PTL

(* Money that moved is not moved back.                                        *)
LEMMA MovedStays ==
    ASSUME LedgerTypeOK, [LedgerNext]_ledgerVars
    PROVE  moved \subseteq moved'
BY LedgerCases DEF ClaimStep, OnlyClaims, Reserves, Captures, Releases, Moves, money,
    ledgerVars, deductUsageBillingBalance

-----------------------------------------------------------------------------
(* A second layer of the invariant: what becomes of a job that was charged.   *)
(* It rests on what a step can do to a row, to the records of the ledger and  *)
(* to a worker inside Process.                                                *)

(* Indexing does not fail: only then does a worker that has lost its lock not *)
(* fail a job which another worker settles.                                   *)
ReliableIndexing ==
    {"index", "output_invalid"} \intersect FaultOps = {} /\ "index" \notin LostAcks

\* What workers do with a charged job that they have for themselves.
ChargedSteps == {"none", "start", "read", "settle", "capture", "mark", "fail_billing",
                 "exhaust_release", "exhaust_release_failed", "recheck"}
EndSteps     == {"exhaust_fail", "release"}
ExhaustSteps == {"exhaust_release", "exhaust_release_failed", "exhaust_fail"}

\* The hold was given back, or never will be.
ReleaseRecordedOf(j) == Hold[j] = 0 \/ Claimed("release", j)

\* A release that took no effect is recorded for jobs that never reach the provider.
BurnedKnows(j) == Claimed("release", j) /\ ~Refunded(j) =>
    ~job[j].provider /\ (Failed(j) \/ sub[j] \in Aborting \union {"done"})

\* Jobs are settled whose provider succeeded, and fail then by exhaustion only.
SettlingKnows(j) ==
    /\ job[j].status \in {"indexing", "settling", "completed", "output_deleted"}
         => upstream[j] = "succeeded"
    /\ \A w \in Workers : wjob[w] = j =>
         /\ wstep[w] \in {"indexing", "index", "settling"} => upstream[j] = "succeeded"
         /\ wstep[w] = "failed" /\ ReliableIndexing => upstream[j] = "failed"
         /\ wstep[w] \in SettleSteps => job[j].provider
         /\ wstep[w] = "exhaust_fail" => ReleaseRecordedOf(j)
         /\ wstep[w] \in SettleSteps /\ Failed(j) /\ ReliableIndexing => ReleaseRecordedOf(j)

\* The exit of the settlement is taken when its retries are used up.
SpentKnows(j) == \A w \in Workers : wjob[w] = j /\ wstep[w] \in ExhaustSteps => Spent(j)

\* A submitted job is refunded when it has failed, or by that exit.
RefundKnows(j) == Refunded(j) /\ job[j].provider => Failed(j) \/ Spent(j)

\* A charge is made of a hold that was taken.
ChargeHeld(j) == Charged(j) => <<"hold", j>> \in moved

(* Unless its lock may lapse, a charged job is on its way to completed, or it *)
(* took the exit of a settlement that was given up and was refunded first.    *)
ChargeKnows(j) == j \notin MayLapse /\ Charged(j) =>
    /\ job[j].status \in {"settling", "completed", "output_deleted"}
         \/ (Failed(j) /\ Refunded(j) /\ Spent(j))
    /\ Covered(j)
    /\ \A w \in Workers : wjob[w] = j =>
         /\ wstep[w] \in ChargedSteps \union EndSteps
         /\ wstep[w] = "exhaust_fail" => Refunded(j)

(* What a step can do to a row: the provider's job is recorded by Submit only *)
(* and once for all, a failed row stays failed, and only workers index a job  *)
(* or fail one that is settled.                                               *)
Indexed == {"indexing", "settling", "completed", "output_deleted"}
Settled == {"settling", "completed", "output_deleted"}

RowMoves(i) ==
    /\ job[i].provider => job'[i].provider
    /\ job'[i].provider => job[i].provider \/ (sub[i] = "record" /\ ~Failed(i))
    /\ Failed(i) => Failed(i)'
    /\ Spent(i) => Spent(i)'
    /\ job'[i].status \in Indexed =>
         job[i].status \in Indexed \/ \E w \in Workers : wjob[w] = i /\ wstep[w] = "indexing"
    /\ job[i].status \in Settled =>
         \/ job'[i].status \in Settled
         \/ /\ job'[i].status = "failed"
            /\ \E w \in Workers : wjob[w] = i /\ wstep[w] \in {"failed", "exhaust_fail"}

LEMMA RetryGrows ==
    ASSUME JobTypeOK, NEW j \in Jobs, NEW out, SetBatchImageJobSettlementFailed(j, out)
    PROVE  Spent(j) => Spent(j)'
<1>1. /\ MaxRetries \in Nat
      /\ job[j].retry \in 0..MaxRetries /\ job'[j].retry \in 0..MaxRetries
      /\ job'[j].retry >= job[j].retry
  BY SettlementFailedEffect, RepoAssumption DEF JobTypeOK, Row
<1> QED BY <1>1 DEF Spent

LEMMA RowsMove ==
    ASSUME TypeOK, EveryJobKnown, [Next]_vars, NEW i \in Jobs
    PROVE  RowMoves(i)
<1>0. \A j \in Jobs : sub[j] \in Aborting => ~job[j].provider /\ job[j].status \notin Indexed
  BY DEF EveryJobKnown, Knows, SubKnows, RowKnows, Indexed
<1> USE TypeParts
<1> USE DEF RowMoves, OtherRows, SameRow, SameCounts, Failed, Spent, Indexed, Settled
<1>a. /\ MaxRetries \in Nat \ {0}
      /\ \A j \in Jobs : job[j].retry \in 0..MaxRetries
  BY RepoAssumption DEF JobTypeOK, Row
<1>1. CASE UNCHANGED job
  BY <1>1
<1>2. ASSUME NEW j \in Jobs, SubmitCreate(j) PROVE RowMoves(i)
  <2>1. CreateBatchImageJob(j)
    BY <1>2 DEF SubmitCreate
  <2>2. ~Spent(j) /\ job[j].status = "none" /\ ~job[j].provider
    BY <1>a, <2>1, CreateEffect DEF NoRow
  <2> QED BY <2>1, <2>2, CreateEffect
<1>3. ASSUME NEW j \in Jobs, SubmitUpload(j) PROVE RowMoves(i)
  BY <1>3, TransitionEffect, TransitionsAllowed DEF SubmitUpload, Statuses,
      ActiveStatuses, TerminalStatuses
<1>4. ASSUME NEW j \in Jobs, SubmitHeartbeat(j) PROVE RowMoves(i)
  BY <1>4, TouchEffect DEF SubmitHeartbeat
<1>5. ASSUME NEW j \in Jobs, SubmitRecord(j) PROVE RowMoves(i)
  BY <1>5, ProviderSubmitEffect, TransitionsAllowed DEF SubmitRecord, TerminalStatuses,
      SubAt
<1>6. ASSUME NEW j \in Jobs, SubmitQueueFailed(j) PROVE RowMoves(i)
  BY <1>6, RecordFailureEffect DEF SubmitQueueFailed
<1>7. ASSUME NEW j \in Jobs, SubmitReleaseFailed(j) PROVE RowMoves(i)
  BY <1>7, RecordFailureEffect, <1>0 DEF SubmitReleaseFailed, SubAt, Aborting
<1>8. ASSUME NEW j \in Jobs, SubmitFail(j) PROVE RowMoves(i)
  BY <1>8, RecordFailureEffect, <1>0 DEF SubmitFail, SubAt, Aborting
<1>9. ASSUME NEW j \in Jobs, SubmitHide(j) PROVE RowMoves(i)
  BY <1>9, UserDeletedEffect DEF SubmitHide
<1>10. ASSUME NEW j \in Jobs, CancelTransition(j) PROVE RowMoves(i)
  BY <1>10, TransitionEffect, TransitionsAllowed DEF CancelTransition, Statuses,
      ActiveStatuses, TerminalStatuses
<1>11. ASSUME NEW j \in Jobs, ResubmitFailed(j) PROVE RowMoves(i)
  BY <1>11, RecordFailureEffect DEF ResubmitFailed
<1>12. ASSUME NEW j \in Jobs, DeleteRecord(j) PROVE RowMoves(i)
  BY <1>12, UserDeletedEffect DEF DeleteRecord
<1>13. ASSUME NEW j \in Jobs, CleanupOutput(j) PROVE RowMoves(i)
  BY <1>13, OutputDeletedEffect DEF CleanupOutput
<1>14. ASSUME NEW j \in Jobs, RecoveryFail(j) PROVE RowMoves(i)
  BY <1>14, FailStaleEffect DEF RecoveryFail, Unsubmitted
<1>15. ASSUME NEW j \in Jobs, RowAges(j) PROVE RowMoves(i)
  BY <1>15, AgesEffect DEF RowAges
<1>16. ASSUME NEW w \in Workers, ProcessTransition(w) PROVE RowMoves(i)
  BY <1>16, TransitionEffect, TransitionsAllowed, WorkerHasJob DEF ProcessTransition,
      Statuses, ActiveStatuses, TerminalStatuses, At
<1>17. ASSUME NEW w \in Workers, ProcessIndex(w) PROVE RowMoves(i)
  BY <1>17, ReplaceEffect, WorkerHasJob DEF ProcessIndex, At
<1>18. ASSUME NEW w \in Workers, SettleMark(w) PROVE RowMoves(i)
  BY <1>18, SettledEffect, WorkerHasJob DEF SettleMark, At
<1>19. ASSUME NEW w \in Workers, SettleRecordFailure(w) PROVE RowMoves(i)
  BY <1>a, <1>19, RetryGrows, SettlementFailedEffect, WorkerHasJob DEF SettleRecordFailure, At
<1>20. ASSUME NEW w \in Workers, ExhaustReleaseFailed(w) PROVE RowMoves(i)
  BY <1>a, <1>20, RetryGrows, SettlementFailedEffect, WorkerHasJob
  DEF ExhaustReleaseFailed, At
<1>21. ASSUME NEW w \in Workers, ExhaustFail(w) PROVE RowMoves(i)
  BY <1>21, TransitionEffect, TransitionsAllowed, WorkerHasJob DEF ExhaustFail, Statuses,
      ActiveStatuses, TerminalStatuses, At
<1>22. ASSUME NEW j \in Jobs,
             SubmitReserve(j) \/ SubmitItems(j) \/ SubmitProvider(j) \/
             SubmitAbort(j) \/ SubmitEnqueue(j) \/ SubmitRelease(j) \/
             SubmitRetry(j) \/ SubmitDies(j) \/ CancelRead(j) \/
             CancelProvider(j) \/ CancelEnqueue(j) \/ CancelRelease(j) \/
             CancelRetry(j) \/ ResubmitRead(j) \/ ResubmitEnqueue(j) \/
             ClientDies(j) \/ RecoveryList(j) \/ RecoveryRelease(j) \/
             RecoveryRetry(j) \/ RecoveryDies(j) \/ ProviderRuns(j) \/
             ProviderEnds(j) \/ Maintenance(j)
      PROVE  UNCHANGED job
  BY <1>22 DEF SubmitReserve, SubmitItems, SubmitProvider, SubmitAbort, SubmitEnqueue,
      SubmitRelease, SubmitRetry, SubmitDies, CancelRead, CancelProvider, CancelEnqueue,
      CancelRelease, CancelRetry, ResubmitRead, ResubmitEnqueue, ClientDies, RecoveryList,
      RecoveryRelease, RecoveryRetry, RecoveryDies, ProviderRuns, ProviderEnds,
      Maintenance, Outside
<1>23. ASSUME NEW w \in Workers,
             ProcessStart(w) \/ ProcessRead(w) \/ ProcessPoll(w) \/
             ProcessRelease(w) \/ SettleRead(w) \/ SettleCapture(w) \/
             ExhaustRelease(w) \/ ProcessRecheck(w) \/ WorkerTakesLock(w) \/
             WorkerLoop(w) \/ WorkerDies(w)
      PROVE  UNCHANGED job
  BY <1>23 DEF ProcessStart, ProcessRead, ProcessPoll, ProcessRelease, SettleRead,
      SettleCapture, ExhaustRelease, ProcessRecheck, WorkerTakesLock, WorkerLoop,
      WorkerDies, Outside
<1>24. CASE UNCHANGED vars
  BY <1>24 DEF vars
<1> HIDE DEF RowMoves, OtherRows, SameRow, SameCounts, Failed, Spent, Indexed, Settled
<1> QED BY <1>1, <1>2, <1>3, <1>4, <1>5, <1>6, <1>7, <1>8, <1>9, <1>10, <1>11, <1>12,
    <1>13, <1>14, <1>15, <1>16, <1>17, <1>18, <1>19, <1>20, <1>21, <1>22, <1>23, <1>24 DEF
    Next, Submit, Client, ClientStep, Recovery, Worker, Process

(* A submission that gave up does not come back, and what the provider has    *)
(* ended stays so.                                                            *)
HandlersStay(i) ==
    /\ sub[i] \in Aborting \union {"done"} => sub'[i] \in Aborting \union {"done"}
    /\ upstream[i] \in {"succeeded", "failed"} => upstream'[i] = upstream[i]

LEMMA HandlersStayPut ==
    ASSUME TypeOK, EveryJobKnown, [Next]_vars, NEW i \in Jobs
    PROVE  HandlersStay(i)
<1> DEFINE S == sub[i] \in Aborting \union {"done"} => sub'[i] \in Aborting \union {"done"}
           U == upstream[i] \in {"succeeded", "failed"} => upstream'[i] = upstream[i]
<1>1. /\ sub \in [Jobs -> SubSteps] /\ upstream \in [Jobs -> UpstreamStates]
      /\ \A j \in Jobs : sub[j] = "provider" => upstream[j] = "none"
  BY DEF TypeOK, EveryJobKnown, Knows, UpstreamKnows, Preparing
<1>2. ASSUME NEW j \in Jobs, SubmitCreate(j) PROVE S
  BY <1>1, <1>2 DEF SubmitCreate, SubAt, SubTo, Aborting
<1>3. ASSUME NEW j \in Jobs, SubmitReserve(j) PROVE S
  BY <1>1, <1>3 DEF SubmitReserve, SubAt, SubTo, Aborting
<1>4. ASSUME NEW j \in Jobs, SubmitItems(j) PROVE S
  BY <1>1, <1>4 DEF SubmitItems, SubAt, SubTo, Aborting
<1>5. ASSUME NEW j \in Jobs, SubmitUpload(j) PROVE S
  BY <1>1, <1>5 DEF SubmitUpload, SubAt, SubTo, Aborting
<1>6. ASSUME NEW j \in Jobs, SubmitProvider(j) PROVE S
  BY <1>1, <1>6 DEF SubmitProvider, SubAt, SubTo, Aborting
<1>7. ASSUME NEW j \in Jobs, SubmitRecord(j) PROVE S
  BY <1>1, <1>7 DEF SubmitRecord, SubAt, SubTo, Aborting
<1>8. ASSUME NEW j \in Jobs, SubmitAbort(j) PROVE S
  BY <1>1, <1>8 DEF SubmitAbort, SubAt, SubTo, Aborting
<1>9. ASSUME NEW j \in Jobs, SubmitEnqueue(j) PROVE S
  BY <1>1, <1>9 DEF SubmitEnqueue, EnqueueReported, SubAt, SubTo, Aborting
<1>10. ASSUME NEW j \in Jobs, SubmitQueueFailed(j) PROVE S
  BY <1>1, <1>10 DEF SubmitQueueFailed, SubAt, SubTo, Aborting
<1>11. ASSUME NEW j \in Jobs, SubmitRelease(j) PROVE S
  BY <1>1, <1>11 DEF SubmitRelease, SubTo, Aborting
<1>12. ASSUME NEW j \in Jobs, SubmitReleaseFailed(j) PROVE S
  BY <1>1, <1>12 DEF SubmitReleaseFailed, SubAt, SubTo, Aborting
<1>13. ASSUME NEW j \in Jobs, SubmitRetry(j) PROVE S
  BY <1>1, <1>13 DEF SubmitRetry, SubAt, SubTo, Aborting
<1>14. ASSUME NEW j \in Jobs, SubmitFail(j) PROVE S
  BY <1>1, <1>14 DEF SubmitFail, SubAt, SubTo, Aborting
<1>15. ASSUME NEW j \in Jobs, SubmitHide(j) PROVE S
  BY <1>1, <1>15 DEF SubmitHide, SubAt, SubTo, Aborting
<1>16. ASSUME NEW j \in Jobs, SubmitDies(j) PROVE S
  BY <1>1, <1>16 DEF SubmitDies, SubTo, Aborting
<1>17. ASSUME NEW j \in Jobs, SubmitProvider(j) PROVE U
  BY <1>1, <1>17 DEF SubmitProvider, SubAt
<1>18. ASSUME NEW j \in Jobs, SubmitAbort(j) PROVE U
  BY <1>1, <1>18 DEF SubmitAbort, SubAt, Stops
<1>19. ASSUME NEW j \in Jobs, CancelProvider(j) PROVE U
  BY <1>1, <1>19 DEF CancelProvider, Stops
<1>20. ASSUME NEW j \in Jobs, ProviderRuns(j) PROVE U
  BY <1>1, <1>20 DEF ProviderRuns
<1>21. ASSUME NEW j \in Jobs, ProviderEnds(j) PROVE U
  BY <1>1, <1>21 DEF ProviderEnds
<1>22. ASSUME NEW j \in Jobs,
             SubmitHeartbeat(j) \/ CancelRead(j) \/ CancelProvider(j) \/
             CancelEnqueue(j) \/ CancelTransition(j) \/ CancelRelease(j) \/
             CancelRetry(j) \/ ResubmitRead(j) \/ ResubmitEnqueue(j) \/
             ResubmitFailed(j) \/ DeleteRecord(j) \/ CleanupOutput(j) \/
             ClientDies(j) \/ RecoveryList(j) \/ RecoveryFail(j) \/
             RecoveryRelease(j) \/ RecoveryRetry(j) \/ RecoveryDies(j) \/
             RowAges(j) \/ ProviderRuns(j) \/ ProviderEnds(j) \/ Maintenance(j)
      PROVE  UNCHANGED sub
  BY <1>22 DEF SubmitHeartbeat, CancelRead, CancelProvider, CancelEnqueue,
      CancelTransition, CancelRelease, CancelRetry, ResubmitRead, ResubmitEnqueue,
      ResubmitFailed, DeleteRecord, CleanupOutput, ClientDies, RecoveryList, RecoveryFail,
      RecoveryRelease, RecoveryRetry, RecoveryDies, RowAges, ProviderRuns, ProviderEnds,
      Maintenance, ClientAt, RecAt, SubAt, procVars, At, Outside
<1>23. ASSUME NEW w \in Workers,
             ProcessStart(w) \/ ProcessRead(w) \/ ProcessPoll(w) \/
             ProcessTransition(w) \/ ProcessIndex(w) \/ ProcessRelease(w) \/
             SettleRead(w) \/ SettleCapture(w) \/ SettleMark(w) \/
             SettleRecordFailure(w) \/ ExhaustRelease(w) \/
             ExhaustReleaseFailed(w) \/ ExhaustFail(w) \/ ProcessRecheck(w) \/
             WorkerTakesLock(w) \/ WorkerLoop(w) \/ WorkerDies(w)
      PROVE  UNCHANGED sub
  BY <1>23 DEF ProcessStart, ProcessRead, ProcessPoll, ProcessTransition, ProcessIndex,
      ProcessRelease, SettleRead, SettleCapture, SettleMark, SettleRecordFailure,
      ExhaustRelease, ExhaustReleaseFailed, ExhaustFail, ProcessRecheck, WorkerTakesLock,
      WorkerLoop, WorkerDies, ClientAt, RecAt, SubAt, procVars, At, Outside
<1>24. ASSUME NEW j \in Jobs,
             SubmitCreate(j) \/ SubmitReserve(j) \/ SubmitItems(j) \/
             SubmitUpload(j) \/ SubmitHeartbeat(j) \/ SubmitRecord(j) \/
             SubmitEnqueue(j) \/ SubmitQueueFailed(j) \/ SubmitRelease(j) \/
             SubmitReleaseFailed(j) \/ SubmitRetry(j) \/ SubmitFail(j) \/
             SubmitHide(j) \/ SubmitDies(j) \/ CancelRead(j) \/ CancelEnqueue(j)
             \/ CancelTransition(j) \/ CancelRelease(j) \/ CancelRetry(j) \/
             ResubmitRead(j) \/ ResubmitEnqueue(j) \/ ResubmitFailed(j) \/
             DeleteRecord(j) \/ CleanupOutput(j) \/ ClientDies(j) \/
             RecoveryList(j) \/ RecoveryFail(j) \/ RecoveryRelease(j) \/
             RecoveryRetry(j) \/ RecoveryDies(j) \/ RowAges(j) \/ Maintenance(j)
      PROVE  UNCHANGED upstream
  BY <1>24 DEF SubmitCreate, SubmitReserve, SubmitItems, SubmitUpload, SubmitHeartbeat,
      SubmitRecord, SubmitEnqueue, SubmitQueueFailed, SubmitRelease, SubmitReleaseFailed,
      SubmitRetry, SubmitFail, SubmitHide, SubmitDies, CancelRead, CancelEnqueue,
      CancelTransition, CancelRelease, CancelRetry, ResubmitRead, ResubmitEnqueue,
      ResubmitFailed, DeleteRecord, CleanupOutput, ClientDies, RecoveryList, RecoveryFail,
      RecoveryRelease, RecoveryRetry, RecoveryDies, RowAges, Maintenance, ClientAt, RecAt,
      SubAt, procVars, At, Outside
<1>25. ASSUME NEW w \in Workers,
             ProcessStart(w) \/ ProcessRead(w) \/ ProcessPoll(w) \/
             ProcessTransition(w) \/ ProcessIndex(w) \/ ProcessRelease(w) \/
             SettleRead(w) \/ SettleCapture(w) \/ SettleMark(w) \/
             SettleRecordFailure(w) \/ ExhaustRelease(w) \/
             ExhaustReleaseFailed(w) \/ ExhaustFail(w) \/ ProcessRecheck(w) \/
             WorkerTakesLock(w) \/ WorkerLoop(w) \/ WorkerDies(w)
      PROVE  UNCHANGED upstream
  BY <1>25 DEF ProcessStart, ProcessRead, ProcessPoll, ProcessTransition, ProcessIndex,
      ProcessRelease, SettleRead, SettleCapture, SettleMark, SettleRecordFailure,
      ExhaustRelease, ExhaustReleaseFailed, ExhaustFail, ProcessRecheck, WorkerTakesLock,
      WorkerLoop, WorkerDies, ClientAt, RecAt, SubAt, procVars, At, Outside
<1>26. ASSUME UNCHANGED vars PROVE UNCHANGED <<sub, upstream>>
  BY <1>26 DEF vars, procVars
<1>27. S
  <2>1. CASE UNCHANGED sub
    BY <2>1
  <2> QED BY <2>1, <1>2, <1>3, <1>4, <1>5, <1>6, <1>7, <1>8, <1>9, <1>10, <1>11, <1>12,
      <1>13, <1>14, <1>15, <1>16, <1>22, <1>23, <1>26 DEF Next, Submit, Client,
      ClientStep, Recovery, Worker, Process
<1>28. U
  <2>1. CASE UNCHANGED upstream
    BY <2>1
  <2> QED BY <2>1, <1>17, <1>18, <1>19, <1>20, <1>21, <1>24, <1>25, <1>26 DEF Next,
      Submit, Client, ClientStep, Recovery, Worker, Process
<1> QED BY <1>27, <1>28 DEF HandlersStay

(* Who records a release has found the job failed, has given up its           *)
(* submission, or exits a settlement; who charges is a worker at its capture. *)
Releasing(i) ==
    \/ Failed(i) \/ sub[i] \in Aborting
    \/ \E w \in Workers : wjob[w] = i /\ wstep[w] = "exhaust_release"

RecordsMove(i) ==
    /\ Claimed("release", i)' => \/ Claimed("release", i)
                                 \/ Hold[i] > 0 /\ UNCHANGED job /\ Releasing(i)
    /\ Charged(i)' => \/ Charged(i)
                      \/ /\ Hold[i] > 0 /\ Covered(i) /\ UNCHANGED job
                         /\ \E w \in Workers, step \in {"mark", "fail_billing"} :
                              /\ wpc[w] = "processing" /\ wjob[w] = i /\ wstep[w] = "capture"
                              /\ WorkerMoves(w, step)

LEMMA RecordsStay ==
    ASSUME NEW i, SameClaims(i, {"capture", "release"})
    PROVE  RecordsMove(i)
BY DEF SameClaims, RecordsMove, Charged

LEMMA ReleaseMoves ==
    ASSUME Recorded, NEW j \in Jobs, NEW i \in Jobs, NEW ok \in BOOLEAN,
           releaseBatchImageBalanceHold(j, ok), UNCHANGED job, Releasing(j)
    PROVE  RecordsMove(i)
<1>1. OtherMoney(j) /\ SameClaims(j, {"hold", "capture"})
  BY ReleaseEffect
<1>2. CASE i # j
  <2>1. SameClaims(i, {"capture", "release"})
    BY <1>1, <1>2 DEF OtherMoney, SameClaims, Ops
  <2> QED BY <2>1, RecordsStay
<1>3. CASE i = j /\ Hold[j] = 0
  <2>1. SameClaims(i, {"capture", "release"})
    BY <1>3, NoMoneyMoved DEF releaseBatchImageBalanceHold, SameClaims, Ops
  <2> QED BY <2>1, RecordsStay
<1>4. CASE i = j /\ Hold[j] # 0
  <2>1. Hold[i] > 0
    BY <1>4, LedgerAssumption
  <2>2. Charged(i)' => Charged(i)
    BY <1>1, <1>4 DEF SameClaims, Charged
  <2> QED BY <1>4, <2>1, <2>2 DEF RecordsMove
<1> QED BY <1>2, <1>3, <1>4

(* Seven steps call the ledger; none of them writes a row.                     *)
LEMMA MoneySteps ==
    ASSUME [Next]_vars
    PROVE  \/ UNCHANGED ledgerVars
           \/ \E j \in Jobs : \/ SubmitReserve(j) \/ SubmitRelease(j)
                             \/ CancelRelease(j) \/ RecoveryRelease(j)
           \/ \E w \in Workers : SettleCapture(w) \/ ProcessRelease(w) \/ ExhaustRelease(w)
<1>1. ASSUME NEW j \in Jobs,
             SubmitCreate(j) \/ SubmitItems(j) \/ SubmitUpload(j) \/
             SubmitHeartbeat(j) \/ SubmitProvider(j) \/ SubmitRecord(j) \/
             SubmitAbort(j) \/ SubmitEnqueue(j) \/ SubmitQueueFailed(j) \/
             SubmitReleaseFailed(j) \/ SubmitRetry(j) \/ SubmitFail(j) \/
             SubmitHide(j) \/ SubmitDies(j) \/ CancelRead(j) \/
             CancelProvider(j) \/ CancelEnqueue(j) \/ CancelTransition(j) \/
             CancelRetry(j) \/ ResubmitRead(j) \/ ResubmitEnqueue(j) \/
             ResubmitFailed(j) \/ DeleteRecord(j) \/ CleanupOutput(j) \/
             ClientDies(j) \/ RecoveryList(j) \/ RecoveryFail(j) \/
             RecoveryRetry(j) \/ RecoveryDies(j) \/ RowAges(j) \/
             ProviderRuns(j) \/ ProviderEnds(j) \/ Maintenance(j)
      PROVE  UNCHANGED ledgerVars
  BY <1>1 DEF SubmitCreate, SubmitItems, SubmitUpload, SubmitHeartbeat, SubmitProvider,
      SubmitRecord, SubmitAbort, SubmitEnqueue, SubmitQueueFailed, SubmitReleaseFailed,
      SubmitRetry, SubmitFail, SubmitHide, SubmitDies, CancelRead, CancelProvider,
      CancelEnqueue, CancelTransition, CancelRetry, ResubmitRead, ResubmitEnqueue,
      ResubmitFailed, DeleteRecord, CleanupOutput, ClientDies, RecoveryList, RecoveryFail,
      RecoveryRetry, RecoveryDies, RowAges, ProviderRuns, ProviderEnds, Maintenance,
      Outside
<1>2. ASSUME NEW w \in Workers,
             ProcessStart(w) \/ ProcessRead(w) \/ ProcessPoll(w) \/
             ProcessTransition(w) \/ ProcessIndex(w) \/ SettleRead(w) \/
             SettleMark(w) \/ SettleRecordFailure(w) \/ ExhaustReleaseFailed(w)
             \/ ExhaustFail(w) \/ ProcessRecheck(w) \/ WorkerTakesLock(w) \/
             WorkerLoop(w) \/ WorkerDies(w)
      PROVE  UNCHANGED ledgerVars
  BY <1>2 DEF ProcessStart, ProcessRead, ProcessPoll, ProcessTransition, ProcessIndex,
      SettleRead, SettleMark, SettleRecordFailure, ExhaustReleaseFailed, ExhaustFail,
      ProcessRecheck, WorkerTakesLock, WorkerLoop, WorkerDies, Outside
<1>3. CASE UNCHANGED vars
  BY <1>3 DEF vars
<1> QED BY <1>1, <1>2, <1>3 DEF Next, Submit, Client, ClientStep, Recovery, Worker, Process

LEMMA RecordsMoveOn ==
    ASSUME Recorded, EveryJobKnown, [Next]_vars, NEW i \in Jobs
    PROVE  RecordsMove(i)
<1>0. /\ \A j \in Jobs : Knows(j)
      /\ TypeOK /\ QueueTypeOK /\ ProcTypeOK
  BY TypeParts DEF Recorded, EveryJobKnown
<1>1. ASSUME UNCHANGED ledgerVars PROVE RecordsMove(i)
  <2>1. SameClaims(i, {"capture", "release"})
    BY <1>1, NoMoneyMoved DEF SameClaims, Ops
  <2> QED BY <2>1, RecordsStay
<1>2. ASSUME NEW j \in Jobs, SubmitReserve(j) PROVE RecordsMove(i)
  <2>1. PICK ok \in BOOLEAN : reserveBatchImageBalanceHold(j, ok)
    BY <1>2 DEF SubmitReserve
  <2>2. ~Claimed("hold", j)
    BY <1>0, <1>2 DEF SubmitReserve, SubAt, Knows, SubKnows
  <2>3. OtherMoney(j) /\ SameClaims(j, {"capture", "release"})
    BY <2>1, <2>2, ReserveEffect
  <2>4. SameClaims(i, {"capture", "release"})
    BY <2>3 DEF OtherMoney, SameClaims, Ops
  <2> QED BY <2>4, RecordsStay
<1>3. ASSUME NEW w \in Workers, SettleCapture(w) PROVE RecordsMove(i)
  <2>1. /\ wpc[w] = "processing" /\ wstep[w] = "capture"
        /\ UNCHANGED <<job, upstream, sub, client, rec>>
    BY <1>3 DEF SettleCapture, At
  <2>2. PICK ok \in BOOLEAN : /\ captureBatchImageBalanceHold(J(w), ok)
                              /\ Next_(w, IF ok THEN "mark" ELSE "fail_billing")
    BY <1>3 DEF SettleCapture
  <2>3. WorkerMoves(w, IF ok THEN "mark" ELSE "fail_billing")
    BY <1>0, <2>1, <2>2, NextEffect DEF ProcessSteps
  <2>4. PICK j \in Jobs : J(w) = j /\ wjob[w] = j
    BY <1>0, <2>1, WorkerHasJob
  <2>5. CapturesMoved(j)
    BY <1>0 DEF Knows, PaidKnows
  <2>6. /\ OtherMoney(j) /\ SameClaims(j, {"hold", "release"})
        /\ Charged(j)' => Charged(j) \/ (Covered(j) /\ Hold[j] > 0)
    BY <2>1, <2>2, <2>4, <2>5, CaptureEffect
  <2>7. CASE i # j
    <3>1. SameClaims(i, {"capture", "release"})
      BY <2>6, <2>7 DEF OtherMoney, SameClaims, Ops
    <3> QED BY <3>1, RecordsStay
  <2>8. CASE i = j
    <3>1. Claimed("release", i)' => Claimed("release", i)
      BY <2>6, <2>8 DEF SameClaims
    <3>2. \E step \in {"mark", "fail_billing"} : WorkerMoves(w, step)
      BY <2>3
    <3> QED BY <2>1, <2>4, <2>6, <2>8, <3>1, <3>2 DEF RecordsMove
  <2> QED BY <2>7, <2>8
<1>4. ASSUME NEW j \in Jobs, SubmitRelease(j) PROVE RecordsMove(i)
  <2>1. PICK ok \in BOOLEAN : releaseBatchImageBalanceHold(j, ok)
    BY <1>4 DEF SubmitRelease
  <2>2. Releasing(j) /\ UNCHANGED job
    BY <1>0, <1>4 DEF SubmitRelease, Aborting, Releasing
  <2> QED BY <1>0, <2>1, <2>2, ReleaseMoves
<1>5. ASSUME NEW j \in Jobs, CancelRelease(j) PROVE RecordsMove(i)
  <2>1. PICK ok \in BOOLEAN : releaseBatchImageBalanceHold(j, ok)
    BY <1>5 DEF CancelRelease
  <2>2. Releasing(j) /\ UNCHANGED job
    BY <1>0, <1>5 DEF CancelRelease, ClientAt, Knows, HandlersKnow, Releasing
  <2> QED BY <1>0, <2>1, <2>2, ReleaseMoves
<1>6. ASSUME NEW j \in Jobs, RecoveryRelease(j) PROVE RecordsMove(i)
  <2>1. PICK ok \in BOOLEAN : releaseBatchImageBalanceHold(j, ok)
    BY <1>6 DEF RecoveryRelease
  <2>2. Releasing(j) /\ UNCHANGED job
    BY <1>0, <1>6 DEF RecoveryRelease, RecAt, Knows, HandlersKnow, Releasing
  <2> QED BY <1>0, <2>1, <2>2, ReleaseMoves
<1>7. ASSUME NEW w \in Workers, ProcessRelease(w) PROVE RecordsMove(i)
  <2>1. PICK ok \in BOOLEAN : releaseBatchImageBalanceHold(J(w), ok)
    BY <1>7 DEF ProcessRelease
  <2>2. J(w) \in Jobs /\ wjob[w] = J(w)
    BY <1>0, <1>7, WorkerHasJob DEF ProcessRelease, At
  <2>3. Releasing(J(w)) /\ UNCHANGED job
    BY <1>0, <1>7, <2>2 DEF ProcessRelease, At, Knows, WorkersKnow, Releasing
  <2> QED BY <1>0, <2>1, <2>2, <2>3, ReleaseMoves
<1>8. ASSUME NEW w \in Workers, ExhaustRelease(w) PROVE RecordsMove(i)
  <2>1. PICK ok \in BOOLEAN : releaseBatchImageBalanceHold(J(w), ok)
    BY <1>8 DEF ExhaustRelease
  <2>2. J(w) \in Jobs /\ wjob[w] = J(w)
    BY <1>0, <1>8, WorkerHasJob DEF ExhaustRelease, At
  <2>3. Releasing(J(w)) /\ UNCHANGED job
    BY <1>0, <1>8, <2>2 DEF ExhaustRelease, At, Releasing
  <2> QED BY <1>0, <2>1, <2>2, <2>3, ReleaseMoves
<1> QED BY <1>1, <1>2, <1>3, <1>4, <1>5, <1>6, <1>7, <1>8, MoneySteps

(* The ways of a worker through Process, as far as a charge cares.            *)
MayMove(j, s, t) ==
    /\ t \in {"indexing", "index", "settling"} =>
         \/ upstream[j] = "succeeded" \/ job[j].status = "indexing"
         \/ s \in {"indexing", "index"}
    /\ t = "failed" => upstream[j] = "failed" \/ (s = "index" /\ ~ReliableIndexing)
    /\ t \in SettleSteps => s \in SettleSteps \/ (s = "start" /\ job[j].status = "settling")
    /\ t = "exhaust_fail" => ReleaseRecordedOf(j)'
    /\ t \in ExhaustSteps => s \in ExhaustSteps \/ Spent(j)'
    /\ s \in ChargedSteps \union EndSteps /\ (job[j].status \in Settled \/ Failed(j))
         /\ Covered(j) => t \in ChargedSteps \union EndSteps
    /\ s \in ChargedSteps /\ job[j].status \in Settled /\ Covered(j)
         => t \in ChargedSteps \union {"exhaust_fail"}

StepsMove(i) == \A v \in Workers : wjob'[v] = i =>
    \/ wstep'[v] = "none"
    \/ wjob[v] = i /\ (wstep'[v] = wstep[v] \/ MayMove(i, wstep[v], wstep'[v]))

LEMMA OneMoves ==
    ASSUME QueueTypeOK, ProcTypeOK, NEW w \in Workers, wpc[w] = "processing",
           NEW step \in ProcessSteps \union {"ack", "requeue"}, Next_(w, step),
           UNCHANGED <<upstream, sub, client, rec>>,
           step \in {"ack", "requeue"} \/ MayMove(J(w), wstep[w], step),
           NEW i
    PROVE  StepsMove(i)
<1>1. WorkerMoves(w, step)
  BY NextEffect
<1>2. /\ wjob' = wjob
      /\ \A v \in Workers \ {w} : wstep'[v] = wstep[v]
      /\ wstep'[w] = IF step \in {"ack", "requeue"} THEN "none" ELSE step
  BY <1>1 DEF WorkerMoves
<1> QED BY <1>2 DEF StepsMove, J

LEMMA StepsMoveOn ==
    ASSUME Recorded, EveryJobKnown, [Next]_vars, NEW i \in Jobs
    PROVE  StepsMove(i)
<1>0. TypeOK /\ QueueTypeOK /\ ProcTypeOK
  BY TypeParts DEF Recorded
<1>1. ASSUME UNCHANGED <<wjob, wstep>> PROVE StepsMove(i)
  BY <1>1 DEF StepsMove
<1>2. ASSUME NEW j \in Jobs,
             \/ Submit(j) \/ SubmitHeartbeat(j) \/ SubmitDies(j)
             \/ Client(j) \/ ClientDies(j)
             \/ Recovery(j) \/ RecoveryDies(j) \/ RowAges(j)
             \/ ProviderRuns(j) \/ ProviderEnds(j)
             \/ Maintenance(j)
      PROVE  StepsMove(i)
  <2>1. HandlerOf(j)
    BY <1>2, SubmitFootprint, ClientFootprint, RecoveryFootprint
    DEF Submit, Client, ClientStep, Recovery
  <2> QED BY <1>1, <2>1 DEF HandlerOf
<1>3. ASSUME NEW w \in Workers, WorkerTakesLock(w) \/ WorkerLoop(w) \/ WorkerDies(w)
      PROVE  StepsMove(i)
  <2>1. CASE WorkerTakesLock(w)
    <3>1. /\ wjob' = wjob
          /\ \A v \in Workers \ {w} : wstep'[v] = wstep[v]
          /\ wstep[w] = "none" /\ wstep'[w] \in {"none", "start"}
      BY <1>0, <2>1 DEF WorkerTakesLock, TryAcquireJobLock, Goto, QueueTypeOK, ProcTypeOK
    <3>2. MayMove(i, "none", "start")
      BY DEF MayMove, SettleSteps, ChargedSteps, EndSteps, ExhaustSteps
    <3> QED BY <3>1, <3>2 DEF StepsMove
  <2>2. CASE WorkerLoop(w) \/ WorkerDies(w)
    <3>1. /\ \A v \in Workers \ {w} : wjob'[v] = wjob[v] /\ wstep'[v] = wstep[v]
          /\ wstep'[w] = "none"
      BY <1>0, <2>2
      DEF WorkerLoop, WorkerDies, Reserve, RequeueAfter, Ack, ReleaseLock, AfterQueueCall,
          WorkerCrash, Goto, QueueTypeOK, ProcTypeOK
    <3> QED BY <3>1 DEF StepsMove
  <2> QED BY <1>3, <2>1, <2>2
<1>4. ASSUME NEW w \in Workers, Process(w) PROVE StepsMove(i)
  <2>1. /\ wpc[w] = "processing" /\ UNCHANGED <<upstream, sub, client, rec>>
    BY <1>4 DEF Process, ProcessStart, ProcessRead, ProcessPoll, ProcessTransition,
      ProcessIndex, ProcessRelease, SettleRead, SettleCapture, SettleMark,
      SettleRecordFailure, ExhaustRelease, ExhaustReleaseFailed, ExhaustFail,
      ProcessRecheck, At
  <2>2. J(w) \in Jobs
    BY <1>0, <2>1, WorkerHasJob
  <2>3. PICK j \in Jobs : j = J(w)
    BY <2>2
  <2>4. ASSUME NEW step \in ProcessSteps \union {"ack", "requeue"}, Next_(w, step),
               step \in {"ack", "requeue"} \/ MayMove(j, wstep[w], step)
        PROVE  StepsMove(i)
    BY <1>0, <2>1, <2>3, <2>4, OneMoves
  <2>5. Next_(w, "requeue") => StepsMove(i)
    BY <2>4
  <2>6. ReadFails(w) => Next_(w, "requeue")
    BY DEF ReadFails, Next_
  <2> DEFINE May(t) == t \in ProcessSteps \union {"ack", "requeue"} /\
                         (t \in {"ack", "requeue"} \/ MayMove(j, wstep[w], t))
  <2>7. ASSUME NEW t, May(t), Next_(w, t) PROVE StepsMove(i)
    BY <2>4, <2>7
  <2>8. CASE ProcessStart(w)
    <3>1. /\ wstep[w] = "start"
          /\ \/ Next_(w, IF job[j].status = "settling" THEN "settle" ELSE "read")
             \/ ReadFails(w)
      BY <2>3, <2>8 DEF ProcessStart, At
    <3>2. May(IF job[j].status = "settling" THEN "settle" ELSE "read")
      BY <3>1 DEF MayMove, ProcessSteps, SettleSteps, ChargedSteps, EndSteps,
          ExhaustSteps, Failed
    <3> QED BY <2>5, <2>6, <2>7, <3>1, <3>2
  <2>9. CASE ProcessRead(w)
    <3>1. /\ wstep[w] = "read"
          /\ Next_(w, AfterRead(job[j])) \/ ReadFails(w)
      BY <2>3, <2>9 DEF ProcessRead, At
    <3>2. May(AfterRead(job[j]))
      BY <3>1 DEF MayMove, ProcessSteps, SettleSteps, ChargedSteps, EndSteps,
          ExhaustSteps, Failed, AfterRead, Settled
    <3> QED BY <2>5, <2>6, <2>7, <3>1, <3>2
  <2>10. CASE ProcessPoll(w)
    <3>1. /\ wstep[w] \in {"poll", "poll_running"}
          /\ \/ \E b \in BOOLEAN : Next_(w, AfterPoll(upstream[j], b))
             \/ Return(w, "requeue")
      BY <2>3, <2>10 DEF ProcessPoll, At
    <3>2. \A b \in BOOLEAN : May(AfterPoll(upstream[j], b))
      BY <3>1 DEF MayMove, ProcessSteps, SettleSteps, ChargedSteps, EndSteps,
          ExhaustSteps, Failed, AfterPoll
    <3>3. Return(w, "requeue") => Next_(w, "requeue")
      BY DEF Next_
    <3> QED BY <2>5, <2>7, <3>1, <3>2, <3>3
  <2>11. CASE ProcessTransition(w)
    <3>1. PICK to \in {"running", "indexing", "settling", "failed", "cancelled"} :
            /\ wstep[w] = to
            /\ Next_(w, AfterTransition(to)) \/ Next_(w, "requeue")
      BY <2>11 DEF ProcessTransition, At
    <3>2. May(AfterTransition(to))
      BY <3>1 DEF MayMove, ProcessSteps, SettleSteps, ChargedSteps, EndSteps,
          ExhaustSteps, Failed, AfterTransition
    <3> QED BY <2>5, <2>7, <3>1, <3>2
  <2>12. CASE ProcessIndex(w)
    <3>1. /\ wstep[w] = "index"
          /\ \/ Next_(w, "requeue") \/ Next_(w, "settling")
             \/ Next_(w, "failed") /\ ~ReliableIndexing
      <4>1. CASE Fault("output_missing") /\ Next_(w, "requeue")
        BY <2>12, <4>1 DEF ProcessIndex, At
      <4>2. CASE Fault("output_invalid") /\ Next_(w, "failed")
        BY <2>12, <4>2 DEF ProcessIndex, At, ReliableIndexing, Fault
      <4>3. ASSUME NEW success \in 0..Items, NEW out \in {"ok", "state_conflict", "error"},
                   ReplaceBatchImageItemsForJob(j, success, out),
                   Next_(w, CASE out = "ok"             -> "settling"
                              [] out = "state_conflict" -> "requeue"
                              [] out = "error"          -> "failed")
            PROVE  \/ Next_(w, "requeue") \/ Next_(w, "settling")
                   \/ Next_(w, "failed") /\ ~ReliableIndexing
        <5>1. CASE out = "error"
          <6>1. ~ReliableIndexing
            BY <4>3, <5>1
            DEF ReplaceBatchImageItemsForJob, Commits, RollsBack, ReliableIndexing
          <6> QED BY <4>3, <5>1, <6>1
        <5> QED BY <4>3, <5>1
      <4>4. wstep[w] = "index"
        BY <2>12 DEF ProcessIndex, At
      <4> QED BY <2>3, <2>12, <4>1, <4>2, <4>3, <4>4 DEF ProcessIndex
    <3>2. May("settling") /\ (~ReliableIndexing => May("failed"))
      BY <3>1 DEF MayMove, ProcessSteps, SettleSteps, ChargedSteps, EndSteps,
          ExhaustSteps, Failed
    <3> QED BY <2>5, <2>7, <3>1, <3>2
  <2>13. CASE ProcessRelease(w)
    <3>1. Next_(w, "ack") \/ Next_(w, "requeue")
      BY <2>13 DEF ProcessRelease, At
    <3> QED BY <2>4, <3>1
  <2>14. CASE SettleRead(w)
    <3>1. /\ wstep[w] = "settle" /\ job' = job
          /\ Next_(w, AfterSettleRead(j)) \/ ReadFails(w)
      BY <2>3, <2>14 DEF SettleRead, At
    <3>2. Covered(j) => ~(Price * job[j].success > Hold[j])
      <4> DEFINE a == Price * job[j].success
      <4>1. a \in Amounts
        BY <1>0, PriceIsAmount, TypeParts
      <4>2. Covered(j) <=> a <= Hold[j]
        BY DEF Covered
      <4> HIDE DEF a
      <4>3. a \in Int /\ Hold[j] \in Int
        BY <4>1, LedgerAssumption
      <4>4. Covered(j) => ~(a > Hold[j])
        BY <4>2, <4>3
      <4> QED BY <4>4 DEF a
    <3>3. May(AfterSettleRead(j))
      <4> DEFINE b == Price * job[j].success > Hold[j]
      <4>1. \/ AfterSettleRead(j) \in {"ack", "requeue"}
            \/ AfterSettleRead(j) = "exhaust_release" /\ Spent(j)'
            \/ AfterSettleRead(j) = IF b THEN "fail_exceeds" ELSE "capture"
        BY <3>1 DEF AfterSettleRead, RetryExhausted, Spent
      <4>2. Covered(j) => ~b
        BY <3>2
      <4> HIDE DEF b
      <4> QED BY <3>1, <4>1, <4>2 DEF MayMove, ProcessSteps, SettleSteps, ChargedSteps, EndSteps,
          ExhaustSteps, Failed
    <3> QED BY <2>5, <2>6, <2>7, <3>1, <3>3
  <2>15. CASE SettleCapture(w)
    <3>1. /\ wstep[w] = "capture"
          /\ Next_(w, "mark") \/ Next_(w, "fail_billing")
      BY <2>15 DEF SettleCapture, At
    <3>2. May("mark") /\ May("fail_billing")
      BY <3>1 DEF MayMove, ProcessSteps, SettleSteps, ChargedSteps, EndSteps,
          ExhaustSteps, Failed
    <3> QED BY <2>7, <3>1, <3>2
  <2>16. CASE SettleMark(w)
    <3>1. Next_(w, "ack") \/ Next_(w, "requeue")
      BY <2>16 DEF SettleMark, At
    <3> QED BY <2>4, <3>1
  <2>17. CASE SettleRecordFailure(w)
    <3>1. /\ wstep[w] \in {"fail_exceeds", "fail_billing"}
          /\ \/ Next_(w, "exhaust_release") /\ Spent(j)'
             \/ Next_(w, "recheck") \/ Next_(w, "requeue")
      BY <2>3, <2>17 DEF SettleRecordFailure, At, Spent
    <3>2. (Spent(j)' => May("exhaust_release")) /\ May("recheck")
      BY <3>1 DEF MayMove, ProcessSteps, SettleSteps, ChargedSteps, EndSteps,
          ExhaustSteps, Failed
    <3> QED BY <2>5, <2>7, <3>1, <3>2
  <2>18. CASE ExhaustRelease(w)
    <3>1. wstep[w] = "exhaust_release"
      BY <2>18 DEF ExhaustRelease, At
    <3>2. PICK ok \in BOOLEAN : /\ releaseBatchImageBalanceHold(j, ok)
                                /\ Next_(w, IF ok THEN "exhaust_fail"
                                            ELSE "exhaust_release_failed")
      BY <2>3, <2>18 DEF ExhaustRelease
    <3>3. ok => ReleaseRecordedOf(j)'
      BY <3>2, ReleaseEffect DEF ReleaseRecordedOf
    <3>4. May(IF ok THEN "exhaust_fail" ELSE "exhaust_release_failed")
      BY <3>1, <3>3 DEF MayMove, ProcessSteps, SettleSteps, ChargedSteps, EndSteps,
          ExhaustSteps, Failed
    <3> QED BY <2>7, <3>2, <3>4
  <2>19. CASE ExhaustReleaseFailed(w) \/ ExhaustFail(w)
    <3>1. Next_(w, "recheck") \/ Next_(w, "requeue")
      BY <2>19 DEF ExhaustReleaseFailed, ExhaustFail, At
    <3>2. May("recheck")
      BY <2>19 DEF MayMove, ProcessSteps, SettleSteps, ChargedSteps, EndSteps,
          ExhaustSteps, Failed
    <3> QED BY <2>5, <2>7, <3>1, <3>2
  <2>20. CASE ProcessRecheck(w)
    <3>1. Next_(w, "ack") \/ Next_(w, "requeue")
      BY <2>6, <2>20 DEF ProcessRecheck, At
    <3> QED BY <2>4, <3>1
  <2> QED BY <1>4, <2>8, <2>9, <2>10, <2>11, <2>12, <2>13, <2>14, <2>15, <2>16, <2>17, <2>18,
        <2>19, <2>20 DEF Process
<1>5. CASE UNCHANGED vars
  BY <1>1, <1>5 DEF vars, procVars, queueVars
<1> QED BY <1>2, <1>3, <1>4, <1>5 DEF Next, Worker


-----------------------------------------------------------------------------
(* The second layer is inductive.                                             *)

\* Records are not taken back; a release that is recorded with its hold refunds it.
RecordsGrow(j) ==
    /\ \A op \in Ops : /\ Claimed(op, j) => Claimed(op, j)'
                       /\ <<op, j>> \in moved => <<op, j>> \in moved'
    /\ Claimed("release", j)' /\ ~Claimed("release", j) =>
         Hold[j] = 0 \/ ~Claimed("hold", j) \/ Refunded(j)'
    /\ Refunded(j)' /\ ~Refunded(j) => Claimed("release", j)' /\ ~Claimed("release", j)

LEMMA RecordsGrowOn ==
    ASSUME LedgerTypeOK, [LedgerNext]_ledgerVars, NEW j \in Jobs
    PROVE  RecordsGrow(j)
<1>1. CASE UNCHANGED <<claims, moved>>
  BY <1>1 DEF RecordsGrow, Claimed, Refunded
<1>2. ASSUME NEW c \in Claim, ClaimStep(c) PROVE RecordsGrow(j)
  <2>1. ~Claimed(c.op, c.job) /\ claims' = claims \union {c}
    BY <1>2, ClaimIsNew
  <2>2. \A op \in Ops : Claimed(op, j) => Claimed(op, j)'
    BY <2>1 DEF Claimed
  <2>3. \/ moved' = moved
        \/ moved' = moved \union {<<c.op, c.job>>}
    BY <1>2 DEF ClaimStep, OnlyClaims, Reserves, Captures, Releases, Moves, money
  <2>4. CASE c.op = "release" /\ c.job = j
    <3>1. Hold[j] = 0 \/ ~Claimed("hold", j) \/ Refunded(j)'
      BY <1>2, <2>4 DEF ClaimStep, Reserves, Captures, Releases, Moves, Refunded
    <3>2. ~Claimed("release", j) /\ Claimed("release", j)'
      BY <2>1, <2>4 DEF Claimed
    <3> QED BY <2>2, <2>3, <3>1, <3>2 DEF RecordsGrow
  <2>5. CASE ~(c.op = "release" /\ c.job = j)
    <3>1. Claimed("release", j)' => Claimed("release", j)
      BY <2>1, <2>5 DEF Claimed
    <3>2. Refunded(j)' => Refunded(j)
      BY <2>3, <2>5 DEF Refunded
    <3> QED BY <2>2, <2>3, <3>1, <3>2 DEF RecordsGrow
  <2> QED BY <2>4, <2>5
<1> QED BY <1>1, <1>2, LedgerCases DEF ledgerVars, deductUsageBillingBalance

\* What a step does to a job, its handlers and its workers.
JobSteps(j) == /\ RowMoves(j) /\ RowStays(j) /\ HandlersStay(j) /\ RecordsMove(j)
               /\ StepsMove(j) /\ RecordsGrow(j)

LEMMA BurnedStep ==
    ASSUME NEW j \in Jobs, RowKnows(j), WorkersKnow(j), BurnedKnows(j), JobSteps(j)
    PROVE  BurnedKnows(j)'
<1> SUFFICES ASSUME Claimed("release", j)', ~Refunded(j)'
             PROVE  ~job'[j].provider /\ (Failed(j)' \/ sub'[j] \in Aborting \union {"done"})
  BY DEF BurnedKnows
<1>1. CASE Claimed("release", j)
  <2>1. ~job[j].provider /\ (Failed(j) \/ sub[j] \in Aborting \union {"done"})
    BY <1>1 DEF BurnedKnows, JobSteps, RecordsGrow, Refunded, Ops
  <2> QED BY <2>1 DEF JobSteps, RowMoves, HandlersStay, Aborting
<1>2. CASE ~Claimed("release", j)
  <2>1. /\ Hold[j] > 0 /\ UNCHANGED job /\ Releasing(j)
        /\ Hold[j] = 0 \/ ~Claimed("hold", j)
    BY <1>2 DEF JobSteps, RecordsMove, RecordsGrow
  <2>0. PastIndexing(j) \/ sub[j] \in Aborting
    BY <2>1 DEF Releasing, WorkersKnow, SettleSteps, PastIndexing, Failed
  <2>2. ~HoldTaken(j)
    BY <2>1, LedgerAssumption DEF HoldTaken
  <2>3. ~job[j].provider /\ (PastIndexing(j) => Failed(j))
    BY <2>2 DEF RowKnows, PastIndexing, Failed
  <2>4. Failed(j)' <=> Failed(j)
    BY <2>1 DEF Failed
  <2> QED BY <2>0, <2>1, <2>3, <2>4 DEF JobSteps, HandlersStay
<1> QED BY <1>1, <1>2

LEMMA SettlingStep ==
    ASSUME NEW j \in Jobs, RowKnows(j), WorkersKnow(j), SettlingKnows(j), JobSteps(j)
    PROVE  SettlingKnows(j)'
<1> USE DEF JobSteps
<1>1. job[j].status \in Indexed => upstream[j] = "succeeded"
  BY DEF SettlingKnows, Indexed
<1>2. /\ upstream[j] = "succeeded" => upstream'[j] = "succeeded"
      /\ upstream[j] = "failed" => upstream'[j] = "failed"
  BY DEF HandlersStay
<1>3. ReleaseRecordedOf(j) => ReleaseRecordedOf(j)'
  BY DEF RecordsGrow, ReleaseRecordedOf, Ops
<1>4. job'[j].status \in Indexed => upstream'[j] = "succeeded"
  BY <1>1, <1>2 DEF RowMoves, SettlingKnows
<1>5. ASSUME ~Failed(j), PastIndexing(j), Failed(j)', ReliableIndexing
      PROVE  ReleaseRecordedOf(j)
  <2>1. job[j].status \in Settled /\ job'[j].status \notin Settled
    BY <1>5 DEF PastIndexing, Failed, Settled
  <2>2. PICK u \in Workers : wjob[u] = j /\ wstep[u] \in {"failed", "exhaust_fail"}
    BY <2>1 DEF RowMoves
  <2>3. upstream[j] = "succeeded"
    BY <1>1, <2>1 DEF Settled, Indexed
  <2> QED BY <1>5, <2>2, <2>3 DEF SettlingKnows
<1>6. ASSUME NEW v \in Workers, wjob'[v] = j
      PROVE  /\ wstep'[v] \in {"indexing", "index", "settling"} => upstream'[j] = "succeeded"
             /\ wstep'[v] = "failed" /\ ReliableIndexing => upstream'[j] = "failed"
             /\ wstep'[v] \in SettleSteps => job'[j].provider
             /\ wstep'[v] = "exhaust_fail" => ReleaseRecordedOf(j)'
             /\ wstep'[v] \in SettleSteps /\ Failed(j)' /\ ReliableIndexing
                  => ReleaseRecordedOf(j)'
  <2>1. CASE wstep'[v] = "none"
    BY <2>1 DEF SettleSteps
  <2>2. CASE wjob[v] = j /\ wstep'[v] = wstep[v]
    <3>1. wstep[v] \in SettleSteps => job'[j].provider /\ PastIndexing(j)
      BY <2>2 DEF SettlingKnows, WorkersKnow, RowMoves
    <3>2. wstep[v] \in SettleSteps /\ Failed(j)' /\ ReliableIndexing => ReleaseRecordedOf(j)
      BY <1>5, <2>2, <3>1 DEF SettlingKnows
    <3> QED BY <1>2, <1>3, <2>2, <3>1, <3>2 DEF SettlingKnows
  <2>3. CASE wjob[v] = j /\ MayMove(j, wstep[v], wstep'[v])
    <3>1. wstep'[v] \in {"indexing", "index", "settling"} => upstream[j] = "succeeded"
      BY <2>3 DEF MayMove, SettlingKnows
    <3>2. wstep'[v] = "failed" /\ ReliableIndexing => upstream[j] = "failed"
      BY <2>3 DEF MayMove
    <3>3. wstep'[v] = "exhaust_fail" => ReleaseRecordedOf(j)'
      BY <2>3 DEF MayMove
    <3>4. ASSUME wstep'[v] \in SettleSteps
          PROVE  /\ job[j].provider /\ PastIndexing(j)
                 /\ Failed(j) /\ ReliableIndexing => ReleaseRecordedOf(j)
      <4>1. CASE wstep[v] \in SettleSteps
        BY <2>3, <4>1 DEF SettlingKnows, WorkersKnow
      <4>2. CASE job[j].status = "settling"
        BY <4>2 DEF RowKnows, PastIndexing, Failed
      <4> QED BY <2>3, <3>4, <4>1, <4>2 DEF MayMove
    <3>5. wstep'[v] \in SettleSteps => job'[j].provider
      BY <3>4 DEF RowMoves
    <3>6. wstep'[v] \in SettleSteps /\ Failed(j)' /\ ReliableIndexing => ReleaseRecordedOf(j)'
      BY <1>3, <1>5, <3>4
    <3> QED BY <1>2, <3>1, <3>2, <3>3, <3>5, <3>6
  <2> QED BY <1>6, <2>1, <2>2, <2>3 DEF StepsMove
<1> QED BY <1>4, <1>6 DEF SettlingKnows, Indexed

LEMMA SpentStep ==
    ASSUME NEW j \in Jobs, SpentKnows(j), JobSteps(j)
    PROVE  SpentKnows(j)'
BY DEF SpentKnows, JobSteps, StepsMove, MayMove, RowMoves, ExhaustSteps

LEMMA RefundStep ==
    ASSUME NEW j \in Jobs, SubKnows(j), RowKnows(j), RefundedKnows(j), SpentKnows(j),
           RefundKnows(j), JobSteps(j)
    PROVE  RefundKnows(j)'
<1> SUFFICES ASSUME Refunded(j)', job'[j].provider PROVE Failed(j)' \/ Spent(j)'
  BY DEF RefundKnows
<1> USE DEF JobSteps
<1>1. CASE Refunded(j) /\ job[j].provider
  BY <1>1 DEF RefundKnows, RowMoves
<1>2. CASE Refunded(j) /\ ~job[j].provider
  <2>1. sub[j] = "record" /\ ~Failed(j)
    BY <1>2 DEF RowMoves
  <2> QED BY <1>2, <2>1 DEF RefundedKnows, RowKnows, PastIndexing, Failed, Aborting
<1>3. CASE ~Refunded(j)
  <2>1. UNCHANGED job /\ Releasing(j)
    BY <1>3 DEF RecordsGrow, RecordsMove
  <2>2. sub[j] \notin Aborting
    BY <2>1 DEF SubKnows
  <2>3. Failed(j) \/ Spent(j)
    BY <2>1, <2>2 DEF Releasing, SpentKnows, ExhaustSteps
  <2> QED BY <2>3 DEF RowMoves
<1> QED BY <1>1, <1>2, <1>3

LEMMA HeldChargeStep ==
    ASSUME NEW j \in Jobs, RowKnows(j), SettlingKnows(j), ChargeHeld(j), HoldClaimMovesMoney,
           JobSteps(j)
    PROVE  ChargeHeld(j)'
<1> SUFFICES ASSUME Charged(j)' PROVE <<"hold", j>> \in moved
  BY DEF ChargeHeld, JobSteps, RecordsGrow, Ops
<1>1. CASE Charged(j)
  BY <1>1 DEF ChargeHeld
<1>2. CASE ~Charged(j)
  <2>1. Hold[j] > 0 /\ \E w \in Workers : wjob[w] = j /\ wstep[w] = "capture"
    BY <1>2 DEF JobSteps, RecordsMove
  <2>2. HoldTaken(j)
    BY <2>1 DEF SettlingKnows, SettleSteps, RowKnows
  <2>3. Claimed("hold", j)
    BY <2>1, <2>2, LedgerAssumption DEF HoldTaken
  <2> QED BY <2>1, <2>3 DEF HoldClaimMovesMoney
<1> QED BY <1>1, <1>2

LEMMA ChargeStep ==
    ASSUME TypeOK, NEW j \in Jobs, RowKnows(j), WorkersKnow(j), AloneKnows(j),
           OneWorkerPerJob, MovesArePositive', BurnedKnows(j)', SettlingKnows(j),
           SettlingKnows(j)', SpentKnows(j), ChargeKnows(j), JobSteps(j)
    PROVE  ChargeKnows(j)'
<1> SUFFICES ASSUME j \notin MayLapse, Charged(j)'
    PROVE  /\ job'[j].status \in Settled \/ (Failed(j)' /\ Refunded(j)' /\ Spent(j)')
           /\ Covered(j)'
           /\ \A v \in Workers : wjob'[v] = j =>
                /\ wstep'[v] \in ChargedSteps \union EndSteps
                /\ wstep'[v] = "exhaust_fail" => Refunded(j)'
  BY DEF ChargeKnows, Settled
<1> USE DEF JobSteps
<1>0. Hold[j] > 0 /\ Hold[j] # 0
  <2>1. Hold[j] > 0
    BY DEF MovesArePositive, Charged
  <2> QED BY <2>1, LedgerAssumption
<1>1. ASSUME NEW v \in Workers, wjob'[v] = j, wstep'[v] = "exhaust_fail"
      PROVE  Refunded(j)'
  <2>1. job'[j].provider /\ ReleaseRecordedOf(j)'
    BY <1>1 DEF SettlingKnows, SettleSteps
  <2> QED BY <1>0, <2>1 DEF ReleaseRecordedOf, BurnedKnows
<1>2. CASE Charged(j)
  <2>1. /\ job[j].status \in Settled \/ (Failed(j) /\ Refunded(j) /\ Spent(j))
        /\ Covered(j)
        /\ \A v \in Workers : wjob[v] = j =>
             /\ wstep[v] \in ChargedSteps \union EndSteps
             /\ wstep[v] = "exhaust_fail" => Refunded(j)
    BY <1>2 DEF ChargeKnows, Settled
  <2>2. Refunded(j) => Refunded(j)'
    BY DEF RecordsGrow, Refunded, Ops
  <2>3. job'[j].status \in Settled \/ (Failed(j)' /\ Refunded(j)' /\ Spent(j)')
    <3>1. CASE Failed(j) /\ Refunded(j) /\ Spent(j)
      BY <2>2, <3>1 DEF RowMoves
    <3>2. CASE job[j].status \in Settled /\ job'[j].status \notin Settled
      <4>1. job'[j].status = "failed"
        BY <3>2 DEF RowMoves
      <4>2. PICK v \in Workers : wjob[v] = j /\ wstep[v] \in {"failed", "exhaust_fail"}
        BY <3>2 DEF RowMoves
      <4>3. wstep[v] = "exhaust_fail"
        BY <2>1, <4>2 DEF ChargedSteps, EndSteps
      <4>4. Refunded(j) /\ Spent(j)
        BY <2>1, <4>2, <4>3 DEF SpentKnows, ExhaustSteps
      <4> QED BY <2>2, <4>1, <4>4 DEF RowMoves, Failed
    <3> QED BY <2>1, <3>1, <3>2
  <2>4. Covered(j)'
    <3>1. job[j].status \notin {"none", "indexing"}
      BY <2>1 DEF Settled, Failed
    <3> QED BY <2>1, <3>1 DEF RowStays, Covered
  <2>5. ASSUME NEW v \in Workers, wjob'[v] = j
        PROVE  wstep'[v] \in ChargedSteps \union EndSteps
    <3>1. CASE wstep'[v] = "none"
      BY <3>1 DEF ChargedSteps
    <3>2. CASE wjob[v] = j /\ wstep'[v] = wstep[v]
      BY <2>1, <3>2
    <3>3. CASE wjob[v] = j /\ MayMove(j, wstep[v], wstep'[v])
      BY <2>1, <3>3 DEF MayMove
    <3> QED BY <2>5, <3>1, <3>2, <3>3 DEF StepsMove
  <2> QED BY <1>1, <2>3, <2>4, <2>5
<1>3. CASE ~Charged(j)
  <2>1. UNCHANGED job /\ Covered(j)
    BY <1>3 DEF RecordsMove
  <2>2. PICK w \in Workers, step \in {"mark", "fail_billing"} :
          /\ wpc[w] = "processing" /\ wjob[w] = j /\ wstep[w] = "capture"
          /\ WorkerMoves(w, step)
    BY <1>3 DEF RecordsMove
  <2>3. job[j].status = "settling"
    BY <2>2 DEF AloneKnows, SettleSteps
  <2>4. Covered(j)'
    BY <2>1 DEF Covered
  <2>5. ASSUME NEW v \in Workers, wjob'[v] = j
        PROVE  wstep'[v] \in ChargedSteps
    <3>1. CASE v = w
      BY <2>2, <3>1 DEF WorkerMoves, ChargedSteps
    <3>2. CASE v # w
      <4>1. wjob[v] = j /\ wstep'[v] = wstep[v]
        BY <2>2, <2>5, <3>2 DEF WorkerMoves
      <4>2. wpc[v] # "processing"
        BY <2>2, <3>2, <4>1 DEF OneWorkerPerJob, Critical
      <4>3. wstep[v] = "none"
        BY <4>2, TypeParts DEF ProcTypeOK
      <4> QED BY <4>1, <4>3 DEF ChargedSteps
    <3> QED BY <3>1, <3>2
  <2> QED BY <1>1, <2>1, <2>3, <2>4, <2>5 DEF Settled
<1> QED BY <1>2, <1>3

BillKnows(j) == /\ BurnedKnows(j) /\ SettlingKnows(j) /\ SpentKnows(j) /\ RefundKnows(j)
                /\ ChargeHeld(j) /\ ChargeKnows(j)

EveryBillKnown == \A j \in Jobs : BillKnows(j)

LEMMA BillStep ==
    ASSUME PipelineInv, PipelineInv', EveryBillKnown, [Next]_vars
    PROVE  EveryBillKnown' /\ \A j \in Jobs : JobSteps(j)
<1>1. /\ TypeOK /\ Recorded /\ LedgerTypeOK /\ HoldClaimMovesMoney
      /\ EveryJobKnown /\ OneWorkerPerJob /\ MovesArePositive' /\ [LedgerNext]_ledgerVars
  BY StoreStep DEF PipelineInv, StepOK, TypeOK, Recorded
<1>2. ASSUME NEW j \in Jobs PROVE JobSteps(j)
  BY <1>1, RowsMove, RowsStay, HandlersStayPut, RecordsMoveOn, StepsMoveOn, RecordsGrowOn
  DEF JobSteps
<1>3. ASSUME NEW j \in Jobs PROVE BillKnows(j)'
  <2>1. /\ SubKnows(j) /\ RowKnows(j) /\ WorkersKnow(j) /\ AloneKnows(j)
        /\ RefundedKnows(j) /\ BillKnows(j) /\ JobSteps(j)
    BY <1>1, <1>2 DEF EveryJobKnown, Knows, EveryBillKnown
  <2>2. BurnedKnows(j)' /\ SettlingKnows(j)'
    BY <2>1, BurnedStep, SettlingStep DEF BillKnows
  <2>3. SpentKnows(j)' /\ RefundKnows(j)'
    BY <2>1, SpentStep, RefundStep DEF BillKnows
  <2>4. ChargeHeld(j)' /\ ChargeKnows(j)'
    BY <1>1, <2>1, <2>2, HeldChargeStep, ChargeStep DEF BillKnows
  <2> QED BY <2>2, <2>3, <2>4 DEF BillKnows
<1> QED BY <1>2, <1>3 DEF EveryBillKnown

LEMMA BillInit == Init => EveryBillKnown
<1> SUFFICES ASSUME Init, NEW j \in Jobs PROVE BillKnows(j)
  BY DEF EveryBillKnown
<1>1. ~Claimed("release", j) /\ ~Charged(j) /\ ~Refunded(j)
  BY DEF Init, LedgerInit, Claimed, Charged, Refunded
<1>2. job[j].status = "none" /\ \A w \in Workers : wstep[w] = "none"
  BY DEF Init, RepoInit, NoRow
<1> QED
  BY <1>1, <1>2 DEF BillKnows, BurnedKnows, SettlingKnows, SpentKnows, RefundKnows,
      ChargeHeld, ChargeKnows, SettleSteps, ExhaustSteps

LEMMA BillInvariant == Spec => []EveryBillKnown
<1>1. PipelineInv /\ PipelineInv' /\ EveryBillKnown /\ [Next]_vars => EveryBillKnown'
  BY BillStep
<1> QED BY <1>1, BillInit, PipelineInvariant, PTL DEF Spec

-----------------------------------------------------------------------------
(* What the pipeline promises about a charge, without any assumption on what  *)
(* fails, dies or loses its reply.                                            *)

(* A job that ended as failed or cancelled keeps no charge, unless the lock of *)
(* its worker may lapse: if its settlement was charged and then given up, the *)
(* charge was given back before the job failed (batch_image_settlement.go).   *)
THEOREM FailedJobsKeepNoCharge == Spec => []FailedKeepsNoCharge
<1>1. EveryBillKnown => FailedKeepsNoCharge
  BY DEF EveryBillKnown, BillKnows, ChargeKnows, FailedKeepsNoCharge, Failed, Charged, Refunded
<1> QED BY <1>1, BillInvariant, PTL

(* After the capture the row goes nowhere but to completed, and its items are *)
(* not counted again, until the retries of the settlement are used up.        *)
THEOREM ChargesStand == Spec => ChargeStands
<1> DEFINE Stands == \A j \in Jobs : <<"capture", j>> \in moved /\ ~GivenUp(j)' =>
                       /\ job'[j].success = job[j].success
                       /\ job'[j].status \in {"settling", "completed", "output_deleted"}
<1>1. PipelineInv /\ PipelineInv' /\ EveryBillKnown /\ EveryBillKnown' /\ [Next]_vars
        => Stands
  <2> SUFFICES ASSUME PipelineInv, PipelineInv', EveryBillKnown, EveryBillKnown', [Next]_vars,
                      NEW j \in Jobs, Charged(j), ~GivenUp(j)'
               PROVE  /\ job'[j].success = job[j].success
                      /\ job'[j].status \in {"settling", "completed", "output_deleted"}
    BY DEF Charged
  <2>1. JobSteps(j)
    BY BillStep
  <2>2. j \notin MayLapse /\ ~Spent(j)' /\ ~Spent(j)
    BY <2>1 DEF GivenUp, JobSteps, RowMoves
  <2>3. Charged(j)'
    BY <2>1 DEF JobSteps, RecordsGrow, Charged, Ops
  <2>4. job'[j].status \in {"settling", "completed", "output_deleted"}
    BY <2>2, <2>3 DEF EveryBillKnown, BillKnows, ChargeKnows
  <2>5. job[j].status \in {"settling", "completed", "output_deleted"}
    BY <2>2 DEF EveryBillKnown, BillKnows, ChargeKnows
  <2>6. job'[j].success = job[j].success
    BY <2>1, <2>5 DEF JobSteps, RowStays
  <2> QED BY <2>4, <2>6
<1>2. PipelineInv /\ PipelineInv' /\ EveryBillKnown /\ EveryBillKnown' /\ [Next]_vars
        => [Stands]_job
  BY <1>1
<1>3. []PipelineInv /\ []EveryBillKnown /\ [][Next]_vars => [][Stands]_job
  BY <1>2, PTL
<1> QED BY <1>3, PipelineInvariant, BillInvariant, PTL DEF Spec, ChargeStands


-----------------------------------------------------------------------------
(* The refinement of the abstract hold.  Of the steps of the ledger only      *)
(* three move a hold, and each moves one job's.                               *)

\* No other job's holds, captures and releases move with j's.
OnlyMoves(op, j) == moved' = moved \union {<<op, j>>}

LEMMA OthersPhase ==
    ASSUME NEW op, NEW j \in Jobs, OnlyMoves(op, j), NEW i \in Jobs, i # j
    PROVE  Phase(i)' = Phase(i)
BY DEF OnlyMoves, Phase, Outstanding, Closed

LEMMA PhaseMoves ==
    ASSUME NEW op, NEW j \in Jobs, OnlyMoves(op, j), NEW from, NEW to,
           Phase(j) = from, Phase(j)' = to
    PROVE  [i \in Jobs |-> Phase(i)]' = [[i \in Jobs |-> Phase(i)] EXCEPT ![j] = to]
<1> DEFINE ph == [i \in Jobs |-> Phase(i)]
<1>1. ph' = [i \in Jobs |-> Phase(i)']
  OBVIOUS
<1>2. \A i \in Jobs \ {j} : Phase(i)' = Phase(i)
  BY OthersPhase
<1> HIDE DEF ph
<1>3. ph = [i \in Jobs |-> Phase(i)]
  BY DEF ph
<1> QED BY <1>1, <1>2, <1>3

LEMMA OneRow ==
    ASSUME Recorded, EveryJobKnown, [Next]_vars
    PROVE  UNCHANGED job \/ \E j \in Jobs : OtherRows(j)
<1>0. JobTypeOK /\ QueueTypeOK /\ ProcTypeOK
  BY TypeParts DEF Recorded
<1>1. ASSUME NEW j \in Jobs,
             \/ Submit(j) \/ SubmitHeartbeat(j) \/ SubmitDies(j)
             \/ Client(j) \/ ClientDies(j)
             \/ Recovery(j) \/ RecoveryDies(j) \/ RowAges(j)
             \/ ProviderRuns(j) \/ ProviderEnds(j) \/ Maintenance(j)
      PROVE  OtherRows(j)
  BY <1>1, SubmitFootprint, ClientFootprint, RecoveryFootprint
  DEF Submit, Client, ClientStep, Recovery, HandlerOf
<1>2. ASSUME NEW w \in Workers,
             ProcessTransition(w) \/ ProcessIndex(w) \/ SettleMark(w) \/
             SettleRecordFailure(w) \/ ExhaustReleaseFailed(w) \/ ExhaustFail(w)
      PROVE  UNCHANGED job \/ OtherRows(J(w))
  <2>1. J(w) \in Jobs
    BY <1>0, <1>2, WorkerHasJob DEF ProcessTransition, ProcessIndex, SettleMark,
        SettleRecordFailure, ExhaustReleaseFailed, ExhaustFail, At
  <2>2. CASE ProcessTransition(w) \/ ExhaustFail(w)
    BY <1>0, <2>1, <2>2, TransitionEffect DEF ProcessTransition, ExhaustFail, Statuses,
        ActiveStatuses, TerminalStatuses
  <2>3. CASE ProcessIndex(w)
    BY <1>0, <2>1, <2>3, ReplaceEffect DEF ProcessIndex
  <2>4. CASE SettleMark(w)
    BY <1>0, <2>1, <2>4, SettledEffect DEF SettleMark
  <2>5. CASE SettleRecordFailure(w) \/ ExhaustReleaseFailed(w)
    BY <1>0, <2>1, <2>5, SettlementFailedEffect DEF SettleRecordFailure, ExhaustReleaseFailed
  <2> QED BY <1>2, <2>2, <2>3, <2>4, <2>5
<1>3. ASSUME NEW w \in Workers,
             ProcessTransition(w) \/ ProcessIndex(w) \/ SettleMark(w) \/
             SettleRecordFailure(w) \/ ExhaustReleaseFailed(w) \/ ExhaustFail(w)
      PROVE  J(w) \in Jobs
  BY <1>0, <1>3, WorkerHasJob DEF ProcessTransition, ProcessIndex, SettleMark,
      SettleRecordFailure, ExhaustReleaseFailed, ExhaustFail, At
<1>4. ASSUME NEW w \in Workers,
             ProcessStart(w) \/ ProcessRead(w) \/ ProcessPoll(w) \/
             ProcessRelease(w) \/ SettleRead(w) \/ SettleCapture(w) \/
             ExhaustRelease(w) \/ ProcessRecheck(w) \/ WorkerTakesLock(w) \/
             WorkerLoop(w) \/ WorkerDies(w)
      PROVE  UNCHANGED job
  BY <1>4 DEF ProcessStart, ProcessRead, ProcessPoll, ProcessRelease, SettleRead,
      SettleCapture, ExhaustRelease, ProcessRecheck, WorkerTakesLock, WorkerLoop,
      WorkerDies, Outside
<1>5. CASE UNCHANGED vars
  BY <1>5 DEF vars
<1> QED BY <1>1, <1>2, <1>3, <1>4, <1>5 DEF Next, Worker, Process

(* Who refunds a charged job, or charges a refunded one, has given it up.     *)
LEMMA SecondCloseIsGivenUp ==
    ASSUME PipelineInv, PipelineInv', EveryBillKnown, [Next]_vars, NEW j \in Jobs
    PROVE  /\ Charged(j) /\ ~Refunded(j) /\ Refunded(j)' => GivenUp(j)
           /\ Refunded(j) /\ ~Charged(j) /\ Charged(j)' => GivenUp(j)
<1>1. JobSteps(j)
  BY BillStep
<1>2. BillKnows(j) /\ SubKnows(j) /\ RowKnows(j) /\ AloneKnows(j)
  BY DEF EveryBillKnown, PipelineInv, EveryJobKnown, Knows
<1>3. ASSUME Charged(j), ~Refunded(j), Refunded(j)', j \notin MayLapse PROVE Spent(j)
  <2>1. Releasing(j)
    BY <1>1, <1>3 DEF JobSteps, RecordsGrow, RecordsMove
  <2>2. job[j].status \in {"settling", "completed", "output_deleted"}
    BY <1>2, <1>3 DEF BillKnows, ChargeKnows
  <2>3. job[j].provider /\ ~Failed(j)
    BY <1>2, <2>2 DEF RowKnows, Failed
  <2> QED BY <1>2, <2>1, <2>3 DEF Releasing, SubKnows, BillKnows, SpentKnows, ExhaustSteps
<1>4. ASSUME Refunded(j), ~Charged(j), Charged(j)', j \notin MayLapse PROVE Spent(j)
  <2>1. PICK w \in Workers : wjob[w] = j /\ wstep[w] = "capture"
    BY <1>1, <1>4 DEF JobSteps, RecordsMove
  <2>2. job[j].provider /\ job[j].status = "settling"
    BY <1>2, <1>4, <2>1 DEF BillKnows, SettlingKnows, AloneKnows, SettleSteps
  <2> QED BY <1>2, <1>4, <2>2 DEF BillKnows, RefundKnows, Failed
<1> QED BY <1>3, <1>4 DEF GivenUp

LEMMA MoneyMoves ==
    ASSUME LedgerTypeOK, LedgerTypeOK', HoldClaimMovesMoney, NoPhantomRelease,
           \A i \in Jobs : ChargeHeld(i) /\ ChargeHeld(i)',
           NEW c \in Claim, NEW j \in Jobs, c.job = j,
           Reserves(c) \/ Captures(c) \/ Releases(c),
           {i \in Jobs : GivenUp(i)}' = {i \in Jobs : GivenUp(i)},
           Charged(j) /\ ~Refunded(j) /\ Refunded(j)' => GivenUp(j),
           Refunded(j) /\ ~Charged(j) /\ Charged(j)' => GivenUp(j)
    PROVE  AbstractHold!Next
<1> DEFINE ph == [i \in Jobs |-> Phase(i)]
<1>1. /\ OnlyMoves(c.op, j) /\ Hold[j] > 0 /\ Hold[j] \in Nat /\ c.actual \in Nat
      /\ <<c.op, j>> \notin moved
  <2>1. ~Claimed(c.op, j)
    BY DEF Reserves, Captures, Releases, Moves
  <2> QED
    BY <2>1, LedgerAssumption
    DEF Reserves, Captures, Releases, Moves, OnlyMoves, Claim, HoldClaimMovesMoney
<1>2. CASE Reserves(c)
  <2>1. Phase(j) = "none" /\ Phase(j)' = "held"
    BY <1>1, <1>2 DEF Reserves, OnlyMoves, Phase, Outstanding, Closed, ChargeHeld, Charged,
        NoPhantomRelease
  <2>2. ph[j] = "none" /\ ph' = [ph EXCEPT ![j] = "held"]
    BY <1>1, <2>1, PhaseMoves
  <2>3. frozen' = frozen + Hold[j] /\ revenue' = revenue
    BY <1>2 DEF Reserves, Moves, LedgerTypeOK
  <2> QED BY <2>2, <2>3 DEF AbstractHold!Next, AbstractHold!Take, AbstractHold!To
<1>3. CASE Captures(c)
  <2>1. <<"hold", j>> \in moved
    BY <1>1, <1>3 DEF Captures, OnlyMoves, ChargeHeld, Charged
  <2>2. /\ frozen' = frozen - Hold[j] /\ revenue' \in revenue..(revenue + Hold[j])
        /\ frozen >= Hold[j]
    BY <1>1, <1>3 DEF Captures, Moves, LedgerTypeOK
  <2>3. CASE ~Refunded(j)
    <3>1. Phase(j) = "held" /\ Phase(j)' = "charged"
      BY <1>1, <1>3, <2>1, <2>3 DEF Captures, OnlyMoves, Phase, Outstanding, Closed, Refunded
    <3>2. ph[j] = "held" /\ ph' = [ph EXCEPT ![j] = "charged"]
      BY <1>1, <3>1, PhaseMoves
    <3> QED BY <2>2, <3>2 DEF AbstractHold!Next, AbstractHold!Charge, AbstractHold!To
  <2>4. CASE Refunded(j)
    <3>1. Phase(j) = "refunded" /\ Phase(j)' = "both"
      BY <1>1, <1>3, <2>4 DEF Captures, OnlyMoves, Phase, Outstanding, Closed, Refunded
    <3>2. ph[j] = "refunded" /\ ph' = [ph EXCEPT ![j] = "both"]
      BY <1>1, <3>1, PhaseMoves
    <3>3. j \in {i \in Jobs : GivenUp(i)}
      BY <1>1, <1>3, <2>4 DEF Captures, OnlyMoves, Charged
    <3> QED
      BY <2>2, <3>2, <3>3 DEF AbstractHold!Next, AbstractHold!ChargeRefunded, AbstractHold!To
  <2> QED BY <2>3, <2>4
<1>4. CASE Releases(c)
  <2>1. <<"hold", j>> \in moved
    BY <1>1, <1>4 DEF Releases, HoldClaimMovesMoney
  <2>2. /\ frozen' = frozen - Hold[j] /\ revenue' = revenue
        /\ frozen >= Hold[j]
    BY <1>1, <1>4 DEF Releases, Moves, LedgerTypeOK
  <2>3. CASE ~Charged(j)
    <3>1. Phase(j) = "held" /\ Phase(j)' = "refunded"
      BY <1>1, <1>4, <2>1, <2>3 DEF Releases, OnlyMoves, Phase, Outstanding, Closed, Charged
    <3>2. ph[j] = "held" /\ ph' = [ph EXCEPT ![j] = "refunded"]
      BY <1>1, <3>1, PhaseMoves
    <3> QED BY <2>2, <3>2 DEF AbstractHold!Next, AbstractHold!Refund, AbstractHold!To
  <2>4. CASE Charged(j)
    <3>1. Phase(j) = "charged" /\ Phase(j)' = "both"
      BY <1>1, <1>4, <2>4 DEF Releases, OnlyMoves, Phase, Outstanding, Closed, Charged
    <3>2. ph[j] = "charged" /\ ph' = [ph EXCEPT ![j] = "both"]
      BY <1>1, <3>1, PhaseMoves
    <3>3. j \in {i \in Jobs : GivenUp(i)}
      BY <1>1, <1>4, <2>4 DEF Releases, OnlyMoves, Refunded
    <3> QED
      BY <2>2, <3>2, <3>3 DEF AbstractHold!Next, AbstractHold!RefundCharged, AbstractHold!To
  <2> QED BY <2>3, <2>4
<1> QED BY <1>2, <1>3, <1>4

(* Retries run out one job at a time, and not in a step that moves money.     *)
LEMMA GivingUp ==
    ASSUME PipelineInv, PipelineInv', EveryBillKnown, [Next]_vars
    PROVE  /\ UNCHANGED ledgerVars \/ UNCHANGED {i \in Jobs : GivenUp(i)}
           /\ \/ UNCHANGED {i \in Jobs : GivenUp(i)}
              \/ \E j \in Jobs : {i \in Jobs : GivenUp(i)}'
                                   = {i \in Jobs : GivenUp(i)} \union {j}
<1> DEFINE up == {i \in Jobs : GivenUp(i)}
<1>1. UNCHANGED job => up' = up
  BY DEF GivenUp, Spent
<1>2. UNCHANGED ledgerVars \/ UNCHANGED job
  BY MoneySteps DEF SubmitReserve, SubmitRelease, CancelRelease, RecoveryRelease,
      SettleCapture, ProcessRelease, ExhaustRelease
<1>3. ASSUME NEW j \in Jobs, OtherRows(j) PROVE up' = up \/ up' = up \union {j}
  <2>1. \A i \in Jobs \ {j} : GivenUp(i)' <=> GivenUp(i)
    BY <1>3 DEF OtherRows, GivenUp, Spent
  <2>2. GivenUp(j) => GivenUp(j)'
    BY BillStep DEF JobSteps, RowMoves, GivenUp
  <2> QED BY <2>1, <2>2
<1>4. UNCHANGED job \/ \E j \in Jobs : OtherRows(j)
  BY OneRow DEF PipelineInv, Recorded
<1> QED BY <1>1, <1>2, <1>3, <1>4

LEMMA HoldStep ==
    ASSUME PipelineInv, PipelineInv', EveryBillKnown, EveryBillKnown', [Next]_vars
    PROVE  [AbstractHold!Next]_(AbstractHold!holdVars)
<1> DEFINE ph == [i \in Jobs |-> Phase(i)]
           up == {i \in Jobs : GivenUp(i)}
<1>1. /\ LedgerTypeOK /\ LedgerTypeOK' /\ HoldClaimMovesMoney /\ NoPhantomRelease
      /\ [LedgerNext]_ledgerVars
      /\ \A i \in Jobs : ChargeHeld(i) /\ ChargeHeld(i)'
  BY StoreStep DEF PipelineInv, StepOK, TypeOK, EveryBillKnown, BillKnows
<1>2. CASE UNCHANGED <<moved, frozen, revenue>>
  <2>1. ph' = ph
    BY <1>2 DEF Phase, Outstanding, Closed
  <2>2. CASE up' = up
    BY <1>2, <2>1, <2>2 DEF AbstractHold!holdVars
  <2>3. ASSUME NEW j \in Jobs, up' = up \union {j} PROVE AbstractHold!Next
    BY <1>2, <2>1, <2>3 DEF AbstractHold!Next, AbstractHold!GiveUp
  <2> QED BY <2>2, <2>3, GivingUp
<1>3. ASSUME NEW c \in Claim, ClaimStep(c), ~UNCHANGED <<moved, frozen, revenue>>
      PROVE  AbstractHold!Next
  <2>1. PICK j \in Jobs : c.job = j
    BY DEF Claim
  <2>2. Reserves(c) \/ Captures(c) \/ Releases(c)
    BY <1>3 DEF ClaimStep, OnlyClaims, money
  <2>3. up' = up
    <3>1. ~UNCHANGED ledgerVars
      BY <1>3 DEF ledgerVars, money
    <3> QED BY <3>1, GivingUp
  <2> QED BY <1>1, <2>1, <2>2, <2>3, SecondCloseIsGivenUp, MoneyMoves
<1> QED
  BY <1>1, <1>2, <1>3, LedgerCases DEF ledgerVars, deductUsageBillingBalance

LEMMA HoldInit == Init => AbstractHold!Init
<1> SUFFICES ASSUME Init PROVE AbstractHold!Init
  OBVIOUS
<1>1. moved = {} /\ frozen = 0 /\ revenue = 0
  BY DEF Init, LedgerInit
<1>2. \A j \in Jobs : job[j].retry = 0
  BY DEF Init, RepoInit, NoRow
<1>3. ASSUME NEW j \in Jobs PROVE ~Spent(j)
  <2>1. ~(0 >= MaxRetries)
    BY RepoAssumption
  <2> QED BY <1>2, <2>1 DEF Spent
<1>4. {j \in Jobs : GivenUp(j)} = Jobs \intersect MayLapse
  BY <1>3 DEF GivenUp
<1> QED BY <1>1, <1>4 DEF AbstractHold!Init, Phase, Outstanding, Closed

(* Whatever submissions, cancels, recoveries and workers do to a job, in any  *)
(* order and with any faults, its hold is taken once and closed once, by a    *)
(* charge that it covers or by a full refund.  Only a job whose settlement    *)
(* was given up (failExhaustedSettlement does not ask whether it was charged) *)
(* or whose lock may lapse can be closed a second time, the other way round,  *)
(* out of what the user's other jobs have frozen.                             *)
THEOREM PipelineImplementsHold == Spec => ImplementsHold
<1>1. /\ PipelineInv /\ PipelineInv' /\ EveryBillKnown /\ EveryBillKnown' /\ [Next]_vars
           => [AbstractHold!Next]_(AbstractHold!holdVars)
  BY HoldStep
<1> QED
  BY <1>1, HoldInit, PipelineInvariant, BillInvariant, PTL
  DEF Spec, ImplementsHold, AbstractHold!Spec

-----------------------------------------------------------------------------
(* Nothing is forgotten.                                                      *)

(* A submitted job stays in the queue, or in the hands of the Submit that is  *)
(* about to put it there, until a worker has seen a final status: no requeue, *)
(* restart or second delivery drops it.                                       *)
THEOREM SubmittedStaysQueued ==
    ASSUME SubmissionsEnqueue, MayLapse = {}
    PROVE  Spec => []SubmittedIsQueued
<1>1. PipelineInv => SubmittedIsQueued
  BY DEF PipelineInv, EveryJobKnown, Knows, QueuedKnows, SubmittedIsQueued, Submitted
<1> QED BY <1>1, PipelineInvariant, PTL

(* A job leaves the queue only when its row has reached a final status, for   *)
(* any number of workers and whatever fails or dies while cancels and         *)
(* recoveries change the row that a worker has read.                          *)
THEOREM QueuedUntilTheEnd == Spec => QueuedUntilEnded
<1> DEFINE Leaves == \A j \in Jobs \ MayLapse :
                       j \in inflight /\ j \notin inflight' => IsTerminal(job[j].status)
<1>1. PipelineInv /\ [Next]_vars => Leaves
  <2> SUFFICES ASSUME PipelineInv, [Next]_vars,
                      NEW j \in Jobs \ MayLapse, j \in inflight, j \notin inflight'
               PROVE  IsTerminal(job[j].status)
    OBVIOUS
  <2>1. [QueueNext]_queueVars
    BY StoreStep DEF PipelineInv, StepOK
  <2>2. PICK w \in Workers : wpc[w] = "ack" /\ wjob[w] = j
    BY <2>1, HeldStep, TypeParts DEF PipelineInv
  <2> QED BY <2>2 DEF PipelineInv, EveryJobKnown, Knows, AloneKnows
<1>2. PipelineInv /\ [Next]_vars => [Leaves]_vars
  BY <1>1
<1> QED BY <1>2, PipelineInvariant, PTL DEF Spec, QueuedUntilEnded

(* Once the row names the provider's job, the hold is refunded by whoever      *)
(* finds that job ended, or by the owner's cancel: no failing submission,     *)
(* recovery or worker refunds a job that the provider still runs.             *)
THEOREM RecordedJobsEndFirst == Spec => []RecordedEndsBeforeRefund
<1>1. PipelineInv => RecordedEndsBeforeRefund
  BY DEF PipelineInv, EveryJobKnown, Knows, RefundedKnows, RowKnows, UpstreamKnows, StopKnows,
      RecordedEndsBeforeRefund, Refunded, PastIndexing, Ended
<1> QED BY <1>1, PipelineInvariant, PTL

-----------------------------------------------------------------------------
(* What is proved of the stores holds of the pipeline.                        *)

(* No interleaving of handlers, recoveries and workers creates or destroys    *)
(* money, records two settlements of one job, or refunds a hold that was not  *)
(* taken.                                                                     *)
THEOREM PipelineConservesMoney ==
    Spec => [](MoneyConserved /\ OneFingerprintPerRequest /\ NoPhantomRelease)
BY PipelineImplementsLedger, MoneyIsConserved, OneFingerprint, NoPhantom, PTL

(* No two workers process one job, no de-duplication key outlives its job's   *)
(* place in the queue, and a job whose beats are in time has only one place.  *)
THEOREM PipelineKeepsQueue ==
    Spec => [](OneWorkerPerJob /\ NeverLost /\ ExactlyOnePlace)
BY PipelineImplementsQueue, MutualExclusion, NeverLoses, OneCopy, PTL

-----------------------------------------------------------------------------
(* A user's only job, whatever becomes of its captures.  The pool holds the   *)
(* money of this job alone, so that a capture leaves nothing to release.      *)

\* A charge takes a hold that was taken and not given back.
ChargesHeld == \A j \in Jobs : Charged(j) => <<"hold", j>> \in moved /\ ~Refunded(j)

\* The pool of a user with one job holds that job's money.
LonePool(j) == frozen = IF Outstanding(j) THEN Hold[j] ELSE 0

LoneChargeKnows(j) == (j \notin MayLapse \/ ReliableIndexing) /\ Charged(j) =>
    /\ job[j].status \in {"settling", "completed", "output_deleted"}
    /\ Covered(j) /\ ~Claimed("release", j)
    /\ \A w \in Workers : wjob[w] = j =>
         /\ wstep[w] \notin {"exhaust_fail", "failed"}
         /\ j \notin MayLapse => wstep[w] \in ChargedSteps

LEMMA LoneJobStep ==
    ASSUME NEW j, Jobs = {j}, LedgerTypeOK, HoldClaimMovesMoney, NoPhantomRelease,
           ChargesHeld, LonePool(j), [LedgerNext]_ledgerVars
    PROVE  ChargesHeld' /\ LonePool(j)'
<1>1. CASE UNCHANGED <<moved, frozen>>
  BY <1>1 DEF ChargesHeld, LonePool, Outstanding, Closed, Charged, Refunded
<1>2. ASSUME NEW c \in Claim, ClaimStep(c), ~UNCHANGED <<moved, frozen>>
      PROVE  ChargesHeld' /\ LonePool(j)'
  <2>1. c.job = j /\ Hold[j] \in Nat
    BY LedgerAssumption DEF Claim
  <2>2. CASE Reserves(c)
    <3>1. <<"hold", j>> \notin moved
      BY <2>1, <2>2 DEF Reserves, Moves, HoldClaimMovesMoney
    <3> QED
      BY <2>1, <2>2, <3>1
      DEF Reserves, Moves, ChargesHeld, LonePool, Outstanding, Closed, Charged, Refunded,
          NoPhantomRelease
  <2>3. CASE Captures(c) \/ Releases(c)
    <3>1. Outstanding(j)
      BY <2>1, <2>3 DEF Captures, Releases, LonePool
    <3> QED
      BY <2>1, <2>3, <3>1
      DEF Captures, Releases, Moves, ChargesHeld, LonePool, Outstanding, Closed, Charged,
          Refunded
  <2> QED BY <1>2, <2>2, <2>3 DEF ClaimStep, OnlyClaims, money
<1> QED BY <1>1, <1>2, LedgerCases DEF ledgerVars, deductUsageBillingBalance

(* A release that is recorded has refunded the job, unless there was nothing  *)
(* to refund; none is recorded after the capture, whose pool is empty.        *)
LoneRecords(j) ==
    /\ \A op \in Ops : Claimed(op, j) => Claimed(op, j)'
    /\ Refunded(j) => Refunded(j)'
    /\ Claimed("release", j)' /\ ~Claimed("release", j) =>
         \/ Hold[j] = 0 \/ ~Claimed("hold", j)
         \/ Refunded(j)' /\ ~Charged(j)
    /\ Charged(j)' /\ ~Charged(j) =>
         /\ ~Refunded(j)
         /\ Claimed("release", j)' => Claimed("release", j)

LEMMA LoneRecordsKept ==
    ASSUME NEW j, Jobs = {j}, LedgerTypeOK, LonePool(j), [LedgerNext]_ledgerVars
    PROVE  LoneRecords(j)
<1>1. CASE UNCHANGED <<claims, moved>>
  BY <1>1 DEF LoneRecords, Claimed, Charged, Refunded
<1>2. ASSUME NEW c \in Claim, ClaimStep(c) PROVE LoneRecords(j)
  <2>1. c.job = j /\ c.op \in Ops /\ Hold[j] \in Nat
    BY LedgerAssumption DEF Claim
  <2>2. claims' = claims \union {c}
    BY <1>2 DEF ClaimStep, OnlyClaims, Reserves, Captures, Releases, Moves
  <2>3. /\ \A op \in Ops : Claimed(op, j) => Claimed(op, j)'
        /\ \A op \in Ops : op # c.op => (Claimed(op, j)' => Claimed(op, j))
    BY <2>2 DEF Claimed
  <2>4. CASE /\ OnlyClaims(c)
             /\ c.op = "release" => Hold[c.job] = 0 \/ ~Claimed("hold", c.job)
    <3>1. moved' = moved
      BY <2>4 DEF OnlyClaims, money
    <3> QED BY <2>1, <2>3, <2>4, <3>1 DEF LoneRecords, Charged, Refunded, Ops
  <2>5. CASE Reserves(c)
    <3>1. c.op = "hold" /\ moved' = moved \union {<<"hold", j>>}
      BY <2>1, <2>5 DEF Reserves, Moves
    <3> QED BY <2>3, <3>1 DEF LoneRecords, Charged, Refunded, Ops
  <2>6. CASE Captures(c) \/ Releases(c)
    <3>1. Outstanding(j)
      BY <2>1, <2>6 DEF Captures, Releases, LonePool
    <3>2. c.op \in {"capture", "release"} /\ moved' = moved \union {<<c.op, j>>}
      BY <2>1, <2>6 DEF Captures, Releases, Moves
    <3>3. ~Charged(j) /\ ~Refunded(j)
      BY <3>1 DEF Outstanding, Closed, Charged, Refunded
    <3> QED BY <2>3, <3>2, <3>3 DEF LoneRecords, Charged, Refunded, Ops
  <2> QED BY <1>2, <2>4, <2>5, <2>6 DEF ClaimStep
<1> QED BY <1>1, <1>2, LedgerCases DEF ledgerVars, deductUsageBillingBalance

LEMMA LoneChargeStep ==
    ASSUME TypeOK, NEW j \in Jobs, RowKnows(j), WorkersKnow(j), AloneKnows(j),
           OneWorkerPerJob, HoldClaimMovesMoney, MovesArePositive', ChargesHeld, ChargesHeld',
           BurnedKnows(j), SettlingKnows(j), LoneChargeKnows(j), JobSteps(j),
           LoneRecords(j)
    PROVE  LoneChargeKnows(j)'
<1> SUFFICES ASSUME j \notin MayLapse \/ ReliableIndexing, Charged(j)'
    PROVE  /\ job'[j].status \in Settled
           /\ Covered(j)' /\ ~Claimed("release", j)'
           /\ \A v \in Workers : wjob'[v] = j =>
                /\ wstep'[v] \notin {"exhaust_fail", "failed"}
                /\ j \notin MayLapse => wstep'[v] \in ChargedSteps
  BY DEF LoneChargeKnows, Settled
<1> USE DEF JobSteps
<1>0. Hold[j] > 0 /\ Hold[j] # 0
  <2>1. Hold[j] > 0
    BY DEF MovesArePositive, Charged
  <2> QED BY <2>1, LedgerAssumption
<1>1. CASE Charged(j)
  <2>1. /\ job[j].status \in Settled /\ Covered(j) /\ ~Claimed("release", j)
        /\ \A v \in Workers : wjob[v] = j =>
             /\ wstep[v] \notin {"exhaust_fail", "failed"}
             /\ j \notin MayLapse => wstep[v] \in ChargedSteps
    BY <1>1 DEF LoneChargeKnows, Settled
  <2>2. Claimed("hold", j)
    BY <1>1 DEF ChargesHeld, HoldClaimMovesMoney
  <2>3. ~Claimed("release", j)'
    BY <1>0, <1>1, <2>1, <2>2 DEF LoneRecords
  <2>4. job'[j].status \in Settled
    BY <2>1 DEF RowMoves
  <2>5. Covered(j)'
    BY <2>1 DEF RowStays, Covered, Settled
  <2>6. upstream[j] = "succeeded"
    BY <2>1 DEF SettlingKnows, Settled
  <2>7. ASSUME NEW v \in Workers, wjob'[v] = j
        PROVE  /\ wstep'[v] \notin {"exhaust_fail", "failed"}
               /\ j \notin MayLapse => wstep'[v] \in ChargedSteps
    <3>1. CASE wstep'[v] = "none"
      BY <3>1 DEF ChargedSteps
    <3>2. CASE wjob[v] = j /\ wstep'[v] = wstep[v]
      BY <2>1, <3>2
    <3>3. CASE wjob[v] = j /\ MayMove(j, wstep[v], wstep'[v])
      <4>1. wstep'[v] # "exhaust_fail"
        BY <1>0, <2>3, <3>3 DEF MayMove, ReleaseRecordedOf
      <4>2. wstep'[v] # "failed"
        BY <2>1, <2>6, <3>3 DEF MayMove, ChargedSteps
      <4> QED BY <2>1, <3>3, <4>1, <4>2 DEF MayMove
    <3> QED BY <2>7, <3>1, <3>2, <3>3 DEF StepsMove
  <2> QED BY <2>3, <2>4, <2>5, <2>7
<1>2. CASE ~Charged(j)
  <2>1. UNCHANGED job /\ Covered(j)
    BY <1>2 DEF RecordsMove
  <2>2. PICK w \in Workers, step \in {"mark", "fail_billing"} :
          /\ wpc[w] = "processing" /\ wjob[w] = j /\ wstep[w] = "capture"
          /\ WorkerMoves(w, step)
    BY <1>2 DEF RecordsMove
  <2>3. job[j].provider /\ PastIndexing(j)
    BY <2>2 DEF SettlingKnows, WorkersKnow, SettleSteps
  <2>4. ~Claimed("release", j) /\ ~Claimed("release", j)'
    BY <1>2, <2>3 DEF LoneRecords, BurnedKnows
  <2>5. ~ReleaseRecordedOf(j)
    BY <1>0, <2>4 DEF ReleaseRecordedOf
  <2>6. ~Failed(j)
    <3>1. CASE j \notin MayLapse
      BY <2>2, <3>1 DEF AloneKnows, SettleSteps, Failed
    <3>2. CASE ReliableIndexing
      BY <2>2, <2>5, <3>2 DEF SettlingKnows, SettleSteps
    <3> QED BY <3>1, <3>2
  <2>7. job[j].status \in Settled
    BY <2>3, <2>6 DEF PastIndexing, Failed, Settled
  <2>8. upstream[j] = "succeeded"
    BY <2>7 DEF SettlingKnows, Settled
  <2>9. Covered(j)'
    BY <2>1 DEF Covered
  <2>10. ASSUME NEW v \in Workers, wjob'[v] = j
         PROVE  /\ wstep'[v] \notin {"exhaust_fail", "failed"}
                /\ j \notin MayLapse => wstep'[v] \in ChargedSteps
    <3>1. CASE v = w
      BY <2>2, <3>1 DEF WorkerMoves, ChargedSteps
    <3>2. CASE v # w
      <4>1. wjob[v] = j /\ wstep'[v] = wstep[v]
        BY <2>2, <2>10, <3>2 DEF WorkerMoves
      <4>2. CASE j \notin MayLapse
        <5>1. wpc[v] # "processing"
          BY <2>2, <3>2, <4>1, <4>2 DEF OneWorkerPerJob, Critical
        <5>2. wstep[v] = "none"
          BY <5>1, TypeParts DEF ProcTypeOK
        <5> QED BY <4>1, <5>2 DEF ChargedSteps
      <4>3. CASE j \in MayLapse
        <5>1. ReliableIndexing
          BY <4>3
        <5> QED BY <2>5, <2>8, <4>1, <4>3, <5>1 DEF SettlingKnows
      <4> QED BY <4>2, <4>3
    <3> QED BY <3>1, <3>2
  <2> QED BY <2>1, <2>4, <2>7, <2>9, <2>10
<1> QED BY <1>1, <1>2

\* What is invariant of a user's only job.
LoneInv(j) == ChargesHeld /\ LonePool(j) /\ LoneChargeKnows(j)

LEMMA LoneStep ==
    ASSUME NEW j, Jobs = {j}, PipelineInv, PipelineInv', EveryBillKnown, LoneInv(j), [Next]_vars
    PROVE  LoneInv(j)'
<1>1. /\ TypeOK /\ LedgerTypeOK /\ HoldClaimMovesMoney /\ NoPhantomRelease
      /\ EveryJobKnown /\ OneWorkerPerJob /\ MovesArePositive' /\ [LedgerNext]_ledgerVars
  BY StoreStep DEF PipelineInv, StepOK, TypeOK
<1>2. ChargesHeld' /\ LonePool(j)'
  BY <1>1, LoneJobStep DEF LoneInv
<1>3. LoneRecords(j)
  BY <1>1, LoneRecordsKept DEF LoneInv
<1>4. JobSteps(j) /\ BillKnows(j)
  BY BillStep DEF EveryBillKnown
<1>5. RowKnows(j) /\ WorkersKnow(j) /\ AloneKnows(j)
  BY <1>1 DEF EveryJobKnown, Knows
<1>6. LoneChargeKnows(j)'
  BY <1>1, <1>2, <1>3, <1>4, <1>5, LoneChargeStep DEF LoneInv, BillKnows
<1> QED BY <1>2, <1>6 DEF LoneInv

LEMMA LoneInvariant ==
    ASSUME NEW i, Jobs = {i}
    PROVE  Spec => []LoneInv(i)
<1>1. Init => LoneInv(i)
  BY DEF Init, LedgerInit, LoneInv, ChargesHeld, LonePool, LoneChargeKnows, Outstanding, Charged
<1>2. PipelineInv /\ PipelineInv' /\ EveryBillKnown /\ LoneInv(i) /\ [Next]_vars => LoneInv(i)'
  BY LoneStep
<1> QED BY <1>1, <1>2, PipelineInvariant, BillInvariant, PTL DEF Spec

(* A user's only job has its hold closed once even where captures fail or     *)
(* hide that they committed, and locks lapse: after the capture the pool is   *)
(* empty, and the release of a settlement that was given up fails.            *)
THEOREM LoneHoldClosesOnce ==
    ASSUME NEW i, Jobs = {i}
    PROVE  Spec => []NoDoubleClose
<1>1. LoneInv(i) => NoDoubleClose
  BY DEF LoneInv, ChargesHeld, NoDoubleClose, Charged, Refunded
<1> QED BY <1>1, LoneInvariant, PTL

(* A user's only job is not failed once it is charged, although a capture     *)
(* that happened may report an error until the retries run out: the release   *)
(* of the exhausted settlement finds an empty pool and fails, and the job     *)
(* stays in settling.  Its lock may be lost, too, unless indexing can fail.   *)
THEOREM LoneFailedIsNotCharged ==
    ASSUME NEW i, Jobs = {i}, MayLapse = {} \/ ReliableIndexing
    PROVE  Spec => []FailedNotCharged
<1>1. LoneInv(i) => FailedNotCharged
  BY DEF LoneInv, LoneChargeKnows, FailedNotCharged, Charged
<1> QED BY <1>1, LoneInvariant, PTL

(* Under the same hypotheses it is completed or stays in settling, and its    *)
(* items are not counted again.                                               *)
THEOREM LoneChargeIsFinal ==
    ASSUME NEW i, Jobs = {i}, MayLapse = {} \/ ReliableIndexing
    PROVE  Spec => ChargedIsFinal
<1> DEFINE Final == \A j \in Jobs : <<"capture", j>> \in moved =>
                       /\ job'[j].success = job[j].success
                       /\ job'[j].status \in {"settling", "completed", "output_deleted"}
<1>1. PipelineInv /\ LoneInv(i) /\ LoneInv(i)' /\ [Next]_vars => Final
  <2> SUFFICES ASSUME PipelineInv, LoneInv(i), LoneInv(i)', [Next]_vars,
                      NEW j \in Jobs, Charged(j)
               PROVE  /\ job'[j].success = job[j].success
                      /\ job'[j].status \in {"settling", "completed", "output_deleted"}
    BY DEF Charged
  <2>1. TypeOK
    BY DEF PipelineInv
  <2>2. Charged(j)'
    BY <2>1, StoreStep, MovedStays DEF StepOK, TypeOK, Charged
  <2>3. /\ job[j].status \in {"settling", "completed", "output_deleted"}
        /\ job'[j].status \in {"settling", "completed", "output_deleted"}
    BY <2>2 DEF LoneInv, LoneChargeKnows
  <2>4. job'[j].success = job[j].success
    BY <2>1, <2>3, RowsStay DEF RowStays
  <2> QED BY <2>3, <2>4
<1>2. PipelineInv /\ LoneInv(i) /\ LoneInv(i)' /\ [Next]_vars => [Final]_job
  BY <1>1
<1>3. Spec => []LoneInv(i)
  BY LoneInvariant, PTL
<1>4. Spec => []PipelineInv
  BY PipelineInvariant, PTL
<1>5. []PipelineInv /\ []LoneInv(i) /\ [][Next]_vars => [][Final]_job
  BY <1>2, PTL
<1> QED BY <1>3, <1>4, <1>5, PTL DEF Spec, ChargedIsFinal
=============================================================================
