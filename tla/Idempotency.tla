----------------------------- MODULE Idempotency -----------------------------
(* IdempotencyCoordinator.Execute (service/idempotency.go): requests that   *)
(* carry the same scope and key, from their arrival to their answer.  Each  *)
(* call of the store is one action; between two of them other requests, the *)
(* renewal goroutine, the cleanup and the clock move on.                    *)
(*                                                                          *)
(* A request reads the clock once on arrival and uses that time for every   *)
(* comparison and every deadline of its claim, however late the call is.    *)
EXTENDS IdempotencyStore

CONSTANTS Detached,    \* requests with an ExecutionTimeout: their lease is renewed
          Oversized,   \* requests whose response is truncated when it is stored
          FailedRetryBackoff,
          MaxDelay,    \* how long after its arrival a request may still claim
          StoreErrors  \* TRUE: a call of the store may fail or lose its reply

ASSUME IdempotencyAssumption ==
    /\ Detached \subseteq Callers /\ Oversized \subseteq Callers
    /\ FailedRetryBackoff \in Nat \ {0}
    /\ MaxDelay \in Nat /\ MaxDelay < ProcessingTimeout /\ 2 * MaxDelay < TTL
    /\ StoreErrors \in BOOLEAN

VARIABLES pc,         \* the call each request makes next
          mem,        \* what it remembers between two calls
          answer,     \* what it answered
          replayOf    \* whose stored outcome it answered with

requestVars == <<pc, mem, answer, replayOf>>
vars == <<storeVars, requestVars>>

Memory == [at : Nat,          \* the time it last read
           expiresAt : Nat,   \* the expiry it will write
           own : Nat,         \* record.ID: the row it has claimed
           seen : Record \union {NoRecord},   \* existing: the row it has read
           promise : Int]     \* history: the expiry of a success stored at its arrival

Blank == [at |-> 0, expiresAt |-> 0, own |-> 0, seen |-> NoRecord, promise |-> 0]

Reclaiming == {"reclaim_expired", "reclaim_failed"}
Claiming == {"create", "get", "get_latest"} \union Reclaiming
ExecutingAt == {"execute", "succeed", "fail"}
Executing(r) == pc[r] \in ExecutingAt

Answers == {"none", "fresh", "replayed", "failed", "conflict", "in_progress",
            "backoff", "unavailable"}

TypeOK ==
    /\ StoreTypeOK
    /\ pc \in [Callers -> {"idle", "done"} \union Claiming \union ExecutingAt]
    /\ mem \in [Callers -> Memory]
    /\ answer \in [Callers -> Answers]
    /\ replayOf \in [Callers -> Callers \union {NoCaller}]

Init ==
    /\ StoreInit
    /\ pc = [r \in Callers |-> "idle"]
    /\ mem = [r \in Callers |-> Blank]
    /\ answer = [r \in Callers |-> "none"]
    /\ replayOf = [r \in Callers |-> NoCaller]

-----------------------------------------------------------------------------
Goto(r, l, m) ==
    /\ pc' = [pc EXCEPT ![r] = l]
    /\ mem' = [mem EXCEPT ![r] = m]
    /\ UNCHANGED <<answer, replayOf>>

\* Execute returns and its memory is gone.
Return(r, a, of) ==
    /\ pc' = [pc EXCEPT ![r] = "done"]
    /\ mem' = [mem EXCEPT ![r] = Blank]
    /\ answer' = [answer EXCEPT ![r] = a]
    /\ replayOf' = [replayOf EXCEPT ![r] = of]

Finish(r, a) == Return(r, a, NoCaller)

Acks == IF StoreErrors THEN {TRUE, FALSE} ELSE {TRUE}   \* FALSE: the reply is lost

LockedUntil(r) == mem[r].at + ProcessingTimeout

\* The claim of the row is written: execute, unless the reply was lost.
Claimed(r, id) == \E ack \in Acks :
    IF ack THEN Goto(r, "execute", [mem[r] EXCEPT !.own = id, !.seen = NoRecord])
    ELSE Finish(r, "unavailable")

\* Until when a stored success is to be replayed.
StoredUntil == IF record # NoRecord /\ record.status = "succeeded" THEN record.expires ELSE 0

\* time.Now() and the deadlines computed from it, on arrival.
Start(r) ==
    /\ pc[r] = "idle"
    /\ Goto(r, "create",
            [Blank EXCEPT
                !.at = now,
                !.expiresAt = now + TTL,
                !.promise = StoredUntil])
    /\ UNCHANGED storeVars

Create(r) ==
    /\ pc[r] = "create"
    /\ \/ /\ CreateProcessing(Fingerprint[r], LockedUntil(r), mem[r].expiresAt)
          /\ Claimed(r, lastId + 1)
       \/ /\ record # NoRecord
          /\ Goto(r, "get", mem[r])
          /\ UNCHANGED storeVars

\* The switch over the status of the row it has just read.
Decide(r) ==
    \/ /\ record.status = "succeeded"
       /\ IF record.body \in Oversized
          THEN Finish(r, "unavailable")   \* the stored JSON does not decode
          ELSE Return(r, "replayed", record.body)
    \/ record.status = "processing" /\ Finish(r, "in_progress")
    \/ /\ record.status = "failed_retryable"
       /\ IF record.locked > mem[r].at
          THEN Finish(r, "backoff")
          ELSE Goto(r, "reclaim_failed", [mem[r] EXCEPT !.seen = record])

\* What both reads check first: a missing row, and another fingerprint.
Mismatch(r) ==
    \/ record = NoRecord /\ Finish(r, "unavailable")
    \/ /\ record # NoRecord
       /\ record.fingerprint # Fingerprint[r]
       /\ Finish(r, "conflict")

SameRequest(r) == record # NoRecord /\ record.fingerprint = Fingerprint[r]

GetExisting(r) ==
    /\ pc[r] = "get"
    /\ \/ Mismatch(r)
       \/ /\ SameRequest(r)
          /\ IF record.expires <= mem[r].at
             THEN Goto(r, "reclaim_expired", [mem[r] EXCEPT !.seen = record])
             ELSE Decide(r)
    /\ UNCHANGED storeVars

ReclaimExpired(r) ==
    LET seen == mem[r].seen IN
    /\ pc[r] = "reclaim_expired"
    /\ \/ /\ TryReclaim(seen.id, seen.status, mem[r].at, LockedUntil(r), mem[r].expiresAt)
          /\ Claimed(r, seen.id)
       \/ /\ ~Reclaimable(seen.id, seen.status, mem[r].at)
          /\ Goto(r, "get_latest", [mem[r] EXCEPT !.seen = NoRecord])
          /\ UNCHANGED storeVars

\* Wrong variant: the second read trusts the fingerprint of the first.
GetLatestTrusting(r) ==
    /\ pc[r] = "get_latest"
    /\ IF record = NoRecord THEN Finish(r, "unavailable") ELSE Decide(r)
    /\ UNCHANGED storeVars

\* The second read, after a lost race; the expiry is not looked at again.
GetLatest(r) ==
    /\ pc[r] = "get_latest"
    /\ Mismatch(r) \/ (SameRequest(r) /\ Decide(r))
    /\ UNCHANGED storeVars

ReclaimFailed(r) ==
    LET seen == mem[r].seen IN
    /\ pc[r] = "reclaim_failed"
    /\ \/ /\ TryReclaim(seen.id, "failed_retryable", mem[r].at, LockedUntil(r), mem[r].expiresAt)
          /\ Claimed(r, seen.id)
       \/ /\ ~Reclaimable(seen.id, "failed_retryable", mem[r].at)
          /\ Finish(r, "in_progress")
          /\ UNCHANGED storeVars

\* execute(ctx) returns, and the clock is read again.
Execute(r) ==
    /\ pc[r] = "execute"
    /\ \E ok \in BOOLEAN :
        Goto(r, IF ok THEN "succeed" ELSE "fail",
             [mem[r] EXCEPT !.at = now,
                            !.expiresAt = IF r \in Detached THEN now + TTL ELSE @])
    /\ UNCHANGED storeVars

Succeed(r) ==
    /\ pc[r] = "succeed"
    /\ MarkSucceeded(mem[r].own, r, mem[r].expiresAt)
    /\ \E ack \in Acks : Finish(r, IF ack THEN "fresh" ELSE "unavailable")

\* The error of the execution is the answer whatever becomes of the row.
Fail(r) ==
    /\ pc[r] = "fail"
    /\ MarkFailedRetryable(mem[r].own, mem[r].at + FailedRetryBackoff, mem[r].expiresAt)
    /\ Finish(r, "failed")

\* A call of the store fails without effect, or the response cannot be
\* marshalled: a row it has claimed stays "processing".
StoreFails(r) ==
    /\ StoreErrors
    /\ \/ pc[r] \in Claiming \union {"succeed"} /\ Finish(r, "unavailable")
       \/ pc[r] = "fail" /\ Finish(r, "failed")
    /\ UNCHANGED storeVars

\* The ticker of renewProcessingLease; it runs until Execute returns.
Renew(r) ==
    /\ r \in Detached
    /\ Executing(r)
    /\ ExtendProcessingLock(mem[r].own, Fingerprint[r], now + ProcessingTimeout, now + TTL)
    /\ UNCHANGED requestVars

\* The process dies; nobody hears an answer.
Crash(r) ==
    /\ pc[r] \in Claiming \union ExecutingAt
    /\ Finish(r, "none")
    /\ UNCHANGED storeVars

CleanupOnce == DeleteExpired /\ UNCHANGED requestVars

\* What is assumed of durations: a request claims within MaxDelay of its
\* arrival, and an execution ends, or its renewal arrives, before the record
\* it has claimed expires.
Tick ==
    /\ now < MaxTime
    /\ \A r \in Callers : pc[r] \in Claiming => now < mem[r].at + MaxDelay
    /\ \A r \in Callers : Executing(r) /\ Exists(mem[r].own) => now + 1 < record.expires
    /\ now' = now + 1
    /\ UNCHANGED <<record, lastId, requestVars>>

Next ==
    \/ \E r \in Callers :
        \/ Start(r) \/ Create(r) \/ GetExisting(r) \/ ReclaimExpired(r)
        \/ GetLatest(r) \/ ReclaimFailed(r) \/ Execute(r) \/ Succeed(r)
        \/ Fail(r) \/ StoreFails(r) \/ Renew(r) \/ Crash(r)
    \/ CleanupOnce
    \/ Tick

Spec == Init /\ [][Next]_vars

-----------------------------------------------------------------------------
\* At most one request of a key executes at a time, although claims expire,
\* are taken over from dead requests and are deleted by the cleanup.
OneExecutor ==
    \A r, s \in Callers : Executing(r) /\ Executing(s) => r = s

\* A replayed response is the outcome of a request for the same thing, even
\* if the row was deleted and created again by another between two reads.
AnswersMatch ==
    \A r \in Callers : answer[r] = "replayed" =>
        replayOf[r] \in Callers /\ Fingerprint[replayOf[r]] = Fingerprint[r]

\* A request that arrives while a success is stored does not execute before
\* that success has expired, whatever requests that arrived earlier, failed
\* executions and the cleanup do to the row meanwhile.
LaterRequestsReplay ==
    \A r \in Callers : Executing(r) => mem[r].promise <= now
=============================================================================
