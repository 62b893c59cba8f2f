-------------------------- MODULE IdempotencyProofs --------------------------
(* Theorems about Idempotency, for any requests, fingerprints and times     *)
(* that satisfy its assumptions.                                            *)
EXTENDS Idempotency, IdempotencyStoreProofs, TLAPS

\* The row of an executing request is its own, is being processed and has not
\* expired.
ExecutorHoldsRow ==
    \A r \in Callers : Executing(r) =>
        /\ Exists(mem[r].own)
        /\ record.status = "processing"
        /\ record.fingerprint = Fingerprint[r]
        /\ record.expires > now

\* A claim is made within MaxDelay of the arrival it is dated with.
ClaimsInTime ==
    \A r \in Callers : pc[r] \in Claiming =>
        /\ mem[r].at <= now /\ now <= mem[r].at + MaxDelay
        /\ mem[r].expiresAt = mem[r].at + TTL

\* Who is about to take a row over arrived before the lock of whoever
\* executes under it runs out, so that the lock turns it away.
LockOutlivesReclaimers ==
    \A r, s \in Callers : Executing(r) /\ pc[s] \in Reclaiming =>
        mem[s].at < record.locked

\* Whoever is about to take a row over has read one of its own request, and a
\* row keeps the fingerprint of its id.
SeenIsOwn ==
    /\ record # NoRecord => record.id <= lastId
    /\ \A r \in Callers : pc[r] \in Reclaiming =>
        /\ mem[r].seen \in Record
        /\ mem[r].seen.id <= lastId
        /\ mem[r].seen.fingerprint = Fingerprint[r]
        /\ Exists(mem[r].seen.id) => record.fingerprint = Fingerprint[r]

-----------------------------------------------------------------------------
(* Types.                                                                    *)

Labels == {"idle", "done"} \union Claiming \union ExecutingAt

RequestTypeOK ==
    /\ pc \in [Callers -> Labels]
    /\ mem \in [Callers -> Memory]
    /\ answer \in [Callers -> Answers]
    /\ replayOf \in [Callers -> Callers \union {NoCaller}]

\* TypeOK is the types of the store and of the requests.
LEMMA TypeParts == TypeOK <=> StoreTypeOK /\ RequestTypeOK
  BY DEF TypeOK, RequestTypeOK, Labels

\* Nothing a request forgets is out of its type.
LEMMA BlankIsMemory == Blank \in Memory
  BY DEF Blank, Memory

\* Nor is what it remembers on arrival.
LEMMA ArrivalIsMemory ==
  ASSUME NEW t \in Nat, NEW e \in Nat, NEW p \in Int
  PROVE  [Blank EXCEPT !.at = t, !.expiresAt = e, !.promise = p] \in Memory
  BY BlankIsMemory DEF Memory

\* A request that goes on keeps the types.
LEMMA GotoTypes ==
  ASSUME RequestTypeOK, NEW r \in Callers, NEW l \in Labels, NEW m \in Memory,
         Goto(r, l, m)
  PROVE  RequestTypeOK'
  BY DEF RequestTypeOK, Goto

\* A request that returns keeps the types.
LEMMA ReturnTypes ==
  ASSUME RequestTypeOK, NEW r \in Callers, NEW a \in Answers,
         NEW of \in Callers \union {NoCaller}, Return(r, a, of)
  PROVE  RequestTypeOK'
  BY BlankIsMemory DEF RequestTypeOK, Return, Labels

\* A request that finishes keeps the types.
LEMMA FinishTypes ==
  ASSUME RequestTypeOK, NEW r \in Callers, NEW a \in Answers, Finish(r, a)
  PROVE  RequestTypeOK'
  BY ReturnTypes DEF Finish

\* So does one whose claim is written.
LEMMA ClaimedTypes ==
  ASSUME RequestTypeOK, NEW r \in Callers, NEW id \in Nat, Claimed(r, id)
  PROVE  RequestTypeOK'
  <1> DEFINE m == [mem[r] EXCEPT !.own = id, !.seen = NoRecord]
  <1>1. m \in Memory
    BY DEF RequestTypeOK, Memory
  <1>2. CASE Goto(r, "execute", m)
    BY <1>1, <1>2, GotoTypes DEF Labels, ExecutingAt
  <1>3. CASE Finish(r, "unavailable")
    BY <1>3, FinishTypes DEF Answers
  <1>4. QED
    BY <1>2, <1>3 DEF Claimed

\* The deadlines a request computes are times.
LEMMA DeadlinesAreTimes ==
  ASSUME TypeOK, NEW r \in Callers
  PROVE  /\ mem[r].at \in Nat /\ mem[r].expiresAt \in Nat /\ mem[r].own \in Nat
         /\ LockedUntil(r) \in Nat
         /\ mem[r].at + FailedRetryBackoff \in Nat
         /\ now + TTL \in Nat /\ now + ProcessingTimeout \in Nat
  BY StoreAssumption, IdempotencyAssumption
  DEF TypeOK, StoreTypeOK, Memory, LockedUntil

\* A decision on the row just read keeps the types.
LEMMA DecideTypes ==
  ASSUME TypeOK, NEW r \in Callers, SameRequest(r), Decide(r)
  PROVE  RequestTypeOK'
  <1>1. RequestTypeOK /\ record \in Record
    BY TypeParts DEF SameRequest, StoreTypeOK
  <1>2. [mem[r] EXCEPT !.seen = record] \in Memory
    BY <1>1 DEF RequestTypeOK, Memory
  <1>3. record.body \in Callers \union {NoCaller}
    BY <1>1 DEF Record
  <1>4. CASE \E a \in {"unavailable", "in_progress", "backoff"} : Finish(r, a)
    BY <1>1, <1>4, FinishTypes DEF Answers
  <1>5. CASE Return(r, "replayed", record.body)
    BY <1>1, <1>3, <1>5, ReturnTypes DEF Answers
  <1>6. CASE Goto(r, "reclaim_failed", [mem[r] EXCEPT !.seen = record])
    BY <1>1, <1>2, <1>6, GotoTypes DEF Labels, Claiming, Reclaiming
  <1>7. QED
    BY <1>4, <1>5, <1>6 DEF Decide

\* The types are inductive.
LEMMA TypeStep == TypeOK /\ [Next]_vars => TypeOK'
  <1> SUFFICES ASSUME TypeOK, [Next]_vars PROVE StoreTypeOK' /\ RequestTypeOK'
    BY TypeParts, PTL
  <1>0. StoreTypeOK /\ RequestTypeOK
    BY TypeParts
  <1>kept. UNCHANGED storeVars => StoreTypeOK'
    BY <1>0 DEF storeVars, StoreTypeOK
  <1>1. ASSUME NEW r \in Callers, Start(r) PROVE StoreTypeOK' /\ RequestTypeOK'
    <2> DEFINE m == [Blank EXCEPT !.at = now, !.expiresAt = now + TTL,
                                  !.promise = StoredUntil]
    <2>1. m \in Memory
      <3>1. StoredUntil \in Int
        BY <1>0 DEF StoredUntil, StoreTypeOK, Record
      <3>2. now \in Nat /\ now + TTL \in Nat
        BY <1>0, StoreAssumption DEF StoreTypeOK
      <3>3. QED
        BY <3>1, <3>2, ArrivalIsMemory
    <2>2. QED
      BY <1>0, <1>1, <1>kept, <2>1, GotoTypes DEF Start, Labels, Claiming
  <1>2. ASSUME NEW r \in Callers, Create(r) PROVE StoreTypeOK' /\ RequestTypeOK'
    <2>1. lastId + 1 \in Nat /\ mem[r] \in Memory
      BY <1>0 DEF StoreTypeOK, RequestTypeOK
    <2>2. CASE CreateProcessing(Fingerprint[r], LockedUntil(r), mem[r].expiresAt)
               /\ Claimed(r, lastId + 1)
      BY <1>0, <2>1, <2>2, DeadlinesAreTimes, CreateTypes, ClaimedTypes
    <2>3. CASE Goto(r, "get", mem[r]) /\ UNCHANGED storeVars
      BY <1>0, <1>kept, <2>1, <2>3, GotoTypes DEF Labels, Claiming
    <2>4. QED
      BY <1>2, <2>2, <2>3 DEF Create
  <1>mismatch. ASSUME NEW r \in Callers, Mismatch(r) PROVE RequestTypeOK'
    BY <1>0, <1>mismatch, FinishTypes DEF Mismatch, Answers
  <1>3. ASSUME NEW r \in Callers, GetExisting(r) PROVE StoreTypeOK' /\ RequestTypeOK'
    <2>1. StoreTypeOK'
      BY <1>3, <1>kept DEF GetExisting
    <2>2. CASE SameRequest(r) /\ Goto(r, "reclaim_expired",
        [mem[r] EXCEPT !.seen = record])
      <3>1. [mem[r] EXCEPT !.seen = record] \in Memory
        BY <1>0, <2>2 DEF RequestTypeOK, Memory, SameRequest, StoreTypeOK
      <3>2. QED
        BY <1>0, <2>1, <2>2, <3>1, GotoTypes DEF Labels, Claiming, Reclaiming
    <2>3. QED
      BY <1>3, <1>mismatch, <2>1, <2>2, DecideTypes DEF GetExisting
  <1>4. ASSUME NEW r \in Callers, ReclaimExpired(r) PROVE StoreTypeOK' /\ RequestTypeOK'
    <2> DEFINE seen == mem[r].seen
    <2>1. CASE TryReclaim(seen.id, seen.status, mem[r].at, LockedUntil(r),
        mem[r].expiresAt)
               /\ Claimed(r, seen.id)
      <3>1. seen.id \in Nat
        BY <1>0, <2>1 DEF TryReclaim, Reclaimable, Exists, StoreTypeOK, Record
      <3>2. QED
        BY <1>0, <2>1, <3>1, DeadlinesAreTimes, ReclaimTypes, ClaimedTypes
    <2>2. CASE Goto(r, "get_latest",
        [mem[r] EXCEPT !.seen = NoRecord]) /\ UNCHANGED storeVars
      <3>1. [mem[r] EXCEPT !.seen = NoRecord] \in Memory
        BY <1>0 DEF RequestTypeOK, Memory
      <3>2. QED
        BY <1>0, <1>kept, <2>2, <3>1, GotoTypes DEF Labels, Claiming
    <2>3. QED
      BY <1>4, <2>1, <2>2 DEF ReclaimExpired
  <1>5. ASSUME NEW r \in Callers, GetLatest(r) PROVE StoreTypeOK' /\ RequestTypeOK'
    BY <1>5, <1>kept, <1>mismatch, DecideTypes DEF GetLatest
  <1>6. ASSUME NEW r \in Callers, ReclaimFailed(r) PROVE StoreTypeOK' /\ RequestTypeOK'
    <2> DEFINE seen == mem[r].seen
    <2>1. CASE TryReclaim(seen.id, "failed_retryable", mem[r].at, LockedUntil(r),
        mem[r].expiresAt)
               /\ Claimed(r, seen.id)
      <3>1. seen.id \in Nat
        BY <1>0, <2>1 DEF TryReclaim, Reclaimable, Exists, StoreTypeOK, Record
      <3>2. QED
        BY <1>0, <2>1, <3>1, DeadlinesAreTimes, ReclaimTypes, ClaimedTypes
    <2>2. CASE Finish(r, "in_progress") /\ UNCHANGED storeVars
      BY <1>0, <1>kept, <2>2, FinishTypes DEF Answers
    <2>3. QED
      BY <1>6, <2>1, <2>2 DEF ReclaimFailed
  <1>7. ASSUME NEW r \in Callers, Execute(r) PROVE StoreTypeOK' /\ RequestTypeOK'
    <2> DEFINE m == [mem[r] EXCEPT !.at = now,
                        !.expiresAt = IF r \in Detached THEN now + TTL ELSE @]
    <2>1. m \in Memory
      BY <1>0, DeadlinesAreTimes DEF StoreTypeOK, RequestTypeOK, Memory
    <2>2. PICK ok \in BOOLEAN : Goto(r, IF ok THEN "succeed" ELSE "fail", m)
      BY <1>7 DEF Execute
    <2>3. (IF ok THEN "succeed" ELSE "fail") \in Labels
      BY DEF Labels, ExecutingAt
    <2>4. QED
      BY <1>0, <1>7, <1>kept, <2>1, <2>2, <2>3, GotoTypes DEF Execute
  <1>8. ASSUME NEW r \in Callers, Succeed(r) PROVE StoreTypeOK' /\ RequestTypeOK'
    <2>1. \E a \in Answers : Finish(r, a)
      BY <1>8 DEF Succeed, Answers
    <2>2. StoreTypeOK'
      BY <1>0, <1>8, DeadlinesAreTimes, SucceedTypes DEF Succeed
    <2>3. QED
      BY <1>0, <2>1, <2>2, FinishTypes
  <1>9. ASSUME NEW r \in Callers, Fail(r) PROVE StoreTypeOK' /\ RequestTypeOK'
    BY <1>0, <1>9, DeadlinesAreTimes, FailTypes, FinishTypes DEF Fail, Answers
  <1>10. ASSUME NEW r \in Callers, StoreFails(r) PROVE StoreTypeOK' /\ RequestTypeOK'
    BY <1>0, <1>10, <1>kept, FinishTypes DEF StoreFails, Answers
  <1>11. ASSUME NEW r \in Callers, Renew(r) PROVE StoreTypeOK' /\ RequestTypeOK'
    <2>1. StoreTypeOK'
      BY <1>0, <1>11, DeadlinesAreTimes, ExtendTypes DEF Renew
    <2>2. QED
      BY <1>0, <1>11, <2>1 DEF Renew, requestVars, RequestTypeOK
  <1>12. ASSUME NEW r \in Callers, Crash(r) PROVE StoreTypeOK' /\ RequestTypeOK'
    BY <1>0, <1>12, <1>kept, FinishTypes DEF Crash, Answers
  <1>13. CASE CleanupOnce
    BY <1>0, <1>13 DEF CleanupOnce, DeleteExpired, StoreTypeOK, requestVars, RequestTypeOK
  <1>14. CASE Tick
    BY <1>0, <1>14 DEF Tick, StoreTypeOK, requestVars, RequestTypeOK
  <1>15. CASE UNCHANGED vars
    BY <1>0, <1>15 DEF vars, storeVars, requestVars, StoreTypeOK, RequestTypeOK
  <1>16. QED
    BY <1>1, <1>2, <1>3, <1>4, <1>5, <1>6, <1>7, <1>8, <1>9, <1>10, <1>11, <1>12,
       <1>13, <1>14, <1>15 DEF Next

\* Every variable keeps its type: in particular a row that is not deleted is a
\* whole row, and a stored success names the request whose outcome it holds.
THEOREM IdempotencyTypeCorrect == Spec => []TypeOK
  <1>1. Init => TypeOK
    BY BlankIsMemory
    DEF Init, TypeOK, StoreInit, StoreTypeOK, Answers
  <1>2. QED
    BY <1>1, TypeStep, PTL DEF Spec

-----------------------------------------------------------------------------
(* One executor.                                                             *)

Inv == OneExecutor /\ ExecutorHoldsRow /\ ClaimsInTime /\ LockOutlivesReclaimers

\* A step of one request leaves what the others are at alone.
LEMMA OthersKeep ==
  ASSUME RequestTypeOK, NEW r \in Callers, NEW l, NEW m,
         pc' = [pc EXCEPT ![r] = l], mem' = [mem EXCEPT ![r] = m]
  PROVE  /\ pc'[r] = l /\ mem'[r] = m
         /\ \A s \in Callers : s # r => pc'[s] = pc[s] /\ mem'[s] = mem[s]
  BY DEF RequestTypeOK

\* A request that returns without touching the row keeps the invariant.
LEMMA ReturnKeeps ==
  ASSUME RequestTypeOK, Inv, NEW r \in Callers, NEW a, NEW of, Return(r, a, of),
         UNCHANGED storeVars
  PROVE  Inv'
  <1>1. /\ pc'[r] = "done"
        /\ \A s \in Callers : s # r => pc'[s] = pc[s] /\ mem'[s] = mem[s]
    BY OthersKeep DEF Return
  <1>2. \A s \in Callers : pc'[s] \in ExecutingAt \union Claiming =>
            s # r /\ pc'[s] = pc[s] /\ mem'[s] = mem[s]
    BY <1>1 DEF ExecutingAt, Claiming, Reclaiming
  <1>3. now' = now /\ record' = record
    BY DEF storeVars
  <1>4. QED
    BY <1>2, <1>3 DEF Inv, OneExecutor, ExecutorHoldsRow, ClaimsInTime,
       LockOutlivesReclaimers, Executing, Exists, Claiming

\* So does one that goes on to a further claim call, if it dates it in time
\* and goes to take a row over only while nobody executes.
LEMMA ClaimingKeeps ==
  ASSUME RequestTypeOK, Inv, NEW r \in Callers, NEW l \in Claiming, NEW m,
         Goto(r, l, m), UNCHANGED storeVars,
         m.at <= now /\ now <= m.at + MaxDelay /\ m.expiresAt = m.at + TTL,
         l \in Reclaiming => \A s \in Callers : ~Executing(s)
  PROVE  Inv'
  <1>1. /\ pc'[r] = l /\ mem'[r] = m
        /\ \A s \in Callers : s # r => pc'[s] = pc[s] /\ mem'[s] = mem[s]
    BY OthersKeep DEF Goto
  <1>2. now' = now /\ record' = record
    BY DEF storeVars
  <1>3. l \notin ExecutingAt
    BY DEF ExecutingAt, Claiming, Reclaiming
  <1>4. \A s \in Callers : Executing(s)' => s # r /\ Executing(s)
    BY <1>1, <1>3 DEF Executing
  <1>5. OneExecutor'
    BY <1>4 DEF Inv, OneExecutor
  <1>6. ExecutorHoldsRow'
    BY <1>1, <1>2, <1>4 DEF Inv, ExecutorHoldsRow, Exists
  <1>7. ClaimsInTime'
    BY <1>1, <1>2 DEF Inv, ClaimsInTime
  <1>8. LockOutlivesReclaimers'
    BY <1>1, <1>2, <1>4 DEF Inv, LockOutlivesReclaimers
  <1>9. QED
    BY <1>5, <1>6, <1>7, <1>8 DEF Inv

\* A request that writes its claim into a row while nobody executes keeps the
\* invariant: it becomes the one that executes, or it gives up.
LEMMA ClaimKeeps ==
  ASSUME TypeOK, Inv, NEW r \in Callers, pc[r] \in Claiming, NEW id,
         Claimed(r, id), now' = now,
         \A s \in Callers : ~Executing(s),
         record' # NoRecord, record'.id = id, record'.status = "processing",
         record'.fingerprint = Fingerprint[r],
         record'.locked = LockedUntil(r), record'.expires = mem[r].expiresAt
  PROVE  Inv'
  <1> USE IdempotencyAssumption, StoreAssumption
  <1>0. RequestTypeOK /\ now \in Nat /\ mem[r] \in Memory
    BY TypeParts DEF StoreTypeOK, RequestTypeOK
  <1>1. CASE Goto(r, "execute", [mem[r] EXCEPT !.own = id, !.seen = NoRecord])
    <2> DEFINE m == [mem[r] EXCEPT !.own = id, !.seen = NoRecord]
    <2>1. m.own = id /\ m.at = mem[r].at
      BY <1>0 DEF Memory
    <2>2. /\ pc'[r] = "execute" /\ mem'[r] = m
          /\ \A s \in Callers : s # r => pc'[s] = pc[s] /\ mem'[s] = mem[s]
      BY <1>0, <1>1, OthersKeep DEF Goto
    <2>3. \A s \in Callers : Executing(s)' => s = r
      BY <2>2 DEF Executing
    <2>4. \A s \in Callers : pc'[s] \in Claiming => s # r
      BY <2>2 DEF Claiming, Reclaiming
    <2>5. OneExecutor'
      BY <2>3 DEF OneExecutor
    <2>6. ExecutorHoldsRow'
      <3>1. mem[r].expiresAt > now
        BY <1>0 DEF Inv, ClaimsInTime, Memory
      <3>2. QED
        BY <2>1, <2>2, <2>3, <3>1 DEF ExecutorHoldsRow, Exists
    <2>7. ClaimsInTime'
      BY <2>2, <2>4 DEF Inv, ClaimsInTime
    <2>8. LockOutlivesReclaimers'
      <3>1. LockedUntil(r) > now
        BY <1>0 DEF Inv, ClaimsInTime, Memory, LockedUntil
      <3>2. \A s \in Callers : pc'[s] \in Reclaiming => mem'[s].at <= now
        BY <2>2, <2>4 DEF Inv, ClaimsInTime, Claiming
      <3>3. \A s \in Callers : pc'[s] \in Reclaiming => mem'[s].at \in Nat
        BY <1>0, <2>2, <2>4 DEF RequestTypeOK, Memory, Claiming
      <3>4. LockedUntil(r) \in Nat
        BY <1>0 DEF LockedUntil, Memory
      <3>5. QED
        BY <1>0, <2>3, <3>1, <3>2, <3>3, <3>4 DEF LockOutlivesReclaimers
    <2>9. QED
      BY <2>5, <2>6, <2>7, <2>8 DEF Inv
  <1>2. CASE Finish(r, "unavailable")
    <2>1. /\ pc'[r] = "done"
          /\ \A s \in Callers : s # r => pc'[s] = pc[s] /\ mem'[s] = mem[s]
      BY <1>0, <1>2, OthersKeep DEF Finish, Return
    <2>2. \A s \in Callers : ~Executing(s)'
      BY <2>1 DEF Executing, ExecutingAt
    <2>3. ClaimsInTime'
      BY <2>1 DEF Inv, ClaimsInTime, Claiming, Reclaiming
    <2>4. QED
      BY <2>2, <2>3 DEF Inv, OneExecutor, ExecutorHoldsRow, LockOutlivesReclaimers
  <1>3. QED
    BY <1>1, <1>2 DEF Claimed

\* When the request that executes returns, nobody executes, whatever it has
\* written.
LEMMA EndKeeps ==
  ASSUME RequestTypeOK, Inv, NEW r \in Callers, Executing(r), NEW a, Finish(r, a),
         now' = now
  PROVE  Inv'
  <1>1. /\ pc'[r] = "done"
        /\ \A s \in Callers : s # r => pc'[s] = pc[s] /\ mem'[s] = mem[s]
    BY OthersKeep DEF Finish, Return
  <1>2. \A s \in Callers : ~Executing(s)'
    BY <1>1 DEF Executing, ExecutingAt, Inv, OneExecutor
  <1>3. ClaimsInTime'
    BY <1>1 DEF Inv, ClaimsInTime, Claiming, Reclaiming
  <1>4. QED
    BY <1>2, <1>3 DEF Inv, OneExecutor, ExecutorHoldsRow, LockOutlivesReclaimers

-----------------------------------------------------------------------------
(* The row a request has seen.                                               *)

\* A row is deleted, keeps its id and fingerprint, or is a new one.
RowEvolves ==
    \/ record' = NoRecord /\ lastId' = lastId
    \/ /\ record # NoRecord /\ record' # NoRecord /\ lastId' = lastId
       /\ record'.id = record.id /\ record'.fingerprint = record.fingerprint
    \/ /\ record = NoRecord /\ record' # NoRecord
       /\ lastId' = lastId + 1 /\ record'.id = lastId'

\* Every statement lets the row evolve that way.
LEMMA CreateEvolves ==
  ASSUME StoreTypeOK, NEW c \in Callers, NEW locked \in Int, NEW expires \in Int,
         CreateProcessing(Fingerprint[c], locked, expires)
  PROVE  RowEvolves
  <1>1. record' \in Record
    BY DEF CreateProcessing, Statuses, StoreTypeOK, Record
  <1>2. QED
    BY <1>1, NoRecordAssumption DEF CreateProcessing, RowEvolves

\* Taking a row over keeps its id and fingerprint.
LEMMA ReclaimEvolves ==
  ASSUME StoreTypeOK, NEW id, NEW from, NEW at0, NEW locked \in Int, NEW expires \in Int,
         TryReclaim(id, from, at0, locked, expires)
  PROVE  RowEvolves
  <1>1. record \in Record /\ record' \in Record
    BY DEF TryReclaim, Reclaimable, Exists, Statuses, StoreTypeOK, Record
  <1>2. QED
    BY <1>1, NoRecordAssumption DEF TryReclaim, RowEvolves, Record

\* So does extending its lock.
LEMMA ExtendEvolves ==
  ASSUME StoreTypeOK, NEW id, NEW fingerprint, NEW locked \in Int, NEW expires \in Int,
         ExtendProcessingLock(id, fingerprint, locked, expires)
  PROVE  RowEvolves
  <1>1. record \in Record /\ record' \in Record
    BY DEF ExtendProcessingLock, Extendable, Exists, Statuses, StoreTypeOK, Record
  <1>2. QED
    BY <1>1, NoRecordAssumption DEF ExtendProcessingLock, RowEvolves, Record

\* So does storing a success.
LEMMA SucceedEvolves ==
  ASSUME StoreTypeOK, NEW id, NEW c \in Callers, NEW expires \in Int,
         MarkSucceeded(id, c, expires)
  PROVE  RowEvolves
  <1>1. CASE Exists(id)
    <2>1. record \in Record
      BY <1>1 DEF Exists, StoreTypeOK
    <2>2. record' = [record EXCEPT !.status = "succeeded", !.body = c,
                                   !.locked = Unlocked, !.expires = expires]
      BY <1>1 DEF MarkSucceeded
    <2>3. Unlocked \in Int
      BY DEF Unlocked
    <2>4. record' \in Record
      BY <2>1, <2>2, <2>3 DEF Statuses, Record
    <2>5. QED
      BY <2>1, <2>2, <2>4, NoRecordAssumption DEF MarkSucceeded, RowEvolves, Record
  <1>2. CASE ~Exists(id)
    BY <1>2 DEF MarkSucceeded, RowEvolves, StoreTypeOK
  <1>3. QED
    BY <1>1, <1>2

\* So does storing a failure.
LEMMA FailEvolves ==
  ASSUME StoreTypeOK, NEW id, NEW locked \in Int, NEW expires \in Int,
         MarkFailedRetryable(id, locked, expires)
  PROVE  RowEvolves
  <1>1. CASE Exists(id)
    <2>1. record \in Record /\ record' \in Record
      BY <1>1 DEF MarkFailedRetryable, Exists, Statuses, StoreTypeOK, Record
    <2>2. QED
      BY <1>1, <2>1, NoRecordAssumption DEF MarkFailedRetryable, RowEvolves, Record
  <1>2. CASE ~Exists(id)
    BY <1>2 DEF MarkFailedRetryable, RowEvolves, StoreTypeOK
  <1>3. QED
    BY <1>1, <1>2

\* A request that is about to take a row over was so before, or has read it in
\* this step.
SeenComes ==
    \A s \in Callers : pc'[s] \in Reclaiming =>
        \/ pc[s] \in Reclaiming /\ mem'[s] = mem[s]
        \/ /\ SameRequest(s) /\ UNCHANGED storeVars
           /\ mem'[s].seen = record

\* Every step is of that kind.
LEMMA NextEvolves ==
  ASSUME TypeOK, [Next]_vars
  PROVE  RowEvolves /\ SeenComes
  <1>0. StoreTypeOK /\ RequestTypeOK
    BY TypeParts
  <1>same. UNCHANGED storeVars => RowEvolves
    BY <1>0 DEF storeVars, RowEvolves, StoreTypeOK
  <1>moved. ASSUME NEW r \in Callers, NEW l \in Labels \ Reclaiming, NEW m, Goto(r, l, m)
            PROVE  SeenComes
    BY <1>0, <1>moved, OthersKeep DEF Goto, SeenComes
  <1>read. ASSUME NEW r \in Callers, NEW l \in Reclaiming, SameRequest(r),
      UNCHANGED storeVars,
                  Goto(r, l, [mem[r] EXCEPT !.seen = record])
           PROVE  SeenComes
    <2>1. [mem[r] EXCEPT !.seen = record].seen = record
      BY <1>0 DEF RequestTypeOK, Memory
    <2>2. QED
      <3>1. /\ pc'[r] = l /\ mem'[r] = [mem[r] EXCEPT !.seen = record]
            /\ \A s \in Callers : s # r => pc'[s] = pc[s] /\ mem'[s] = mem[s]
        BY <1>0, <1>read, OthersKeep DEF Goto
      <3>2. QED
        BY <1>read, <2>1, <3>1 DEF SeenComes
  <1>returned. ASSUME NEW r \in Callers, NEW a, NEW of, Return(r, a, of)
               PROVE  SeenComes
    BY <1>0, <1>returned, OthersKeep DEF Return, SeenComes, Reclaiming
  <1>finished. ASSUME NEW r \in Callers, NEW a, Finish(r, a)
               PROVE  SeenComes
    BY <1>returned, <1>finished DEF Finish
  <1>claimed. ASSUME NEW r \in Callers, NEW id, Claimed(r, id)
              PROVE  SeenComes
    <2>1. "execute" \in Labels \ Reclaiming
      BY DEF Labels, ExecutingAt, Reclaiming
    <2>2. QED
      BY <1>moved, <1>finished, <1>claimed, <2>1 DEF Claimed
  <1>decided. ASSUME NEW r \in Callers, SameRequest(r), Decide(r), UNCHANGED storeVars
              PROVE  SeenComes
    BY <1>returned, <1>finished, <1>read, <1>decided DEF Decide, Reclaiming
  <1>mismatch. ASSUME NEW r \in Callers, Mismatch(r)
               PROVE  SeenComes
    BY <1>finished, <1>mismatch DEF Mismatch
  <1>1. ASSUME NEW r \in Callers, Start(r) PROVE RowEvolves /\ SeenComes
    <2>1. "create" \in Labels \ Reclaiming
      BY DEF Labels, Claiming, Reclaiming
    <2>2. QED
      BY <1>1, <1>same, <1>moved, <2>1 DEF Start
  <1>2. ASSUME NEW r \in Callers, Create(r) PROVE RowEvolves /\ SeenComes
    <2>1. CASE CreateProcessing(Fingerprint[r], LockedUntil(r), mem[r].expiresAt)
               /\ Claimed(r, lastId + 1)
      BY <1>0, <1>claimed, <2>1, DeadlinesAreTimes, CreateEvolves
    <2>2. CASE Goto(r, "get", mem[r]) /\ UNCHANGED storeVars
      <3>1. "get" \in Labels \ Reclaiming
        BY DEF Labels, Claiming, Reclaiming
      <3>2. QED
        BY <1>same, <1>moved, <2>2, <3>1
    <2>3. QED
      BY <1>2, <2>1, <2>2 DEF Create
  <1>3. ASSUME NEW r \in Callers, GetExisting(r) PROVE RowEvolves /\ SeenComes
    BY <1>3, <1>same, <1>mismatch, <1>decided, <1>read DEF GetExisting, Reclaiming
  <1>4. ASSUME NEW r \in Callers, ReclaimExpired(r) PROVE RowEvolves /\ SeenComes
    <2> DEFINE seen == mem[r].seen
    <2>1. CASE TryReclaim(seen.id, seen.status, mem[r].at, LockedUntil(r),
        mem[r].expiresAt)
               /\ Claimed(r, seen.id)
      BY <1>0, <1>claimed, <2>1, DeadlinesAreTimes, ReclaimEvolves
    <2>2. CASE Goto(r, "get_latest",
        [mem[r] EXCEPT !.seen = NoRecord]) /\ UNCHANGED storeVars
      <3>1. "get_latest" \in Labels \ Reclaiming
        BY DEF Labels, Claiming, Reclaiming
      <3>2. QED
        BY <1>same, <1>moved, <2>2, <3>1
    <2>3. QED
      BY <1>4, <2>1, <2>2 DEF ReclaimExpired
  <1>5. ASSUME NEW r \in Callers, GetLatest(r) PROVE RowEvolves /\ SeenComes
    BY <1>5, <1>same, <1>mismatch, <1>decided DEF GetLatest
  <1>6. ASSUME NEW r \in Callers, ReclaimFailed(r) PROVE RowEvolves /\ SeenComes
    <2> DEFINE seen == mem[r].seen
    <2>1. CASE TryReclaim(seen.id, "failed_retryable", mem[r].at, LockedUntil(r),
        mem[r].expiresAt)
               /\ Claimed(r, seen.id)
      BY <1>0, <1>claimed, <2>1, DeadlinesAreTimes, ReclaimEvolves
    <2>2. CASE Finish(r, "in_progress") /\ UNCHANGED storeVars
      BY <1>same, <1>finished, <2>2
    <2>3. QED
      BY <1>6, <2>1, <2>2 DEF ReclaimFailed
  <1>7. ASSUME NEW r \in Callers, Execute(r) PROVE RowEvolves /\ SeenComes
    <2> DEFINE m == [mem[r] EXCEPT !.at = now,
                        !.expiresAt = IF r \in Detached THEN now + TTL ELSE @]
    <2>1. PICK ok \in BOOLEAN : Goto(r, IF ok THEN "succeed" ELSE "fail", m)
      BY <1>7 DEF Execute
    <2>2. (IF ok THEN "succeed" ELSE "fail") \in Labels \ Reclaiming
      BY DEF Labels, ExecutingAt, Reclaiming
    <2>3. QED
      BY <1>7, <1>same, <1>moved, <2>1, <2>2 DEF Execute
  <1>8. ASSUME NEW r \in Callers, Succeed(r) PROVE RowEvolves /\ SeenComes
    BY <1>0, <1>8, <1>finished, DeadlinesAreTimes, SucceedEvolves DEF Succeed
  <1>9. ASSUME NEW r \in Callers, Fail(r) PROVE RowEvolves /\ SeenComes
    BY <1>0, <1>9, <1>finished, DeadlinesAreTimes, FailEvolves DEF Fail
  <1>10. ASSUME NEW r \in Callers, StoreFails(r) PROVE RowEvolves /\ SeenComes
    BY <1>10, <1>same, <1>finished DEF StoreFails
  <1>11. ASSUME NEW r \in Callers, Renew(r) PROVE RowEvolves /\ SeenComes
    <2>1. RowEvolves
      BY <1>0, <1>11, DeadlinesAreTimes, ExtendEvolves DEF Renew
    <2>2. QED
      BY <1>11, <2>1 DEF Renew, requestVars, SeenComes
  <1>12. ASSUME NEW r \in Callers, Crash(r) PROVE RowEvolves /\ SeenComes
    BY <1>12, <1>same, <1>finished DEF Crash
  <1>13. CASE CleanupOnce
    BY <1>13 DEF CleanupOnce, DeleteExpired, RowEvolves, requestVars, SeenComes
  <1>14. CASE Tick
    BY <1>14 DEF Tick, RowEvolves, requestVars, SeenComes
  <1>15. CASE UNCHANGED vars
    BY <1>15, <1>same DEF vars, requestVars, SeenComes
  <1>16. QED
    BY <1>1, <1>2, <1>3, <1>4, <1>5, <1>6, <1>7, <1>8, <1>9, <1>10, <1>11, <1>12,
       <1>13, <1>14, <1>15 DEF Next

\* What a request has seen stays its own: a row that comes back under the same
\* key has a new id.
LEMMA SeenStep ==
  ASSUME TypeOK, SeenIsOwn, [Next]_vars
  PROVE  SeenIsOwn'
  <1>0. RowEvolves /\ SeenComes /\ StoreTypeOK
    BY NextEvolves, TypeParts
  <1>1. lastId' \in Nat /\ lastId' >= lastId /\ lastId \in Nat
    BY <1>0 DEF RowEvolves, StoreTypeOK
  <1>2. record' # NoRecord => record'.id <= lastId'
    BY <1>0, <1>1 DEF RowEvolves, StoreTypeOK, Record, SeenIsOwn
  <1>3. ASSUME NEW s \in Callers, pc'[s] \in Reclaiming
        PROVE  /\ mem'[s].seen \in Record
               /\ mem'[s].seen.id <= lastId'
               /\ mem'[s].seen.fingerprint = Fingerprint[s]
               /\ Exists(mem[s].seen.id)' => record'.fingerprint = Fingerprint[s]
    <2>1. CASE pc[s] \in Reclaiming /\ mem'[s] = mem[s]
      <3>1. /\ mem[s].seen \in Record /\ mem[s].seen.id <= lastId
            /\ mem[s].seen.fingerprint = Fingerprint[s]
            /\ Exists(mem[s].seen.id) => record.fingerprint = Fingerprint[s]
        BY <2>1 DEF SeenIsOwn
      <3>2. mem[s].seen.id \in Nat
        BY <3>1 DEF Record
      <3>3. mem[s].seen.id <= lastId'
        BY <1>1, <3>1, <3>2
      <3>4. ASSUME Exists(mem[s].seen.id)' PROVE record'.fingerprint = Fingerprint[s]
        BY <1>0, <1>1, <2>1, <3>1, <3>2, <3>4 DEF Exists, RowEvolves
      <3>5. QED
        BY <2>1, <3>1, <3>3, <3>4
    <2>2. CASE SameRequest(s) /\ UNCHANGED storeVars /\ mem'[s].seen = record
      BY <1>0, <2>2 DEF SameRequest, storeVars, StoreTypeOK, SeenIsOwn, Exists
    <2>3. QED
      BY <1>0, <1>3, <2>1, <2>2 DEF SeenComes
  <1>4. QED
    BY <1>2, <1>3 DEF SeenIsOwn

-----------------------------------------------------------------------------
(* The invariant is inductive.                                               *)

\* Nobody executes under a row that is missing, not processed or expired.
LEMMA NobodyExecutes ==
  ASSUME TypeOK, Inv,
    record = NoRecord \/ record.status # "processing" \/ record.expires <= now
  PROVE  \A s \in Callers : ~Executing(s)
  BY TypeParts DEF Inv, ExecutorHoldsRow, Exists, StoreTypeOK, Record

\* Nor under a row whose lock lets a request take it over.
LEMMA ReclaimerAlone ==
  ASSUME TypeOK, Inv, NEW r \in Callers, pc[r] \in Reclaiming, NEW id, NEW from,
         Reclaimable(id, from, mem[r].at)
  PROVE  \A s \in Callers : ~Executing(s)
  <1>1. record \in Record /\ mem[r].at \in Nat
    BY DeadlinesAreTimes, TypeParts DEF Reclaimable, Exists, StoreTypeOK
  <1>2. QED
    BY <1>1 DEF Inv, LockOutlivesReclaimers, Reclaimable, Record

\* A request that takes over the row it has seen keeps the invariant.
LEMMA ReclaimKeeps ==
  ASSUME TypeOK, Inv, SeenIsOwn, NEW r \in Callers, pc[r] \in Reclaiming, NEW from,
         TryReclaim(mem[r].seen.id, from, mem[r].at, LockedUntil(r), mem[r].expiresAt),
         Claimed(r, mem[r].seen.id)
  PROVE  Inv'
  <1>1. \A s \in Callers : ~Executing(s)
    BY ReclaimerAlone DEF TryReclaim
  <1>2. /\ record \in Record /\ record.id = mem[r].seen.id
        /\ record.fingerprint = Fingerprint[r]
    BY TypeParts DEF TryReclaim, Reclaimable, Exists, StoreTypeOK, SeenIsOwn
  <1>3. /\ record'.id = mem[r].seen.id /\ record'.status = "processing"
        /\ record'.fingerprint = Fingerprint[r]
        /\ record'.locked = LockedUntil(r) /\ record'.expires = mem[r].expiresAt
        /\ now' = now
    BY <1>2 DEF TryReclaim, Record
  <1>4. record' # NoRecord
    <2>1. LockedUntil(r) \in Int /\ mem[r].expiresAt \in Int
      BY DeadlinesAreTimes
    <2>2. record' \in Record
      BY <1>2, <2>1 DEF TryReclaim, Record, Statuses
    <2>3. QED
      BY <2>2, NoRecordAssumption
  <1>5. pc[r] \in Claiming
    BY DEF Claiming
  <1>6. QED
    BY <1>1, <1>3, <1>4, <1>5, ClaimKeeps

\* A decision on the row just read keeps the invariant.
LEMMA DecideKeeps ==
  ASSUME TypeOK, Inv, NEW r \in Callers, pc[r] \in Claiming, SameRequest(r), Decide(r),
         UNCHANGED storeVars
  PROVE  Inv'
  <1>0. RequestTypeOK
    BY TypeParts
  <1>1. CASE \E a, of : Return(r, a, of)
    BY <1>0, <1>1, ReturnKeeps
  <1>2. CASE record.status = "failed_retryable"
             /\ Goto(r, "reclaim_failed", [mem[r] EXCEPT !.seen = record])
    <2> DEFINE m == [mem[r] EXCEPT !.seen = record]
    <2>1. m.at = mem[r].at /\ m.expiresAt = mem[r].expiresAt
      BY <1>0 DEF RequestTypeOK, Memory
    <2>2. m.at <= now /\ now <= m.at + MaxDelay /\ m.expiresAt = m.at + TTL
      BY <2>1 DEF Inv, ClaimsInTime
    <2>3. \A s \in Callers : ~Executing(s)
      BY <1>2, NobodyExecutes
    <2>4. "reclaim_failed" \in Claiming
      BY DEF Claiming, Reclaiming
    <2>5. QED
      BY <1>0, <1>2, <2>2, <2>3, <2>4, ClaimingKeeps
  <1>3. QED
    BY <1>1, <1>2 DEF Decide, Finish

\* Every step keeps the invariant.
LEMMA InvStep ==
  ASSUME TypeOK, Inv, SeenIsOwn, [Next]_vars
  PROVE  Inv'
  <1> USE IdempotencyAssumption, StoreAssumption
  <1>0. RequestTypeOK /\ StoreTypeOK /\ now \in Nat
    BY TypeParts DEF StoreTypeOK
  <1>finished. ASSUME NEW r \in Callers, NEW a, Finish(r, a), UNCHANGED storeVars
               PROVE  Inv'
    BY <1>0, <1>finished, ReturnKeeps DEF Finish
  <1>mismatch. ASSUME NEW r \in Callers, Mismatch(r), UNCHANGED storeVars
               PROVE  Inv'
    BY <1>finished, <1>mismatch DEF Mismatch
  <1>inTime. ASSUME NEW r \in Callers, pc[r] \in Claiming
             PROVE  /\ mem[r].at <= now /\ now <= mem[r].at + MaxDelay
                    /\ mem[r].expiresAt = mem[r].at + TTL
    BY <1>inTime DEF Inv, ClaimsInTime
  <1>1. ASSUME NEW r \in Callers, Start(r) PROVE Inv'
    <2> DEFINE m == [Blank EXCEPT !.at = now, !.expiresAt = now + TTL,
                                  !.promise = StoredUntil]
    <2>1. m.at = now /\ m.expiresAt = now + TTL
      BY DEF Blank
    <2>2. "create" \in Claiming /\ "create" \notin Reclaiming
      BY DEF Claiming, Reclaiming
    <2>3. now <= m.at /\ m.at <= now /\ now <= m.at + MaxDelay
      BY <1>0, <2>1
    <2>4. QED
      BY <1>0, <1>1, <2>1, <2>2, <2>3, ClaimingKeeps DEF Start
  <1>2. ASSUME NEW r \in Callers, Create(r) PROVE Inv'
    <2>1. CASE CreateProcessing(Fingerprint[r], LockedUntil(r), mem[r].expiresAt)
               /\ Claimed(r, lastId + 1)
      <3>1. \A s \in Callers : ~Executing(s)
        BY <2>1, NobodyExecutes DEF CreateProcessing
      <3>2. pc[r] \in Claiming
        BY <1>2 DEF Create, Claiming
      <3>3. /\ record'.id = lastId + 1 /\ record'.status = "processing"
            /\ record'.fingerprint = Fingerprint[r]
            /\ record'.locked = LockedUntil(r) /\ record'.expires = mem[r].expiresAt
            /\ now' = now
        BY <2>1 DEF CreateProcessing
      <3>4. record' # NoRecord
        <4>1. RowEvolves
          BY <1>0, <2>1, DeadlinesAreTimes, CreateEvolves
        <4>2. lastId + 1 # lastId
          BY <1>0 DEF StoreTypeOK
        <4>3. QED
          BY <2>1, <4>1, <4>2 DEF RowEvolves, CreateProcessing
      <3>5. QED
        BY <2>1, <3>1, <3>2, <3>3, <3>4, ClaimKeeps
    <2>2. CASE Goto(r, "get", mem[r]) /\ UNCHANGED storeVars
      <3>1. "get" \in Claiming /\ "get" \notin Reclaiming /\ pc[r] \in Claiming
        BY <1>2 DEF Create, Claiming, Reclaiming
      <3>2. QED
        BY <1>0, <1>inTime, <2>2, <3>1, ClaimingKeeps
    <2>3. QED
      BY <1>2, <2>1, <2>2 DEF Create
  <1>3. ASSUME NEW r \in Callers, GetExisting(r) PROVE Inv'
    <2>0. pc[r] \in Claiming /\ UNCHANGED storeVars
      BY <1>3 DEF GetExisting, Claiming
    <2>1. CASE /\ SameRequest(r) /\ record.expires <= mem[r].at
               /\ Goto(r, "reclaim_expired", [mem[r] EXCEPT !.seen = record])
      <3> DEFINE m == [mem[r] EXCEPT !.seen = record]
      <3>1. m.at = mem[r].at /\ m.expiresAt = mem[r].expiresAt /\ mem[r].at \in Nat
        BY <1>0 DEF RequestTypeOK, Memory
      <3>2. m.at <= now /\ now <= m.at + MaxDelay /\ m.expiresAt = m.at + TTL
        BY <1>inTime, <2>0, <3>1
      <3>3. record.expires <= now
        BY <1>0, <2>1, <3>1, <3>2 DEF SameRequest, StoreTypeOK, Record
      <3>4. \A s \in Callers : ~Executing(s)
        BY <3>3, NobodyExecutes
      <3>5. "reclaim_expired" \in Claiming
        BY DEF Claiming, Reclaiming
      <3>6. QED
        BY <1>0, <2>0, <2>1, <3>2, <3>4, <3>5, ClaimingKeeps
    <2>2. QED
      BY <1>3, <1>mismatch, <2>0, <2>1, DecideKeeps DEF GetExisting
  <1>4. ASSUME NEW r \in Callers, ReclaimExpired(r) PROVE Inv'
    <2>0. pc[r] \in Claiming /\ pc[r] \in Reclaiming
      BY <1>4 DEF ReclaimExpired, Claiming, Reclaiming
    <2>1. CASE Goto(r, "get_latest",
        [mem[r] EXCEPT !.seen = NoRecord]) /\ UNCHANGED storeVars
      <3> DEFINE m == [mem[r] EXCEPT !.seen = NoRecord]
      <3>1. m.at = mem[r].at /\ m.expiresAt = mem[r].expiresAt
        BY <1>0 DEF RequestTypeOK, Memory
      <3>2. m.at <= now /\ now <= m.at + MaxDelay /\ m.expiresAt = m.at + TTL
        BY <1>inTime, <2>0, <3>1
      <3>3. "get_latest" \in Claiming /\ "get_latest" \notin Reclaiming
        BY DEF Claiming, Reclaiming
      <3>4. QED
        BY <1>0, <2>1, <3>2, <3>3, ClaimingKeeps
    <2>2. QED
      BY <1>4, <2>0, <2>1, ReclaimKeeps DEF ReclaimExpired
  <1>5. ASSUME NEW r \in Callers, GetLatest(r) PROVE Inv'
    <2>1. pc[r] \in Claiming
      BY <1>5 DEF GetLatest, Claiming
    <2>2. QED
      BY <1>5, <1>mismatch, <2>1, DecideKeeps DEF GetLatest
  <1>6. ASSUME NEW r \in Callers, ReclaimFailed(r) PROVE Inv'
    <2>1. pc[r] \in Reclaiming
      BY <1>6 DEF ReclaimFailed, Reclaiming
    <2>2. QED
      BY <1>6, <1>finished, <2>1, ReclaimKeeps DEF ReclaimFailed
  <1>7. ASSUME NEW r \in Callers, Execute(r) PROVE Inv'
    <2> DEFINE m == [mem[r] EXCEPT !.at = now,
                        !.expiresAt = IF r \in Detached THEN now + TTL ELSE @]
    <2>1. PICK ok \in BOOLEAN : Goto(r, IF ok THEN "succeed" ELSE "fail", m)
      BY <1>7 DEF Execute
    <2>2. /\ pc'[r] \in ExecutingAt /\ pc'[r] \notin Claiming /\ mem'[r] = m
          /\ \A s \in Callers : s # r => pc'[s] = pc[s] /\ mem'[s] = mem[s]
      <3>1. /\ pc'[r] = (IF ok THEN "succeed" ELSE "fail") /\ mem'[r] = m
            /\ \A s \in Callers : s # r => pc'[s] = pc[s] /\ mem'[s] = mem[s]
        <4> HIDE DEF m
        <4>1. QED
          BY <1>0, <2>1, OthersKeep DEF Goto
      <3>2. pc'[r] \in {"succeed", "fail"}
        BY <3>1
      <3>3. QED
        BY <3>1, <3>2 DEF ExecutingAt, Claiming, Reclaiming
    <2>3. m.own = mem[r].own
      BY <1>0 DEF RequestTypeOK, Memory
    <2>4. Executing(r) /\ now' = now /\ record' = record
      BY <1>7 DEF Execute, Executing, ExecutingAt, storeVars
    <2>5. \A s \in Callers : Executing(s)' => Executing(s) /\ mem'[s].own = mem[s].own
      BY <2>2, <2>3, <2>4 DEF Executing
    <2>6. \A s \in Callers : pc'[s] \in Claiming => pc[s] \in Claiming /\ mem'[s] = mem[s]
      BY <2>2
    <2>7. \A s \in Callers : pc'[s] \in Reclaiming => pc[s] \in Reclaiming /\ mem'[s] = mem[s]
      BY <2>2 DEF Claiming
    <2>8. OneExecutor'
      BY <2>5 DEF Inv, OneExecutor
    <2>9. ExecutorHoldsRow'
      BY <2>4, <2>5 DEF Inv, ExecutorHoldsRow, Exists
    <2>10. ClaimsInTime' /\ LockOutlivesReclaimers'
      BY <2>4, <2>5, <2>6, <2>7 DEF Inv, ClaimsInTime, LockOutlivesReclaimers
    <2>11. QED
      BY <2>8, <2>9, <2>10 DEF Inv
  <1>8. ASSUME NEW r \in Callers, Succeed(r) PROVE Inv'
    <2>1. Executing(r) /\ now' = now /\ \E a : Finish(r, a)
      BY <1>8 DEF Succeed, MarkSucceeded, Executing, ExecutingAt
    <2>2. QED
      BY <1>0, <2>1, EndKeeps
  <1>9. ASSUME NEW r \in Callers, Fail(r) PROVE Inv'
    <2>1. Executing(r) /\ now' = now /\ Finish(r, "failed")
      BY <1>9 DEF Fail, MarkFailedRetryable, Executing, ExecutingAt
    <2>2. QED
      BY <1>0, <2>1, EndKeeps
  <1>10. ASSUME NEW r \in Callers, StoreFails(r) PROVE Inv'
    BY <1>10, <1>finished DEF StoreFails
  <1>11. ASSUME NEW r \in Callers, Renew(r) PROVE Inv'
    <2>1. /\ record \in Record /\ now' = now /\ pc' = pc /\ mem' = mem
          /\ record' = [record EXCEPT !.locked = now + ProcessingTimeout,
            !.expires = now + TTL]
      BY <1>0, <1>11
      DEF Renew, requestVars, ExtendProcessingLock, Extendable, Exists, StoreTypeOK
    <2>2. /\ record'.id = record.id /\ record'.status = record.status
          /\ record'.fingerprint = record.fingerprint
          /\ record'.locked = now + ProcessingTimeout /\ record'.expires = now + TTL
      BY <2>1 DEF Record
    <2>3. record' # NoRecord
      <3>1. now + ProcessingTimeout \in Int /\ now + TTL \in Int
        BY <1>0
      <3>2. record' \in Record
        BY <2>1, <3>1 DEF Record
      <3>3. QED
        BY <3>2, NoRecordAssumption
    <2>4. OneExecutor' /\ ClaimsInTime'
      BY <2>1 DEF Inv, OneExecutor, ClaimsInTime, Executing
    <2>5. ExecutorHoldsRow'
      BY <1>0, <2>1, <2>2, <2>3 DEF Inv, ExecutorHoldsRow, Executing, Exists
    <2>6. LockOutlivesReclaimers'
      <3>1. \A s \in Callers : pc[s] \in Reclaiming => mem[s].at <= now /\ mem[s].at \in Nat
        BY <1>0 DEF Inv, ClaimsInTime, Claiming, RequestTypeOK, Memory
      <3>2. QED
        BY <1>0, <2>1, <2>2, <3>1 DEF LockOutlivesReclaimers
    <2>7. QED
      BY <2>4, <2>5, <2>6 DEF Inv
  <1>12. ASSUME NEW r \in Callers, Crash(r) PROVE Inv'
    BY <1>12, <1>finished DEF Crash
  <1>13. CASE CleanupOnce
    <2>1. /\ record.expires <= now /\ now' = now /\ pc' = pc /\ mem' = mem
      BY <1>13 DEF CleanupOnce, DeleteExpired, requestVars
    <2>2. \A s \in Callers : ~Executing(s)
      BY <2>1, NobodyExecutes
    <2>3. QED
      BY <2>1, <2>2
      DEF Inv, OneExecutor, ExecutorHoldsRow, ClaimsInTime, LockOutlivesReclaimers,
          Executing
  <1>14. CASE Tick
    <2>1. /\ now' = now + 1 /\ record' = record /\ pc' = pc /\ mem' = mem
      BY <1>14 DEF Tick, requestVars
    <2>2. OneExecutor' /\ LockOutlivesReclaimers'
      BY <2>1 DEF Inv, OneExecutor, LockOutlivesReclaimers, Executing
    <2>3. ExecutorHoldsRow'
      <3>1. ASSUME NEW s \in Callers, Executing(s) PROVE record.expires > now + 1
        <4>1. Exists(mem[s].own) /\ record \in Record
          BY <1>0, <3>1 DEF Inv, ExecutorHoldsRow, Exists, StoreTypeOK
        <4>2. now + 1 < record.expires
          BY <1>14, <3>1, <4>1 DEF Tick
        <4>3. QED
          BY <1>0, <4>1, <4>2 DEF Record
      <3>2. QED
        BY <2>1, <3>1 DEF Inv, ExecutorHoldsRow, Executing, Exists
    <2>4. ClaimsInTime'
      <3>1. ASSUME NEW s \in Callers, pc[s] \in Claiming
            PROVE  mem[s].at <= now + 1 /\ now + 1 <= mem[s].at + MaxDelay
        <4>1. now < mem[s].at + MaxDelay
          BY <1>14, <3>1 DEF Tick
        <4>2. mem[s].at \in Nat
          BY <1>0 DEF RequestTypeOK, Memory
        <4>3. QED
          BY <1>0, <1>inTime, <3>1, <4>1, <4>2
      <3>2. QED
        BY <2>1, <3>1 DEF Inv, ClaimsInTime
    <2>5. QED
      BY <2>2, <2>3, <2>4 DEF Inv
  <1>15. CASE UNCHANGED vars
    BY <1>15 DEF vars, storeVars, requestVars, Inv, OneExecutor, ExecutorHoldsRow,
       ClaimsInTime, LockOutlivesReclaimers, Executing, Exists
  <1>16. QED
    BY <1>1, <1>2, <1>3, <1>4, <1>5, <1>6, <1>7, <1>8, <1>9, <1>10, <1>11, <1>12,
       <1>13, <1>14, <1>15 DEF Next

\* The invariant holds initially.
LEMMA InitInv == Init => TypeOK /\ Inv /\ SeenIsOwn
  <1>1. Init => \A r \in Callers : pc[r] = "idle"
    BY DEF Init
  <1>2. Init => TypeOK
    BY BlankIsMemory DEF Init, TypeOK, StoreInit, StoreTypeOK, Answers
  <1>3. Init => Inv
    BY <1>1 DEF Inv, OneExecutor, ExecutorHoldsRow, ClaimsInTime,
       LockOutlivesReclaimers, Executing, ExecutingAt, Claiming, Reclaiming
  <1>4. Init => SeenIsOwn
    BY <1>1 DEF Init, StoreInit, SeenIsOwn, Reclaiming
  <1>5. QED
    BY <1>2, <1>3, <1>4

\* At most one request of a key executes at a time, for any number of requests,
\* deaths, lost replies, renewals and cleanups, as long as claims and executions
\* keep to the durations of Tick.
THEOREM OneExecutorAtATime == Spec => []OneExecutor
  <1>1. Init => TypeOK /\ Inv /\ SeenIsOwn
    BY InitInv
  <1>2. TypeOK /\ Inv /\ SeenIsOwn /\ [Next]_vars => (TypeOK /\ Inv /\ SeenIsOwn)'
    BY TypeStep, InvStep, SeenStep
  <1>3. Inv => OneExecutor
    BY DEF Inv
  <1>4. QED
    BY <1>1, <1>2, <1>3, PTL DEF Spec

-----------------------------------------------------------------------------
(* Answers.                                                                  *)

\* A stored success is the outcome of a request with the row's fingerprint.
BodyMatches ==
    record # NoRecord /\ record.status = "succeeded" =>
        record.body \in Callers /\ Fingerprint[record.body] = record.fingerprint

\* Only a request that executes stores a success, in its own row.
LEMMA BodyStep ==
  ASSUME TypeOK, Inv, BodyMatches, [Next]_vars
  PROVE  BodyMatches'
  <1>0. StoreTypeOK
    BY TypeParts
  <1>kept. UNCHANGED storeVars => BodyMatches'
    BY DEF storeVars, BodyMatches
  <1>claimed. ASSUME NEW id, NEW from, NEW t, NEW locked, NEW expires,
                     TryReclaim(id, from, t, locked, expires)
              PROVE  BodyMatches'
    BY <1>0, <1>claimed
    DEF TryReclaim, Reclaimable, Exists, StoreTypeOK, Record, BodyMatches
  <1>1. ASSUME NEW r \in Callers, Succeed(r) PROVE BodyMatches'
    <2>1. Executing(r) /\ MarkSucceeded(mem[r].own, r, mem[r].expiresAt)
      BY <1>1 DEF Succeed, Executing, ExecutingAt
    <2>2. Exists(mem[r].own) /\ record.fingerprint = Fingerprint[r] /\ record \in Record
      BY <1>0, <2>1 DEF Inv, ExecutorHoldsRow, Exists, StoreTypeOK
    <2>3. record'.body = r /\ record'.fingerprint = Fingerprint[r]
      BY <2>1, <2>2 DEF MarkSucceeded, Record
    <2>4. QED
      BY <2>3 DEF BodyMatches
  <1>2. ASSUME NEW r \in Callers, Fail(r) PROVE BodyMatches'
    <2>1. MarkFailedRetryable(mem[r].own, mem[r].at + FailedRetryBackoff,
        mem[r].expiresAt)
      BY <1>2 DEF Fail
    <2>2. QED
      BY <1>0, <2>1 DEF MarkFailedRetryable, Exists, StoreTypeOK, Record, BodyMatches
  <1>3. ASSUME NEW r \in Callers, Renew(r) PROVE BodyMatches'
    BY <1>0, <1>3
    DEF Renew, ExtendProcessingLock, Extendable, Exists, StoreTypeOK, Record, BodyMatches
  <1>4. ASSUME NEW r \in Callers, Create(r) PROVE BodyMatches'
    BY <1>4, <1>kept DEF Create, CreateProcessing, BodyMatches
  <1>5. CASE CleanupOnce
    BY <1>5 DEF CleanupOnce, DeleteExpired, BodyMatches
  <1>6. CASE Tick
    BY <1>6 DEF Tick, BodyMatches
  <1>7. ASSUME NEW r \in Callers,
               \/ Start(r) \/ GetExisting(r) \/ ReclaimExpired(r) \/ GetLatest(r)
               \/ ReclaimFailed(r) \/ Execute(r) \/ StoreFails(r) \/ Crash(r)
        PROVE  BodyMatches'
    BY <1>7, <1>kept, <1>claimed
    DEF Start, GetExisting, ReclaimExpired, GetLatest, ReclaimFailed, Execute,
        StoreFails, Crash
  <1>8. CASE UNCHANGED vars
    BY <1>8, <1>kept DEF vars
  <1>9. QED
    BY <1>1, <1>2, <1>3, <1>4, <1>5, <1>6, <1>7, <1>8 DEF Next

\* A step replays nothing, or what the row of the request's own fingerprint
\* holds.
LEMMA AnswerStep ==
  ASSUME TypeOK, BodyMatches, AnswersMatch, [Next]_vars
  PROVE  AnswersMatch'
  <1>0. RequestTypeOK
    BY TypeParts
  <1>kept. UNCHANGED <<answer, replayOf>> => AnswersMatch'
    BY DEF AnswersMatch
  <1>returned. ASSUME NEW r \in Callers, NEW a, NEW of, Return(r, a, of),
                      a = "replayed" => of \in Callers /\ Fingerprint[of] = Fingerprint[r]
               PROVE  AnswersMatch'
    <2>1. /\ answer'[r] = a /\ replayOf'[r] = of
          /\ \A s \in Callers : s # r => answer'[s] = answer[s] /\ replayOf'[s] = replayOf[s]
      BY <1>0, <1>returned DEF Return, RequestTypeOK
    <2>2. QED
      BY <1>returned, <2>1 DEF AnswersMatch
  <1>finished. ASSUME NEW r \in Callers, NEW a, a # "replayed", Finish(r, a)
               PROVE  AnswersMatch'
    BY <1>returned, <1>finished DEF Finish
  <1>moved. ASSUME NEW r \in Callers, NEW l, NEW m, Goto(r, l, m)
            PROVE  AnswersMatch'
    BY <1>kept, <1>moved DEF Goto
  <1>claimed. ASSUME NEW r \in Callers, NEW id, Claimed(r, id)
              PROVE  AnswersMatch'
    BY <1>moved, <1>finished, <1>claimed DEF Claimed
  <1>mismatch. ASSUME NEW r \in Callers, Mismatch(r)
               PROVE  AnswersMatch'
    BY <1>finished, <1>mismatch DEF Mismatch
  <1>decided. ASSUME NEW r \in Callers, SameRequest(r), Decide(r)
              PROVE  AnswersMatch'
    BY <1>returned, <1>finished, <1>moved, <1>decided DEF Decide, SameRequest, BodyMatches
  <1>1. ASSUME NEW r \in Callers,
               \/ Create(r) \/ ReclaimExpired(r) \/ ReclaimFailed(r)
        PROVE  AnswersMatch'
    BY <1>1, <1>moved, <1>finished, <1>claimed DEF Create, ReclaimExpired, ReclaimFailed
  <1>2. ASSUME NEW r \in Callers, GetExisting(r) \/ GetLatest(r)
        PROVE  AnswersMatch'
    BY <1>2, <1>moved, <1>mismatch, <1>decided DEF GetExisting, GetLatest
  <1>3. ASSUME NEW r \in Callers, Start(r) \/ Execute(r)
        PROVE  AnswersMatch'
    BY <1>3, <1>moved DEF Start, Execute
  <1>4. ASSUME NEW r \in Callers, Succeed(r) \/ Fail(r) \/ StoreFails(r) \/ Crash(r)
        PROVE  AnswersMatch'
    BY <1>4, <1>finished DEF Succeed, Fail, StoreFails, Crash
  <1>5. ASSUME NEW r \in Callers, Renew(r) PROVE AnswersMatch'
    BY <1>5, <1>kept DEF Renew, requestVars
  <1>6. CASE CleanupOnce \/ Tick \/ UNCHANGED vars
    BY <1>6, <1>kept DEF CleanupOnce, Tick, vars, requestVars
  <1>7. QED
    BY <1>1, <1>2, <1>3, <1>4, <1>5, <1>6 DEF Next

\* A replayed response is the outcome of a request for the same thing, also
\* when the row is deleted and created again between two reads.
THEOREM ReplaysMatch == Spec => []AnswersMatch
  <1> DEFINE I == TypeOK /\ Inv /\ SeenIsOwn /\ BodyMatches /\ AnswersMatch
  <1>1. Init => I
    BY InitInv DEF Init, StoreInit, BodyMatches, AnswersMatch
  <1>2. I /\ [Next]_vars => I'
    BY TypeStep, InvStep, SeenStep, BodyStep, AnswerStep
  <1>3. I => AnswersMatch
    OBVIOUS
  <1>4. QED
    BY <1>1, <1>2, <1>3, PTL DEF Spec

-----------------------------------------------------------------------------
(* Later requests replay.                                                    *)

\* A request that has still to claim is owed the success that was stored when
\* it arrived, until that has expired.
Owed(s) == pc[s] \in Claiming /\ now < mem[s].promise

\* The row stays, whoever has taken it over, until such a request can no longer
\* claim, and a failure leaves a backoff that turns the request away.
RowLasts(s) ==
    /\ record # NoRecord
    /\ record.expires >= mem[s].promise \/ record.expires > mem[s].at + MaxDelay
    /\ record.status = "failed_retryable" => record.locked > mem[s].at

\* Whoever has taken the row over will write such an expiry and such a backoff.
ExecutorsLast(s) ==
    \A r \in Callers : Executing(r) =>
        /\ mem[r].expiresAt > mem[s].at + MaxDelay
        /\ pc[r] # "execute" => mem[r].at >= mem[s].at

\* A request that is owed a success gets no further than its first read.
PromiseKept ==
    \A s \in Callers : Owed(s) =>
        pc[s] \in {"create", "get"} /\ RowLasts(s) /\ ExecutorsLast(s)

\* The kinds of step, as far as the promise goes: a request goes on claiming,
\* begins to execute, has executed, or stays where it is.
SameTimes(r) ==
    /\ mem'[r].at = mem[r].at
    /\ mem'[r].expiresAt = mem[r].expiresAt
    /\ mem'[r].promise = mem[r].promise
ClaimsOn(r) == pc[r] \in Claiming /\ SameTimes(r)
Begins(r) == pc[r] \in Claiming /\ pc'[r] = "execute" /\ SameTimes(r)
HasExecuted(r) ==
    /\ pc[r] = "execute"
    /\ mem'[r].at = now
    /\ mem'[r].expiresAt \in {mem[r].expiresAt, now + TTL}
    /\ mem'[r].promise = mem[r].promise
Stays(r) == pc'[r] = pc[r] /\ mem'[r] = mem[r]

RequestsMove ==
    \A r \in Callers :
        /\ pc'[r] \in Claiming => Start(r) \/ ClaimsOn(r)
        /\ pc'[r] \in ExecutingAt => Begins(r) \/ HasExecuted(r) \/ Stays(r)

ActionOf(r) ==
    \/ Start(r) \/ Create(r) \/ GetExisting(r) \/ ReclaimExpired(r)
    \/ GetLatest(r) \/ ReclaimFailed(r) \/ Execute(r) \/ Succeed(r)
    \/ Fail(r) \/ StoreFails(r) \/ Renew(r) \/ Crash(r)

\* Either a request has made its step, or none has moved.
LEMMA Steps ==
  ASSUME [Next]_vars
  PROVE  \/ \E r \in Callers : ActionOf(r)
         \/ CleanupOnce \/ Tick \/ UNCHANGED vars
  BY DEF Next, ActionOf

\* The step of a request is one move of that request alone.
LEMMA OneMoves ==
  ASSUME NEW r \in Callers, ActionOf(r)
  PROVE  Renew(r) \/ \E l, m : /\ pc' = [pc EXCEPT ![r] = l]
                               /\ mem' = [mem EXCEPT ![r] = m]
  <1>moved. ASSUME NEW l, NEW m, Goto(r, l, m)
            PROVE  \E k, n : pc' = [pc EXCEPT ![r] = k] /\ mem' = [mem EXCEPT ![r] = n]
    BY <1>moved DEF Goto
  <1>returned. ASSUME NEW a, NEW of, Return(r, a, of)
               PROVE  \E k, n : pc' = [pc EXCEPT ![r] = k] /\ mem' = [mem EXCEPT ![r] = n]
    BY <1>returned DEF Return
  <1>1. ASSUME Create(r) \/ ReclaimExpired(r) \/ ReclaimFailed(r)
        PROVE  \E k, n : pc' = [pc EXCEPT ![r] = k] /\ mem' = [mem EXCEPT ![r] = n]
    BY <1>1, <1>moved, <1>returned
    DEF Create, ReclaimExpired, ReclaimFailed, Claimed, Finish
  <1>2. ASSUME GetExisting(r) \/ GetLatest(r)
        PROVE  \E k, n : pc' = [pc EXCEPT ![r] = k] /\ mem' = [mem EXCEPT ![r] = n]
    BY <1>2, <1>moved, <1>returned DEF GetExisting, GetLatest, Mismatch, Decide, Finish
  <1>3. ASSUME Start(r) \/ Execute(r)
        PROVE  \E k, n : pc' = [pc EXCEPT ![r] = k] /\ mem' = [mem EXCEPT ![r] = n]
    BY <1>3, <1>moved DEF Start, Execute
  <1>4. ASSUME Succeed(r) \/ Fail(r) \/ StoreFails(r) \/ Crash(r)
        PROVE  \E k, n : pc' = [pc EXCEPT ![r] = k] /\ mem' = [mem EXCEPT ![r] = n]
    BY <1>4, <1>returned DEF Succeed, Fail, StoreFails, Crash, Finish
  <1>5. QED
    BY <1>1, <1>2, <1>3, <1>4 DEF ActionOf

\* A row that is there, has not expired and backs off keeps a request at its
\* first read, or answers it.
LEMMA TurnedAway ==
  ASSUME RequestTypeOK, [Next]_vars, NEW s \in Callers, pc[s] \in {"create", "get"},
         record # NoRecord, ~(record.expires <= mem[s].at),
         record.status = "failed_retryable" => record.locked > mem[s].at
  PROVE  pc'[s] \in {"create", "get", "done"}
  <1>1. ASSUME NEW r \in Callers, r # s, ActionOf(r) PROVE pc'[s] = pc[s]
    BY <1>1, OneMoves DEF Renew, requestVars, RequestTypeOK
  <1>moved. ASSUME NEW l, NEW m, Goto(s, l, m) PROVE pc'[s] = l
    BY <1>moved DEF Goto, RequestTypeOK
  <1>returned. ASSUME NEW a, NEW of, Return(s, a, of) PROVE pc'[s] = "done"
    BY <1>returned DEF Return, RequestTypeOK
  <1>2. CASE Create(s)
    BY <1>2, <1>moved DEF Create, CreateProcessing
  <1>3. CASE GetExisting(s)
    BY <1>3, <1>returned DEF GetExisting, Mismatch, Decide, Finish
  <1>4. CASE StoreFails(s) \/ Crash(s)
    BY <1>4, <1>returned DEF StoreFails, Crash, Finish
  <1>5. CASE ActionOf(s)
    BY <1>2, <1>3, <1>4, <1>5
    DEF ActionOf, Start, ReclaimExpired, GetLatest, ReclaimFailed, Execute, Succeed, Fail,
        Renew, Executing, ExecutingAt
  <1>6. CASE CleanupOnce \/ Tick \/ UNCHANGED vars
    BY <1>6 DEF CleanupOnce, Tick, vars, requestVars
  <1>7. QED
    BY <1>1, <1>5, <1>6, Steps

\* Every step moves the requests in those ways.
LEMMA NextMoves ==
  ASSUME TypeOK, [Next]_vars
  PROVE  RequestsMove
  <1>0. RequestTypeOK
    BY TypeParts
  <1> SUFFICES ASSUME NEW s \in Callers
               PROVE  /\ pc'[s] \in Claiming => Start(s) \/ ClaimsOn(s)
                      /\ pc'[s] \in ExecutingAt => Begins(s) \/ HasExecuted(s) \/ Stays(s)
    BY DEF RequestsMove
  <1>still. Stays(s) => /\ pc'[s] \in Claiming => ClaimsOn(s)
                        /\ pc'[s] \in ExecutingAt => Stays(s)
    BY DEF Stays, ClaimsOn, SameTimes
  <1>1. ASSUME NEW r \in Callers, r # s, ActionOf(r) PROVE Stays(s)
    BY <1>0, <1>1, OneMoves DEF Renew, requestVars, RequestTypeOK, Stays
  <1>moved. ASSUME NEW l, NEW m, Goto(s, l, m) PROVE pc'[s] = l /\ mem'[s] = m
    BY <1>0, <1>moved DEF Goto, RequestTypeOK
  <1>returned. ASSUME NEW a, NEW of, Return(s, a, of)
               PROVE  pc'[s] \notin Claiming /\ pc'[s] \notin ExecutingAt
    BY <1>0, <1>returned DEF Return, RequestTypeOK, Claiming, Reclaiming, ExecutingAt
  <1>mem. mem[s] \in Memory
    BY <1>0 DEF RequestTypeOK
  <1>seen. ASSUME NEW l, NEW x, Goto(s, l, [mem[s] EXCEPT !.seen = x])
           PROVE  SameTimes(s)
    BY <1>mem, <1>moved, <1>seen DEF Memory, SameTimes
  <1>claimed. ASSUME NEW id, pc[s] \in Claiming, Claimed(s, id)
              PROVE  /\ pc'[s] \notin Claiming
                     /\ pc'[s] \in ExecutingAt => Begins(s)
    <2>1. CASE Goto(s, "execute", [mem[s] EXCEPT !.own = id, !.seen = NoRecord])
      <3> DEFINE m == [mem[s] EXCEPT !.own = id, !.seen = NoRecord]
      <3>a. /\ m.at = mem[s].at /\ m.expiresAt = mem[s].expiresAt
            /\ m.promise = mem[s].promise
        BY <1>mem DEF Memory
      <3>b. mem'[s] = m
        BY <1>moved, <2>1
      <3>1. SameTimes(s)
        BY <3>a, <3>b DEF SameTimes
      <3>2. pc'[s] = "execute"
        BY <1>moved, <2>1
      <3>3. QED
        BY <1>claimed, <3>1, <3>2 DEF Begins, Claiming, Reclaiming
    <2>2. CASE Finish(s, "unavailable")
      BY <1>returned, <2>2 DEF Finish
    <2>3. QED
      BY <1>claimed, <2>1, <2>2 DEF Claimed
  <1>2. ASSUME Create(s) PROVE /\ pc'[s] \in Claiming => ClaimsOn(s)
                               /\ pc'[s] \in ExecutingAt => Begins(s)
    <2>1. pc[s] \in Claiming
      BY <1>2 DEF Create, Claiming
    <2>2. CASE Goto(s, "get", mem[s])
      BY <1>moved, <2>1, <2>2 DEF ClaimsOn, SameTimes, ExecutingAt
    <2>3. QED
      BY <1>2, <1>claimed, <2>1, <2>2 DEF Create
  <1>3. ASSUME ReclaimExpired(s) \/ ReclaimFailed(s)
        PROVE  /\ pc'[s] \in Claiming => ClaimsOn(s)
               /\ pc'[s] \in ExecutingAt => Begins(s)
    <2>1. pc[s] \in Claiming
      BY <1>3 DEF ReclaimExpired, ReclaimFailed, Claiming, Reclaiming
    <2>2. CASE Goto(s, "get_latest", [mem[s] EXCEPT !.seen = NoRecord])
      BY <1>moved, <1>seen, <2>1, <2>2 DEF ClaimsOn, ExecutingAt
    <2>3. QED
      BY <1>3, <1>claimed, <1>returned, <2>1, <2>2
      DEF ReclaimExpired, ReclaimFailed, Finish
  <1>4. ASSUME GetExisting(s) \/ GetLatest(s)
        PROVE  /\ pc'[s] \in Claiming => ClaimsOn(s)
               /\ pc'[s] \notin ExecutingAt
    <2>1. pc[s] \in Claiming
      BY <1>4 DEF GetExisting, GetLatest, Claiming
    <2>2. CASE \E l \in Reclaiming : Goto(s, l, [mem[s] EXCEPT !.seen = record])
      BY <1>moved, <1>seen, <2>1, <2>2 DEF ClaimsOn, ExecutingAt, Reclaiming
    <2>3. CASE \E a, of : Return(s, a, of)
      BY <1>returned, <2>3
    <2>4. QED
      BY <1>4, <2>2, <2>3 DEF GetExisting, GetLatest, Mismatch, Decide, Finish, Reclaiming
  <1>5. ASSUME Execute(s)
        PROVE  pc'[s] \notin Claiming /\ HasExecuted(s)
    <2> DEFINE m == [mem[s] EXCEPT !.at = now,
                        !.expiresAt = IF s \in Detached THEN now + TTL ELSE @]
    <2>1. PICK ok \in BOOLEAN : Goto(s, IF ok THEN "succeed" ELSE "fail", m)
      BY <1>5 DEF Execute
    <2>2. /\ m.at = now /\ m.expiresAt \in {mem[s].expiresAt, now + TTL}
          /\ m.promise = mem[s].promise
      BY <1>mem DEF Memory
    <2>3. pc'[s] \in {"succeed", "fail"} /\ mem'[s] = m
      <3> HIDE DEF m
      <3>1. QED
        BY <1>moved, <2>1
    <2>4. QED
      BY <1>5, <2>2, <2>3 DEF Execute, HasExecuted, Claiming, Reclaiming
  <1>6. ASSUME Succeed(s) \/ Fail(s) \/ StoreFails(s) \/ Crash(s)
        PROVE  pc'[s] \notin Claiming /\ pc'[s] \notin ExecutingAt
    BY <1>6, <1>returned DEF Succeed, Fail, StoreFails, Crash, Finish
  <1>7. Renew(s) \/ CleanupOnce \/ Tick \/ UNCHANGED vars => Stays(s)
    BY DEF Renew, CleanupOnce, Tick, vars, requestVars, Stays
  <1>8. ASSUME Start(s) PROVE pc'[s] \notin ExecutingAt
    BY <1>8, <1>moved DEF Start, ExecutingAt
  <1>9. ASSUME ActionOf(s)
        PROVE  /\ pc'[s] \in Claiming => Start(s) \/ ClaimsOn(s)
               /\ pc'[s] \in ExecutingAt => Begins(s) \/ HasExecuted(s) \/ Stays(s)
    BY <1>still, <1>2, <1>3, <1>4, <1>5, <1>6, <1>7, <1>8, <1>9 DEF ActionOf
  <1>10. QED
    BY <1>still, <1>1, <1>7, <1>9, Steps

\* The kinds of change of the row: it is created, it is deleted when it has
\* expired, a request takes it over, or the one that executes writes to it.
RowMoves ==
    \/ record' = record
    \/ record = NoRecord
    \/ record # NoRecord /\ record.expires <= now
    \/ /\ record' # NoRecord /\ record'.status = "processing"
       /\ \E r \in Callers : pc[r] \in Claiming /\ record'.expires = mem[r].expiresAt
    \/ /\ record' # NoRecord
       /\ \E r \in Callers :
            /\ Executing(r)
            /\ record'.expires \in {mem[r].expiresAt, now + TTL}
            /\ record'.status = "failed_retryable" =>
                 pc[r] # "execute" /\ record'.locked = mem[r].at + FailedRetryBackoff

\* Every step changes the row in one of those ways.
LEMMA RowStep ==
  ASSUME TypeOK, Inv, [Next]_vars
  PROVE  RowMoves
  <1>0. StoreTypeOK /\ RequestTypeOK
    BY TypeParts
  <1>kept. UNCHANGED storeVars => RowMoves
    BY DEF storeVars, RowMoves
  <1>reclaim. ASSUME NEW r \in Callers, NEW id, NEW from, pc[r] \in Claiming,
                     TryReclaim(id, from, mem[r].at, LockedUntil(r), mem[r].expiresAt)
              PROVE  RowMoves
    <2>1. LockedUntil(r) \in Int /\ mem[r].expiresAt \in Int
      BY DeadlinesAreTimes
    <2>2. record \in Record
      BY <1>0, <1>reclaim DEF TryReclaim, Reclaimable, Exists, StoreTypeOK
    <2>3. /\ record' \in Record /\ record'.status = "processing"
          /\ record'.expires = mem[r].expiresAt
      BY <1>reclaim, <2>1, <2>2 DEF TryReclaim, Record, Statuses
    <2>4. QED
      BY <1>reclaim, <2>3, NoRecordAssumption DEF RowMoves
  <1>1. ASSUME NEW r \in Callers, ReclaimExpired(r) \/ ReclaimFailed(r) PROVE RowMoves
    <2>1. pc[r] \in Claiming
      BY <1>1 DEF ReclaimExpired, ReclaimFailed, Claiming, Reclaiming
    <2>2. QED
      BY <1>1, <1>kept, <1>reclaim, <2>1 DEF ReclaimExpired, ReclaimFailed
  <1>2. ASSUME NEW r \in Callers, Succeed(r) PROVE RowMoves
    <2>1. Executing(r) /\ MarkSucceeded(mem[r].own, r, mem[r].expiresAt)
      BY <1>2 DEF Succeed, Executing, ExecutingAt
    <2>2. Exists(mem[r].own) /\ record \in Record
      BY <1>0, <2>1 DEF Inv, ExecutorHoldsRow, Exists, StoreTypeOK
    <2>3. mem[r].expiresAt \in Int /\ Unlocked \in Int
      BY DeadlinesAreTimes DEF Unlocked
    <2>4. /\ record' \in Record /\ record'.status = "succeeded"
          /\ record'.expires = mem[r].expiresAt
      BY <2>1, <2>2, <2>3 DEF MarkSucceeded, Record, Statuses
    <2>5. QED
      BY <2>1, <2>4, NoRecordAssumption DEF RowMoves
  <1>3. ASSUME NEW r \in Callers, Fail(r) PROVE RowMoves
    <2>1. /\ Executing(r) /\ pc[r] # "execute"
          /\ MarkFailedRetryable(mem[r].own, mem[r].at + FailedRetryBackoff,
            mem[r].expiresAt)
      BY <1>3 DEF Fail, Executing, ExecutingAt
    <2>2. Exists(mem[r].own) /\ record \in Record
      BY <1>0, <2>1 DEF Inv, ExecutorHoldsRow, Exists, StoreTypeOK
    <2>3. mem[r].expiresAt \in Int /\ mem[r].at + FailedRetryBackoff \in Int
      BY DeadlinesAreTimes
    <2>4. /\ record' \in Record /\ record'.locked = mem[r].at + FailedRetryBackoff
          /\ record'.expires = mem[r].expiresAt
      BY <2>1, <2>2, <2>3 DEF MarkFailedRetryable, Record, Statuses
    <2>5. QED
      BY <2>1, <2>4, NoRecordAssumption DEF RowMoves
  <1>4. ASSUME NEW r \in Callers, Renew(r) PROVE RowMoves
    <2>1. /\ Executing(r) /\ record \in Record /\ record.status = "processing"
          /\ record' = [record EXCEPT !.locked = now + ProcessingTimeout,
            !.expires = now + TTL]
      BY <1>0, <1>4 DEF Renew, ExtendProcessingLock, Extendable, Exists, StoreTypeOK
    <2>2. now + ProcessingTimeout \in Int /\ now + TTL \in Int
      BY <1>4, DeadlinesAreTimes
    <2>3. record' \in Record /\ record'.status = "processing" /\ record'.expires = now + TTL
      BY <2>1, <2>2 DEF Record
    <2>4. QED
      BY <2>1, <2>3, NoRecordAssumption DEF RowMoves
  <1>5. ASSUME NEW r \in Callers, Create(r) PROVE RowMoves
    BY <1>5, <1>kept DEF Create, CreateProcessing, RowMoves
  <1>6. CASE CleanupOnce
    BY <1>6 DEF CleanupOnce, DeleteExpired, RowMoves
  <1>7. CASE Tick
    BY <1>7 DEF Tick, RowMoves
  <1>8. ASSUME NEW r \in Callers,
               \/ Start(r) \/ GetExisting(r) \/ GetLatest(r) \/ Execute(r)
               \/ StoreFails(r) \/ Crash(r)
        PROVE  RowMoves
    BY <1>8, <1>kept DEF Start, GetExisting, GetLatest, Execute, StoreFails, Crash
  <1>9. CASE UNCHANGED vars
    BY <1>9, <1>kept DEF vars
  <1>10. QED
    BY <1>1, <1>2, <1>3, <1>4, <1>5, <1>6, <1>7, <1>8, <1>9 DEF Next

\* The clock does not go back.
LEMMA TimeGoesOn ==
  ASSUME TypeOK, [Next]_vars
  PROVE  now \in Nat /\ now' \in Nat /\ now <= now'
  <1>1. now \in Nat
    BY TypeParts DEF StoreTypeOK
  <1>2. now' = now \/ now' = now + 1
    <2>1. ASSUME NEW r \in Callers, ActionOf(r) PROVE now' = now
      BY <2>1
      DEF ActionOf, Start, Create, GetExisting, ReclaimExpired, GetLatest,
          ReclaimFailed, Execute,
          Succeed, Fail, StoreFails, Renew, Crash, storeVars, CreateProcessing,
            TryReclaim,
          ExtendProcessingLock, MarkSucceeded, MarkFailedRetryable
    <2>2. QED
      BY <2>1, Steps DEF CleanupOnce, DeleteExpired, Tick, vars, storeVars
  <1>3. QED
    BY <1>1, <1>2

\* A request that arrives while a success is stored is owed just that.
LEMMA OwedOnArrival ==
  ASSUME TypeOK, Inv, NEW s \in Callers, Start(s), Owed(s)'
  PROVE  (pc[s] \in {"create", "get"} /\ RowLasts(s) /\ ExecutorsLast(s))'
  <1>0. RequestTypeOK /\ StoreTypeOK /\ now \in Nat
    BY TypeParts DEF StoreTypeOK
  <1> DEFINE m == [Blank EXCEPT !.at = now, !.expiresAt = now + TTL,
      !.promise = StoredUntil]
  <1>1. /\ pc'[s] = "create" /\ mem'[s] = m
        /\ \A r \in Callers : r # s => pc'[r] = pc[r]
    BY <1>0, OthersKeep DEF Start, Goto
  <1>2. now' = now /\ record' = record
    BY DEF Start, storeVars
  <1>3. m.at = now /\ m.promise = StoredUntil
    BY DEF Blank
  <1>4. now < StoredUntil
    BY <1>1, <1>2, <1>3 DEF Owed
  <1>5. record # NoRecord /\ record.status = "succeeded" /\ StoredUntil = record.expires
    BY <1>0, <1>4 DEF StoredUntil
  <1>6. \A r \in Callers : ~Executing(r)'
    BY <1>1, <1>5, NobodyExecutes DEF Executing, ExecutingAt
  <1>7. RowLasts(s)'
    BY <1>0, <1>1, <1>2, <1>3, <1>5 DEF RowLasts, StoreTypeOK, Record
  <1>8. QED
    BY <1>1, <1>6, <1>7 DEF ExecutorsLast

\* A step keeps what a request is owed: a claim made since its arrival, or
\* within MaxDelay before, is dated late enough.
LEMMA PromiseStep ==
  ASSUME TypeOK, TypeOK', Inv, PromiseKept, [Next]_vars
  PROVE  PromiseKept'
  <1> USE IdempotencyAssumption, StoreAssumption
  <1> SUFFICES ASSUME NEW s \in Callers, Owed(s)'
               PROVE  (pc[s] \in {"create", "get"} /\ RowLasts(s) /\ ExecutorsLast(s))'
    BY DEF PromiseKept
  <1>0. RequestTypeOK /\ StoreTypeOK /\ StoreTypeOK' /\ RequestTypeOK'
    BY TypeParts, PTL
  <1>1. RequestsMove /\ RowMoves /\ now \in Nat /\ now' \in Nat /\ now <= now'
    BY NextMoves, RowStep, TimeGoesOn
  <1>2. CASE Start(s)
    BY <1>2, OwedOnArrival
  <1>3. CASE ClaimsOn(s)
    <2> DEFINE A == mem[s].at
               P == mem[s].promise
    <2>1. A \in Nat /\ P \in Int /\ mem'[s].at = A /\ mem'[s].promise = P
      BY <1>0, <1>3 DEF ClaimsOn, SameTimes, RequestTypeOK, Memory
    <2>2. now < P /\ Owed(s)
      BY <1>1, <1>3, <2>1 DEF Owed, ClaimsOn
    <2>3. pc[s] \in {"create", "get"} /\ RowLasts(s) /\ ExecutorsLast(s)
      BY <2>2 DEF PromiseKept
    <2>4. A <= now /\ now <= A + MaxDelay
      BY <1>3 DEF Inv, ClaimsInTime, ClaimsOn
    <2>5. record \in Record /\ record.expires \in Int /\ record.locked \in Int
      BY <1>0, <2>3 DEF RowLasts, StoreTypeOK, Record
    <2>6. record.expires > now
      BY <1>1, <2>1, <2>2, <2>3, <2>4, <2>5 DEF RowLasts
    <2>7. pc'[s] \in {"create", "get"}
      <3>1. pc'[s] \in {"create", "get", "done"}
        <4>1. ~(record.expires <= mem[s].at)
          BY <1>1, <2>1, <2>4, <2>5, <2>6
        <4>2. record.status = "failed_retryable" => record.locked > mem[s].at
          BY <2>3 DEF RowLasts
        <4>3. QED
          BY <1>0, <2>3, <4>1, <4>2, TurnedAway DEF RowLasts
      <3>2. QED
        BY <3>1 DEF Owed, Claiming, Reclaiming
    <2>8. ASSUME NEW r \in Callers, pc[r] \in Claiming
          PROVE  mem[r].expiresAt > A + MaxDelay
      <3>1. /\ mem[r].at \in Nat /\ now <= mem[r].at + MaxDelay
            /\ mem[r].expiresAt = mem[r].at + TTL
        BY <1>0, <2>8 DEF Inv, ClaimsInTime, RequestTypeOK, Memory
      <3>2. QED
        BY <1>1, <2>1, <2>4, <3>1
    <2>9. now + TTL > A + MaxDelay
      BY <1>1, <2>1, <2>4
    <2>10. ASSUME NEW r \in Callers, Executing(r)
           PROVE  mem[r].expiresAt > A + MaxDelay /\ (pc[r] # "execute" => mem[r].at >= A)
      BY <2>3, <2>10 DEF ExecutorsLast
    <2>11. ExecutorsLast(s)'
      <3> SUFFICES ASSUME NEW r \in Callers, Executing(r)'
                   PROVE  /\ mem'[r].expiresAt > A + MaxDelay
                          /\ pc'[r] # "execute" => mem'[r].at >= A
        BY <2>1 DEF ExecutorsLast
      <3>1. CASE Begins(r)
        BY <2>8, <3>1 DEF Begins, SameTimes
      <3>2. CASE HasExecuted(r)
        <4>1. Executing(r)
          BY <3>2 DEF HasExecuted, Executing, ExecutingAt
        <4>2. QED
          BY <1>1, <2>1, <2>4, <2>9, <2>10, <3>2, <4>1 DEF HasExecuted
      <3>3. CASE Stays(r)
        BY <2>10, <3>3 DEF Stays, Executing
      <3>4. QED
        BY <1>1, <3>1, <3>2, <3>3 DEF RequestsMove, Executing
    <2>12. RowLasts(s)'
      <3> SUFFICES /\ record' # NoRecord
                   /\ record'.expires >= P \/ record'.expires > A + MaxDelay
                   /\ record'.status = "failed_retryable" => record'.locked > A
        BY <2>1 DEF RowLasts
      <3>1. CASE record' = record
        BY <2>3, <3>1 DEF RowLasts
      <3>2. CASE /\ record' # NoRecord /\ record'.status = "processing"
                 /\ \E r \in Callers : pc[r] \in Claiming /\ record'.expires = mem[r].expiresAt
        BY <2>8, <3>2
      <3>3. ASSUME record' # NoRecord, NEW r \in Callers, Executing(r),
                   record'.expires \in {mem[r].expiresAt, now + TTL},
                   record'.status = "failed_retryable" =>
                     pc[r] # "execute" /\ record'.locked = mem[r].at + FailedRetryBackoff
            PROVE  /\ record'.expires > A + MaxDelay
                   /\ record'.status = "failed_retryable" => record'.locked > A
        <4>1. mem[r].at \in Nat
          BY <1>0 DEF RequestTypeOK, Memory
        <4>2. record'.expires > A + MaxDelay
          BY <2>9, <2>10, <3>3
        <4>3. ASSUME record'.status = "failed_retryable" PROVE record'.locked > A
          BY <2>1, <2>10, <3>3, <4>1, <4>3
        <4>4. QED
          BY <4>2, <4>3
      <3>4. record # NoRecord /\ ~(record.expires <= now)
        BY <1>1, <2>3, <2>5, <2>6 DEF RowLasts
      <3>5. QED
        BY <1>1, <3>1, <3>2, <3>3, <3>4 DEF RowMoves
    <2>13. QED
      BY <2>7, <2>11, <2>12
  <1>4. QED
    BY <1>1, <1>2, <1>3 DEF RequestsMove, Owed

\* Who begins to execute is not owed a success any more.
LEMMA LaterStep ==
  ASSUME TypeOK, TypeOK', Inv, PromiseKept, LaterRequestsReplay, [Next]_vars
  PROVE  LaterRequestsReplay'
  <1> SUFFICES ASSUME NEW r \in Callers, Executing(r)' PROVE mem'[r].promise <= now'
    BY DEF LaterRequestsReplay
  <1>0. RequestTypeOK /\ StoreTypeOK
    BY TypeParts
  <1>1. RequestsMove /\ now \in Nat /\ now' \in Nat /\ now <= now'
    BY NextMoves, TimeGoesOn
  <1>2. mem[r].promise \in Int /\ mem[r].at \in Nat
    BY <1>0 DEF RequestTypeOK, Memory
  <1>3. CASE Executing(r) /\ mem'[r].promise = mem[r].promise
    BY <1>1, <1>2, <1>3 DEF LaterRequestsReplay
  <1>4. CASE Begins(r)
    <2>1. ASSUME Owed(r) PROVE FALSE
      <3>1. pc[r] \in {"create", "get"} /\ RowLasts(r)
        BY <2>1 DEF PromiseKept
      <3>2. record \in Record /\ record.expires \in Int
        BY <1>0, <3>1 DEF RowLasts, StoreTypeOK, Record
      <3>3. mem[r].at <= now /\ now < mem[r].promise
        BY <2>1 DEF Owed, Inv, ClaimsInTime
      <3>4. ~(record.expires <= mem[r].at)
        BY <1>1, <1>2, <3>1, <3>2, <3>3, IdempotencyAssumption DEF RowLasts
      <3>5. pc'[r] \in {"create", "get", "done"}
        BY <1>0, <3>1, <3>4, TurnedAway DEF RowLasts
      <3>6. QED
        BY <1>4, <3>5 DEF Begins
    <2>2. mem[r].promise <= now
      BY <1>1, <1>2, <1>4, <2>1 DEF Owed, Begins
    <2>3. QED
      BY <1>1, <1>2, <1>4, <2>2 DEF Begins, SameTimes
  <1>5. QED
    BY <1>1, <1>3, <1>4
    DEF RequestsMove, HasExecuted, Stays, Executing, ExecutingAt

\* A request that arrives while a success is stored does not execute before
\* that success has expired, also when a request that arrived earlier takes the
\* row over, fails and leaves it to be retried.
THEOREM LaterReplays == Spec => []LaterRequestsReplay
  <1> DEFINE I == TypeOK /\ Inv /\ SeenIsOwn /\ PromiseKept /\ LaterRequestsReplay
  <1>1. Init => I
    <2>1. Init => \A r \in Callers : pc[r] = "idle"
      BY DEF Init
    <2>2. Init => PromiseKept /\ LaterRequestsReplay
      BY <2>1 DEF PromiseKept, Owed, Claiming, Reclaiming, LaterRequestsReplay, Executing,
         ExecutingAt
    <2>3. QED
      BY <2>2, InitInv
  <1>2. I /\ [Next]_vars => I'
    BY TypeStep, InvStep, SeenStep, PromiseStep, LaterStep
  <1>3. I => LaterRequestsReplay
    OBVIOUS
  <1>4. QED
    BY <1>1, <1>2, <1>3, PTL DEF Spec

=============================================================================
