---------------------- MODULE SystemOperationLockProofs ----------------------
(* Theorems about SystemOperationLock, for any operations, ids and times    *)
(* that satisfy its assumptions.                                            *)
EXTENDS SystemOperationLock, IdempotencyStoreProofs, TLAPS

\* The row of a running operation is locked, and kept at least as long.
HolderInv ==
    \A c \in Callers : Running(c) =>
        /\ Exists(own[c])
        /\ record.status = "processing"
        /\ record.locked > now
        /\ record.expires >= record.locked

\* A claim is made within MaxDelay of the arrival it is dated with.
ClaimsInTime ==
    \A c \in Callers : pc[c] \in Claiming => at[c] <= now /\ now <= at[c] + MaxDelay

\* Who is about to take the row over arrived before the lock of whoever runs
\* runs out.
LockOutlivesReclaimers ==
    \A c, d \in Callers : Running(c) /\ pc[d] = "reclaim" => at[d] < record.locked

\* A running operation whose renew loop has ended holds another's row.
RenewsOwnRow ==
    \A c \in Callers : Running(c) => c \in renewing \/ record.fingerprint # Fingerprint[c]

Inv == /\ OneSystemOperation /\ HolderInv /\ ClaimsInTime /\ LockOutlivesReclaimers
       /\ RenewsOwnRow

\* What is inductive without any assumption on how long operations take.
InvUntilOutlived == ClaimsInTime /\ (outlived = {} => Inv)

-----------------------------------------------------------------------------
\* The deadlines an operation computes are times.
LEMMA LockDeadlines ==
  ASSUME TypeOK, NEW c \in Callers
  PROVE  /\ at[c] \in Nat /\ at[c] + ProcessingTimeout \in Int /\ at[c] + TTL \in Int
         /\ now \in Nat /\ now + ProcessingTimeout \in Int /\ now + TTL \in Int
  BY StoreAssumption DEF TypeOK, StoreTypeOK

\* The types are inductive.
LEMMA TypeStep == TypeOK /\ [Next]_vars => TypeOK'
  <1> SUFFICES ASSUME TypeOK, [Next]_vars PROVE TypeOK'
    BY PTL
  <1>0. StoreTypeOK
    BY DEF TypeOK
  <1>kept. UNCHANGED storeVars => StoreTypeOK'
    BY <1>0 DEF storeVars, StoreTypeOK
  <1>1. ASSUME NEW c \in Callers, Start(c) PROVE TypeOK'
    BY <1>1, <1>kept DEF Start, Goto, TypeOK, StoreTypeOK, Claiming
  <1>2. ASSUME NEW c \in Callers, Create(c) PROVE TypeOK'
    <2>1. StoreTypeOK'
      BY <1>0, <1>2, <1>kept, LockDeadlines, CreateTypes DEF Create
    <2>2. lastId + 1 \in Nat
      BY <1>0 DEF StoreTypeOK
    <2>3. QED
      BY <1>2, <2>1, <2>2 DEF Create, Acquired, Goto, TypeOK, Claiming
  <1>3. ASSUME NEW c \in Callers, GetExisting(c) PROVE TypeOK'
    <2>1. StoreTypeOK'
      BY <1>3, <1>kept DEF GetExisting
    <2>2. record # NoRecord => record \in Record
      BY <1>0 DEF StoreTypeOK
    <2>3. QED
      BY <1>3, <2>1, <2>2 DEF GetExisting, Goto, TypeOK, Claiming
  <1>4. ASSUME NEW c \in Callers, Reclaim(c) PROVE TypeOK'
    <2>1. StoreTypeOK'
      BY <1>0, <1>4, <1>kept, LockDeadlines, ReclaimTypes DEF Reclaim
    <2>2. TryReclaim(seen[c].id, seen[c].status, at[c], at[c] + ProcessingTimeout, at[c] + TTL)
          => seen[c].id \in Nat
      BY <1>0 DEF TryReclaim, Reclaimable, Exists, StoreTypeOK, Record
    <2>3. QED
      BY <1>4, <2>1, <2>2 DEF Reclaim, Acquired, Goto, TypeOK, Claiming
  <1>5. ASSUME NEW c \in Callers, Renew(c) PROVE TypeOK'
    <2>1. StoreTypeOK'
      BY <1>0, <1>5, <1>kept, LockDeadlines, ExtendTypes DEF Renew
    <2>2. QED
      BY <1>5, <2>1 DEF Renew, TypeOK
  <1>6. ASSUME NEW c \in Callers, StopRenewing(c) PROVE TypeOK'
    BY <1>6, <1>kept DEF StopRenewing, TypeOK
  <1>7. ASSUME NEW c \in Callers, Release(c) PROVE TypeOK'
    <2>1. StoreTypeOK'
      BY <1>0, <1>7, <1>kept, LockDeadlines, SucceedTypes, FailTypes DEF Release
    <2>2. QED
      BY <1>7, <2>1 DEF Release, Goto, TypeOK
  <1>8. ASSUME NEW c \in Callers, AcquireFails(c) PROVE TypeOK'
    <2>1. StoreTypeOK'
      BY <1>0, <1>8, <1>kept, LockDeadlines, CreateTypes, ReclaimTypes DEF AcquireFails
    <2>2. QED
      BY <1>8, <2>1 DEF AcquireFails, Goto, TypeOK
  <1>9. ASSUME NEW c \in Callers, Crash(c) PROVE TypeOK'
    BY <1>9, <1>kept DEF Crash, Goto, TypeOK
  <1>10. CASE CleanupOnce
    BY <1>0, <1>10, DeleteTypes DEF CleanupOnce, lockVars, TypeOK
  <1>11. CASE Tick
    BY <1>0, <1>11 DEF Tick, lockVars, TypeOK, StoreTypeOK
  <1>12. CASE UNCHANGED vars
    BY <1>12, <1>kept DEF vars, lockVars, TypeOK
  <1>13. QED
    BY <1>1, <1>2, <1>3, <1>4, <1>5, <1>6, <1>7, <1>8, <1>9, <1>10, <1>11, <1>12 DEF Next

\* Every variable keeps its type, whatever the operations do.
THEOREM LockTypeCorrect == Spec => []TypeOK
  <1>1. Init => TypeOK
    BY DEF Init, TypeOK, StoreInit, StoreTypeOK
  <1>2. QED
    BY <1>1, TypeStep, PTL DEF Spec

-----------------------------------------------------------------------------
\* When nobody runs any more the invariant holds, whatever became of the row.
LEMMA NobodyRunsKeeps ==
  ASSUME TypeOK, Inv, NEW c \in Callers, Goto(c, "done"), at' = at, now' = now,
         \A d \in Callers : Running(d) => d = c
  PROVE  Inv'
  <1>1. pc'[c] = "done" /\ \A d \in Callers : d # c => pc'[d] = pc[d]
    BY DEF TypeOK, Goto
  <1>2. \A d \in Callers : ~Running(d)'
    BY <1>1 DEF Running
  <1>3. ClaimsInTime'
    BY <1>1 DEF Inv, ClaimsInTime, Claiming
  <1>4. QED
    BY <1>2, <1>3 DEF Inv, OneSystemOperation, HolderInv, LockOutlivesReclaimers, RenewsOwnRow

\* An operation that gives up, or goes on to the next claim call, keeps it; it
\* goes to take the row over only while nobody runs.
LEMMA ClaimingKeeps ==
  ASSUME TypeOK, Inv, NEW c \in Callers, NEW l, l = "done" \/ l \in Claiming,
         ~Running(c), Goto(c, l), UNCHANGED <<storeVars, own, renewing>>,
         (at'[c] <= now /\ now <= at'[c] + MaxDelay) \/ l = "done",
         \A d \in Callers : d # c => at'[d] = at[d],
         l = "reclaim" => \A d \in Callers : ~Running(d)
  PROVE  Inv'
  <1>1. pc'[c] = l /\ \A d \in Callers : d # c => pc'[d] = pc[d]
    BY DEF TypeOK, Goto
  <1>2. now' = now /\ record' = record /\ own' = own
    BY DEF storeVars
  <1>3. \A d \in Callers : Running(d)' <=> Running(d)
    BY <1>1 DEF Running, Claiming
  <1>4. OneSystemOperation' /\ HolderInv'
    BY <1>2, <1>3 DEF Inv, OneSystemOperation, HolderInv, Exists
  <1>5. ClaimsInTime'
    BY <1>1, <1>2 DEF Inv, ClaimsInTime, Claiming
  <1>6. LockOutlivesReclaimers'
    BY <1>1, <1>2, <1>3 DEF Inv, LockOutlivesReclaimers, Claiming
  <1>7. RenewsOwnRow'
    BY <1>2, <1>3 DEF Inv, RenewsOwnRow
  <1>8. QED
    BY <1>4, <1>5, <1>6, <1>7 DEF Inv

\* An operation that claims the row while nobody runs holds it afterwards.
LEMMA AcquiredKeeps ==
  ASSUME TypeOK, Inv, NEW c \in Callers, pc[c] \in Claiming, NEW id,
         Acquired(c, id), at' = at, now' = now,
         \A d \in Callers : ~Running(d),
         record' # NoRecord, record'.id = id, record'.status = "processing",
         record'.locked = at[c] + ProcessingTimeout, record'.expires = at[c] + TTL
  PROVE  Inv'
  <1> USE StoreAssumption, LockAssumption
  <1>0. now \in Nat /\ \A d \in Callers : at[d] \in Nat
    BY DEF TypeOK, StoreTypeOK
  <1>1. /\ pc'[c] = "running" /\ own'[c] = id
        /\ \A d \in Callers : d # c => pc'[d] = pc[d]
    BY DEF TypeOK, Goto, Acquired
  <1>2. \A d \in Callers : Running(d)' => d = c
    BY <1>1 DEF Running
  <1>3. at[c] <= now /\ now < at[c] + ProcessingTimeout
    BY <1>0 DEF Inv, ClaimsInTime
  <1>4. OneSystemOperation'
    BY <1>2 DEF OneSystemOperation
  <1>5. HolderInv'
    BY <1>0, <1>1, <1>2, <1>3 DEF HolderInv, Exists
  <1>6. ClaimsInTime'
    BY <1>1 DEF Inv, ClaimsInTime, Claiming
  <1>7. LockOutlivesReclaimers'
    <2>1. \A d \in Callers : pc'[d] = "reclaim" => at[d] <= now
      BY <1>1 DEF Inv, ClaimsInTime, Claiming
    <2>2. QED
      BY <1>0, <1>2, <1>3, <2>1 DEF LockOutlivesReclaimers
  <1>8. RenewsOwnRow'
    BY <1>2 DEF RenewsOwnRow, Acquired
  <1>9. QED
    BY <1>4, <1>5, <1>6, <1>7, <1>8 DEF Inv

\* The row can be created or taken over only while nobody runs.
LEMMA ClaimMeansFree ==
  ASSUME TypeOK, Inv, NEW c \in Callers,
         \/ record = NoRecord
         \/ pc[c] = "reclaim" /\ Reclaimable(seen[c].id, seen[c].status, at[c])
         \/ pc[c] = "get" /\ (record.status # "processing" \/ record.locked <= at[c])
  PROVE  \A d \in Callers : ~Running(d)
  <1> SUFFICES ASSUME NEW d \in Callers, Running(d) PROVE FALSE
    OBVIOUS
  <1>1. record # NoRecord /\ record.status = "processing" /\ record.locked > now
    BY DEF Inv, HolderInv, Exists
  <1>2. record.locked \in Int /\ now \in Nat /\ at[c] \in Nat
    BY <1>1 DEF TypeOK, StoreTypeOK, Record
  <1>3. CASE pc[c] = "reclaim" /\ Reclaimable(seen[c].id, seen[c].status, at[c])
    BY <1>2, <1>3 DEF Inv, LockOutlivesReclaimers, Reclaimable
  <1>4. CASE pc[c] = "get" /\ (record.status # "processing" \/ record.locked <= at[c])
    BY <1>1, <1>2, <1>4 DEF Inv, ClaimsInTime, Claiming
  <1>5. QED
    BY <1>1, <1>3, <1>4

\* A renewal, a late one included, moves the lock past whoever has arrived.
LEMMA RenewKeeps ==
  ASSUME TypeOK, Inv, NEW c \in Callers, Renew(c)
  PROVE  Inv'
  <1> USE StoreAssumption, LockAssumption
  <1>1. pc' = pc /\ at' = at /\ own' = own
    BY DEF Renew
  <1>2. CASE UNCHANGED storeVars
    <2>1. OneSystemOperation' /\ HolderInv' /\ ClaimsInTime' /\ LockOutlivesReclaimers'
      BY <1>1, <1>2 DEF storeVars, Inv, OneSystemOperation, HolderInv, ClaimsInTime,
         LockOutlivesReclaimers, Running, Exists
    <2>2. renewing' = renewing \/ (renewing' = renewing \ {c} /\ ~Extendable(own[c], Fingerprint[c]))
      BY DEF Renew
    <2>3. RenewsOwnRow'
      BY <1>1, <1>2, <2>2 DEF storeVars, Inv, HolderInv, RenewsOwnRow, Running, Extendable
    <2>4. QED
      BY <2>1, <2>3 DEF Inv
  <1>3. CASE ExtendProcessingLock(own[c], Fingerprint[c], now + ProcessingTimeout, now + TTL)
    <2>0. now \in Nat /\ \A d \in Callers : at[d] \in Nat
      BY DEF TypeOK, StoreTypeOK
    <2>1. /\ record # NoRecord /\ record \in Record /\ now' = now
          /\ record' = [record EXCEPT !.locked = now + ProcessingTimeout,
                                      !.expires = now + TTL]
      BY <1>3 DEF ExtendProcessingLock, Extendable, Exists, TypeOK, StoreTypeOK
    <2>2. /\ record'.id = record.id /\ record'.status = record.status
          /\ record'.locked = now + ProcessingTimeout /\ record'.expires = now + TTL
      BY <2>1 DEF Record
    <2>3. record' # NoRecord
      <3>1. now + ProcessingTimeout \in Int /\ now + TTL \in Int
        BY <2>0
      <3>2. record' \in Record
        BY <2>1, <3>1 DEF Record
      <3>3. QED
        BY <3>2, NoRecordAssumption
    <2>4. OneSystemOperation' /\ ClaimsInTime'
      BY <1>1, <2>1 DEF Inv, OneSystemOperation, ClaimsInTime, Running
    <2>5. HolderInv'
      BY <1>1, <2>0, <2>1, <2>2, <2>3 DEF Inv, HolderInv, Running, Exists
    <2>6. LockOutlivesReclaimers'
      <3>1. \A d \in Callers : pc[d] = "reclaim" => at[d] <= now
        BY DEF Inv, ClaimsInTime, Claiming
      <3>2. QED
        BY <1>1, <2>0, <2>2, <3>1 DEF LockOutlivesReclaimers
    <2>7. RenewsOwnRow'
      <3>1. record'.fingerprint = record.fingerprint
        BY <2>1 DEF Record
      <3>2. c \in Callers /\ renewing' = renewing
        BY <1>3 DEF Renew, ExtendProcessingLock
      <3>3. QED
        BY <1>1, <3>1, <3>2 DEF Inv, RenewsOwnRow, Running
    <2>8. QED
      BY <2>4, <2>5, <2>6, <2>7 DEF Inv
  <1>4. QED
    BY <1>2, <1>3 DEF Renew

\* The invariant is inductive for as long as no operation outlives its lock.
LEMMA InvStep ==
  ASSUME outlived' = {}
  PROVE  TypeOK /\ Inv /\ [Next]_vars => Inv'
  <1> SUFFICES ASSUME TypeOK, Inv, [Next]_vars PROVE Inv'
    OBVIOUS
  <1> USE StoreAssumption, LockAssumption
  <1>0. /\ now \in Nat /\ record \in Record \union {NoRecord}
        /\ \A d \in Callers : at[d] \in Nat
    BY DEF TypeOK, StoreTypeOK
  <1>times. \A c \in Callers : pc[c] \in Claiming =>
              at[c] <= now /\ now <= at[c] + MaxDelay
    BY DEF Inv, ClaimsInTime
  <1>create. ASSUME NEW c \in Callers, pc[c] = "create",
                    CreateProcessing(Fingerprint[c], at[c] + ProcessingTimeout, at[c] + TTL)
             PROVE  /\ \A d \in Callers : ~Running(d)
                    /\ now' = now /\ record' # NoRecord
                    /\ record'.id = lastId + 1 /\ record'.status = "processing"
                    /\ record'.locked = at[c] + ProcessingTimeout
                    /\ record'.expires = at[c] + TTL
    <2>1. record' # NoRecord
      <3>1. record' \in Record
        BY <1>0, <1>create DEF CreateProcessing, Record, Statuses, TypeOK, StoreTypeOK
      <3>2. QED
        BY <3>1, NoRecordAssumption
    <2>2. QED
      BY <1>create, <2>1, ClaimMeansFree DEF CreateProcessing
  <1>reclaim. ASSUME NEW c \in Callers, pc[c] = "reclaim",
                     TryReclaim(seen[c].id, seen[c].status, at[c],
                                at[c] + ProcessingTimeout, at[c] + TTL)
              PROVE  /\ \A d \in Callers : ~Running(d)
                     /\ now' = now /\ record' # NoRecord
                     /\ record'.id = seen[c].id /\ record'.status = "processing"
                     /\ record'.locked = at[c] + ProcessingTimeout
                     /\ record'.expires = at[c] + TTL
    <2>1. \A d \in Callers : ~Running(d)
      BY <1>reclaim, ClaimMeansFree DEF TryReclaim
    <2>2. record # NoRecord /\ record.id = seen[c].id
      BY <1>reclaim DEF TryReclaim, Reclaimable, Exists
    <2>3. /\ record' = [record EXCEPT !.status = "processing",
                                      !.locked = at[c] + ProcessingTimeout,
                                      !.expires = at[c] + TTL]
          /\ now' = now
      BY <1>reclaim DEF TryReclaim
    <2>4. at[c] + ProcessingTimeout \in Int /\ at[c] + TTL \in Int
      BY LockDeadlines
    <2>5. record' \in Record
      BY <1>0, <2>2, <2>3, <2>4 DEF Record, Statuses
    <2>6. QED
      BY <1>0, <2>1, <2>2, <2>3, <2>5, NoRecordAssumption DEF Record
  <1>1. ASSUME NEW c \in Callers, Start(c) PROVE Inv'
    <2>1. at'[c] = now /\ \A d \in Callers : d # c => at'[d] = at[d]
      BY <1>1 DEF Start, TypeOK
    <2>2. QED
      BY <1>0, <1>1, <2>1, ClaimingKeeps DEF Start, Running, Claiming
  <1>2. ASSUME NEW c \in Callers, Create(c) PROVE Inv'
    <2>1. CASE CreateProcessing(Fingerprint[c], at[c] + ProcessingTimeout, at[c] + TTL)
               /\ Acquired(c, lastId + 1)
      BY <1>2, <1>create, <2>1, AcquiredKeeps DEF Create, Claiming
    <2>2. CASE Goto(c, "get") /\ UNCHANGED <<storeVars, own, renewing>>
      BY <1>2, <1>times, <2>2, ClaimingKeeps DEF Create, Running, Claiming
    <2>3. QED
      BY <1>2, <2>1, <2>2 DEF Create
  <1>3. ASSUME NEW c \in Callers, GetExisting(c) PROVE Inv'
    <2>1. CASE Goto(c, "done")
      BY <1>3, <1>times, <2>1, ClaimingKeeps DEF GetExisting, Running
    <2>2. CASE /\ record # NoRecord
               /\ record.status # "processing" \/ record.locked <= at[c]
               /\ Goto(c, "reclaim")
      <3>1. \A d \in Callers : ~Running(d)
        BY <1>3, <2>2, ClaimMeansFree DEF GetExisting
      <3>2. QED
        BY <1>3, <1>times, <2>2, <3>1, ClaimingKeeps DEF GetExisting, Claiming
    <2>3. QED
      BY <1>3, <2>1, <2>2 DEF GetExisting
  <1>4. ASSUME NEW c \in Callers, Reclaim(c) PROVE Inv'
    <2>1. CASE TryReclaim(seen[c].id, seen[c].status, at[c],
                          at[c] + ProcessingTimeout, at[c] + TTL)
               /\ Acquired(c, seen[c].id)
      BY <1>4, <1>reclaim, <2>1, AcquiredKeeps DEF Reclaim, Claiming
    <2>2. CASE Goto(c, "done") /\ UNCHANGED <<storeVars, own, renewing>>
      BY <1>4, <1>times, <2>2, ClaimingKeeps DEF Reclaim, Running
    <2>3. QED
      BY <1>4, <2>1, <2>2 DEF Reclaim
  <1>5. ASSUME NEW c \in Callers, Renew(c) PROVE Inv'
    BY <1>5, RenewKeeps
  <1>6. ASSUME NEW c \in Callers, StopRenewing(c) PROVE Inv'
    BY <1>6 DEF StopRenewing, storeVars, Inv, OneSystemOperation, HolderInv,
       ClaimsInTime, LockOutlivesReclaimers, RenewsOwnRow, Running, Exists
  <1>7. ASSUME NEW c \in Callers, Release(c) PROVE Inv'
    <2>1. now' = now
      BY <1>7 DEF Release, MarkSucceeded, MarkFailedRetryable, storeVars
    <2>2. QED
      BY <1>7, <2>1, NobodyRunsKeeps DEF Release, Inv, OneSystemOperation
  <1>8. ASSUME NEW c \in Callers, AcquireFails(c) PROVE Inv'
    <2>1. CASE UNCHANGED storeVars
      BY <1>8, <2>1, <1>times, ClaimingKeeps DEF AcquireFails, Running, Claiming
    <2>2. CASE pc[c] = "create"
               /\ CreateProcessing(Fingerprint[c], at[c] + ProcessingTimeout, at[c] + TTL)
      BY <1>8, <1>create, <2>2, NobodyRunsKeeps DEF AcquireFails
    <2>3. CASE pc[c] = "reclaim"
               /\ TryReclaim(seen[c].id, seen[c].status, at[c],
                             at[c] + ProcessingTimeout, at[c] + TTL)
      BY <1>8, <1>reclaim, <2>3, NobodyRunsKeeps DEF AcquireFails
    <2>4. QED
      BY <1>8, <2>1, <2>2, <2>3 DEF AcquireFails
  <1>9. ASSUME NEW c \in Callers, Crash(c) PROVE Inv'
    <2>1. now' = now
      BY <1>9 DEF Crash, storeVars
    <2>2. QED
      BY <1>9, <2>1, NobodyRunsKeeps DEF Crash, Inv, OneSystemOperation
  <1>10. CASE CleanupOnce
    <2>1. \A d \in Callers : ~Running(d)
      <3> SUFFICES ASSUME NEW d \in Callers, Running(d) PROVE FALSE
        OBVIOUS
      <3>1. record # NoRecord /\ record.locked > now /\ record.expires >= record.locked
        BY DEF Inv, HolderInv, Exists
      <3>2. record.locked \in Int /\ record.expires \in Int
        BY <1>0, <3>1 DEF Record
      <3>3. QED
        BY <1>0, <1>10, <3>1, <3>2 DEF CleanupOnce, DeleteExpired
    <2>2. pc' = pc /\ at' = at /\ now' = now
      BY <1>10 DEF CleanupOnce, DeleteExpired, lockVars
    <2>3. QED
      BY <2>1, <2>2 DEF Inv, OneSystemOperation, HolderInv, ClaimsInTime,
         LockOutlivesReclaimers, RenewsOwnRow, Running
  <1>11. CASE Tick
    <2>1. /\ pc' = pc /\ at' = at /\ own' = own /\ record' = record /\ now' = now + 1
          /\ renewing' = renewing
          /\ \A c \in Callers : pc[c] \in Claiming => now < at[c] + MaxDelay
      BY <1>11 DEF Tick
    <2>2. OneSystemOperation' /\ LockOutlivesReclaimers' /\ RenewsOwnRow'
      BY <2>1 DEF Inv, OneSystemOperation, LockOutlivesReclaimers, RenewsOwnRow, Running
    <2>3. HolderInv'
      <3>1. ASSUME NEW c \in Callers, Running(c) PROVE record.locked > now + 1
        <4>1. record # NoRecord /\ Exists(own[c])
          BY <3>1 DEF Inv, HolderInv, Exists
        <4>2. ~(record.locked <= now + 1)
          BY <1>11, <3>1, <4>1 DEF Tick
        <4>3. QED
          BY <1>0, <4>1, <4>2 DEF Record
      <3>2. QED
        BY <2>1, <3>1 DEF Inv, HolderInv, Running, Exists
    <2>4. ClaimsInTime'
      BY <1>0, <2>1 DEF Inv, ClaimsInTime
    <2>5. QED
      BY <2>2, <2>3, <2>4 DEF Inv
  <1>12. CASE UNCHANGED vars
    BY <1>12 DEF vars, storeVars, lockVars, Inv, OneSystemOperation, HolderInv,
       ClaimsInTime, LockOutlivesReclaimers, RenewsOwnRow, Running, Exists
  <1>13. QED
    BY <1>1, <1>2, <1>3, <1>4, <1>5, <1>6, <1>7, <1>8, <1>9, <1>10, <1>11, <1>12 DEF Next

\* Claims are made in time also when locks run out under running operations.
LEMMA ClaimsInTimeStep == TypeOK /\ ClaimsInTime /\ [Next]_vars => ClaimsInTime'
  <1> SUFFICES ASSUME TypeOK, ClaimsInTime, [Next]_vars PROVE ClaimsInTime'
    OBVIOUS
  <1> USE StoreAssumption, LockAssumption
  <1>0. now \in Nat /\ at \in [Callers -> Nat]
    BY DEF TypeOK, StoreTypeOK
  <1>1. ASSUME NEW c \in Callers, Start(c) PROVE ClaimsInTime'
    BY <1>0, <1>1 DEF Start, Goto, storeVars, ClaimsInTime, Claiming, TypeOK
  <1>2. ASSUME NEW c \in Callers, NEW l, Goto(c, l), at' = at, now' = now,
               pc[c] \in Claiming \/ l \notin Claiming
        PROVE  ClaimsInTime'
    BY <1>2 DEF Goto, ClaimsInTime, TypeOK
  <1>3. ASSUME NEW c \in Callers, Create(c) PROVE ClaimsInTime'
    BY <1>2, <1>3 DEF Create, CreateProcessing, Acquired, storeVars, Claiming
  <1>4. ASSUME NEW c \in Callers, GetExisting(c) PROVE ClaimsInTime'
    BY <1>2, <1>4 DEF GetExisting, storeVars, Claiming
  <1>5. ASSUME NEW c \in Callers, Reclaim(c) PROVE ClaimsInTime'
    BY <1>2, <1>5 DEF Reclaim, TryReclaim, Acquired, storeVars, Claiming
  <1>6. ASSUME NEW c \in Callers, Renew(c) \/ StopRenewing(c) PROVE ClaimsInTime'
    BY <1>6 DEF Renew, StopRenewing, ExtendProcessingLock, storeVars, ClaimsInTime
  <1>7. ASSUME NEW c \in Callers, Release(c) PROVE ClaimsInTime'
    BY <1>2, <1>7 DEF Release, MarkSucceeded, MarkFailedRetryable, storeVars, Claiming
  <1>8. ASSUME NEW c \in Callers, AcquireFails(c) PROVE ClaimsInTime'
    BY <1>2, <1>8 DEF AcquireFails, CreateProcessing, TryReclaim, storeVars, Claiming
  <1>9. ASSUME NEW c \in Callers, Crash(c) PROVE ClaimsInTime'
    BY <1>2, <1>9 DEF Crash, storeVars, Claiming
  <1>10. CASE CleanupOnce
    BY <1>10 DEF CleanupOnce, DeleteExpired, lockVars, ClaimsInTime
  <1>11. CASE Tick
    BY <1>0, <1>11 DEF Tick, ClaimsInTime
  <1>12. CASE UNCHANGED vars
    BY <1>12 DEF vars, storeVars, lockVars, ClaimsInTime
  <1>13. QED
    BY <1>1, <1>3, <1>4, <1>5, <1>6, <1>7, <1>8, <1>9, <1>10, <1>11, <1>12 DEF Next

\* An operation that has outlived its lock stays on record.
LEMMA OutlivedGrows == [Next]_vars => outlived \subseteq outlived'
  BY DEF Next, Start, Create, GetExisting, Reclaim, Renew, StopRenewing, Release,
     AcquireFails, Crash, CleanupOnce, Tick, lockVars, vars

\* The invariant holds throughout.
LEMMA InvHolds == Spec => [](TypeOK /\ InvUntilOutlived)
  <1>1. Init => InvUntilOutlived
    BY DEF Init, InvUntilOutlived, Inv, OneSystemOperation, HolderInv, ClaimsInTime,
       LockOutlivesReclaimers, RenewsOwnRow, Running, Claiming
  <1>2. TypeOK /\ InvUntilOutlived /\ [Next]_vars => InvUntilOutlived'
    <2> SUFFICES ASSUME TypeOK, InvUntilOutlived, [Next]_vars PROVE InvUntilOutlived'
      OBVIOUS
    <2>1. ClaimsInTime'
      BY ClaimsInTimeStep DEF InvUntilOutlived
    <2>2. outlived' = {} => Inv'
      <3> SUFFICES ASSUME outlived' = {} PROVE Inv'
        OBVIOUS
      <3>1. outlived = {}
        BY OutlivedGrows
      <3>2. QED
        BY <3>1, InvStep DEF InvUntilOutlived
    <2>3. QED
      BY <2>1, <2>2 DEF InvUntilOutlived
  <1>3. QED
    BY <1>1, <1>2, LockTypeCorrect, PTL DEF Spec

\* At most one system operation runs at a time (ErrSystemOperationBusy) for as
\* long as no running operation's lock has run out; nothing is assumed of how
\* long operations take.
THEOREM OneOperationAtATime == Spec => []OneUnlessOutlived
  <1>1. InvUntilOutlived => OneUnlessOutlived
    BY DEF InvUntilOutlived, Inv, OneUnlessOutlived
  <1>2. QED
    BY <1>1, InvHolds, PTL

\* Until then the row of a running operation stays claimed and locked: neither
\* the renewals nor the Release of operations that ended, nor the cleanup, take
\* it away.
THEOREM RunningOperationIsLocked == Spec => []RunningIsLocked
  <1>1. InvUntilOutlived => RunningIsLocked
    BY DEF InvUntilOutlived, Inv, HolderInv, RunningIsLocked
  <1>2. QED
    BY <1>1, InvHolds, PTL

\* The first lock to run out under a running operation is one that was taken
\* over from another operation, whose id the renewals do not match: who created
\* its row keeps it however long it runs.
THEOREM TheFirstToRunOutTookOver == Spec => OnlyTakeoversRunOut
  <1> DEFINE TakenOver == outlived = {} =>
                 \A c \in outlived' : Exists(own[c]) /\ record.fingerprint # Fingerprint[c]
  <1>1. TypeOK /\ InvUntilOutlived /\ [Next]_vars => [TakenOver]_vars
    <2> SUFFICES ASSUME TypeOK, InvUntilOutlived, Next, outlived = {},
                        NEW c \in outlived'
                 PROVE  Exists(own[c]) /\ record.fingerprint # Fingerprint[c]
      BY DEF vars
    <2>1. Tick
      BY DEF Next, Start, Create, GetExisting, Reclaim, Renew, StopRenewing, Release,
         AcquireFails, Crash, CleanupOnce, lockVars
    <2>2. c \in Callers /\ Running(c) /\ Exists(own[c]) /\ record.locked <= now + 1
      BY <2>1 DEF Tick
    <2>3. record.locked \in Int /\ now \in Nat
      BY <2>2 DEF TypeOK, StoreTypeOK, Exists, Record
    <2>4. ~(c \in renewing /\ Extendable(own[c], Fingerprint[c]))
      BY <2>1, <2>2, <2>3 DEF Tick
    <2>5. HolderInv /\ RenewsOwnRow
      BY DEF InvUntilOutlived, Inv
    <2>6. QED
      BY <2>2, <2>4, <2>5 DEF HolderInv, RenewsOwnRow, Extendable
  <1>2. QED
    BY <1>1, InvHolds, PTL DEF Spec, OnlyTakeoversRunOut
=============================================================================
