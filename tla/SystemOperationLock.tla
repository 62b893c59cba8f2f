------------------------- MODULE SystemOperationLock -------------------------
(* The lock that keeps update, rollback and restart of the server apart     *)
(* (service/system_operation_lock_service.go): one row of the idempotency   *)
(* store, claimed by Acquire, kept by the renew loop, given up by Release.  *)
(* A caller is one operation; its Fingerprint is the operation id, which    *)
(* ExtendProcessingLock compares with the row's.                            *)
EXTENDS IdempotencyStore

CONSTANTS MaxDelay    \* how long after its arrival an operation may still claim

ASSUME LockAssumption ==
    /\ MaxDelay \in Nat /\ MaxDelay < ProcessingTimeout
    /\ ProcessingTimeout <= TTL

VARIABLES pc,        \* where each operation is
          at,        \* the time it read on arrival
          own,       \* lock.recordID
          seen,      \* existing: the row it has read
          renewing,  \* operations whose renewLoop runs
          outlived   \* history: operations whose lock ran out while they were running

lockVars == <<pc, at, own, seen, renewing, outlived>>
vars == <<storeVars, lockVars>>

Claiming == {"create", "get", "reclaim"}
Running(c) == pc[c] = "running"

TypeOK ==
    /\ StoreTypeOK
    /\ pc \in [Callers -> {"idle", "running", "done"} \union Claiming]
    /\ at \in [Callers -> Nat]
    /\ own \in [Callers -> Nat]
    /\ seen \in [Callers -> Record \union {NoRecord}]
    /\ renewing \subseteq Callers
    /\ outlived \subseteq Callers

Init ==
    /\ StoreInit
    /\ pc = [c \in Callers |-> "idle"]
    /\ at = [c \in Callers |-> 0]
    /\ own = [c \in Callers |-> 0]
    /\ seen = [c \in Callers |-> NoRecord]
    /\ renewing = {}
    /\ outlived = {}

-----------------------------------------------------------------------------
Goto(c, l) == pc' = [pc EXCEPT ![c] = l]

Start(c) ==
    /\ pc[c] = "idle"
    /\ Goto(c, "create")
    /\ at' = [at EXCEPT ![c] = now]
    /\ UNCHANGED <<storeVars, own, seen, renewing, outlived>>

\* The row is this operation's: Acquire starts the renew loop and returns.
Acquired(c, id) ==
    /\ Goto(c, "running")
    /\ own' = [own EXCEPT ![c] = id]
    /\ renewing' = renewing \union {c}

Create(c) ==
    /\ pc[c] = "create"
    /\ \/ /\ CreateProcessing(Fingerprint[c], at[c] + ProcessingTimeout, at[c] + TTL)
          /\ Acquired(c, lastId + 1)
       \/ /\ record # NoRecord
          /\ Goto(c, "get")
          /\ UNCHANGED <<storeVars, own, renewing>>
    /\ UNCHANGED <<at, seen, outlived>>

\* A row locked by a running operation is ErrSystemOperationBusy; any other is
\* taken over, whatever its status or expiry.
GetExisting(c) ==
    /\ pc[c] = "get"
    /\ \/ /\ \/ record = NoRecord
             \/ record # NoRecord /\ record.status = "processing" /\ record.locked > at[c]
          /\ Goto(c, "done")
          /\ UNCHANGED seen
       \/ /\ record # NoRecord
          /\ record.status # "processing" \/ record.locked <= at[c]
          /\ Goto(c, "reclaim")
          /\ seen' = [seen EXCEPT ![c] = record]
    /\ UNCHANGED <<storeVars, at, own, renewing, outlived>>

\* A lost race is busy as well; the row read after it only words the error.
Reclaim(c) ==
    /\ pc[c] = "reclaim"
    /\ \/ /\ TryReclaim(seen[c].id, seen[c].status, at[c], at[c] + ProcessingTimeout, at[c] + TTL)
          /\ Acquired(c, seen[c].id)
       \/ /\ ~Reclaimable(seen[c].id, seen[c].status, at[c])
          /\ Goto(c, "done")
          /\ UNCHANGED <<storeVars, own, renewing>>
    /\ UNCHANGED <<at, seen, outlived>>

\* A wrong variant: the loop ends with its first renewal.
RenewOnce(c) ==
    /\ c \in renewing
    /\ ExtendProcessingLock(own[c], Fingerprint[c], now + ProcessingTimeout, now + TTL)
    /\ renewing' = renewing \ {c}
    /\ UNCHANGED <<pc, at, own, seen, outlived>>

\* A tick of renewLoop.  It stops when no row matches; on an error it tries
\* again at the next tick.  Release does not wait for a tick under way.
Renew(c) ==
    /\ c \in renewing
    /\ IF Extendable(own[c], Fingerprint[c])
       THEN /\ ExtendProcessingLock(own[c], Fingerprint[c], now + ProcessingTimeout, now + TTL)
            /\ UNCHANGED renewing
       ELSE renewing' = renewing \ {c} /\ UNCHANGED storeVars
    /\ UNCHANGED <<pc, at, own, seen, outlived>>

\* The loop sees the closed channel.
StopRenewing(c) ==
    /\ c \in renewing
    /\ pc[c] = "done"
    /\ renewing' = renewing \ {c}
    /\ UNCHANGED <<storeVars, pc, at, own, seen, outlived>>

\* The caller ignores the error of Release: the row may stay as it is.
Release(c) ==
    /\ Running(c)
    /\ Goto(c, "done")
    /\ \/ MarkSucceeded(own[c], c, now + TTL)
       \/ MarkFailedRetryable(own[c], now, now + TTL)
       \/ UNCHANGED storeVars
    /\ UNCHANGED <<at, own, seen, renewing, outlived>>

\* A store error ends the claim, with or without its effect on the row.
AcquireFails(c) ==
    /\ pc[c] \in Claiming
    /\ Goto(c, "done")
    /\ \/ UNCHANGED storeVars
       \/ /\ pc[c] = "create"
          /\ CreateProcessing(Fingerprint[c], at[c] + ProcessingTimeout, at[c] + TTL)
       \/ /\ pc[c] = "reclaim"
          /\ TryReclaim(seen[c].id, seen[c].status, at[c], at[c] + ProcessingTimeout, at[c] + TTL)
    /\ UNCHANGED <<at, own, seen, renewing, outlived>>

\* The process that runs the operation dies, as a restart makes it do.
Crash(c) ==
    /\ Running(c)
    /\ Goto(c, "done")
    /\ renewing' = renewing \ {c}
    /\ UNCHANGED <<storeVars, at, own, seen, outlived>>

CleanupOnce == DeleteExpired /\ UNCHANGED lockVars

\* What is assumed of durations: an operation claims within MaxDelay of its
\* arrival, and of the renewals that match the row (three to a lease) one arrives
\* before the lock runs out.  How long an operation takes is left open.
Tick ==
    /\ now < MaxTime
    /\ \A c \in Callers : pc[c] \in Claiming => now < at[c] + MaxDelay
    /\ \A c \in Callers :
        Running(c) /\ c \in renewing /\ Extendable(own[c], Fingerprint[c])
        => now + 1 < record.locked
    /\ now' = now + 1
    /\ outlived' = outlived \union
                     {c \in Callers : Running(c) /\ Exists(own[c]) /\ record.locked <= now + 1}
    /\ UNCHANGED <<record, lastId, pc, at, own, seen, renewing>>

Next ==
    \/ \E c \in Callers :
        \/ Start(c) \/ Create(c) \/ GetExisting(c) \/ Reclaim(c) \/ Renew(c)
        \/ StopRenewing(c) \/ Release(c) \/ AcquireFails(c) \/ Crash(c)
    \/ CleanupOnce
    \/ Tick

Spec == Init /\ [][Next]_vars

-----------------------------------------------------------------------------
\* ErrSystemOperationBusy: while one system operation runs no other starts.
OneSystemOperation ==
    \A c, d \in Callers : Running(c) /\ Running(d) => c = d

\* Two operations overlap only after the lock of a running one has run out: no
\* order of claims, late renewals and releases, failed store calls, deaths and
\* cleanups lets a second one in while the first one's lock lasts.
OneUnlessOutlived == outlived = {} => OneSystemOperation

\* Until then the row of a running operation stays claimed and locked, whatever
\* renewals and releases of operations that ended, and the cleanup, do.
RunningIsLocked ==
    outlived = {} =>
        \A c \in Callers : Running(c) =>
            /\ Exists(own[c])
            /\ record.status = "processing"
            /\ record.locked > now

\* The renew loop keeps the lock of an operation that created its row, however
\* long it takes: the first lock to run out is that of an operation that took
\* over a row under another operation's id, so that its renewals match nothing.
OnlyTakeoversRunOut ==
    [][outlived = {} =>
          \A c \in outlived' : Exists(own[c]) /\ record.fingerprint # Fingerprint[c]]_vars
=============================================================================
