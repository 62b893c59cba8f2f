-------------------------- MODULE IdempotencyStore --------------------------
(* The row of idempotency_records that one scope and key share, and the     *)
(* statements of repository/idempotency_repo.go over it.  Requests of the   *)
(* coordinator (Idempotency) and the global lock of system operations       *)
(* (SystemOperationLock) use the same statements.                           *)
(*                                                                          *)
(* Time is an integer that Tick advances.  A caller's clock is the          *)
(* database's: the code compares times read by one process with times       *)
(* written by another.                                                      *)
EXTENDS Integers

CONSTANTS Callers,            \* requests, or system operations, on this key
          Fingerprint,        \* Fingerprint[c]: hash of what c asks for
          TTL,                \* how long a record is kept
          ProcessingTimeout,  \* how long a claim locks it
          MaxTime             \* bound: the last instant

CONSTANTS NoRecord, NoCaller

ASSUME StoreAssumption ==
    /\ NoCaller \notin Callers
    /\ TTL \in Nat \ {0} /\ ProcessingTimeout \in Nat \ {0} /\ MaxTime \in Nat

Unlocked == -1   \* locked_until IS NULL: no time is before it

Statuses == {"processing", "succeeded", "failed_retryable"}

Record == [id : Nat,
           fingerprint : {Fingerprint[c] : c \in Callers},
           status : Statuses,
           locked : Int,
           expires : Int,
           body : Callers \union {NoCaller}]   \* whose outcome is stored

\* Of the model value NoRecord nothing is assumed but that it is no record.
ASSUME NoRecordAssumption == NoRecord \notin Record

VARIABLES now,
          record,   \* the row, or NoRecord
          lastId    \* the id sequence

storeVars == <<now, record, lastId>>

StoreTypeOK ==
    /\ now \in Nat
    /\ record \in Record \union {NoRecord}
    /\ record # NoRecord /\ record.status = "succeeded" => record.body # NoCaller
    /\ lastId \in Nat

StoreInit ==
    /\ now = 0
    /\ record = NoRecord
    /\ lastId = 0

-----------------------------------------------------------------------------
Exists(id) == record # NoRecord /\ record.id = id

\* INSERT ... ON CONFLICT DO NOTHING; a conflict leaves the row alone.
CreateProcessing(fingerprint, locked, expires) ==
    /\ record = NoRecord
    /\ lastId' = lastId + 1
    /\ record' = [id |-> lastId + 1, fingerprint |-> fingerprint,
                  status |-> "processing", locked |-> locked,
                  expires |-> expires, body |-> NoCaller]
    /\ UNCHANGED now

\* Wrong variant: whoever comes takes the record over.
ReclaimableLocked(id, from, at) == Exists(id) /\ record.status = from

\* The WHERE of TryReclaim: the status is the one the caller read, and the
\* lock has run out.  It does not look at expires_at.
Reclaimable(id, from, at) ==
    /\ Exists(id)
    /\ record.status = from
    /\ record.locked <= at

\* The fingerprint stays that of the caller who created the row, and the body
\* that of the last success.
TryReclaim(id, from, at, locked, expires) ==
    /\ Reclaimable(id, from, at)
    /\ record' = [record EXCEPT !.status = "processing",
                                !.locked = locked,
                                !.expires = expires]
    /\ UNCHANGED <<now, lastId>>

Extendable(id, fingerprint) ==
    /\ Exists(id)
    /\ record.status = "processing"
    /\ record.fingerprint = fingerprint

\* Wrong variant: the expiry is not extended.
ExtendLockOnly(id, fingerprint, locked, expires) ==
    /\ Extendable(id, fingerprint)
    /\ record' = [record EXCEPT !.locked = locked]
    /\ UNCHANGED <<now, lastId>>

ExtendProcessingLock(id, fingerprint, locked, expires) ==
    /\ Extendable(id, fingerprint)
    /\ record' = [record EXCEPT !.locked = locked, !.expires = expires]
    /\ UNCHANGED <<now, lastId>>

\* Wrong variant: the outcome is not stored.
MarkSucceededEmpty(id, body, expires) ==
    /\ record' = IF Exists(id)
                 THEN [record EXCEPT !.status = "succeeded",
                                     !.locked = Unlocked, !.expires = expires]
                 ELSE record
    /\ UNCHANGED <<now, lastId>>

\* The two ends of a claim name the row by its id only.
MarkSucceeded(id, body, expires) ==
    /\ record' = IF Exists(id)
                 THEN [record EXCEPT !.status = "succeeded", !.body = body,
                                     !.locked = Unlocked, !.expires = expires]
                 ELSE record
    /\ UNCHANGED <<now, lastId>>

MarkFailedRetryable(id, locked, expires) ==
    /\ record' = IF Exists(id)
                 THEN [record EXCEPT !.status = "failed_retryable",
                                     !.locked = locked, !.expires = expires]
                 ELSE record
    /\ UNCHANGED <<now, lastId>>

\* Wrong variant: the cleanup looks at the lock instead of the expiry.
DeleteUnlocked ==
    /\ record # NoRecord
    /\ record.locked <= now
    /\ record' = NoRecord
    /\ UNCHANGED <<now, lastId>>

\* One round of the cleanup service; its batch limit may leave the row for a
\* later round, which is this action not taken.
DeleteExpired ==
    /\ record # NoRecord
    /\ record.expires <= now
    /\ record' = NoRecord
    /\ UNCHANGED <<now, lastId>>
=============================================================================
