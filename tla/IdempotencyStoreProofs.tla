----------------------- MODULE IdempotencyStoreProofs -----------------------
(* Lemmas about the statements of the store: they keep its types.  A row    *)
(* that is not deleted stays a whole row, and a stored success names whose  *)
(* outcome it is.                                                           *)
EXTENDS IdempotencyStore, TLAPS

\* Inserting a row keeps the types.
LEMMA CreateTypes ==
  ASSUME StoreTypeOK, NEW c \in Callers, NEW locked \in Int, NEW expires \in Int,
         CreateProcessing(Fingerprint[c], locked, expires)
  PROVE  StoreTypeOK'
  BY DEF CreateProcessing, StoreTypeOK, Record, Statuses

\* Taking a row over keeps the types.
LEMMA ReclaimTypes ==
  ASSUME StoreTypeOK, NEW id, NEW from, NEW at0, NEW locked \in Int, NEW expires \in Int,
         TryReclaim(id, from, at0, locked, expires)
  PROVE  StoreTypeOK'
  BY NoRecordAssumption
  DEF TryReclaim, Reclaimable, Exists, StoreTypeOK, Record, Statuses

\* Extending a lock keeps the types.
LEMMA ExtendTypes ==
  ASSUME StoreTypeOK, NEW id, NEW fingerprint, NEW locked \in Int, NEW expires \in Int,
         ExtendProcessingLock(id, fingerprint, locked, expires)
  PROVE  StoreTypeOK'
  BY NoRecordAssumption
  DEF ExtendProcessingLock, Extendable, Exists, StoreTypeOK, Record, Statuses

\* Storing a success keeps the types.
LEMMA SucceedTypes ==
  ASSUME StoreTypeOK, NEW id, NEW c \in Callers, NEW expires \in Int,
         MarkSucceeded(id, c, expires)
  PROVE  StoreTypeOK'
  <1> DEFINE new == [record EXCEPT !.status = "succeeded", !.body = c,
                                   !.locked = Unlocked, !.expires = expires]
  <1>1. CASE Exists(id)
    <2>1. record' = new
      BY <1>1 DEF MarkSucceeded
    <2>2. record \in Record
      BY <1>1 DEF Exists, StoreTypeOK
    <2>3. Unlocked \in Int
      BY DEF Unlocked
    <2>4. new \in Record /\ new.body = c
      BY <2>2, <2>3 DEF Record, Statuses
    <2>5. QED
      BY <2>1, <2>4, StoreAssumption DEF MarkSucceeded, StoreTypeOK
  <1>2. CASE ~Exists(id)
    BY <1>2 DEF MarkSucceeded, StoreTypeOK
  <1>3. QED
    BY <1>1, <1>2

\* Storing a failure keeps the types.
LEMMA FailTypes ==
  ASSUME StoreTypeOK, NEW id, NEW locked \in Int, NEW expires \in Int,
         MarkFailedRetryable(id, locked, expires)
  PROVE  StoreTypeOK'
  BY NoRecordAssumption DEF MarkFailedRetryable, Exists, StoreTypeOK, Record, Statuses

\* Deleting the row keeps the types.
LEMMA DeleteTypes ==
  ASSUME StoreTypeOK, DeleteExpired
  PROVE  StoreTypeOK'
  BY DEF DeleteExpired, StoreTypeOK
=============================================================================
