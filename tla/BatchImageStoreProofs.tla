------------------------- MODULE BatchImageStoreProofs -------------------------
(* Proofs about the two stores of the batch image pipeline, each on its own:  *)
(* the ledger of holds (BatchImageLedger), for any number of jobs, any holds, *)
(* amounts and payloads, and the queue (BatchImageQueue), for any sets of     *)
(* jobs and workers, any number of crashes, lost replies, late beats and,     *)
(* unless a theorem says otherwise, lapsed locks.  BatchImagePipelineProofs   *)
(* carries them to the pipeline, which implements both.                       *)
EXTENDS BatchImageLedger, BatchImageQueue, SequenceTheorems,
        FiniteSetTheorems, TLAPS

-----------------------------------------------------------------------------
(* The ledger.  Every proof goes through LedgerCases, which says what one     *)
(* committed transaction can have done.                                       *)

\* The claim of c commits and nothing else changes.
OnlyClaims(c) ==
    /\ ~Claimed(c.op, c.job)
    /\ claims' = claims \union {c}
    /\ UNCHANGED <<money, spent>>

\* The claim of c commits together with a move of money.
Moves(c, toBalance, toFrozen, toRevenue) ==
    /\ ~Claimed(c.op, c.job)
    /\ claims' = claims \union {c}
    /\ balance' = balance + toBalance
    /\ frozen' = frozen + toFrozen
    /\ revenue' = revenue + toRevenue
    /\ moved' = moved \union {<<c.op, c.job>>}
    /\ UNCHANGED spent

Reserves(c) == /\ c.op = "hold" /\ Hold[c.job] > 0
               /\ Moves(c, -Hold[c.job], Hold[c.job], 0)

Captures(c) == /\ c.op = "capture" /\ frozen >= Hold[c.job] /\ Hold[c.job] > 0
               /\ c.actual <= Hold[c.job]
               /\ Moves(c, Hold[c.job] - c.actual, -Hold[c.job], c.actual)

Releases(c) == /\ c.op = "release" /\ frozen >= Hold[c.job] /\ Hold[c.job] > 0
               /\ Claimed("hold", c.job)
               /\ Moves(c, Hold[c.job], -Hold[c.job], 0)

ClaimStep(c) ==
    \/ /\ OnlyClaims(c)
       /\ c.op = "hold" => Hold[c.job] = 0
       /\ c.op = "capture" => Hold[c.job] = 0 /\ c.actual = 0
       /\ c.op = "release" => Hold[c.job] = 0 \/ ~Claimed("hold", c.job)
    \/ Reserves(c)
    \/ Captures(c)
    \/ Releases(c)

(* A reservation either changes nothing, or commits its claim, with the move  *)
(* of the hold unless the hold is zero.                                      *)
LEMMA ReserveCases ==
    ASSUME LedgerTypeOK, NEW j \in Jobs, NEW p \in Payloads, NEW res \in Outcomes,
           ReserveBatchImageBalance(j, p, res)
    PROVE  \/ UNCHANGED ledgerVars
           \/ \E c \in Claim : /\ c = HoldCommand("hold", j, p, 0)
                             /\ ClaimStep(c)
<1> DEFINE c == HoldCommand("hold", j, p, 0)
<1>1. /\ c = HoldCommand("hold", j, p, 0)
      /\ c \in Claim /\ c.op = "hold" /\ c.job = j
      /\ Hold[j] \in Nat
  BY LedgerAssumption DEF HoldCommand, Claim, Ops
<1>2. /\ applyBatchImageBalanceHold(c, res, reserveUsageBillingBatchImageBalance(c, res))
      /\ UNCHANGED spent
  BY DEF ReserveBatchImageBalance
<1> HIDE DEF c
<1>3. CASE UNCHANGED <<money, claims>>
  BY <1>2, <1>3 DEF money, ledgerVars
<1>4. CASE /\ ~Claimed("hold", j)
           /\ reserveUsageBillingBatchImageBalance(c, res)
           /\ claims' = IF res = "ok" THEN claims \union {c} ELSE claims
  <2>1. CASE Hold[j] = 0
    <3>1. res = "ok" /\ UNCHANGED money
      BY <1>1, <1>4, <2>1 DEF reserveUsageBillingBatchImageBalance, NothingMoves
    <3>2. OnlyClaims(c)
      BY <1>1, <1>2, <1>4, <3>1 DEF OnlyClaims
    <3> QED BY <1>1, <2>1, <3>2 DEF ClaimStep
  <2>2. CASE Hold[j] > 0 /\ balance >= Hold[j]
    <3>1. /\ res = "ok"
          /\ balance' = balance - Hold[j]
          /\ frozen' = frozen + Hold[j]
          /\ moved' = moved \union {<<"hold", j>>}
          /\ UNCHANGED revenue
      BY <1>1, <1>4, <2>2 DEF reserveUsageBillingBatchImageBalance, LedgerTypeOK
    <3>2. Reserves(c)
      BY <1>1, <1>2, <1>4, <2>2, <3>1 DEF Reserves, Moves, LedgerTypeOK
    <3> QED BY <1>1, <3>2 DEF ClaimStep
  <2>3. CASE Hold[j] > 0 /\ balance < Hold[j]
    <3>1. res = "insufficient" /\ UNCHANGED money
      BY <1>1, <1>4, <2>3 DEF reserveUsageBillingBatchImageBalance, NothingMoves, LedgerTypeOK
    <3> QED BY <1>2, <1>4, <3>1 DEF money, ledgerVars
  <2> QED BY <1>1, <2>1, <2>2, <2>3 DEF LedgerTypeOK
<1> QED BY <1>1, <1>2, <1>3, <1>4 DEF applyBatchImageBalanceHold

(* A capture either changes nothing, or commits its claim; then the hold      *)
(* leaves the frozen balance, which covered it.                              *)
LEMMA CaptureCases ==
    ASSUME LedgerTypeOK, NEW j \in Jobs, NEW p \in Payloads, NEW a \in Amounts,
           NEW res \in Outcomes, CaptureBatchImageBalance(j, p, a, res)
    PROVE  \/ UNCHANGED ledgerVars
           \/ \E c \in Claim : /\ c = HoldCommand("capture", j, p, a)
                             /\ ClaimStep(c)
<1> DEFINE c == HoldCommand("capture", j, p, a)
<1>1. /\ c = HoldCommand("capture", j, p, a)
      /\ c \in Claim /\ c.op = "capture" /\ c.job = j /\ c.actual = a
      /\ Hold[j] \in Nat /\ a \in Nat
  BY LedgerAssumption DEF HoldCommand, Claim, Ops
<1>2. /\ applyBatchImageBalanceHold(c, res, captureUsageBillingBatchImageBalance(c, res))
      /\ UNCHANGED spent
  BY DEF CaptureBatchImageBalance
<1> HIDE DEF c
<1>3. CASE UNCHANGED <<money, claims>>
  BY <1>2, <1>3 DEF money, ledgerVars
<1>4. CASE /\ ~Claimed("capture", j)
           /\ captureUsageBillingBatchImageBalance(c, res)
           /\ claims' = IF res = "ok" THEN claims \union {c} ELSE claims
  <2>1. CASE Hold[j] = 0 /\ a = 0 /\ UNCHANGED money /\ res = "ok"
    <3>1. OnlyClaims(c)
      BY <1>1, <1>2, <1>4, <2>1 DEF OnlyClaims
    <3> QED BY <1>1, <2>1, <3>1 DEF ClaimStep
  <2>2. CASE UNCHANGED money /\ res # "ok"
    BY <1>2, <1>4, <2>2 DEF money, ledgerVars
  <2>3. CASE /\ Hold[j] > 0 /\ a <= Hold[j] /\ frozen >= Hold[j]
             /\ res = "ok"
             /\ balance' = balance + (Hold[j] - a)
             /\ frozen' = frozen - Hold[j]
             /\ revenue' = revenue + a
             /\ moved' = moved \union {<<"capture", j>>}
    <3>1. Captures(c)
      BY <1>1, <1>2, <1>4, <2>3 DEF Captures, Moves, LedgerTypeOK
    <3> QED BY <1>1, <3>1 DEF ClaimStep
  <2> QED
    BY <1>1, <1>4, <2>1, <2>2, <2>3 DEF captureUsageBillingBatchImageBalance, NothingMoves
<1> QED BY <1>1, <1>2, <1>3, <1>4 DEF applyBatchImageBalanceHold

(* A release either changes nothing, or commits its claim; it moves money     *)
(* only if the hold was claimed.                                             *)
LEMMA ReleaseCases ==
    ASSUME LedgerTypeOK, NEW j \in Jobs, NEW p \in Payloads, NEW res \in Outcomes,
           ReleaseBatchImageBalance(j, p, res)
    PROVE  \/ UNCHANGED ledgerVars
           \/ \E c \in Claim : /\ c = HoldCommand("release", j, p, 0)
                             /\ ClaimStep(c)
<1> DEFINE c == HoldCommand("release", j, p, 0)
<1>1. /\ c = HoldCommand("release", j, p, 0)
      /\ c \in Claim /\ c.op = "release" /\ c.job = j
      /\ Hold[j] \in Nat
  BY LedgerAssumption DEF HoldCommand, Claim, Ops
<1>2. /\ applyBatchImageBalanceHold(c, res, releaseUsageBillingBatchImageBalance(c, res))
      /\ UNCHANGED spent
  BY DEF ReleaseBatchImageBalance
<1> HIDE DEF c
<1>3. CASE UNCHANGED <<money, claims>>
  BY <1>2, <1>3 DEF money, ledgerVars
<1>4. CASE /\ ~Claimed("release", j)
           /\ releaseUsageBillingBatchImageBalance(c, res)
           /\ claims' = IF res = "ok" THEN claims \union {c} ELSE claims
  <2>1. CASE UNCHANGED money /\ res = "ok" /\ (Hold[j] = 0 \/ ~Claimed("hold", j))
    <3>1. OnlyClaims(c)
      BY <1>1, <1>2, <1>4, <2>1 DEF OnlyClaims
    <3> QED BY <1>1, <2>1, <3>1 DEF ClaimStep
  <2>2. CASE UNCHANGED money /\ res # "ok"
    BY <1>2, <1>4, <2>2 DEF money, ledgerVars
  <2>3. CASE /\ Hold[j] > 0 /\ Claimed("hold", j) /\ frozen >= Hold[j]
             /\ res = "ok"
             /\ balance' = balance + Hold[j]
             /\ frozen' = frozen - Hold[j]
             /\ moved' = moved \union {<<"release", j>>}
             /\ UNCHANGED revenue
    <3>1. Releases(c)
      BY <1>1, <1>2, <1>4, <2>3 DEF Releases, Moves, LedgerTypeOK
    <3> QED BY <1>1, <3>1 DEF ClaimStep
  <2> QED
    BY <1>1, <1>4, <2>1, <2>2, <2>3 DEF releaseUsageBillingBatchImageBalance, NothingMoves
<1> QED BY <1>1, <1>2, <1>3, <1>4 DEF applyBatchImageBalanceHold

(* What a step of the ledger can do.                                          *)
LEMMA LedgerCases ==
    ASSUME LedgerTypeOK, [LedgerNext]_ledgerVars
    PROVE  \/ UNCHANGED ledgerVars
           \/ \E c \in Claim : ClaimStep(c)
           \/ \E a \in Amounts : deductUsageBillingBalance(a)
BY ReserveCases, CaptureCases, ReleaseCases DEF LedgerNext

-----------------------------------------------------------------------------
(* The columns keep their ranges in every step.                               *)
LEMMA LedgerTypeStep ==
    ASSUME LedgerTypeOK, [LedgerNext]_ledgerVars
    PROVE  LedgerTypeOK'
<1>1. CASE UNCHANGED ledgerVars
  BY <1>1 DEF LedgerTypeOK, ledgerVars
<1>2. ASSUME NEW c \in Claim, ClaimStep(c) PROVE LedgerTypeOK'
  <2>1. /\ c.op \in Ops /\ c.job \in Jobs
        /\ Hold[c.job] \in Nat /\ c.actual \in Nat
    BY LedgerAssumption DEF Claim
  <2>2. CASE OnlyClaims(c)
    BY <2>2 DEF OnlyClaims, money, LedgerTypeOK
  <2>3. CASE Reserves(c)
    BY <2>1, <2>3 DEF Reserves, Moves, LedgerTypeOK
  <2>4. CASE Captures(c)
    BY <2>1, <2>4 DEF Captures, Moves, LedgerTypeOK
  <2>5. CASE Releases(c)
    BY <2>1, <2>5 DEF Releases, Moves, LedgerTypeOK
  <2> QED BY <1>2, <2>2, <2>3, <2>4, <2>5 DEF ClaimStep
<1>3. ASSUME NEW a \in Amounts, deductUsageBillingBalance(a) PROVE LedgerTypeOK'
  BY <1>3, LedgerAssumption DEF deductUsageBillingBalance, LedgerTypeOK
<1> QED BY <1>1, <1>2, <1>3, LedgerCases

(* The columns keep their ranges; in particular the frozen balance never goes *)
(* below zero, whatever is captured or released.                             *)
THEOREM LedgerTypeCorrect == LedgerSpec => []LedgerTypeOK
<1>1. LedgerInit => LedgerTypeOK
  BY LedgerAssumption DEF LedgerInit, LedgerTypeOK
<1> QED BY <1>1, LedgerTypeStep, PTL DEF LedgerSpec

(* No order of calls creates or destroys money.                               *)
THEOREM MoneyIsConserved == LedgerSpec => []MoneyConserved
<1>1. LedgerInit => MoneyConserved
  BY LedgerAssumption DEF LedgerInit, MoneyConserved
<1>2. LedgerTypeOK /\ MoneyConserved /\ [LedgerNext]_ledgerVars => MoneyConserved'
  <2> SUFFICES ASSUME LedgerTypeOK, MoneyConserved, [LedgerNext]_ledgerVars
               PROVE  MoneyConserved'
    OBVIOUS
  <2>1. CASE UNCHANGED ledgerVars
    BY <2>1 DEF MoneyConserved, ledgerVars
  <2>2. ASSUME NEW c \in Claim, ClaimStep(c) PROVE MoneyConserved'
    <3>1. Hold[c.job] \in Nat /\ c.actual \in Nat /\ Deposit \in Nat
      BY LedgerAssumption DEF Claim
    <3> DEFINE hold == Hold[c.job]
               actual == c.actual
    <3>a. /\ hold \in Nat /\ actual \in Nat
          /\ balance \in Int /\ frozen \in Int /\ revenue \in Int /\ spent \in Int
          /\ balance + frozen + revenue + spent = Deposit
      BY <3>1 DEF LedgerTypeOK, MoneyConserved
    <3>2. CASE OnlyClaims(c)
      BY <3>2 DEF OnlyClaims, money, MoneyConserved
    <3>3. CASE Reserves(c)
      <4>1. /\ balance' = balance + -hold
            /\ frozen' = frozen + hold
            /\ revenue' = revenue + 0
            /\ spent' = spent
        BY <3>3 DEF Reserves, Moves
      <4> HIDE DEF hold, actual
      <4> QED BY <3>a, <4>1 DEF MoneyConserved
    <3>4. CASE Captures(c)
      <4>1. /\ balance' = balance + (hold - actual)
            /\ frozen' = frozen + -hold
            /\ revenue' = revenue + actual
            /\ spent' = spent
        BY <3>4 DEF Captures, Moves
      <4> HIDE DEF hold, actual
      <4> QED BY <3>a, <4>1 DEF MoneyConserved
    <3>5. CASE Releases(c)
      <4>1. /\ balance' = balance + hold
            /\ frozen' = frozen + -hold
            /\ revenue' = revenue + 0
            /\ spent' = spent
        BY <3>5 DEF Releases, Moves
      <4> HIDE DEF hold, actual
      <4> QED BY <3>a, <4>1 DEF MoneyConserved
    <3> QED BY <2>2, <3>2, <3>3, <3>4, <3>5 DEF ClaimStep
  <2>3. ASSUME NEW a \in Amounts, deductUsageBillingBalance(a) PROVE MoneyConserved'
    BY <2>3, LedgerAssumption
    DEF deductUsageBillingBalance, LedgerTypeOK, MoneyConserved
  <2> QED BY <2>1, <2>2, <2>3, LedgerCases
<1> QED BY <1>1, <1>2, LedgerTypeCorrect, PTL DEF LedgerSpec

-----------------------------------------------------------------------------
(* A claim step adds one claim of a request id that had none.                 *)
LEMMA ClaimIsNew ==
    ASSUME NEW c, ClaimStep(c)
    PROVE  ~Claimed(c.op, c.job) /\ claims' = claims \union {c}
BY DEF ClaimStep, OnlyClaims, Reserves, Captures, Releases, Moves

(* Two settlements of one job that differ in amount or payload are never both *)
(* recorded.                                                                 *)
THEOREM OneFingerprint == LedgerSpec => []OneFingerprintPerRequest
<1>1. LedgerInit => OneFingerprintPerRequest
  BY DEF LedgerInit, OneFingerprintPerRequest
<1>2. LedgerTypeOK /\ OneFingerprintPerRequest /\ [LedgerNext]_ledgerVars
        => OneFingerprintPerRequest'
  <2> SUFFICES ASSUME LedgerTypeOK, OneFingerprintPerRequest, [LedgerNext]_ledgerVars
               PROVE  OneFingerprintPerRequest'
    OBVIOUS
  <2>1. CASE UNCHANGED claims
    BY <2>1 DEF OneFingerprintPerRequest
  <2>2. ASSUME NEW c \in Claim, ClaimStep(c) PROVE OneFingerprintPerRequest'
    BY <2>2, ClaimIsNew DEF OneFingerprintPerRequest, Claimed
  <2> QED BY <2>1, <2>2, LedgerCases DEF ledgerVars, deductUsageBillingBalance
<1> QED BY <1>1, <1>2, LedgerTypeCorrect, PTL DEF LedgerSpec

-----------------------------------------------------------------------------
(* The strengthening: money moved only under a claim, and every claimed hold  *)
(* that is not zero moved money.  A release checks the claim of the hold, so *)
(* only together do the two give NoPhantomRelease.                           *)
LEMMA HoldClaimInductive ==
    ASSUME LedgerTypeOK, HoldClaimMovesMoney, [LedgerNext]_ledgerVars
    PROVE  HoldClaimMovesMoney'
<1>1. CASE UNCHANGED <<claims, moved>>
  BY <1>1 DEF HoldClaimMovesMoney, Claimed
<1>2. ASSUME NEW c \in Claim, ClaimStep(c) PROVE HoldClaimMovesMoney'
  <2>1. claims' = claims \union {c}
    BY <1>2, ClaimIsNew
  <2>2. \A op, j : Claimed(op, j)' <=> Claimed(op, j) \/ (op = c.op /\ j = c.job)
    BY <2>1 DEF Claimed
  <2>3. c.op \in Ops /\ c.job \in Jobs /\ Hold[c.job] \in Nat
    BY LedgerAssumption DEF Claim
  <2>4. CASE moved' = moved /\ (c.op = "hold" => Hold[c.job] = 0)
    BY <2>2, <2>3, <2>4 DEF HoldClaimMovesMoney
  <2>5. CASE moved' = moved \union {<<c.op, c.job>>} /\ (c.op = "release" => Hold[c.job] > 0)
    <3>1. \A m \in moved' : Claimed(m[1], m[2])'
      BY <2>2, <2>5 DEF HoldClaimMovesMoney
    <3>2. \A j \in Jobs : Hold[j] > 0 /\ Claimed("hold", j)' => <<"hold", j>> \in moved'
      BY <2>2, <2>5 DEF HoldClaimMovesMoney
    <3>3. \A j \in Jobs : <<"release", j>> \in moved' => Hold[j] > 0
      BY <2>5 DEF HoldClaimMovesMoney
    <3> QED BY <3>1, <3>2, <3>3 DEF HoldClaimMovesMoney
  <2> QED
    BY <1>2, <2>3, <2>4, <2>5
    DEF ClaimStep, OnlyClaims, Reserves, Captures, Releases, Moves, money
<1> QED BY <1>1, <1>2, LedgerCases DEF ledgerVars, deductUsageBillingBalance

LEMMA HoldClaimInvariant == LedgerSpec => []HoldClaimMovesMoney
<1>1. LedgerInit => HoldClaimMovesMoney
  BY DEF LedgerInit, HoldClaimMovesMoney, Claimed
<1> QED BY <1>1, HoldClaimInductive, LedgerTypeCorrect, PTL DEF LedgerSpec

\* No transaction moves money for a job without a hold.
MovesArePositive == \A m \in moved : Hold[m[2]] > 0

LEMMA OnlyHoldsMove == LedgerSpec => []MovesArePositive
<1>1. LedgerInit => MovesArePositive
  BY DEF LedgerInit, MovesArePositive
<1>2. LedgerTypeOK /\ MovesArePositive /\ [LedgerNext]_ledgerVars => MovesArePositive'
  <2> SUFFICES ASSUME LedgerTypeOK, MovesArePositive, [LedgerNext]_ledgerVars
               PROVE  MovesArePositive'
    OBVIOUS
  <2>1. CASE UNCHANGED moved
    BY <2>1 DEF MovesArePositive
  <2>2. ASSUME NEW c \in Claim, ClaimStep(c) PROVE MovesArePositive'
    BY <2>2
    DEF ClaimStep, OnlyClaims, Reserves, Captures, Releases, Moves, money, MovesArePositive
  <2> QED BY <2>1, <2>2, LedgerCases DEF ledgerVars, deductUsageBillingBalance
<1> QED BY <1>1, <1>2, LedgerTypeCorrect, PTL DEF LedgerSpec

(* No release pays out of the frozen money of the other jobs what its own job *)
(* never froze.                                                              *)
THEOREM NoPhantom == LedgerSpec => []NoPhantomRelease
<1>1. LedgerInit => NoPhantomRelease
  BY DEF LedgerInit, NoPhantomRelease
<1>2. LedgerTypeOK /\ HoldClaimMovesMoney /\ NoPhantomRelease /\ [LedgerNext]_ledgerVars
        => NoPhantomRelease'
  <2> SUFFICES ASSUME LedgerTypeOK, HoldClaimMovesMoney, NoPhantomRelease,
                      [LedgerNext]_ledgerVars
               PROVE  NoPhantomRelease'
    OBVIOUS
  <2>1. CASE UNCHANGED moved
    BY <2>1 DEF NoPhantomRelease
  <2>2. ASSUME NEW c \in Claim, ClaimStep(c) PROVE NoPhantomRelease'
    <3>1. CASE Releases(c)
      <4>1. <<"hold", c.job>> \in moved
        BY <3>1 DEF Releases, HoldClaimMovesMoney, Claim
      <4> QED BY <3>1, <4>1 DEF Releases, Moves, NoPhantomRelease
    <3>2. CASE ~Releases(c)
      BY <2>2, <3>2
      DEF ClaimStep, OnlyClaims, money, Reserves, Captures, Moves, NoPhantomRelease
    <3> QED BY <3>1, <3>2
  <2> QED BY <2>1, <2>2, LedgerCases DEF ledgerVars, deductUsageBillingBalance
<1> QED BY <1>1, <1>2, LedgerTypeCorrect, HoldClaimInvariant, PTL DEF LedgerSpec

(* Replays, conflicts and failures leave both columns alone.                  *)
THEOREM ReplaysMoveNothing == LedgerSpec => ReplayMovesNothing
<1>1. LedgerTypeOK /\ [LedgerNext]_ledgerVars
        => [(balance' # balance \/ frozen' # frozen) /\ spent' = spent
              => \E c \in claims' \ claims : ~Claimed(c.op, c.job)]_ledgerVars
  <2> SUFFICES ASSUME LedgerTypeOK, [LedgerNext]_ledgerVars,
                      balance' # balance \/ frozen' # frozen, spent' = spent
               PROVE  \E c \in claims' \ claims : ~Claimed(c.op, c.job)
    OBVIOUS
  <2>1. ~UNCHANGED ledgerVars
    BY DEF ledgerVars
  <2>2. ASSUME NEW a \in Amounts, deductUsageBillingBalance(a) PROVE FALSE
    BY <2>2, LedgerAssumption DEF deductUsageBillingBalance, LedgerTypeOK
  <2>3. PICK c \in Claim : ClaimStep(c)
    BY <2>1, <2>2, LedgerCases
  <2>4. ~Claimed(c.op, c.job) /\ c \in claims' \ claims
    BY <2>3, ClaimIsNew DEF Claimed
  <2> QED BY <2>4
<1> QED BY <1>1, LedgerTypeCorrect, PTL DEF LedgerSpec, ReplayMovesNothing

-----------------------------------------------------------------------------
(* The queue.                                                                 *)

(* LPUSH adds one job and keeps the others.                                   *)
LEMMA PushesOne ==
    ASSUME ready \in Seq(Jobs), NEW x \in Jobs, ready' = <<x>> \o ready
    PROVE  /\ ready' \in Seq(Jobs)
           /\ \A j : InReady(j) => InReady(j)'
           /\ \A j : InReady(j)' => InReady(j) \/ j = x
           /\ InReady(x)'
<1>1. /\ ready' \in Seq(Jobs)
      /\ Len(ready') = 1 + Len(ready)
      /\ ready'[1] = x
      /\ \A i \in 1..Len(ready) : ready'[i + 1] = ready[i]
  OBVIOUS
<1>2. /\ DOMAIN ready' = 1..Len(ready')
      /\ DOMAIN ready = 1..Len(ready)
      /\ Len(ready) \in Nat
  BY <1>1
<1>3. ASSUME NEW j, InReady(j) PROVE InReady(j)'
  <2>1. PICK i \in 1..Len(ready) : ready[i] = j
    BY <1>2, <1>3 DEF InReady
  <2>2. i + 1 \in DOMAIN ready' /\ ready'[i + 1] = j
    BY <1>1, <1>2, <2>1
  <2> QED BY <2>2 DEF InReady
<1>4. InReady(x)'
  <2>1. 1 \in DOMAIN ready' /\ ready'[1] = x
    BY <1>1, <1>2
  <2> QED BY <2>1 DEF InReady
<1>5. ASSUME NEW j, InReady(j)', j # x PROVE InReady(j)
  <2>1. PICK i \in 1..Len(ready') : ready'[i] = j
    BY <1>2, <1>5 DEF InReady
  <2>2. i - 1 \in 1..Len(ready) /\ ready'[(i - 1) + 1] = ready[i - 1] /\ (i - 1) + 1 = i
    BY <1>1, <1>2, <1>5, <2>1
  <2> QED BY <1>2, <2>1, <2>2 DEF InReady
<1> QED BY <1>1, <1>3, <1>4, <1>5

(* RPOP loses nothing but the entry it returns.                               *)
LEMMA PopsLast ==
    ASSUME ready \in Seq(Jobs), ready # <<>>,
           ready' = SubSeq(ready, 1, Len(ready) - 1)
    PROVE  /\ ready' \in Seq(Jobs)
           /\ ready[Len(ready)] \in Jobs
           /\ \A j : InReady(j) => InReady(j)' \/ j = ready[Len(ready)]
           /\ \A j : InReady(j)' => InReady(j)
           /\ InReady(ready[Len(ready)])
<1>1. Len(ready) \in Nat /\ Len(ready) > 0 /\ DOMAIN ready = 1..Len(ready)
  OBVIOUS
<1>2. /\ ready' \in Seq(Jobs)
      /\ Len(ready') = Len(ready) - 1
      /\ \A i \in 1..(Len(ready) - 1) : ready'[i] = ready[i]
  BY <1>1
<1>3. DOMAIN ready' = 1..(Len(ready) - 1)
  BY <1>2
<1>4. ready[Len(ready)] \in Jobs
  BY <1>1
<1>5. ASSUME NEW j, InReady(j), j # ready[Len(ready)] PROVE InReady(j)'
  <2>1. PICK i \in 1..Len(ready) : ready[i] = j
    BY <1>1, <1>5 DEF InReady
  <2>2. i \in 1..(Len(ready) - 1)
    BY <1>1, <1>5, <2>1
  <2> QED BY <1>2, <1>3, <2>1, <2>2 DEF InReady
<1>6. (\A j : InReady(j)' => InReady(j)) /\ InReady(ready[Len(ready)])
  BY <1>1, <1>2, <1>3 DEF InReady
<1> QED BY <1>2, <1>4, <1>5, <1>6

-----------------------------------------------------------------------------
(* Every script and every step of a worker keeps the types.                   *)
LEMMA QueueTypeStep ==
    ASSUME QueueTypeOK, [QueueNext]_queueVars
    PROVE  QueueTypeOK'
<1> USE DEF QueueTypeOK
<1>1. CASE UNCHANGED queueVars
  BY <1>1 DEF queueVars
<1>2. ASSUME NEW j \in Jobs, Enqueue(j) PROVE QueueTypeOK'
  BY <1>2, PushesOne DEF Enqueue
<1>3. ASSUME NEW j \in Jobs, MoveDueDelayedToReady(j) PROVE QueueTypeOK'
  BY <1>3, PushesOne DEF MoveDueDelayedToReady
<1>4. ASSUME NEW j \in Jobs, RecoverStaleActive(j) PROVE QueueTypeOK'
  BY <1>4, PushesOne DEF RecoverStaleActive
<1>5. ASSUME NEW j \in Jobs, LockExpires(j) PROVE QueueTypeOK'
  BY <1>5 DEF LockExpires, redisVars
<1>6. ASSUME NEW w \in Workers, Reserve(w) PROVE QueueTypeOK'
  <2>1. /\ ready' \in Seq(Jobs)
        /\ ready[Len(ready)] \in Jobs
    BY <1>6, PopsLast DEF Reserve
  <2>2. ready[Len(ready)] # NoJob
    BY <2>1, QueueAssumption
  <2> QED BY <1>6, <2>1, <2>2 DEF Reserve, Goto, WorkerPcs
<1>7. ASSUME NEW w \in Workers, TryAcquireJobLock(w) PROVE QueueTypeOK'
  BY <1>7, QueueAssumption DEF TryAcquireJobLock, Goto, redisVars, WorkerPcs
<1>8. ASSUME NEW w \in Workers, NEW r \in {"ack", "requeue"}, Finish(w, r)
      PROVE  QueueTypeOK'
  BY <1>8 DEF Finish, Goto, redisVars, WorkerPcs
<1>9. ASSUME NEW w \in Workers, RequeueAfter(w) PROVE QueueTypeOK'
  BY <1>9 DEF RequeueAfter, AfterQueueCall, Goto, WorkerPcs
<1>10. ASSUME NEW w \in Workers, Ack(w) PROVE QueueTypeOK'
  BY <1>10 DEF Ack, AfterQueueCall, Goto, WorkerPcs
<1>11. ASSUME NEW w \in Workers, ReleaseLock(w) PROVE QueueTypeOK'
  BY <1>11 DEF ReleaseLock, Goto, redisVars, WorkerPcs
<1>12. ASSUME NEW w \in Workers, WorkerCrash(w) PROVE QueueTypeOK'
  BY <1>12 DEF WorkerCrash, Goto, redisVars, WorkerPcs
<1> QED
  BY <1>1, <1>2, <1>3, <1>4, <1>5, <1>6, <1>7, <1>8, <1>9, <1>10, <1>11, <1>12
  DEF QueueNext, WorkerStep

(* Types, and that a worker has a job exactly while it is not idle.           *)
THEOREM QueueTypeCorrect == QueueSpec => []QueueTypeOK
<1>1. QueueInit => QueueTypeOK
  BY QueueAssumption DEF QueueInit, QueueTypeOK, WorkerPcs
<1> QED BY <1>1, QueueTypeStep, PTL DEF QueueSpec

-----------------------------------------------------------------------------
(* A job whose de-duplication key exists is in some queue structure.  Every   *)
(* script that takes it out of one puts it into another, or drops the key.   *)
THEOREM NeverLoses == QueueSpec => []NeverLost
<1>1. QueueInit => NeverLost
  BY DEF QueueInit, NeverLost
<1>2. QueueTypeOK /\ NeverLost /\ [QueueNext]_queueVars => NeverLost'
  <2> SUFFICES ASSUME QueueTypeOK, NeverLost, [QueueNext]_queueVars PROVE NeverLost'
    OBVIOUS
  <2>0. ready \in Seq(Jobs)
    BY DEF QueueTypeOK
  <2>1. CASE UNCHANGED redisVars
    BY <2>1 DEF redisVars, NeverLost, InReady
  <2>2. ASSUME NEW j \in Jobs, Enqueue(j) PROVE NeverLost'
    <3>1. CASE j \in inflight
      BY <2>2, <3>1 DEF Enqueue, NeverLost, InReady
    <3>2. CASE j \notin inflight
      BY <2>0, <2>2, <3>2, PushesOne DEF Enqueue, NeverLost
    <3> QED BY <3>1, <3>2
  <2>3. ASSUME NEW j \in Jobs, MoveDueDelayedToReady(j) PROVE NeverLost'
    BY <2>0, <2>3, PushesOne DEF MoveDueDelayedToReady, NeverLost
  <2>4. ASSUME NEW j \in Jobs, RecoverStaleActive(j) PROVE NeverLost'
    BY <2>0, <2>4, PushesOne DEF RecoverStaleActive, NeverLost
  <2>5. ASSUME NEW w \in Workers, Reserve(w) PROVE NeverLost'
    BY <2>0, <2>5, PopsLast DEF Reserve, NeverLost
  <2>6. ASSUME NEW w \in Workers, RequeueAfter(w) PROVE NeverLost'
    BY <2>6 DEF RequeueAfter, NeverLost, InReady
  <2>7. ASSUME NEW w \in Workers, Ack(w) PROVE NeverLost'
    BY <2>7 DEF Ack, NeverLost, InReady
  <2> QED
    BY <2>1, <2>2, <2>3, <2>4, <2>5, <2>6, <2>7
    DEF QueueNext, WorkerStep, queueVars, redisVars, LockExpires, TryAcquireJobLock, Finish,
        ReleaseLock, WorkerCrash
<1> QED BY <1>1, <1>2, QueueTypeCorrect, PTL DEF QueueSpec

-----------------------------------------------------------------------------
(* A working worker loses its lock only to its expiry, whatever the others do *)
(* and whenever a worker that lost its own lock comes back to release it.     *)
THEOREM LocksAreNotStolen == QueueSpec => LockIsNeverStolen
<1> DEFINE Safe(w) ==
      LET j == wjob[w] IN
        /\ wpc[w] \in Critical /\ wpc'[w] \in Critical
        /\ lock[j] = w /\ lock'[j] # w
        => j \in MayLapse /\ lock'[j] = NoLock /\ UNCHANGED <<wpc, wjob>>
<1>1. ASSUME QueueTypeOK, [QueueNext]_queueVars, NEW w \in Workers PROVE Safe(w)
  <2> USE <1>1 DEF QueueTypeOK
  <2>0. wpc[w] \in Critical => wjob[w] \in Jobs
    BY DEF Critical
  <2>1. CASE UNCHANGED lock
    BY <2>1
  <2>2. ASSUME NEW j \in Jobs, LockExpires(j) PROVE Safe(w)
    BY <2>2, QueueAssumption DEF LockExpires
  <2>3. ASSUME NEW v \in Workers, TryAcquireJobLock(v) PROVE Safe(w)
    <3>1. \A j \in Jobs : lock[j] = w => lock'[j] = w
      BY <2>3, QueueAssumption DEF TryAcquireJobLock
    <3> QED BY <2>0, <3>1
  <2>4. ASSUME NEW v \in Workers, ReleaseLock(v) \/ WorkerCrash(v) PROVE Safe(w)
    <3>1. wpc' = [wpc EXCEPT ![v] = "idle"]
      BY <2>4 DEF ReleaseLock, WorkerCrash, Goto
    <3>2. v # w => \A j \in Jobs : lock[j] = w => lock'[j] = w
      BY <2>4, QueueAssumption DEF ReleaseLock, WorkerCrash
    <3> QED BY <2>0, <3>1, <3>2 DEF Critical
  <2> QED
    BY <1>1, <2>1, <2>2, <2>3, <2>4
    DEF QueueNext, WorkerStep, queueVars, redisVars, Enqueue, MoveDueDelayedToReady,
        RecoverStaleActive, Reserve, Finish, RequeueAfter, Ack
<1>2. QueueTypeOK /\ [QueueNext]_queueVars => [\A w \in Workers : Safe(w)]_queueVars
  BY <1>1
<1> QED BY <1>2, QueueTypeCorrect, PTL DEF QueueSpec, LockIsNeverStolen

-----------------------------------------------------------------------------
(* Unless its lock may lapse, a worker that works on a job owns its lock.     *)
LEMMA CriticalInductive ==
    ASSUME QueueTypeOK, CriticalOwnsLock, [QueueNext]_queueVars
    PROVE  CriticalOwnsLock'
<1> USE DEF CriticalOwnsLock, QueueTypeOK
<1>1. CASE UNCHANGED <<lock, wpc, wjob>>
  BY <1>1
<1>2. ASSUME NEW j \in Jobs, LockExpires(j) PROVE CriticalOwnsLock'
  BY <1>2, QueueAssumption DEF LockExpires
<1>3. ASSUME NEW w \in Workers, Reserve(w) PROVE CriticalOwnsLock'
  BY <1>3 DEF Reserve, Goto, Critical
<1>4. ASSUME NEW w \in Workers, TryAcquireJobLock(w) PROVE CriticalOwnsLock'
  <2>1. wjob[w] \in Jobs
    BY <1>4 DEF TryAcquireJobLock
  <2>2. \A v \in Workers :
          wpc[v] \in Critical /\ wjob[v] \notin MayLapse => v # w /\ lock[wjob[v]] # NoLock
    BY <1>4, QueueAssumption DEF TryAcquireJobLock, Critical
  <2> QED BY <1>4, <2>1, <2>2 DEF TryAcquireJobLock, Goto, Critical
<1>5. ASSUME NEW w \in Workers, NEW r \in {"ack", "requeue"}, Finish(w, r)
      PROVE  CriticalOwnsLock'
  BY <1>5 DEF Finish, Goto, Critical
<1>6. ASSUME NEW w \in Workers, RequeueAfter(w) \/ Ack(w) PROVE CriticalOwnsLock'
  BY <1>6 DEF RequeueAfter, Ack, AfterQueueCall, Goto, Critical
<1>7. ASSUME NEW w \in Workers, ReleaseLock(w) \/ WorkerCrash(w) PROVE CriticalOwnsLock'
  BY <1>7, QueueAssumption DEF ReleaseLock, WorkerCrash, Goto, Critical
<1> QED
  BY <1>1, <1>2, <1>3, <1>4, <1>5, <1>6, <1>7
  DEF QueueNext, WorkerStep, queueVars, Enqueue, MoveDueDelayedToReady, RecoverStaleActive

(* So two workers never work on one such job at the same time.                *)
THEOREM MutualExclusion == QueueSpec => []OneWorkerPerJob
<1>1. QueueInit => CriticalOwnsLock
  BY DEF QueueInit, CriticalOwnsLock, Critical
<1>2. CriticalOwnsLock => OneWorkerPerJob
  BY DEF CriticalOwnsLock, OneWorkerPerJob
<1> QED BY <1>1, <1>2, CriticalInductive, QueueTypeCorrect, PTL DEF QueueSpec

-----------------------------------------------------------------------------
(* Exactly one place.                                                         *)

\* No two entries of the ready list are the same job j.
OnceInReady(j) == \A a, b \in DOMAIN ready : ready[a] = j /\ ready[b] = j => a = b

(* A job whose beats are in time is in one place if its key exists, and in    *)
(* none otherwise; a worker that has not told the queue its result yet has    *)
(* the active entry of its job, alone.                                        *)
OnePlace(j) ==
    /\ OnceInReady(j)
    /\ ~(InReady(j) /\ j \in delayed) /\ ~(InReady(j) /\ j \in active)
    /\ ~(j \in delayed /\ j \in active)
    /\ j \in inflight <=> InReady(j) \/ j \in delayed \/ j \in active

HandedOut(j) ==
    /\ \A w \in Workers : wjob[w] = j /\ wpc[w] # "unlock" => j \in active
    /\ \A v, w \in Workers :
         wjob[v] = j /\ wpc[v] # "unlock" /\ wjob[w] = j /\ wpc[w] # "unlock" => v = w

PlacesKnown == \A j \in Jobs \ LateBeats : OnePlace(j) /\ HandedOut(j)

LEMMA PushKeepsOnce ==
    ASSUME ready \in Seq(Jobs), NEW x \in Jobs, ready' = <<x>> \o ready, NEW j, OnceInReady(j)
    PROVE  j # x \/ ~InReady(j) => OnceInReady(j)'
<1>1. /\ Len(ready) \in Nat
      /\ DOMAIN ready = 1..Len(ready)
      /\ DOMAIN ready' = 1..(Len(ready) + 1)
      /\ ready'[1] = x
      /\ \A i \in 1..Len(ready) : ready'[i + 1] = ready[i]
  OBVIOUS
<1>2. ASSUME NEW a \in DOMAIN ready'
      PROVE  a = 1 \/ (a - 1 \in DOMAIN ready /\ ready'[a] = ready[a - 1])
  BY <1>1
<1>3. ASSUME j # x \/ ~InReady(j),
             NEW a \in DOMAIN ready', NEW b \in DOMAIN ready', ready'[a] = j, ready'[b] = j
      PROVE  a = b
  <2>1. CASE a = 1 /\ b = 1
    BY <2>1
  <2>2. CASE a # 1 /\ b # 1
    <3>1. a - 1 = b - 1
      BY <1>2, <1>3, <2>2 DEF OnceInReady
    <3> QED BY <1>1, <3>1
  <2>3. CASE (a = 1) # (b = 1)
    BY <1>1, <1>2, <1>3, <2>3 DEF InReady
  <2> QED BY <2>1, <2>2, <2>3
<1> QED BY <1>3 DEF OnceInReady

LEMMA PopKeepsOnce ==
    ASSUME ready \in Seq(Jobs), ready # <<>>,
           ready' = SubSeq(ready, 1, Len(ready) - 1), NEW j, OnceInReady(j)
    PROVE  OnceInReady(j)' /\ (j = ready[Len(ready)] => ~InReady(j)')
<1>1. /\ Len(ready) \in Nat /\ Len(ready) > 0
      /\ DOMAIN ready = 1..Len(ready)
      /\ DOMAIN ready' = 1..(Len(ready) - 1)
      /\ \A i \in 1..(Len(ready) - 1) : ready'[i] = ready[i]
  OBVIOUS
<1> QED BY <1>1 DEF OnceInReady, InReady

\* The queue steps, without what they do to the jobs of others.
LEMMA PlacesStep ==
    ASSUME QueueTypeOK, PlacesKnown, [QueueNext]_queueVars, NEW j \in Jobs \ LateBeats
    PROVE  OnePlace(j)' /\ HandedOut(j)'
<1> DEFINE Goal == OnePlace(j)' /\ HandedOut(j)'
<1>0. OnePlace(j) /\ HandedOut(j)
  BY DEF PlacesKnown
<1> USE DEF QueueTypeOK
<1>1. CASE UNCHANGED queueVars
  BY <1>0, <1>1 DEF queueVars, OnePlace, HandedOut, InReady, OnceInReady
<1>2. ASSUME NEW i \in Jobs, Enqueue(i) PROVE Goal
  <2>1. HandedOut(j)'
    BY <1>0, <1>2 DEF Enqueue, HandedOut
  <2>2. CASE i \in inflight
    <3>1. UNCHANGED <<ready, delayed, active, inflight>>
      BY <1>2, <2>2 DEF Enqueue
    <3> QED BY <1>0, <2>1, <3>1 DEF OnePlace, InReady, OnceInReady
  <2>3. CASE i \notin inflight
    <3>1. ready' = <<i>> \o ready /\ inflight' = inflight \union {i}
          /\ delayed' = delayed /\ active' = active
      BY <1>2, <2>3 DEF Enqueue
    <3>2. OnceInReady(j)'
      BY <1>0, <2>3, <3>1, PushKeepsOnce DEF OnePlace
    <3>3. InReady(j)' <=> InReady(j) \/ j = i
      BY <3>1, PushesOne
    <3> QED BY <1>0, <2>1, <2>3, <3>1, <3>2, <3>3 DEF OnePlace
  <2> QED BY <2>2, <2>3
<1>3. ASSUME NEW i \in Jobs, MoveDueDelayedToReady(i) PROVE Goal
  <2>1. /\ ready' = <<i>> \o ready /\ delayed' = delayed \ {i} /\ i \in delayed
        /\ UNCHANGED <<active, inflight, wpc, wjob>>
    BY <1>3 DEF MoveDueDelayedToReady
  <2>2. OnceInReady(j)'
    BY <1>0, <2>1, PushKeepsOnce DEF OnePlace
  <2>3. InReady(j)' <=> InReady(j) \/ j = i
    BY <2>1, PushesOne
  <2> QED BY <1>0, <2>1, <2>2, <2>3 DEF OnePlace, HandedOut
<1>4. ASSUME NEW i \in Jobs, RecoverStaleActive(i) PROVE Goal
  <2>1. /\ ready' = <<i>> \o ready /\ active' = active \ {i} /\ i \in active
        /\ UNCHANGED <<delayed, inflight, wpc, wjob>>
    BY <1>4 DEF RecoverStaleActive
  <2>2. OnceInReady(j)'
    BY <1>0, <2>1, PushKeepsOnce DEF OnePlace
  <2>3. InReady(j)' <=> InReady(j) \/ j = i
    BY <2>1, PushesOne
  <2>4. j = i => \A w \in Workers : wjob[w] # j
    BY <1>4 DEF RecoverStaleActive, Stale
  <2> QED BY <1>0, <2>1, <2>2, <2>3, <2>4 DEF OnePlace, HandedOut
<1>5. ASSUME NEW i \in Jobs, LockExpires(i) PROVE Goal
  BY <1>0, <1>5 DEF LockExpires, redisVars, OnePlace, HandedOut, InReady, OnceInReady
<1>6. ASSUME NEW w \in Workers, Reserve(w) PROVE Goal
  <2> DEFINE i == ready[Len(ready)]
  <2>1. /\ ready # <<>> /\ ready' = SubSeq(ready, 1, Len(ready) - 1)
        /\ active' = active \union {i} /\ UNCHANGED <<delayed, inflight>>
        /\ wjob' = [wjob EXCEPT ![w] = i] /\ wpc' = [wpc EXCEPT ![w] = "reserved"]
    BY <1>6 DEF Reserve, Goto
  <2>2. OnceInReady(j)' /\ (j = i => ~InReady(j)')
    BY <1>0, <2>1, PopKeepsOnce DEF OnePlace
  <2>3. /\ InReady(j)' => InReady(j)
        /\ InReady(j) => InReady(j)' \/ j = i
        /\ InReady(i)
    BY <2>1, PopsLast
  <2> HIDE DEF i
  <2>4. OnePlace(j)'
    BY <1>0, <2>1, <2>2, <2>3 DEF OnePlace
  <2>5. HandedOut(j)'
    BY <1>0, <2>1, <2>3 DEF OnePlace, HandedOut
  <2> QED BY <2>4, <2>5
<1>7. ASSUME NEW w \in Workers,
             TryAcquireJobLock(w) \/ Finish(w, "ack") \/ Finish(w, "requeue")
      PROVE  Goal
  <2>1. /\ UNCHANGED <<ready, delayed, active, inflight, wjob>>
        /\ wpc[w] \in {"reserved", "processing"}
        /\ \A v \in Workers \ {w} : wpc'[v] = wpc[v]
    BY <1>7 DEF TryAcquireJobLock, Finish, Goto, redisVars
  <2> QED BY <1>0, <2>1 DEF OnePlace, HandedOut, InReady, OnceInReady
<1>8. ASSUME NEW w \in Workers, RequeueAfter(w) PROVE Goal
  <2>1. /\ UNCHANGED <<ready, inflight>>
        /\ \/ active' = active \ {wjob[w]} /\ delayed' = delayed \union {wjob[w]}
           \/ UNCHANGED <<active, delayed>>
        /\ wpc[w] \in {"conflict", "requeue"}
    BY <1>8 DEF RequeueAfter
  <2>2. /\ wpc'[w] = "unlock" \/ (wjob'[w] = NoJob /\ wpc'[w] = "idle")
        /\ \A v \in Workers \ {w} : wpc'[v] = wpc[v] /\ wjob'[v] = wjob[v]
    BY <1>8 DEF RequeueAfter, AfterQueueCall, Goto
  <2>3. wjob[w] = j => j \in active
    BY <1>0, <2>1 DEF HandedOut
  <2>4. OnePlace(j)'
    BY <1>0, <2>1, <2>3 DEF OnePlace, InReady, OnceInReady
  <2>5. HandedOut(j)'
    BY <1>0, <2>1, <2>2, QueueAssumption DEF HandedOut
  <2> QED BY <2>4, <2>5
<1>9. ASSUME NEW w \in Workers, Ack(w) PROVE Goal
  <2>1. /\ UNCHANGED ready
        /\ \/ /\ active' = active \ {wjob[w]} /\ delayed' = delayed \ {wjob[w]}
              /\ inflight' = inflight \ {wjob[w]}
           \/ UNCHANGED <<active, delayed, inflight>>
        /\ wpc[w] = "ack"
    BY <1>9 DEF Ack
  <2>2. /\ wpc'[w] = "unlock"
        /\ \A v \in Workers \ {w} : wpc'[v] = wpc[v]
        /\ wjob' = wjob
    BY <1>9 DEF Ack, AfterQueueCall, Goto
  <2>3. wjob[w] = j => j \in active
    BY <1>0, <2>1 DEF HandedOut
  <2>4. OnePlace(j)'
    BY <1>0, <2>1, <2>3 DEF OnePlace, InReady, OnceInReady
  <2>5. HandedOut(j)'
    BY <1>0, <2>1, <2>2 DEF HandedOut
  <2> QED BY <2>4, <2>5
<1>10. ASSUME NEW w \in Workers, ReleaseLock(w) \/ WorkerCrash(w) PROVE Goal
  <2>1. /\ UNCHANGED <<ready, delayed, active, inflight>>
        /\ wjob'[w] = NoJob
        /\ \A v \in Workers \ {w} : wpc'[v] = wpc[v] /\ wjob'[v] = wjob[v]
    BY <1>10 DEF ReleaseLock, WorkerCrash, Goto, redisVars
  <2> QED BY <1>0, <2>1, QueueAssumption DEF OnePlace, HandedOut, InReady, OnceInReady
<1> QED
  BY <1>1, <1>2, <1>3, <1>4, <1>5, <1>6, <1>7, <1>8, <1>9, <1>10 DEF QueueNext, WorkerStep

\* One place is one copy, and no place is none.
LEMMA PlacesAreCopies ==
    ASSUME NEW j, OnePlace(j)
    PROVE  Copies(j) = (IF j \in inflight THEN 1 ELSE 0)
<1> DEFINE at == {i \in DOMAIN ready : ready[i] = j}
<1>1. CASE InReady(j)
  <2>1. \E i : at = {i}
    BY <1>1 DEF OnePlace, OnceInReady, InReady
  <2>2. Cardinality(at) = 1
    BY <2>1, FS_Singleton
  <2> QED BY <1>1, <2>2 DEF Copies, OnePlace
<1>2. CASE ~InReady(j)
  <2>1. at = {}
    BY <1>2 DEF InReady
  <2>2. Cardinality(at) = 0
    BY <2>1, FS_EmptySet
  <2> QED BY <1>2, <2>2 DEF Copies, OnePlace
<1> QED BY <1>1, <1>2

(* The scripts of the queue never duplicate a job whose beats are in time,    *)
(* nor leave an entry behind after its Ack, whatever replies are lost, locks  *)
(* lapse and workers die.                                                     *)
THEOREM OneCopy == QueueSpec => []ExactlyOnePlace
<1>1. QueueInit => PlacesKnown
  <2> SUFFICES ASSUME QueueInit, NEW j \in Jobs PROVE OnePlace(j) /\ HandedOut(j)
    BY DEF PlacesKnown
  <2>1. /\ DOMAIN ready = {} /\ delayed = {} /\ active = {} /\ inflight = {}
        /\ \A w \in Workers : wjob[w] # j
    BY QueueAssumption DEF QueueInit
  <2> QED BY <2>1 DEF OnePlace, HandedOut, InReady, OnceInReady
<1>2. QueueTypeOK /\ PlacesKnown /\ [QueueNext]_queueVars => PlacesKnown'
  BY PlacesStep DEF PlacesKnown
<1>3. PlacesKnown => ExactlyOnePlace
  BY PlacesAreCopies DEF PlacesKnown, ExactlyOnePlace
<1> QED BY <1>1, <1>2, <1>3, QueueTypeCorrect, PTL DEF QueueSpec
=============================================================================
