-------------------------- MODULE BatchImageLedger --------------------------
(* The balance holds of batch image jobs, as the transactions of            *)
(* repository/usage_billing_repo.go apply them to one user's row.           *)
(*                                                                          *)
(* Every operation claims a row of usage_billing_dedup and moves money in   *)
(* one transaction.  The frozen balance is ONE pool for all the user's      *)
(* jobs: nothing in the row says which job a frozen amount belongs to, so   *)
(* only the claims keep one job from spending what another job froze.       *)
(* A call reports its outcome in res; a failed call rolls back.             *)
EXTENDS BatchImageJob, Integers, FiniteSets

CONSTANTS Hold,         \* Hold[j]: hold_amount of the job, fixed when it is created
          Payloads,     \* request payload hashes
          Amounts,      \* amounts a settlement or another charge may ask for
          Deposit,      \* the user's balance at the start
          Overdraft     \* bound: other usage may take the balance down to -Overdraft

ASSUME LedgerAssumption ==
    /\ Hold \in [Jobs -> Nat]
    /\ Amounts \subseteq Nat
    /\ 0 \in Amounts
    /\ Deposit \in Nat
    /\ Overdraft \in Nat

VARIABLES balance,      \* users.balance
          frozen,       \* users.frozen_balance
          claims,       \* usage_billing_dedup: committed request ids and fingerprints
          moved,        \* history: the claims whose transaction moved money
          revenue,      \* history: total amount captured
          spent         \* history: total charged by other usage of the account

ledgerVars == <<balance, frozen, claims, moved, revenue, spent>>
money      == <<balance, frozen, moved, revenue>>

Ops == {"hold", "capture", "release"}

\* The request id is <op>:<batch id>; the fingerprint hashes the payload hash and the amounts.
Claim == [op : Ops, job : Jobs, payload : Payloads, actual : Amounts]

Outcomes == {"ok", "conflict", "insufficient", "exceeds_hold", "frozen_insufficient"}

LedgerInit ==
    /\ balance = Deposit
    /\ frozen = 0
    /\ claims = {}
    /\ moved = {}
    /\ revenue = 0
    /\ spent = 0

Claimed(op, j) == \E c \in claims : c.op = op /\ c.job = j

-----------------------------------------------------------------------------
\* A wrong variant of the claim: a replay repeats the effect.
applyAgain(c, res, effect) ==
    \/ c \in claims /\ effect /\ UNCHANGED claims
    \/ /\ c \notin claims /\ ~Claimed(c.op, c.job)
       /\ effect
       /\ claims' = IF res = "ok" THEN claims \union {c} ELSE claims

(* The claim comes first.  A repeated request with the same fingerprint      *)
(* succeeds without effect, one with another fingerprint is a conflict, and  *)
(* a new one keeps its claim only if the effect commits.                     *)
applyBatchImageBalanceHold(c, res, effect) ==
    \/ /\ c \in claims
       /\ res = "ok"
       /\ UNCHANGED <<money, claims>>
    \/ /\ c \notin claims
       /\ Claimed(c.op, c.job)
       /\ res = "conflict"
       /\ UNCHANGED <<money, claims>>
    \/ /\ ~Claimed(c.op, c.job)
       /\ effect
       /\ claims' = IF res = "ok" THEN claims \union {c} ELSE claims

NothingMoves(res, r) == res = r /\ UNCHANGED money

reserveUsageBillingBatchImageBalance(c, res) ==
    \/ Hold[c.job] = 0 /\ NothingMoves(res, "ok")
    \/ /\ Hold[c.job] > 0
       /\ balance >= Hold[c.job]
       /\ res = "ok"
       /\ balance' = balance - Hold[c.job]
       /\ frozen' = frozen + Hold[c.job]
       /\ moved' = moved \union {<<"hold", c.job>>}
       /\ UNCHANGED revenue
    \/ /\ Hold[c.job] > 0
       /\ balance < Hold[c.job]
       /\ NothingMoves(res, "insufficient")

\* Wrong variants: the capture does not look at the pool, keeps the change, or frees too little.
captureUnchecked(c, res) ==
    /\ c.actual <= Hold[c.job] /\ res = "ok"
    /\ balance' = balance + (Hold[c.job] - c.actual)
    /\ frozen' = frozen - Hold[c.job]
    /\ revenue' = revenue + c.actual
    /\ moved' = moved \union {<<"capture", c.job>>}

captureKeepsChange(c, res) ==
    /\ c.actual <= Hold[c.job] /\ frozen >= Hold[c.job] /\ res = "ok"
    /\ frozen' = frozen - Hold[c.job]
    /\ revenue' = revenue + c.actual
    /\ moved' = moved \union {<<"capture", c.job>>}
    /\ UNCHANGED balance

captureFreesActual(c, res) ==
    /\ c.actual <= Hold[c.job] /\ frozen >= Hold[c.job] /\ res = "ok"
    /\ frozen' = frozen - c.actual
    /\ revenue' = revenue + c.actual
    /\ moved' = moved \union {<<"capture", c.job>>}
    /\ UNCHANGED balance

captureUsageBillingBatchImageBalance(c, res) ==
    \/ Hold[c.job] = 0 /\ c.actual = 0 /\ NothingMoves(res, "ok")
    \/ c.actual > Hold[c.job] /\ NothingMoves(res, "exceeds_hold")
    \/ /\ Hold[c.job] > 0
       /\ c.actual <= Hold[c.job]
       /\ frozen >= Hold[c.job]
       /\ res = "ok"
       /\ balance' = balance + (Hold[c.job] - c.actual)
       /\ frozen' = frozen - Hold[c.job]
       /\ revenue' = revenue + c.actual
       /\ moved' = moved \union {<<"capture", c.job>>}
    \/ /\ Hold[c.job] > 0
       /\ c.actual <= Hold[c.job]
       /\ frozen < Hold[c.job]
       /\ NothingMoves(res, "frozen_insufficient")

\* Wrong variants: the release overdraws the pool, or trusts its caller.
releaseOverdraws(c, res) ==
    /\ Claimed("hold", c.job) /\ res = "ok"
    /\ balance' = balance + Hold[c.job]
    /\ frozen' = frozen - Hold[c.job]
    /\ moved' = moved \union {<<"release", c.job>>}
    /\ UNCHANGED revenue


releaseWithoutClaimCheck(c, res) ==
    /\ Hold[c.job] > 0 /\ frozen >= Hold[c.job] /\ res = "ok"
    /\ balance' = balance + Hold[c.job]
    /\ frozen' = frozen - Hold[c.job]
    /\ moved' = moved \union {<<"release", c.job>>}
    /\ UNCHANGED revenue

(* A release of a hold that was never claimed moves nothing but succeeds,    *)
(* and so its own claim commits: it can never take effect afterwards.        *)
releaseUsageBillingBatchImageBalance(c, res) ==
    \/ Hold[c.job] = 0 /\ NothingMoves(res, "ok")
    \/ /\ Hold[c.job] > 0
       /\ ~Claimed("hold", c.job)
       /\ NothingMoves(res, "ok")
    \/ /\ Hold[c.job] > 0
       /\ Claimed("hold", c.job)
       /\ frozen >= Hold[c.job]
       /\ res = "ok"
       /\ balance' = balance + Hold[c.job]
       /\ frozen' = frozen - Hold[c.job]
       /\ moved' = moved \union {<<"release", c.job>>}
       /\ UNCHANGED revenue
    \/ /\ Hold[c.job] > 0
       /\ Claimed("hold", c.job)
       /\ frozen < Hold[c.job]
       /\ NothingMoves(res, "frozen_insufficient")

HoldCommand(op, j, payload, actual) ==
    [op |-> op, job |-> j, payload |-> payload, actual |-> actual]

ReserveBatchImageBalance(j, payload, res) ==
    /\ LET c == HoldCommand("hold", j, payload, 0) IN
         applyBatchImageBalanceHold(c, res, reserveUsageBillingBatchImageBalance(c, res))
    /\ UNCHANGED spent

CaptureBatchImageBalance(j, payload, actual, res) ==
    /\ LET c == HoldCommand("capture", j, payload, actual) IN
         applyBatchImageBalanceHold(c, res, captureUsageBillingBatchImageBalance(c, res))
    /\ UNCHANGED spent

ReleaseBatchImageBalance(j, payload, res) ==
    /\ LET c == HoldCommand("release", j, payload, 0) IN
         applyBatchImageBalanceHold(c, res, releaseUsageBillingBatchImageBalance(c, res))
    /\ UNCHANGED spent

(* A charge of the synchronous API on the same row.  When the balance does   *)
(* not cover it the second UPDATE takes it anyway (overdraft), so both       *)
(* branches subtract the same amount.                                        *)
deductUsageBillingBalance(amount) ==
    /\ amount > 0
    /\ balance - amount >= -Overdraft
    /\ balance' = balance - amount
    /\ spent' = spent + amount
    /\ UNCHANGED <<frozen, claims, moved, revenue>>

LedgerNext ==
    \/ \E j \in Jobs, p \in Payloads, res \in Outcomes :
          \/ ReserveBatchImageBalance(j, p, res)
          \/ ReleaseBatchImageBalance(j, p, res)
          \/ \E a \in Amounts : CaptureBatchImageBalance(j, p, a, res)
    \/ \E a \in Amounts : deductUsageBillingBalance(a)

LedgerSpec == LedgerInit /\ [][LedgerNext]_ledgerVars

-----------------------------------------------------------------------------
LedgerTypeOK ==
    /\ balance \in Int
    /\ frozen \in Nat
    /\ claims \subseteq Claim
    /\ moved \subseteq Ops \X Jobs
    /\ revenue \in Nat
    /\ spent \in Nat

(* No order of reservations, captures, releases, repeats and conflicting     *)
(* retries creates or destroys money in the two UPDATEd columns.             *)
MoneyConserved == balance + frozen + revenue + spent = Deposit

(* A request id commits under one fingerprint only, so two different         *)
(* settlements of a job can never both be recorded.                          *)
OneFingerprintPerRequest ==
    \A c, d \in claims : c.op = d.op /\ c.job = d.job => c = d

(* "Phantom release" (usage_billing_repo.go:347): money leaves the pool as a *)
(* release only for a job that put money into it.                            *)
NoPhantomRelease ==
    \A j \in Jobs : <<"release", j>> \in moved => <<"hold", j>> \in moved

(* A repeated or conflicting request, or one that fails, moves nothing: the  *)
(* two columns change only with a charge of other usage or in a transaction  *)
(* that commits the first claim of its request id.                           *)
ReplayMovesNothing ==
    [][(balance' # balance \/ frozen' # frozen) /\ spent' = spent
          => \E c \in claims' \ claims : ~Claimed(c.op, c.job)]_ledgerVars

\* The inductive invariant behind NoPhantomRelease: who moved money holds a claim.
HoldClaimMovesMoney ==
    /\ \A m \in moved : Claimed(m[1], m[2])
    /\ \A j \in Jobs : Hold[j] > 0 /\ Claimed("hold", j) => <<"hold", j>> \in moved
    /\ \A j \in Jobs : <<"release", j>> \in moved => Hold[j] > 0
=============================================================================
