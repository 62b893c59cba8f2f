--------------------------- MODULE PaymentRefund ---------------------------
(* The refund of one fulfilled balance order: administrators and webhooks   *)
(* may work on it at once, the user spends and tops up meanwhile, the       *)
(* payment provider answers at once or settles later.                       *)
(* service/payment_refund.go.                                               *)
(*                                                                          *)
(* One action is one statement, transaction or provider call.  The audit    *)
(* table has a unique index on (order_id, action), so it is a set here.     *)
EXTENDS PaymentOrder, Integers, Sequences

CONSTANTS Amount,        \* what the order credited
          Keyed,         \* does the provider know a repeated request by its id?
          MaxBalance,    \* bound of the user's top-ups
          MaxAttempts,   \* bound: refund requests to the provider
          MaxFaults      \* bound: steps that fail or lose their reply, deaths

ASSUME RefundAssumption ==
    /\ Calls # {}
    /\ Amount \in Nat \ {0} /\ Keyed \in BOOLEAN
    /\ MaxBalance \in Nat /\ MaxAttempts \in Nat /\ MaxFaults \in Nat

VARIABLES refundAmount,   \* refund_amount of the row
          balance,        \* of the user
          taken,          \* history: what the refund holds of the balance
          audits,         \* the audit actions that later steps look for
          held,           \* detail of the audit REFUND_PENDING
          gateway,        \* the provider's refund requests, by number
          pc, plan,       \* per call
          faults,
          doubts          \* history: what the program was wrongly told of

vars == <<order, refundAmount, balance, taken, audits, held, gateway, pc, plan, faults, doubts>>

Claimed == {"deduct", "gateway", "ok", "pending", "rollback", "mark", "fail", "restore"}
Labels == {"idle", "claim", "log", "succeed", "unwind", "strand"} \union Claimed
RefundPlan == [amount : 0..Amount, deduct : 0..Amount, from : Statuses, refund : Nat]
NoPlan == [amount |-> 0, deduct |-> 0, from |-> "COMPLETED", refund |-> 0]

TypeOK ==
    /\ order \in Order /\ order.status \in Settled
    /\ refundAmount \in 0..Amount
    /\ balance \in Int /\ taken \in Nat
    /\ audits \subseteq {"REFUND_PENDING", "REFUND_FAILED", "REFUND_ROLLBACK_FAILED"}
    /\ held \in [refund : Nat, deduct : 0..Amount]
    /\ gateway \in Seq([state : {"pending", "refunded", "failed"}, amount : 1..Amount])
    /\ pc \in [Calls -> Labels] /\ plan \in [Calls -> RefundPlan]
    /\ faults \in 0..MaxFaults
    /\ doubts \subseteq {"deduction", "mark", "refund"}

Init ==
    /\ order = [status |-> "COMPLETED", old |-> FALSE, leases |-> {}]
    /\ refundAmount = 0 /\ taken = 0
    /\ balance \in 0..MaxBalance
    /\ audits = {} /\ held = [refund |-> 0, deduct |-> 0]
    /\ gateway = <<>>
    /\ pc = [c \in Calls |-> "idle"] /\ plan = [c \in Calls |-> NoPlan]
    /\ faults = 0 /\ doubts = {}

-----------------------------------------------------------------------------
row == <<order, refundAmount>>
money == <<balance, taken>>
trail == <<audits, held>>

Goto(c, l) ==
    /\ pc' = [pc EXCEPT ![c] = l]
    /\ plan' = IF l = "idle" THEN [plan EXCEPT ![c] = NoPlan] ELSE plan

Fault == faults < MaxFaults /\ faults' = faults + 1

\* A fault after which the program believes what is not so.
Doubt(d) == Fault /\ doubts' = doubts \union {d}

NoFault == UNCHANGED <<faults, doubts>>

\* DeductAvailableBalance, and the preview in prepDeduct.
Available(a) == IF balance <= 0 THEN 0 ELSE IF a <= balance THEN a ELSE balance

Take(a) == balance' = balance - a /\ taken' = taken + a
Return(a) == balance' = balance + a /\ taken' = taken - a

RefundedStatus(a) == IF a < Amount THEN "PARTIALLY_REFUNDED" ELSE "REFUNDED"

SetRefund(s, a) == Write(s) /\ refundAmount' = a

-----------------------------------------------------------------------------
\* The user asks for a refund.
RequestRefund ==
    /\ order.status = "COMPLETED"
    /\ balance >= Amount
    /\ SetRefund("REFUND_REQUESTED", Amount)
    /\ UNCHANGED <<money, trail, gateway, pc, plan, faults, doubts>>

\* An administrator's refund; without force it needs the whole amount.
PrepareRefund(c) ==
    /\ pc[c] = "idle"
    /\ order.status \in Refundable
    /\ Len(gateway) < MaxAttempts
    /\ pc' = [pc EXCEPT ![c] = "claim"]
    /\ \E amt \in 1..Amount, force \in BOOLEAN : \E d \in {0, Available(amt)} :
         /\ force \/ d \in {0, amt}
         /\ plan' = [plan EXCEPT ![c] = [amount |-> amt, deduct |-> d,
                                         from |-> order.status, refund |-> 0]]
    /\ UNCHANGED <<row, money, trail, gateway, faults, doubts>>

-----------------------------------------------------------------------------
(* ExecuteRefund.                                                            *)

\* Wrong variant: the claim does not ask for the status.
ClaimAlways(c) ==
    /\ pc[c] = "claim"
    /\ Write("REFUNDING")
    /\ Goto(c, IF plan[c].deduct > 0 THEN "deduct" ELSE "gateway")
    /\ UNCHANGED <<refundAmount, money, trail, gateway, faults, doubts>>

ClaimRefund(c) ==
    /\ pc[c] = "claim"
    /\ \/ /\ order.status \in Refundable
          /\ Write("REFUNDING")
          /\ \/ Goto(c, IF plan[c].deduct > 0 THEN "deduct" ELSE "gateway") /\ NoFault
             \/ Goto(c, "idle") /\ Fault /\ UNCHANGED doubts
       \/ order.status \notin Refundable /\ Goto(c, "idle") /\ UNCHANGED order /\ NoFault
    /\ UNCHANGED <<refundAmount, money, trail, gateway>>

\* Nothing is deducted again when an earlier attempt could not return it.  An
\* error of that look-up counts as "no".
Deduct(c) ==
    /\ pc[c] = "deduct"
    /\ LET a == Available(plan[c].deduct)
           marked == "REFUND_ROLLBACK_FAILED" \in audits
           to(l, d) == /\ pc' = [pc EXCEPT ![c] = l]
                       /\ plan' = [plan EXCEPT ![c].deduct = d]
       IN \/ marked /\ to("gateway", 0) /\ UNCHANGED money /\ NoFault
          \/ ~marked /\ Take(a) /\ to("gateway", a) /\ NoFault
          \/ ~marked /\ Take(a) /\ to("restore", plan[c].deduct) /\ Doubt("deduction")
          \/ marked /\ Take(a) /\ to("gateway", a) /\ Doubt("mark")
    /\ UNCHANGED <<row, trail, gateway>>

\* The requests a provider knows by the id of one for amount a.  WeChat Pay,
\* Stripe and Airwallex get an id made of the order and the amount; Alipay a
\* fresh one each time, EasyPay none.
Known(a) == {n \in DOMAIN gateway : Keyed /\ gateway[n].amount = a}

\* A request that is new to the provider, or was refused before.
NewRequest(n, s, a) ==
    /\ n = Len(gateway) + 1
    /\ \A k \in Known(a) : gateway[k].state = "failed"
    /\ gateway' = Append(gateway, [state |-> s, amount |-> a])

\* One it knows is not made again.  It answers with the refund as it stands,
\* or with "pending": the answer of the first time, or what an adapter makes
\* of a refund that failed.
RepeatedRequest(n, s, a) ==
    /\ n \in Known(a) /\ \A k \in Known(a) : k <= n
    /\ s \in {"pending", gateway[n].state}
    /\ UNCHANGED gateway

\* gwRefund: the provider refunds, takes its time or refuses; its answer may
\* be lost, which the program takes for a refusal.
GatewayRefund(c) ==
    /\ pc[c] = "gateway"
    /\ \E n \in 1..Len(gateway) + 1, s \in {"refunded", "pending", "failed"} :
         /\ NewRequest(n, s, plan[c].amount) \/ RepeatedRequest(n, s, plan[c].amount)
         /\ plan' = [plan EXCEPT ![c].refund = n]
         /\ \/ /\ pc' = [pc EXCEPT ![c] = CASE s = "refunded" -> "ok"
                                            [] s = "pending"  -> "pending"
                                            [] s = "failed"   -> "rollback"]
               /\ NoFault
            \/ s # "failed" /\ pc' = [pc EXCEPT ![c] = "rollback"] /\ Doubt("refund")
    /\ UNCHANGED <<row, money, trail>>

MarkRefundOk(c) ==
    /\ pc[c] = "ok"
    /\ SetRefund(RefundedStatus(plan[c].amount), plan[c].amount)
    /\ Goto(c, "idle")
    /\ UNCHANGED <<money, trail, gateway, faults, doubts>>

\* Status and audit in one transaction.  The audit is unique: a second one
\* rolls the status back.
MarkRefundPending(c) ==
    /\ pc[c] = "pending"
    /\ \/ /\ "REFUND_PENDING" \notin audits
          /\ SetRefund("REFUND_PENDING", plan[c].amount)
          /\ audits' = audits \union {"REFUND_PENDING"}
          /\ held' = [refund |-> plan[c].refund, deduct |-> plan[c].deduct]
       \/ "REFUND_PENDING" \in audits /\ UNCHANGED <<row, trail>>
    /\ Goto(c, "idle")
    /\ UNCHANGED <<money, gateway, faults, doubts>>

-----------------------------------------------------------------------------
(* handleGwFail.                                                             *)

RollbackRefund(c) ==
    /\ pc[c] = "rollback"
    /\ Return(plan[c].deduct)
    /\ \/ Goto(c, "restore") /\ NoFault
       \/ plan[c].deduct > 0 /\ Goto(c, "mark") /\ Fault /\ UNCHANGED doubts
    /\ UNCHANGED <<row, trail, gateway>>

\* The audit REFUND_ROLLBACK_FAILED; an error is only logged.
MarkRollbackFailed(c) ==
    /\ pc[c] = "mark"
    /\ \/ audits' = audits \union {"REFUND_ROLLBACK_FAILED"} /\ NoFault
       \/ Doubt("mark") /\ UNCHANGED audits
    /\ Goto(c, "fail")
    /\ UNCHANGED <<row, money, held, gateway>>

FailRefund(c) ==
    /\ pc[c] = "fail"
    /\ Write("REFUND_FAILED")
    /\ Goto(c, "log")
    /\ UNCHANGED <<refundAmount, money, trail, gateway, faults, doubts>>

LogRefundFailed(c) ==
    /\ pc[c] = "log"
    /\ audits' = audits \union {"REFUND_FAILED"}
    /\ Goto(c, "idle")
    /\ UNCHANGED <<row, money, held, gateway, faults, doubts>>

RestoreStatus(c) ==
    /\ pc[c] = "restore"
    /\ Write(IF plan[c].from = "REFUND_REQUESTED" THEN "REFUND_REQUESTED" ELSE "COMPLETED")
    /\ Goto(c, "idle")
    /\ UNCHANGED <<refundAmount, money, trail, gateway, faults, doubts>>

-----------------------------------------------------------------------------
(* QueryAndFinalizeRefund.                                                   *)

AfterQuery(answer) == CASE answer = "refunded" -> "succeed"
                        [] answer = "failed"   -> "unwind"
                        [] OTHER               -> "idle"

\* The deduction is the one the audit holds.
QueryAndFinalizeRefund(c) ==
    /\ pc[c] = "idle"
    /\ order.status = "REFUND_PENDING"
    /\ pc' = [pc EXCEPT ![c] = AfterQuery(gateway[held.refund].state)]
    /\ plan' = [plan EXCEPT ![c] = IF pc'[c] = "idle" THEN NoPlan ELSE
                   [amount |-> refundAmount, deduct |-> held.deduct,
                    from |-> "REFUND_PENDING", refund |-> held.refund]]
    /\ UNCHANGED <<row, money, trail, gateway, faults, doubts>>

FinalizePendingRefundSuccess(c) ==
    /\ pc[c] = "succeed"
    /\ IF order.status = "REFUND_PENDING"
       THEN SetRefund(RefundedStatus(plan[c].amount), plan[c].amount)
       ELSE UNCHANGED row
    /\ Goto(c, "idle")
    /\ UNCHANGED <<money, trail, gateway, faults, doubts>>

\* finalizeRefundFailedTx gets past its UPDATE and its audit.
CanFailPending == order.status = "REFUND_PENDING" /\ "REFUND_FAILED" \notin audits

\* Wrong variant: the deduction is returned although another call ends the refund.
FinalizeUnclaimed(c) ==
    /\ pc[c] = "unwind"
    /\ Return(plan[c].deduct)
    /\ IF CanFailPending
       THEN Write("REFUND_FAILED") /\ audits' = audits \union {"REFUND_FAILED"}
       ELSE UNCHANGED <<order, audits>>
    /\ Goto(c, "idle")
    /\ UNCHANGED <<refundAmount, held, gateway, faults, doubts>>

\* The status, the return of the deduction and the audit in one transaction.
FinalizeRefundFailed(c) ==
    /\ pc[c] = "unwind"
    /\ \/ /\ CanFailPending
          /\ Write("REFUND_FAILED")
          /\ Return(plan[c].deduct)
          /\ audits' = audits \union {"REFUND_FAILED"}
          /\ Goto(c, "idle") /\ NoFault
       \/ /\ order.status = "REFUND_PENDING" /\ plan[c].deduct > 0   \* the return fails
          /\ Goto(c, "strand") /\ Fault
          /\ UNCHANGED <<order, money, audits, doubts>>
       \/ /\ ~CanFailPending
          /\ Goto(c, "idle") /\ NoFault
          /\ UNCHANGED <<order, money, audits>>
    /\ UNCHANGED <<refundAmount, held, gateway>>

\* Wrong variant: the failed return leaves no mark.
StrandUnmarked(c) ==
    /\ pc[c] = "strand"
    /\ IF CanFailPending
       THEN Write("REFUND_FAILED") /\ audits' = audits \union {"REFUND_FAILED"}
       ELSE UNCHANGED <<order, audits>>
    /\ Goto(c, "idle")
    /\ UNCHANGED <<refundAmount, money, held, gateway, faults, doubts>>

\* The deduction could not be returned: a second transaction says so.
StrandDeduction(c) ==
    /\ pc[c] = "strand"
    /\ IF CanFailPending /\ "REFUND_ROLLBACK_FAILED" \notin audits
       THEN /\ Write("REFUND_FAILED")
            /\ audits' = audits \union {"REFUND_ROLLBACK_FAILED", "REFUND_FAILED"}
       ELSE UNCHANGED <<order, audits>>
    /\ Goto(c, "idle")
    /\ UNCHANGED <<refundAmount, money, held, gateway, faults, doubts>>

-----------------------------------------------------------------------------
(* Faults and the rest of the world.                                         *)

\* Where a call goes when its step fails without effect.
OnError(c) ==
    CASE pc[c] = "deduct"   -> "restore"
      [] pc[c] = "gateway"  -> "rollback"
      [] pc[c] = "rollback" -> "mark"
      [] pc[c] = "fail"     -> "log"
      [] OTHER              -> "idle"

StepFails(c) ==
    /\ pc[c] \notin {"idle", "mark"}
    /\ pc[c] = "rollback" => plan[c].deduct > 0
    /\ Fault
    /\ Goto(c, OnError(c))
    /\ UNCHANGED <<row, money, trail, gateway, doubts>>

Die(c) ==
    /\ pc[c] # "idle"
    /\ Fault
    /\ Goto(c, "idle")
    /\ UNCHANGED <<row, money, trail, gateway, doubts>>

\* The provider makes up its mind.
GatewaySettles ==
    /\ \E n \in DOMAIN gateway, s \in {"refunded", "failed"} :
         /\ gateway[n].state = "pending"
         /\ gateway' = [gateway EXCEPT ![n].state = s]
    /\ UNCHANGED <<row, money, trail, pc, plan, faults, doubts>>

\* Usage may overdraw the balance.
Spend ==
    /\ balance >= 0
    /\ balance' = balance - 1
    /\ UNCHANGED <<row, taken, trail, gateway, pc, plan, faults, doubts>>

TopUp ==
    /\ balance < MaxBalance
    /\ balance' = balance + 1
    /\ UNCHANGED <<row, taken, trail, gateway, pc, plan, faults, doubts>>

Call(c) ==
    \/ PrepareRefund(c) \/ ClaimRefund(c) \/ Deduct(c) \/ GatewayRefund(c)
    \/ MarkRefundOk(c) \/ MarkRefundPending(c)
    \/ RollbackRefund(c) \/ MarkRollbackFailed(c) \/ FailRefund(c)
    \/ LogRefundFailed(c) \/ RestoreStatus(c)
    \/ QueryAndFinalizeRefund(c) \/ FinalizePendingRefundSuccess(c)
    \/ FinalizeRefundFailed(c) \/ StrandDeduction(c)
    \/ StepFails(c) \/ Die(c)

Next == (\E c \in Calls : Call(c)) \/ RequestRefund \/ GatewaySettles \/ Spend \/ TopUp

Spec == Init /\ [][Next]_vars

-----------------------------------------------------------------------------
(* Properties.                                                               *)

\* Between its claim and its last write one call has the order for itself:
\* its writes, which do not ask for the status, overwrite nobody's.
OneRefunder ==
    \A c, d \in Calls : pc[c] \in Claimed =>
        order.status = "REFUNDING" /\ (pc[d] \in Claimed => c = d)

\* What a refund took of the balance is known to whoever goes on with it: it
\* is in progress, held, settled, or marked as not returned, so that it is
\* never taken twice nor forgotten.  Unless a deduction lost its reply or the
\* mark could not be written or read.
DeductionIsAccounted == doubts \intersect {"deduction", "mark"} = {} =>
    /\ taken > 0 => \/ order.status \in {"REFUNDING", "REFUND_PENDING"} \union Refunded
                    \/ "REFUND_ROLLBACK_FAILED" \in audits
    /\ order.status = "REFUND_PENDING" =>
           taken = held.deduct \/ "REFUND_ROLLBACK_FAILED" \in audits

\* A refunded order was refunded by the provider, with the amount of the row,
\* also after an answer was lost and the request repeated.  Unless an answer
\* was lost, it was refunded once, and an order that can be refunded was not
\* refunded and is not going to be.
StatusTellsGateway ==
    /\ order.status \in Refunded => \E n \in DOMAIN gateway :
          /\ gateway[n] = [state |-> "refunded", amount |-> refundAmount]
          /\ "refund" \notin doubts =>
               \A k \in DOMAIN gateway \ {n} : gateway[k].state = "failed"
    /\ "refund" \notin doubts /\ order.status \in Refundable =>
          \A n \in DOMAIN gateway : gateway[n].state = "failed"

\* The status moves only as the fulfilment expects of a refund.
MovesAsRefund ==
    [][order'.status \in RefundSteps(order.status) \union {order.status}]_vars

\* A refund the provider has not decided can be finalised: once no call works
\* on it, the order is pending and its audit names the refund.
PendingIsFinalisable ==
    \A n \in DOMAIN gateway :
        gateway[n].state = "pending" /\ (\A c \in Calls : pc[c] = "idle") =>
            order.status = "REFUND_PENDING" /\ held.refund = n
=============================================================================
