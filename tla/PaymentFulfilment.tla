-------------------------- MODULE PaymentFulfilment --------------------------
(* A payment order from its creation to its fulfilment: the user pays, the  *)
(* provider reports the payment as often as it likes, the order is          *)
(* cancelled, expires or is verified meanwhile, and every path that learns  *)
(* of the payment tries to deliver what was bought.                         *)
(* service/payment_fulfillment.go, payment_order_lifecycle.go.              *)
(*                                                                          *)
(* One action is one statement, transaction or provider call; calls         *)
(* interleave between any two.                                              *)
EXTENDS PaymentOrder, Integers

CONSTANTS OrderTypes,   \* the order types that occur
          MaxFaults     \* bound: how often a step fails or loses its
                        \* reply, a call dies or outlasts its lease

ASSUME FulfilmentAssumption ==
    /\ OrderTypes \subseteq {"balance", "subscription", "unsupported"}
    /\ MaxFaults \in Nat

VARIABLES orderType,
          upstream,   \* the provider's order
          webhook,    \* the notification: none, pending until it is answered
                      \* with success, and then acked; dropped if the order
                      \* cannot take it; unread if the order was not read
          grant,      \* the recharge code, or the assignment audit row
          credits,    \* history: how often balance or days were given
          rebates,    \* history: how often the inviter's rebate was given
          pc, job,    \* per call: its next step, and what it was started for
          faults

vars == <<order, orderType, upstream, webhook, grant, credits, rebates, pc, job, faults>>

Delivering == {"lookup", "create", "redeem", "assign", "rebate", "complete", "fail"}
Labels == {"idle", "query", "cancel_payment", "persist", "close", "to_paid",
           "already", "fulfil", "acquire", "reload"} \union Delivering
Closing == {"CANCELLED", "EXPIRED"}
Jobs == {"none", "notify", "retry", "verify"} \union Closing

TypeOK ==
    /\ order \in Order
    /\ orderType \in OrderTypes
    /\ upstream \in {"open", "paid", "closed"}
    /\ webhook \in {"none", "pending", "acked", "dropped", "unread"}
    /\ grant \in {"none", "code", "used"}
    /\ credits \in Nat /\ rebates \in Nat
    /\ pc \in [Calls -> Labels] /\ job \in [Calls -> Jobs]
    /\ faults \in 0..MaxFaults

Init ==
    /\ order = [status |-> "PENDING", old |-> FALSE, leases |-> {}]
    /\ orderType \in OrderTypes
    /\ upstream = "open" /\ webhook = "none"
    /\ grant = "none" /\ credits = 0 /\ rebates = 0
    /\ pc = [c \in Calls |-> "idle"] /\ job = [c \in Calls |-> "none"]
    /\ faults = 0

-----------------------------------------------------------------------------
delivered == <<grant, credits, rebates>>
outside == <<orderType, upstream>>

Goto(c, l) ==
    /\ pc' = [pc EXCEPT ![c] = l]
    /\ job' = IF l = "idle" THEN [job EXCEPT ![c] = "none"] ELSE job
    /\ UNCHANGED webhook

Fail(c) == Goto(c, "idle")   \* the call returns an error, or nobody asks

\* The call returns nil; of a webhook this is the answer the provider waits for.
Succeed(c, answer) ==
    /\ pc' = [pc EXCEPT ![c] = "idle"]
    /\ job' = [job EXCEPT ![c] = "none"]
    /\ webhook' = IF job[c] = "notify" THEN answer ELSE webhook

Fault == faults < MaxFaults /\ faults' = faults + 1

\* A statement took effect; its reply may be lost, which the call takes for an error.
Wrote(c, next, error) ==
    \/ Goto(c, next) /\ UNCHANGED faults
    \/ Fault /\ Goto(c, error)

Start(c, l, j) ==
    /\ pc[c] = "idle"
    /\ pc' = [pc EXCEPT ![c] = l]
    /\ job' = [job EXCEPT ![c] = j]
    /\ UNCHANGED <<order, outside, webhook, delivered, faults>>

-----------------------------------------------------------------------------
(* What starts a call.                                                       *)

\* A webhook, repeated as often as the provider likes.
HandlePaymentNotification(c) == upstream = "paid" /\ Start(c, "to_paid", "notify")

RetryFulfillment(c) ==
    /\ order.status \in Fulfilling
    /\ orderType # "unsupported"
    /\ Start(c, "fulfil", "retry")

\* CancelOrder and AdminCancelOrder, and ExpireTimedOutOrders.
CancelOrder(c) == \E s \in Closing : order.status = "PENDING" /\ Start(c, "query", s)

\* VerifyOrderByOutTradeNo, and ReconcilePendingPaymentOrders of a pending one.
VerifyOrder(c) ==
    /\ order.status \in {"PENDING", "EXPIRED"}
    /\ Start(c, "query", "verify")

-----------------------------------------------------------------------------
(* checkPaid, reconcilePaid, cancelCore.                                     *)

\* Wrong variant: a verification closes the order, too.
AfterCheckClose(c) == "close"

AfterCheck(c) == IF job[c] \in Closing THEN "close" ELSE "idle"

QueryOrder(c) ==
    /\ pc[c] = "query"
    /\ \E l \in IF upstream = "paid" THEN {"persist", "to_paid"}
                ELSE IF job[c] \in Closing THEN {"cancel_payment"} ELSE {"idle"} :
         Goto(c, l)
    /\ UNCHANGED <<order, outside, delivered, faults>>

\* Not every provider can cancel, and an error is ignored.
CancelPayment(c) ==
    /\ pc[c] = "cancel_payment"
    /\ upstream' \in {upstream, IF upstream = "open" THEN "closed" ELSE upstream}
    /\ Goto(c, "close")
    /\ UNCHANGED <<order, orderType, delivered, faults>>

\* The provider's trade number is stored, whatever has become of the order.
PersistTradeNo(c) ==
    /\ pc[c] = "persist"
    /\ Touch
    /\ Goto(c, "to_paid")
    /\ UNCHANGED <<outside, delivered, faults>>

Close(c) ==
    /\ pc[c] = "close"
    /\ IF order.status = "PENDING" THEN Write(job[c]) ELSE UNCHANGED order
    /\ Fail(c)
    /\ UNCHANGED <<outside, delivered, faults>>

-----------------------------------------------------------------------------
(* toPaid, alreadyProcessed and the lease.                                   *)

ToPaid(c) ==
    /\ pc[c] = "to_paid"
    /\ \/ Payable /\ Write("PAID") /\ Wrote(c, "fulfil", "idle")
       \/ ~Payable /\ Goto(c, "already") /\ UNCHANGED <<order, faults>>
    /\ UNCHANGED <<outside, delivered>>

\* Wrong variant: an order that another call is fulfilling counts as done.
AlreadyInHand(c) ==
    /\ pc[c] = "already"
    /\ IF order.status \in {"PAID", "FAILED"} THEN Goto(c, "fulfil")
       ELSE Succeed(c, IF order.status = "EXPIRED" THEN "dropped" ELSE "acked")
    /\ UNCHANGED <<order, outside, delivered, faults>>

AlreadyProcessed(c) ==
    /\ pc[c] = "already"
    /\ IF order.status \in Fulfilling THEN Goto(c, "fulfil")
       ELSE Succeed(c, IF order.status = "EXPIRED" THEN "dropped" ELSE "acked")
    /\ UNCHANGED <<order, outside, delivered, faults>>

\* executeFulfillment, and the checks of the two fulfilments.
ExecuteFulfillment(c) ==
    /\ pc[c] = "fulfil"
    /\ orderType # "unsupported"
    /\ \/ order.status \in Fulfilling /\ Goto(c, "acquire")
       \/ order.status = "COMPLETED" /\ Succeed(c, "acked")
       \/ order.status \notin Fulfilling \union {"COMPLETED"} /\ Fail(c)
    /\ UNCHANGED <<order, outside, delivered, faults>>

RejectUnsupportedOrderType(c) ==
    /\ pc[c] = "fulfil"
    /\ orderType = "unsupported"
    /\ \/ /\ IF order.status \in {"PAID", "RECHARGING"} THEN Write("FAILED") ELSE UNCHANGED order
          /\ UNCHANGED faults
       \/ Fault /\ UNCHANGED order   \* an error is only logged
    /\ Succeed(c, "dropped")
    /\ UNCHANGED <<outside, delivered>>

AcquireLease(c) ==
    /\ pc[c] = "acquire"
    /\ \/ Leasable /\ Write("RECHARGING") /\ Wrote(c, "reload", "idle")
       \/ /\ ~Leasable
          /\ IF order.status = "COMPLETED" THEN Succeed(c, "acked") ELSE Fail(c)
          /\ UNCHANGED <<order, faults>>
    /\ UNCHANGED <<outside, delivered>>

\* The version is read back in a second statement.
ReloadLease(c) ==
    /\ pc[c] = "reload"
    /\ IF order.status = "RECHARGING"
       THEN /\ order' = [order EXCEPT !.leases = @ \union {c}]
            /\ Goto(c, IF orderType = "balance" THEN "lookup" ELSE "assign")
       ELSE Fail(c) /\ UNCHANGED order
    /\ UNCHANGED <<outside, delivered, faults>>

-----------------------------------------------------------------------------
(* doBalance, doSub, markCompleted, markFailed.                              *)

\* The lock on the code turns a call away while another redeems; it expires.
ToRedeem(c) ==
    \/ Goto(c, "redeem")
    \/ (\E d \in Calls \ {c} : pc[d] = "redeem") /\ Goto(c, "fail")

\* Wrong variant: a code that exists counts as redeemed.
LookupAnyCode(c) ==
    /\ pc[c] = "lookup"
    /\ Goto(c, IF grant = "none" THEN "create" ELSE "rebate")
    /\ UNCHANGED <<order, outside, delivered, faults>>

LookupCode(c) ==
    /\ pc[c] = "lookup"
    /\ \/ grant = "used" /\ Goto(c, "rebate")
       \/ grant = "none" /\ Goto(c, "create")
       \/ grant = "code" /\ ToRedeem(c)
    /\ UNCHANGED <<order, outside, delivered, faults>>

\* The code is unique.
CreateCode(c) ==
    /\ pc[c] = "create"
    /\ \/ /\ grant = "none"
          /\ grant' = "code"
          /\ \/ ToRedeem(c) /\ UNCHANGED faults
             \/ Fault /\ Goto(c, "fail")
       \/ grant # "none" /\ Goto(c, "fail") /\ UNCHANGED <<grant, faults>>
    /\ UNCHANGED <<order, outside, credits, rebates>>

Deliver(next, c) ==
    /\ grant' = "used"
    /\ credits' = credits + 1
    /\ Wrote(c, next, "fail")

\* Wrong variant: the code is marked used without asking whether it is unused.
RedeemAgain(c) ==
    /\ pc[c] = "redeem"
    /\ Deliver("rebate", c)
    /\ UNCHANGED <<order, outside, rebates>>

\* redeemForPaymentFulfillment: the code is marked used and the balance
\* credited in one transaction; a used code is an error.
RedeemCode(c) ==
    /\ pc[c] = "redeem"
    /\ \/ grant = "code" /\ Deliver("rebate", c)
       \/ grant # "code" /\ Goto(c, "fail") /\ UNCHANGED <<grant, credits, faults>>
    /\ UNCHANGED <<order, outside, rebates>>

\* ensurePaymentSubscriptionAssigned: the days and the audit row that is
\* unique for the order, in one transaction; whoever finds the row is done.
AssignSubscription(c) ==
    /\ pc[c] = "assign"
    /\ \/ grant = "none" /\ Deliver("rebate", c)
       \/ grant = "used" /\ Goto(c, "rebate") /\ UNCHANGED <<grant, credits, faults>>
    /\ UNCHANGED <<order, outside, rebates>>

\* The group is gone or inactive.
RefuseSubscription(c) ==
    /\ pc[c] = "assign"
    /\ Fault
    /\ Goto(c, "fail")
    /\ UNCHANGED <<order, outside, delivered>>

\* applyAffiliateRebateForOrder: the claim, unique for the order, and the
\* accrual are one transaction.
AccrueRebate(c) ==
    /\ pc[c] = "rebate"
    /\ \/ rebates = 0 /\ rebates' = 1 /\ Wrote(c, "complete", "fail")
       \/ rebates # 0 /\ Goto(c, "complete") /\ UNCHANGED <<rebates, faults>>
    /\ UNCHANGED <<order, outside, grant, credits>>

MarkCompleted(c) ==
    /\ pc[c] = "complete"
    /\ \/ /\ Owned(c)
          /\ Write("COMPLETED")
          /\ \/ Succeed(c, "acked") /\ UNCHANGED faults
             \/ Fault /\ Goto(c, "fail")
       \/ /\ ~Owned(c)
          /\ IF order.status = "COMPLETED" THEN Succeed(c, "acked") ELSE Goto(c, "fail")
          /\ UNCHANGED <<order, faults>>
    /\ UNCHANGED <<outside, delivered>>

\* Wrong variant: the failure of a call that lost its lease overwrites.
MarkFailedBlind(c) ==
    /\ pc[c] = "fail"
    /\ Write("FAILED")
    /\ Fail(c)
    /\ UNCHANGED <<outside, delivered, faults>>

MarkFailed(c) ==
    /\ pc[c] = "fail"
    /\ IF Owned(c) THEN Write("FAILED") ELSE UNCHANGED order
    /\ Fail(c)
    /\ UNCHANGED <<outside, delivered, faults>>

-----------------------------------------------------------------------------
(* Faults, time and the rest of the world.                                   *)

\* Where a call goes when its step fails without effect.
OnError(c) ==
    IF pc[c] \in Delivering \ {"fail"} THEN "fail"
    ELSE IF pc[c] = "persist" THEN "to_paid"
    ELSE IF pc[c] = "query" THEN AfterCheck(c)
    ELSE "idle"

StepFails(c) ==
    /\ pc[c] \notin {"idle", "cancel_payment"}
    /\ Fault
    /\ Goto(c, OnError(c))
    /\ UNCHANGED <<order, outside, delivered>>

\* The reads of confirmPayment and alreadyProcessed fail, and the call
\* returns nil.
ReadFails(c) ==
    /\ pc[c] \in {"to_paid", "already"}
    /\ Fault
    /\ Succeed(c, "unread")
    /\ UNCHANGED <<order, outside, delivered>>

\* The process dies, and with it what the call knew.
Die(c) ==
    /\ pc[c] # "idle"
    /\ Fault
    /\ Fail(c)
    /\ UNCHANGED <<order, outside, delivered>>

Pay ==
    /\ upstream = "open"
    /\ upstream' = "paid"
    /\ webhook' = "pending"
    /\ UNCHANGED <<order, orderType, delivered, pc, job, faults>>

\* A call works under the present lease.
AtWork == \E c \in Calls :
    pc[c] = "reload" \/ (c \in order.leases /\ pc[c] \in Delivering)

Age ==
    /\ order.status \in {"RECHARGING", "EXPIRED"}
    /\ ~order.old
    /\ order' = [order EXCEPT !.old = TRUE]
    /\ UNCHANGED <<outside, webhook, delivered, pc, job>>

FiveMinutesPass == ~AtWork /\ Age /\ UNCHANGED faults

LeaseLapses == AtWork /\ Fault /\ Age   \* a call outlasts its lease

\* A refund of the fulfilled order.
Refund ==
    /\ \E s \in RefundSteps(order.status) : Write(s)
    /\ UNCHANGED <<outside, webhook, delivered, pc, job, faults>>

Progress(c) ==
    \/ QueryOrder(c) \/ CancelPayment(c) \/ PersistTradeNo(c) \/ Close(c)
    \/ ToPaid(c) \/ AlreadyProcessed(c)
    \/ ExecuteFulfillment(c) \/ RejectUnsupportedOrderType(c)
    \/ AcquireLease(c) \/ ReloadLease(c)
    \/ LookupCode(c) \/ CreateCode(c) \/ RedeemCode(c)
    \/ AssignSubscription(c) \/ AccrueRebate(c)
    \/ MarkCompleted(c) \/ MarkFailed(c)

Call(c) ==
    \/ HandlePaymentNotification(c) \/ RetryFulfillment(c)
    \/ CancelOrder(c) \/ VerifyOrder(c)
    \/ Progress(c)
    \/ RefuseSubscription(c) \/ StepFails(c) \/ ReadFails(c) \/ Die(c)

Next == (\E c \in Calls : Call(c)) \/ Pay \/ FiveMinutesPass \/ LeaseLapses \/ Refund

Spec == Init /\ [][Next]_vars

\* A call goes on, time passes, and the provider repeats a notification that
\* was not answered with success until a goroutine takes it.
Fairness ==
    /\ \A c \in Calls : WF_vars(Progress(c))
    /\ WF_vars(FiveMinutesPass)
    /\ SF_vars(webhook = "pending" /\ \E c \in Calls : HandlePaymentNotification(c))

FairSpec == Spec /\ Fairness

-----------------------------------------------------------------------------
(* Properties.                                                               *)

\* What was bought is given at most once, and only against a payment, however
\* many webhooks, retries and verifications fulfil the order at once.
CreditedOnce ==
    /\ credits <= 1 /\ rebates <= 1
    /\ credits > 0 => upstream = "paid"

\* A completed order, and one that is being refunded, was delivered in full.
CompletedIsDelivered ==
    order.status \in Settled => credits = 1 /\ rebates = 1

\* The provider is told of success, and stops notifying, only when the order
\* is delivered: no failed or lost call ends the notifications.
AckedIsDelivered == webhook = "acked" => order.status \in Settled

\* An order leaves the states after its fulfilment never, and moves among
\* them only as a refund moves it, whatever late calls still do.
SettledIsFinal ==
    [][order.status \in Settled =>
          order'.status \in RefundSteps(order.status) \union {order.status}]_vars

\* A payment is delivered in the end, unless it arrived after the grace of an
\* expired order, the order cannot be fulfilled at all, or the notification
\* was answered with success because the order could not be read.
PaymentIsDelivered ==
    upstream = "paid" ~> order.status \in Settled \/ webhook \in {"dropped", "unread"}
=============================================================================
