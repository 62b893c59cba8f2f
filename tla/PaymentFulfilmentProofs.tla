------------------------ MODULE PaymentFulfilmentProofs ------------------------
(* Proofs about PaymentFulfilment, for any set of calls, any order types    *)
(* and any number of faults.                                                *)
EXTENDS PaymentFulfilment, TLAPS

Known == {"persist", "to_paid", "already", "fulfil", "acquire",
  "reload"} \union Delivering

\* The balance or the days were given once the grant is used, and not before.
GrantCounts ==
    /\ credits = IF grant = "used" THEN 1 ELSE 0
    /\ rebates \in {0, 1}

\* Whoever acts on a payment, a paid order and a delivery follow a payment.
PaidFirst ==
    /\ (\E c \in Calls : pc[c] \in Known) => upstream = "paid"
    /\ order.status \notin Unpaid => upstream = "paid"
    /\ grant = "used" => upstream = "paid"

\* How far a call has come tells what it found done.
Stage(c) ==
    /\ pc[c] \in {"cancel_payment", "close"} => job[c] \in Closing
    /\ pc[c] = "already" => order.status \notin {"PENDING", "CANCELLED"}
    /\ pc[c] \in {"rebate", "complete"} => grant = "used"
    /\ pc[c] = "complete" => rebates = 1

Stages == \A c \in Calls : Stage(c)

\* The inductive invariant.
Inv ==
    /\ TypeOK /\ GrantCounts /\ PaidFirst /\ Stages
    /\ CompletedIsDelivered /\ AckedIsDelivered

-----------------------------------------------------------------------------
\* What a step may do to the status.
StatusMoves ==
    \/ order'.status = order.status
    \/ order.status = "PENDING" /\ order'.status \in Closing
    \/ order.status \in Unpaid /\ order'.status = "PAID" /\ upstream = "paid"
    \/ order.status \in Fulfilling /\ order'.status \in {"RECHARGING", "FAILED"}
    \/ order.status = "RECHARGING" /\ order'.status = "COMPLETED" /\ grant = "used" /\ rebates = 1
    \/ order.status \in Settled /\ order'.status \in RefundSteps(order.status)

\* What a step may do to what is delivered.
DeliveryMoves ==
    \/ UNCHANGED delivered
    \/ grant = "none" /\ grant' = "code" /\ UNCHANGED <<credits, rebates>>
    \/ grant # "used" /\ grant' = "used" /\ credits' = credits + 1 /\ UNCHANGED rebates
    \/ rebates = 0 /\ rebates' = 1 /\ UNCHANGED <<grant, credits>>

\* A refund leaves the order among the settled ones.
LEMMA RefundStaysSettled ==
  ASSUME NEW s \in Statuses, NEW t \in RefundSteps(s)
  PROVE  s \in Settled /\ t \in Settled
  BY DEF RefundSteps, Settled, RefundStatuses, Refunded, Refundable, Statuses, Unpaid,
      Fulfilling

\* An UPDATE of the status leaves a row.
LEMMA WriteType ==
  ASSUME NEW s \in Statuses, Write(s)
  PROVE  order' \in Order
  BY DEF Write, Order

\* A call that goes on keeps the types of what it knows, and one that returns.
LEMMA GotoType ==
  ASSUME TypeOK, NEW c \in Calls, NEW l \in Labels,
         Goto(c, l) \/ \E a \in {"acked", "dropped", "unread"} : Succeed(c, a)
  PROVE  /\ pc' \in [Calls -> Labels] /\ job' \in [Calls -> Jobs]
         /\ webhook' \in {"none", "pending", "acked", "dropped", "unread"}
  BY DEF TypeOK, Goto, Succeed, Labels, Jobs

\* The types are inductive.
LEMMA TypeStep ==
  ASSUME TypeOK, Stages, [Next]_vars
  PROVE  TypeOK'
  <1> USE DEF Goto, Fail, Succeed, Wrote, Fault, Start, Write, Touch, outside,
      delivered, Labels, Delivering, Closing, Jobs, TypeOK, Order
  <1>1. ASSUME NEW c \in Calls, HandlePaymentNotification(c) PROVE TypeOK'
    BY <1>1, FulfilmentAssumption DEF HandlePaymentNotification
  <1>2. ASSUME NEW c \in Calls, RetryFulfillment(c) PROVE TypeOK'
    BY <1>2, FulfilmentAssumption DEF RetryFulfillment
  <1>3. ASSUME NEW c \in Calls, CancelOrder(c) PROVE TypeOK'
    BY <1>3, FulfilmentAssumption DEF CancelOrder
  <1>4. ASSUME NEW c \in Calls, VerifyOrder(c) PROVE TypeOK'
    BY <1>4, FulfilmentAssumption DEF VerifyOrder
  <1>5. ASSUME NEW c \in Calls, QueryOrder(c) PROVE TypeOK'
    BY <1>5, FulfilmentAssumption DEF QueryOrder
  <1>6. ASSUME NEW c \in Calls, CancelPayment(c) PROVE TypeOK'
    BY <1>6, FulfilmentAssumption DEF CancelPayment
  <1>7. ASSUME NEW c \in Calls, PersistTradeNo(c) PROVE TypeOK'
    BY <1>7, FulfilmentAssumption DEF PersistTradeNo
  <1>8. ASSUME NEW c \in Calls, Close(c) PROVE TypeOK'
    <2>1. order' \in Order
      BY <1>8, WriteType DEF Close, TypeOK, Statuses, Fulfilling, Unpaid, Settled,
          Stages, Stage, Closing
    <2>2. (\E l \in Labels : Goto(c, l)) \/ \E a \in {"acked", "dropped"} : Succeed(c, a)
      BY <1>8 DEF Close, Labels, Delivering, Wrote, Fail
    <2>3. faults' \in 0..MaxFaults
      BY <1>8, FulfilmentAssumption DEF Close, TypeOK, Wrote, Fault
    <2> QED
      BY <1>8, <2>1, <2>2, <2>3, GotoType DEF Close, TypeOK, outside, delivered
  <1>9. ASSUME NEW c \in Calls, ToPaid(c) PROVE TypeOK'
    <2>1. order' \in Order
      BY <1>9, WriteType DEF ToPaid, TypeOK, Statuses, Fulfilling, Unpaid, Settled
    <2>2. (\E l \in Labels : Goto(c, l)) \/ \E a \in {"acked", "dropped"} : Succeed(c, a)
      BY <1>9 DEF ToPaid, Labels, Delivering, Wrote, Fail
    <2>3. faults' \in 0..MaxFaults
      BY <1>9, FulfilmentAssumption DEF ToPaid, TypeOK, Wrote, Fault
    <2> QED
      BY <1>9, <2>1, <2>2, <2>3, GotoType DEF ToPaid, TypeOK, outside, delivered
  <1>10. ASSUME NEW c \in Calls, AlreadyProcessed(c) PROVE TypeOK'
    BY <1>10, FulfilmentAssumption DEF AlreadyProcessed
  <1>11. ASSUME NEW c \in Calls, ExecuteFulfillment(c) PROVE TypeOK'
    BY <1>11, FulfilmentAssumption DEF ExecuteFulfillment
  <1>12. ASSUME NEW c \in Calls, RejectUnsupportedOrderType(c) PROVE TypeOK'
    <2>1. order' \in Order
      BY <1>12, WriteType DEF RejectUnsupportedOrderType, TypeOK, Statuses, Fulfilling,
          Unpaid, Settled
    <2>2. (\E l \in Labels : Goto(c, l)) \/ \E a \in {"acked", "dropped"} : Succeed(c, a)
      BY <1>12 DEF RejectUnsupportedOrderType, Labels, Delivering, Wrote, Fail
    <2>3. faults' \in 0..MaxFaults
      BY <1>12, FulfilmentAssumption DEF RejectUnsupportedOrderType, TypeOK, Wrote, Fault
    <2> QED
      BY <1>12, <2>1, <2>2, <2>3, GotoType
      DEF RejectUnsupportedOrderType, TypeOK, outside, delivered
  <1>13. ASSUME NEW c \in Calls, AcquireLease(c) PROVE TypeOK'
    <2>1. order' \in Order
      BY <1>13, WriteType DEF AcquireLease, TypeOK, Statuses, Fulfilling, Unpaid, Settled
    <2>2. (\E l \in Labels : Goto(c, l)) \/ \E a \in {"acked", "dropped"} : Succeed(c, a)
      BY <1>13 DEF AcquireLease, Labels, Delivering, Wrote, Fail
    <2>3. faults' \in 0..MaxFaults
      BY <1>13, FulfilmentAssumption DEF AcquireLease, TypeOK, Wrote, Fault
    <2> QED
      BY <1>13, <2>1, <2>2, <2>3, GotoType DEF AcquireLease, TypeOK, outside, delivered
  <1>14. ASSUME NEW c \in Calls, ReloadLease(c) PROVE TypeOK'
    BY <1>14, FulfilmentAssumption DEF ReloadLease
  <1>15. ASSUME NEW c \in Calls, LookupCode(c) PROVE TypeOK'
    BY <1>15, FulfilmentAssumption DEF LookupCode, ToRedeem
  <1>16. ASSUME NEW c \in Calls, CreateCode(c) PROVE TypeOK'
    BY <1>16, FulfilmentAssumption DEF CreateCode, ToRedeem
  <1>17. ASSUME NEW c \in Calls, RedeemCode(c) PROVE TypeOK'
    BY <1>17, FulfilmentAssumption DEF RedeemCode, Deliver
  <1>18. ASSUME NEW c \in Calls, AssignSubscription(c) PROVE TypeOK'
    BY <1>18, FulfilmentAssumption DEF AssignSubscription, Deliver
  <1>19. ASSUME NEW c \in Calls, AccrueRebate(c) PROVE TypeOK'
    BY <1>19, FulfilmentAssumption DEF AccrueRebate
  <1>20. ASSUME NEW c \in Calls, MarkCompleted(c) PROVE TypeOK'
    <2>1. order' \in Order
      BY <1>20, WriteType DEF MarkCompleted, TypeOK, Statuses, Fulfilling, Unpaid,
          Settled, Owned
    <2>2. (\E l \in Labels : Goto(c, l)) \/ \E a \in {"acked", "dropped"} : Succeed(c, a)
      BY <1>20 DEF MarkCompleted, Labels, Delivering, Wrote, Fail
    <2>3. faults' \in 0..MaxFaults
      BY <1>20, FulfilmentAssumption DEF MarkCompleted, TypeOK, Wrote, Fault
    <2> QED
      BY <1>20, <2>1, <2>2, <2>3, GotoType DEF MarkCompleted, TypeOK, outside, delivered
  <1>21. ASSUME NEW c \in Calls, MarkFailed(c) PROVE TypeOK'
    <2>1. order' \in Order
      BY <1>21, WriteType DEF MarkFailed, TypeOK, Statuses, Fulfilling, Unpaid, Settled
    <2>2. (\E l \in Labels : Goto(c, l)) \/ \E a \in {"acked", "dropped"} : Succeed(c, a)
      BY <1>21 DEF MarkFailed, Labels, Delivering, Wrote, Fail
    <2>3. faults' \in 0..MaxFaults
      BY <1>21, FulfilmentAssumption DEF MarkFailed, TypeOK, Wrote, Fault
    <2> QED
      BY <1>21, <2>1, <2>2, <2>3, GotoType DEF MarkFailed, TypeOK, outside, delivered
  <1>22. ASSUME NEW c \in Calls, RefuseSubscription(c) PROVE TypeOK'
    BY <1>22, FulfilmentAssumption DEF RefuseSubscription
  <1>23. ASSUME NEW c \in Calls, StepFails(c) PROVE TypeOK'
    BY <1>23, FulfilmentAssumption DEF StepFails, OnError, AfterCheck
  <1>24. ASSUME NEW c \in Calls, ReadFails(c) PROVE TypeOK'
    BY <1>24, FulfilmentAssumption DEF ReadFails
  <1>25. ASSUME NEW c \in Calls, Die(c) PROVE TypeOK'
    BY <1>25, FulfilmentAssumption DEF Die
  <1>26. CASE Pay
    BY <1>26, FulfilmentAssumption DEF Pay
  <1>27. CASE FiveMinutesPass
    BY <1>27, FulfilmentAssumption DEF FiveMinutesPass, Age
  <1>28. CASE LeaseLapses
    <2>1. order' \in Order
      BY <1>28 DEF LeaseLapses, Age
    <2>2. faults' \in 0..MaxFaults
      BY <1>28, FulfilmentAssumption DEF LeaseLapses, Age
    <2> QED BY <1>28, <2>1, <2>2 DEF LeaseLapses, Age
  <1>29. CASE Refund
    <2>1. PICK s \in RefundSteps(order.status) : Write(s)
      BY <1>29 DEF Refund
    <2>2. s \in Statuses
      BY <2>1, RefundStaysSettled DEF TypeOK, Order, Statuses
    <2> QED BY <1>29, <2>1, <2>2, WriteType DEF Refund, TypeOK, outside, delivered
  <1>30. CASE UNCHANGED vars
    BY <1>30, FulfilmentAssumption DEF vars
  <1> QED
    BY <1>1, <1>2, <1>3, <1>4, <1>5, <1>6, <1>7, <1>8, <1>9, <1>10,
       <1>11, <1>12, <1>13, <1>14, <1>15, <1>16, <1>17, <1>18, <1>19, <1>20,
       <1>21, <1>22, <1>23, <1>24, <1>25, <1>26, <1>27, <1>28, <1>29, <1>30
    DEF Next, Call, Progress

\* Every step moves the status and what is delivered as above.
LEMMA Moves ==
  ASSUME TypeOK, PaidFirst, Stages, [Next]_vars
  PROVE  StatusMoves /\ DeliveryMoves
  <1> USE DEF Goto, Fail, Succeed, Wrote, Fault, Start, Write, Touch, outside,
      delivered, Labels, Delivering, Closing, Jobs, StatusMoves, DeliveryMoves
  <1>1. ASSUME NEW c \in Calls, HandlePaymentNotification(c)
           PROVE StatusMoves /\ DeliveryMoves
    BY <1>1 DEF HandlePaymentNotification
  <1>2. ASSUME NEW c \in Calls, RetryFulfillment(c) PROVE StatusMoves /\ DeliveryMoves
    BY <1>2 DEF RetryFulfillment
  <1>3. ASSUME NEW c \in Calls, CancelOrder(c) PROVE StatusMoves /\ DeliveryMoves
    BY <1>3 DEF CancelOrder
  <1>4. ASSUME NEW c \in Calls, VerifyOrder(c) PROVE StatusMoves /\ DeliveryMoves
    BY <1>4 DEF VerifyOrder
  <1>5. ASSUME NEW c \in Calls, QueryOrder(c) PROVE StatusMoves /\ DeliveryMoves
    BY <1>5 DEF QueryOrder
  <1>6. ASSUME NEW c \in Calls, CancelPayment(c) PROVE StatusMoves /\ DeliveryMoves
    BY <1>6 DEF CancelPayment
  <1>7. ASSUME NEW c \in Calls, PersistTradeNo(c) PROVE StatusMoves /\ DeliveryMoves
    BY <1>7 DEF PersistTradeNo
  <1>8. ASSUME NEW c \in Calls, Close(c) PROVE StatusMoves /\ DeliveryMoves
    BY <1>8 DEF Close, TypeOK, Stages, Stage
  <1>9. ASSUME NEW c \in Calls, ToPaid(c) PROVE StatusMoves /\ DeliveryMoves
    BY <1>9 DEF ToPaid, Payable, Unpaid, PaidFirst, Known
  <1>10. ASSUME NEW c \in Calls, AlreadyProcessed(c) PROVE StatusMoves /\ DeliveryMoves
    BY <1>10 DEF AlreadyProcessed
  <1>11. ASSUME NEW c \in Calls, ExecuteFulfillment(c) PROVE StatusMoves /\ DeliveryMoves
    BY <1>11 DEF ExecuteFulfillment
  <1>12. ASSUME NEW c \in Calls, RejectUnsupportedOrderType(c)
           PROVE StatusMoves /\ DeliveryMoves
    BY <1>12 DEF RejectUnsupportedOrderType, Fulfilling
  <1>13. ASSUME NEW c \in Calls, AcquireLease(c) PROVE StatusMoves /\ DeliveryMoves
    BY <1>13 DEF AcquireLease, Leasable, Fulfilling
  <1>14. ASSUME NEW c \in Calls, ReloadLease(c) PROVE StatusMoves /\ DeliveryMoves
    BY <1>14 DEF ReloadLease, TypeOK, Order
  <1>15. ASSUME NEW c \in Calls, LookupCode(c) PROVE StatusMoves /\ DeliveryMoves
    BY <1>15 DEF LookupCode, ToRedeem
  <1>16. ASSUME NEW c \in Calls, CreateCode(c) PROVE StatusMoves /\ DeliveryMoves
    BY <1>16 DEF CreateCode, ToRedeem
  <1>17. ASSUME NEW c \in Calls, RedeemCode(c) PROVE StatusMoves /\ DeliveryMoves
    BY <1>17 DEF RedeemCode, Deliver
  <1>18. ASSUME NEW c \in Calls, AssignSubscription(c) PROVE StatusMoves /\ DeliveryMoves
    BY <1>18 DEF AssignSubscription, Deliver
  <1>19. ASSUME NEW c \in Calls, AccrueRebate(c) PROVE StatusMoves /\ DeliveryMoves
    BY <1>19 DEF AccrueRebate
  <1>20. ASSUME NEW c \in Calls, MarkCompleted(c) PROVE StatusMoves /\ DeliveryMoves
    BY <1>20 DEF MarkCompleted, Owned, Stages, Stage
  <1>21. ASSUME NEW c \in Calls, MarkFailed(c) PROVE StatusMoves /\ DeliveryMoves
    BY <1>21 DEF MarkFailed, Owned, Fulfilling
  <1>22. ASSUME NEW c \in Calls, RefuseSubscription(c) PROVE StatusMoves /\ DeliveryMoves
    BY <1>22 DEF RefuseSubscription
  <1>23. ASSUME NEW c \in Calls, StepFails(c) PROVE StatusMoves /\ DeliveryMoves
    BY <1>23 DEF StepFails
  <1>24. ASSUME NEW c \in Calls, ReadFails(c) PROVE StatusMoves /\ DeliveryMoves
    BY <1>24 DEF ReadFails
  <1>25. ASSUME NEW c \in Calls, Die(c) PROVE StatusMoves /\ DeliveryMoves
    BY <1>25 DEF Die
  <1>26. CASE Pay
    BY <1>26 DEF Pay
  <1>27. CASE FiveMinutesPass
    BY <1>27 DEF FiveMinutesPass, Age, TypeOK, Order
  <1>28. CASE LeaseLapses
    BY <1>28 DEF LeaseLapses, Age, TypeOK, Order
  <1>29. CASE Refund
    <2>1. PICK s \in RefundSteps(order.status) : Write(s)
      BY <1>29 DEF Refund
    <2>2. order.status \in Settled /\ order'.status = s
      BY <2>1, RefundStaysSettled DEF TypeOK, Order
    <2> QED BY <1>29, <2>1, <2>2 DEF Refund
  <1>30. CASE UNCHANGED vars
    BY <1>30 DEF vars
  <1> QED
    BY <1>1, <1>2, <1>3, <1>4, <1>5, <1>6, <1>7, <1>8, <1>9, <1>10,
       <1>11, <1>12, <1>13, <1>14, <1>15, <1>16, <1>17, <1>18, <1>19, <1>20,
       <1>21, <1>22, <1>23, <1>24, <1>25, <1>26, <1>27, <1>28, <1>29, <1>30
    DEF Next, Call, Progress

\* What is given stays given, and a settled order settled; a paid one does not
\* become unpaid, nor anything else pending or cancelled.
LEMMA Paid ==
  ASSUME TypeOK, PaidFirst, Stages, [Next]_vars
  PROVE  order'.status \notin Unpaid => order.status \notin Unpaid \/ upstream = "paid"
  <1>1. StatusMoves
    BY Moves
  <1>2. order'.status \in RefundSteps(order.status) => order.status \in Settled
    BY RefundStaysSettled DEF TypeOK, Order
  <1> QED
    BY <1>1, <1>2
    DEF StatusMoves, PaidFirst, Unpaid, Closing, Settled, Fulfilling, RefundStatuses,
        Refunded

LEMMA Done ==
  ASSUME TypeOK, GrantCounts, PaidFirst, Stages, [Next]_vars
  PROVE  /\ order.status \notin {"PENDING", "CANCELLED"}
              => order'.status \notin {"PENDING", "CANCELLED"}
         /\ grant = "used" => grant' = "used"
         /\ rebates = 1 => rebates' = 1
  <1>1. StatusMoves /\ DeliveryMoves
    BY Moves
  <1>2. order'.status \in RefundSteps(order.status) => order'.status \in Settled
    BY RefundStaysSettled DEF TypeOK, Order
  <1> QED
    BY <1>1, <1>2
    DEF StatusMoves, DeliveryMoves, delivered, Settled, RefundStatuses, Refunded,
        Fulfilling, Unpaid

\* Who acts on a payment follows one.
LEMMA PaidStep ==
  ASSUME TypeOK, PaidFirst, Stages, [Next]_vars
  PROVE  PaidFirst'
  <1> USE DEF Goto, Fail, Succeed, Wrote, Fault, Start, outside, delivered, PaidFirst,
      Known, Delivering
  <1>1. ASSUME NEW c \in Calls, HandlePaymentNotification(c) PROVE PaidFirst'
    BY <1>1, Paid DEF HandlePaymentNotification
  <1>2. ASSUME NEW c \in Calls, RetryFulfillment(c) PROVE PaidFirst'
    BY <1>2, Paid DEF RetryFulfillment, Fulfilling, Unpaid
  <1>3. ASSUME NEW c \in Calls, CancelOrder(c) PROVE PaidFirst'
    BY <1>3, Paid DEF CancelOrder
  <1>4. ASSUME NEW c \in Calls, VerifyOrder(c) PROVE PaidFirst'
    BY <1>4, Paid DEF VerifyOrder
  <1>5. ASSUME NEW c \in Calls, QueryOrder(c) PROVE PaidFirst'
    BY <1>5, Paid DEF QueryOrder, AfterCheck
  <1>6. ASSUME NEW c \in Calls, CancelPayment(c) PROVE PaidFirst'
    BY <1>6, Paid DEF CancelPayment
  <1>7. ASSUME NEW c \in Calls, PersistTradeNo(c) PROVE PaidFirst'
    BY <1>7, Paid DEF PersistTradeNo
  <1>8. ASSUME NEW c \in Calls, Close(c) PROVE PaidFirst'
    BY <1>8, Paid DEF Close
  <1>9. ASSUME NEW c \in Calls, ToPaid(c) PROVE PaidFirst'
    BY <1>9, Paid DEF ToPaid
  <1>10. ASSUME NEW c \in Calls, AlreadyProcessed(c) PROVE PaidFirst'
    BY <1>10, Paid DEF AlreadyProcessed
  <1>11. ASSUME NEW c \in Calls, ExecuteFulfillment(c) PROVE PaidFirst'
    BY <1>11, Paid DEF ExecuteFulfillment
  <1>12. ASSUME NEW c \in Calls, RejectUnsupportedOrderType(c) PROVE PaidFirst'
    BY <1>12, Paid DEF RejectUnsupportedOrderType
  <1>13. ASSUME NEW c \in Calls, AcquireLease(c) PROVE PaidFirst'
    BY <1>13, Paid DEF AcquireLease
  <1>14. ASSUME NEW c \in Calls, ReloadLease(c) PROVE PaidFirst'
    BY <1>14, Paid DEF ReloadLease
  <1>15. ASSUME NEW c \in Calls, LookupCode(c) PROVE PaidFirst'
    BY <1>15, Paid DEF LookupCode, ToRedeem
  <1>16. ASSUME NEW c \in Calls, CreateCode(c) PROVE PaidFirst'
    BY <1>16, Paid DEF CreateCode, ToRedeem
  <1>17. ASSUME NEW c \in Calls, RedeemCode(c) PROVE PaidFirst'
    BY <1>17, Paid DEF RedeemCode, Deliver
  <1>18. ASSUME NEW c \in Calls, AssignSubscription(c) PROVE PaidFirst'
    BY <1>18, Paid DEF AssignSubscription, Deliver
  <1>19. ASSUME NEW c \in Calls, AccrueRebate(c) PROVE PaidFirst'
    BY <1>19, Paid DEF AccrueRebate
  <1>20. ASSUME NEW c \in Calls, MarkCompleted(c) PROVE PaidFirst'
    BY <1>20, Paid DEF MarkCompleted
  <1>21. ASSUME NEW c \in Calls, MarkFailed(c) PROVE PaidFirst'
    BY <1>21, Paid DEF MarkFailed
  <1>22. ASSUME NEW c \in Calls, RefuseSubscription(c) PROVE PaidFirst'
    BY <1>22, Paid DEF RefuseSubscription
  <1>23. ASSUME NEW c \in Calls, StepFails(c) PROVE PaidFirst'
    BY <1>23, Paid DEF StepFails, OnError, AfterCheck
  <1>24. ASSUME NEW c \in Calls, ReadFails(c) PROVE PaidFirst'
    BY <1>24, Paid DEF ReadFails
  <1>25. ASSUME NEW c \in Calls, Die(c) PROVE PaidFirst'
    BY <1>25, Paid DEF Die
  <1>26. CASE Pay
    BY <1>26, Paid DEF Pay
  <1>27. CASE FiveMinutesPass
    BY <1>27, Paid DEF FiveMinutesPass, Age
  <1>28. CASE LeaseLapses
    BY <1>28, Paid DEF LeaseLapses, Age
  <1>29. CASE Refund
    BY <1>29, Paid DEF Refund
  <1>30. CASE UNCHANGED vars
    BY <1>30, Paid DEF vars
  <1> QED
    BY <1>1, <1>2, <1>3, <1>4, <1>5, <1>6, <1>7, <1>8, <1>9, <1>10,
       <1>11, <1>12, <1>13, <1>14, <1>15, <1>16, <1>17, <1>18, <1>19, <1>20,
       <1>21, <1>22, <1>23, <1>24, <1>25, <1>26, <1>27, <1>28, <1>29, <1>30
    DEF Next, Call, Progress

\* A call goes on only when its stage is done.
LEMMA StageStep ==
  ASSUME TypeOK, GrantCounts, PaidFirst, Stages, NEW d \in Calls, [Next]_vars
  PROVE  Stage(d)'
  <1> USE DEF Goto, Fail, Succeed, Wrote, Fault, Start, outside, delivered, Stages,
      Stage, Delivering
  <1>a. Stage(d) /\ pc \in [Calls -> Labels] /\ job \in [Calls -> Jobs]
    BY DEF TypeOK
  <1>b. /\ order.status \notin {"PENDING", "CANCELLED"}
             => order'.status \notin {"PENDING", "CANCELLED"}
        /\ grant = "used" => grant' = "used"
        /\ rebates = 1 => rebates' = 1
        /\ rebates \in {0, 1}
    BY Done DEF GrantCounts
  <1>1. ASSUME NEW c \in Calls, HandlePaymentNotification(c) PROVE Stage(d)'
    BY <1>1, <1>a, <1>b DEF HandlePaymentNotification
  <1>2. ASSUME NEW c \in Calls, RetryFulfillment(c) PROVE Stage(d)'
    BY <1>2, <1>a, <1>b DEF RetryFulfillment
  <1>3. ASSUME NEW c \in Calls, CancelOrder(c) PROVE Stage(d)'
    BY <1>3, <1>a, <1>b DEF CancelOrder, Closing
  <1>4. ASSUME NEW c \in Calls, VerifyOrder(c) PROVE Stage(d)'
    BY <1>4, <1>a, <1>b DEF VerifyOrder
  <1>5. ASSUME NEW c \in Calls, QueryOrder(c) PROVE Stage(d)'
    BY <1>5, <1>a, <1>b DEF QueryOrder, AfterCheck
  <1>6. ASSUME NEW c \in Calls, CancelPayment(c) PROVE Stage(d)'
    BY <1>6, <1>a, <1>b DEF CancelPayment
  <1>7. ASSUME NEW c \in Calls, PersistTradeNo(c) PROVE Stage(d)'
    BY <1>7, <1>a, <1>b DEF PersistTradeNo
  <1>8. ASSUME NEW c \in Calls, Close(c) PROVE Stage(d)'
    BY <1>8, <1>a, <1>b DEF Close
  <1>9. ASSUME NEW c \in Calls, ToPaid(c) PROVE Stage(d)'
    BY <1>9, <1>a, <1>b DEF ToPaid, Payable
  <1>10. ASSUME NEW c \in Calls, AlreadyProcessed(c) PROVE Stage(d)'
    BY <1>10, <1>a, <1>b DEF AlreadyProcessed
  <1>11. ASSUME NEW c \in Calls, ExecuteFulfillment(c) PROVE Stage(d)'
    BY <1>11, <1>a, <1>b DEF ExecuteFulfillment
  <1>12. ASSUME NEW c \in Calls, RejectUnsupportedOrderType(c) PROVE Stage(d)'
    BY <1>12, <1>a, <1>b DEF RejectUnsupportedOrderType
  <1>13. ASSUME NEW c \in Calls, AcquireLease(c) PROVE Stage(d)'
    BY <1>13, <1>a, <1>b DEF AcquireLease
  <1>14. ASSUME NEW c \in Calls, ReloadLease(c) PROVE Stage(d)'
    BY <1>14, <1>a, <1>b DEF ReloadLease
  <1>15. ASSUME NEW c \in Calls, LookupCode(c) PROVE Stage(d)'
    BY <1>15, <1>a, <1>b DEF LookupCode, ToRedeem
  <1>16. ASSUME NEW c \in Calls, CreateCode(c) PROVE Stage(d)'
    BY <1>16, <1>a, <1>b DEF CreateCode, ToRedeem
  <1>17. ASSUME NEW c \in Calls, RedeemCode(c) PROVE Stage(d)'
    BY <1>17, <1>a, <1>b DEF RedeemCode, Deliver
  <1>18. ASSUME NEW c \in Calls, AssignSubscription(c) PROVE Stage(d)'
    BY <1>18, <1>a, <1>b DEF AssignSubscription, Deliver
  <1>19. ASSUME NEW c \in Calls, AccrueRebate(c) PROVE Stage(d)'
    BY <1>19, <1>a, <1>b DEF AccrueRebate
  <1>20. ASSUME NEW c \in Calls, MarkCompleted(c) PROVE Stage(d)'
    BY <1>20, <1>a, <1>b DEF MarkCompleted
  <1>21. ASSUME NEW c \in Calls, MarkFailed(c) PROVE Stage(d)'
    BY <1>21, <1>a, <1>b DEF MarkFailed
  <1>22. ASSUME NEW c \in Calls, RefuseSubscription(c) PROVE Stage(d)'
    BY <1>22, <1>a, <1>b DEF RefuseSubscription
  <1>23. ASSUME NEW c \in Calls, StepFails(c) PROVE Stage(d)'
    BY <1>23, <1>a, <1>b DEF StepFails, OnError, AfterCheck
  <1>24. ASSUME NEW c \in Calls, ReadFails(c) PROVE Stage(d)'
    BY <1>24, <1>a, <1>b DEF ReadFails
  <1>25. ASSUME NEW c \in Calls, Die(c) PROVE Stage(d)'
    BY <1>25, <1>a, <1>b DEF Die
  <1>26. CASE Pay
    BY <1>26, <1>a, <1>b DEF Pay
  <1>27. CASE FiveMinutesPass
    BY <1>27, <1>a, <1>b DEF FiveMinutesPass, Age
  <1>28. CASE LeaseLapses
    BY <1>28, <1>a, <1>b DEF LeaseLapses, Age
  <1>29. CASE Refund
    BY <1>29, <1>a, <1>b DEF Refund
  <1>30. CASE UNCHANGED vars
    BY <1>30, <1>a, <1>b DEF vars
  <1> QED
    BY <1>1, <1>2, <1>3, <1>4, <1>5, <1>6, <1>7, <1>8, <1>9, <1>10,
       <1>11, <1>12, <1>13, <1>14, <1>15, <1>16, <1>17, <1>18, <1>19, <1>20,
       <1>21, <1>22, <1>23, <1>24, <1>25, <1>26, <1>27, <1>28, <1>29, <1>30
    DEF Next, Call, Progress

\* Balance or days are given by the step that uses the grant up.
LEMMA GrantStep ==
  ASSUME TypeOK, GrantCounts, PaidFirst, Stages, [Next]_vars
  PROVE  GrantCounts'
  <1>1. DeliveryMoves
    BY Moves
  <1> QED BY <1>1 DEF DeliveryMoves, delivered, GrantCounts

\* A settled order stays settled.
LEMMA StaysSettled ==
  ASSUME TypeOK, PaidFirst, Stages, [Next]_vars
  PROVE  order.status \in Settled =>
           order'.status \in Settled
             /\ order'.status \in RefundSteps(order.status) \union {order.status}
  <1>1. StatusMoves
    BY Moves
  <1>2. order'.status \in RefundSteps(order.status) => order'.status \in Settled
    BY RefundStaysSettled DEF TypeOK, Order
  <1> QED
    BY <1>1, <1>2
    DEF StatusMoves, Settled, RefundStatuses, Refunded, Fulfilling, Unpaid

\* An order is settled by the call that found everything delivered.
LEMMA CompletedStep ==
  ASSUME TypeOK, GrantCounts, PaidFirst, Stages, CompletedIsDelivered, [Next]_vars
  PROVE  CompletedIsDelivered'
  <1>1. StatusMoves
    BY Moves
  <1>2. (grant = "used" => grant' = "used") /\ (rebates = 1 => rebates' = 1)
    BY Done
  <1>3. order'.status \in RefundSteps(order.status) => order.status \in Settled
    BY RefundStaysSettled DEF TypeOK, Order
  <1>4. CASE order.status \in Settled
    BY <1>2, <1>4, GrantStep DEF CompletedIsDelivered, GrantCounts
  <1>5. CASE order.status \notin Settled /\ order'.status \in Settled
    <2>1. grant = "used" /\ rebates = 1
      BY <1>1, <1>3, <1>5
      DEF StatusMoves, Settled, RefundStatuses, Refunded, Fulfilling, Closing
    <2> QED BY <1>2, <2>1, GrantStep DEF CompletedIsDelivered, GrantCounts
  <1> QED BY <1>4, <1>5 DEF CompletedIsDelivered

\* Success is answered of settled orders only.
LEMMA AckedStep ==
  ASSUME TypeOK, PaidFirst, Stages, AckedIsDelivered, [Next]_vars
  PROVE  AckedIsDelivered'
  <1> USE DEF Goto, Fail, Succeed, Wrote, Fault, Start, outside, delivered,
      AckedIsDelivered
  <1>a. order.status \in Settled => order'.status \in Settled
    BY StaysSettled
  <1>b. order.status \in Statuses
    BY DEF TypeOK, Order
  <1>1. ASSUME NEW c \in Calls, HandlePaymentNotification(c) PROVE AckedIsDelivered'
    BY <1>1, <1>a, <1>b DEF HandlePaymentNotification
  <1>2. ASSUME NEW c \in Calls, RetryFulfillment(c) PROVE AckedIsDelivered'
    BY <1>2, <1>a, <1>b DEF RetryFulfillment
  <1>3. ASSUME NEW c \in Calls, CancelOrder(c) PROVE AckedIsDelivered'
    BY <1>3, <1>a, <1>b DEF CancelOrder
  <1>4. ASSUME NEW c \in Calls, VerifyOrder(c) PROVE AckedIsDelivered'
    BY <1>4, <1>a, <1>b DEF VerifyOrder
  <1>5. ASSUME NEW c \in Calls, QueryOrder(c) PROVE AckedIsDelivered'
    BY <1>5, <1>a, <1>b DEF QueryOrder
  <1>6. ASSUME NEW c \in Calls, CancelPayment(c) PROVE AckedIsDelivered'
    BY <1>6, <1>a, <1>b DEF CancelPayment
  <1>7. ASSUME NEW c \in Calls, PersistTradeNo(c) PROVE AckedIsDelivered'
    BY <1>7, <1>a, <1>b DEF PersistTradeNo
  <1>8. ASSUME NEW c \in Calls, Close(c) PROVE AckedIsDelivered'
    BY <1>8, <1>a, <1>b DEF Close
  <1>9. ASSUME NEW c \in Calls, ToPaid(c) PROVE AckedIsDelivered'
    BY <1>9, <1>a, <1>b DEF ToPaid
  <1>10. ASSUME NEW c \in Calls, AlreadyProcessed(c) PROVE AckedIsDelivered'
    BY <1>10, <1>a, <1>b DEF AlreadyProcessed, Stages, Stage, Fulfilling, Unpaid, Statuses
  <1>11. ASSUME NEW c \in Calls, ExecuteFulfillment(c) PROVE AckedIsDelivered'
    BY <1>11, <1>a, <1>b DEF ExecuteFulfillment, Settled
  <1>12. ASSUME NEW c \in Calls, RejectUnsupportedOrderType(c) PROVE AckedIsDelivered'
    BY <1>12, <1>a, <1>b DEF RejectUnsupportedOrderType
  <1>13. ASSUME NEW c \in Calls, AcquireLease(c) PROVE AckedIsDelivered'
    BY <1>13, <1>a, <1>b DEF AcquireLease, Settled
  <1>14. ASSUME NEW c \in Calls, ReloadLease(c) PROVE AckedIsDelivered'
    BY <1>14, <1>a, <1>b DEF ReloadLease
  <1>15. ASSUME NEW c \in Calls, LookupCode(c) PROVE AckedIsDelivered'
    BY <1>15, <1>a, <1>b DEF LookupCode, ToRedeem
  <1>16. ASSUME NEW c \in Calls, CreateCode(c) PROVE AckedIsDelivered'
    BY <1>16, <1>a, <1>b DEF CreateCode, ToRedeem
  <1>17. ASSUME NEW c \in Calls, RedeemCode(c) PROVE AckedIsDelivered'
    BY <1>17, <1>a, <1>b DEF RedeemCode, Deliver
  <1>18. ASSUME NEW c \in Calls, AssignSubscription(c) PROVE AckedIsDelivered'
    BY <1>18, <1>a, <1>b DEF AssignSubscription, Deliver
  <1>19. ASSUME NEW c \in Calls, AccrueRebate(c) PROVE AckedIsDelivered'
    BY <1>19, <1>a, <1>b DEF AccrueRebate
  <1>20. ASSUME NEW c \in Calls, MarkCompleted(c) PROVE AckedIsDelivered'
    BY <1>20, <1>a, <1>b DEF MarkCompleted, Settled, Write
  <1>21. ASSUME NEW c \in Calls, MarkFailed(c) PROVE AckedIsDelivered'
    BY <1>21, <1>a, <1>b DEF MarkFailed
  <1>22. ASSUME NEW c \in Calls, RefuseSubscription(c) PROVE AckedIsDelivered'
    BY <1>22, <1>a, <1>b DEF RefuseSubscription
  <1>23. ASSUME NEW c \in Calls, StepFails(c) PROVE AckedIsDelivered'
    BY <1>23, <1>a, <1>b DEF StepFails
  <1>24. ASSUME NEW c \in Calls, ReadFails(c) PROVE AckedIsDelivered'
    BY <1>24, <1>a, <1>b DEF ReadFails
  <1>25. ASSUME NEW c \in Calls, Die(c) PROVE AckedIsDelivered'
    BY <1>25, <1>a, <1>b DEF Die
  <1>26. CASE Pay
    BY <1>26, <1>a, <1>b DEF Pay
  <1>27. CASE FiveMinutesPass
    BY <1>27, <1>a, <1>b DEF FiveMinutesPass, Age
  <1>28. CASE LeaseLapses
    BY <1>28, <1>a, <1>b DEF LeaseLapses, Age
  <1>29. CASE Refund
    BY <1>29, <1>a, <1>b DEF Refund
  <1>30. CASE UNCHANGED vars
    BY <1>30, <1>a, <1>b DEF vars
  <1> QED
    BY <1>1, <1>2, <1>3, <1>4, <1>5, <1>6, <1>7, <1>8, <1>9, <1>10,
       <1>11, <1>12, <1>13, <1>14, <1>15, <1>16, <1>17, <1>18, <1>19, <1>20,
       <1>21, <1>22, <1>23, <1>24, <1>25, <1>26, <1>27, <1>28, <1>29, <1>30
    DEF Next, Call, Progress

\* The invariant holds at first.
LEMMA InitInv == Init => Inv
  BY FulfilmentAssumption
  DEF Init, Inv, TypeOK, Order, Statuses, Unpaid, Labels, Jobs, GrantCounts, PaidFirst,
      Known,
      Delivering, Stages, Stage, CompletedIsDelivered, AckedIsDelivered, Settled,
        RefundStatuses,
      Refunded

\* And it holds for ever.
THEOREM Invariance == Spec => []Inv
  <1>1. Inv /\ [Next]_vars => Inv'
    <2> SUFFICES ASSUME Inv, [Next]_vars PROVE Inv'
      OBVIOUS
    <2>1. Stages'
      BY StageStep DEF Inv, Stages
    <2> QED
      BY <2>1, TypeStep, GrantStep, PaidStep, CompletedStep, AckedStep DEF Inv
  <1> QED
    BY InitInv, <1>1, PTL DEF Spec

-----------------------------------------------------------------------------
\* The variables keep their types, however calls interleave, fail and die.
THEOREM FulfilmentTypeCorrect == Spec => []TypeOK
  BY Invariance, PTL DEF Inv

\* Balance, days and rebate are given at most once for an order and only for
\* a payment, however many calls redeem, assign and complete at once.
THEOREM GivenOnce == Spec => []CreditedOnce
  <1>1. Inv => CreditedOnce
    <2> SUFFICES ASSUME Inv PROVE CreditedOnce
      OBVIOUS
    <2>1. credits > 0 => upstream = "paid"
      BY DEF Inv, GrantCounts, PaidFirst
    <2> QED BY <2>1 DEF Inv, GrantCounts, CreditedOnce
  <1> QED BY <1>1, Invariance, PTL

\* A completed order was delivered in full by whoever completed it.
THEOREM DeliveredBeforeCompleted == Spec => []CompletedIsDelivered
  BY Invariance, PTL DEF Inv

\* The provider stops notifying only when the order is delivered.
THEOREM AnsweredWhenDelivered == Spec => []AckedIsDelivered
  BY Invariance, PTL DEF Inv

\* Only refunds move an order that is fulfilled, whatever late calls do.
THEOREM LateCallsAreHarmless == Spec => SettledIsFinal
  <1>1. Inv /\ [Next]_vars =>
          [order.status \in Settled =>
             order'.status \in RefundSteps(order.status) \union {order.status}]_vars
    BY StaysSettled DEF Inv
  <1> QED BY <1>1, Invariance, PTL DEF Spec, SettledIsFinal

===============================================================================
