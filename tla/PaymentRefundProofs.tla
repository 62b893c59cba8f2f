-------------------------- MODULE PaymentRefundProofs --------------------------
(* Proofs about PaymentRefund, for any set of calls, any amounts, refund    *)
(* requests and faults.                                                     *)
EXTENDS PaymentRefund, SequenceTheorems, TLAPS

Working == Claimed \union {"claim"}
Finalising == {"succeed", "unwind", "strand"}

OthersFailed(n) == \A k \in DOMAIN gateway \ {n} : gateway[k].state = "failed"
AllFailed == \A k \in DOMAIN gateway : gateway[k].state = "failed"

\* A call that refunds, refunds something, and has not used up more of the
\* deduction than was taken.
CoveredBy(c) ==
    /\ pc[c] \in Working => plan[c].amount > 0
    /\ pc[c] \in {"gateway", "ok", "pending", "rollback"} => taken >= plan[c].deduct

PendingCovered == order.status = "REFUND_PENDING" => taken >= held.deduct

Covered == PendingCovered /\ \A c \in Calls : CoveredBy(c)

\* An order was pending if its audit says so; its audit is written once, so
\* whoever finalises has what it holds.
FinaliserKnows(c) == pc[c] \in Finalising =>
    /\ "REFUND_PENDING" \in audits
    /\ plan[c].refund = held.refund /\ plan[c].deduct = held.deduct
    /\ order.status = "REFUND_PENDING" => plan[c].amount = refundAmount

PendingIsAudited == order.status = "REFUND_PENDING" => "REFUND_PENDING" \in audits

PendingOnce == PendingIsAudited /\ \A c \in Calls : FinaliserKnows(c)

\* What the provider does with the refund a call made, or a pending order holds.
CallKnows(c) ==
    /\ pc[c] \in {"ok", "pending"} =>
         /\ plan[c].refund \in DOMAIN gateway
         /\ gateway[plan[c].refund].amount = plan[c].amount
         /\ "refund" \notin doubts => OthersFailed(plan[c].refund)
    /\ pc[c] = "ok" => gateway[plan[c].refund].state = "refunded"
    /\ order.status = "REFUND_PENDING" =>
         /\ pc[c] = "succeed" => gateway[held.refund].state = "refunded"
         /\ pc[c] \in {"unwind", "strand"} => gateway[held.refund].state = "failed"
    /\ /\ "refund" \notin doubts
       /\ pc[c] \in {"deduct", "gateway", "rollback", "mark", "fail", "restore"}
       => AllFailed

PendingKnows == order.status = "REFUND_PENDING" =>
    /\ held.refund \in DOMAIN gateway
    /\ gateway[held.refund].amount = refundAmount
    /\ "refund" \notin doubts => OthersFailed(held.refund)

GatewayKnown == PendingKnows /\ \A c \in Calls : CallKnows(c)

\* What is taken of the balance is what the order, or the call at work on it,
\* says, as long as no return failed.
Told == doubts \intersect {"deduction",
  "mark"} = {} /\ "REFUND_ROLLBACK_FAILED" \notin audits

CallTook(c) == Told =>
    /\ pc[c] \in {"deduct", "restore"} => taken = 0
    /\ pc[c] \in {"gateway", "ok", "pending", "rollback"} => taken = plan[c].deduct
    /\ pc[c] # "fail"

OrderTook == Told =>
    /\ order.status \in Refundable => taken = 0
    /\ order.status = "REFUND_PENDING" => taken = held.deduct

DeductionKnown == OrderTook /\ \A c \in Calls : CallTook(c)

\* The inductive invariant.
Inv ==
    /\ TypeOK /\ OneRefunder /\ Covered /\ PendingOnce
    /\ GatewayKnown /\ StatusTellsGateway /\ DeductionKnown

-----------------------------------------------------------------------------
\* What can be deducted is at most what is asked for.
LEMMA AvailableBound ==
  ASSUME TypeOK
  PROVE  \A n \in Nat : \A a \in 0..n : Available(a) \in 0..n
  BY DEF Available, TypeOK

\* An UPDATE of the status leaves a row.
LEMMA WriteType ==
  ASSUME NEW s \in Settled, Write(s)
  PROVE  order' \in Order /\ order'.status = s
  BY DEF Write, Order, Statuses

\* A call that claimed the order is alone with it.
LEMMA Alone ==
  ASSUME OneRefunder, NEW c \in Calls, NEW d \in Calls, pc[c] \in Claimed
  PROVE  order.status = "REFUNDING" /\ (d # c => pc[d] \notin Claimed)
  BY DEF OneRefunder

\* Otherwise nobody claimed it.
LEMMA Unclaimed ==
  ASSUME OneRefunder, NEW d \in Calls, order.status # "REFUNDING"
  PROVE  pc[d] \notin Claimed
  BY DEF OneRefunder

\* What the steps write into a plan, and the provider into a request.
LEMMA PlanWrites ==
  ASSUME NEW p \in RefundPlan, NEW d \in 0..Amount, NEW n \in Nat
  PROVE  [p EXCEPT !.deduct = d] \in RefundPlan /\ [p EXCEPT !.refund = n] \in RefundPlan
  BY DEF RefundPlan

Request == [state : {"pending", "refunded", "failed"}, amount : 1..Amount]

LEMMA RequestIsPair ==
  ASSUME NEW r \in Request
  PROVE  r = [state |-> r.state, amount |-> r.amount]
  BY DEF Request

LEMMA Answered ==
  ASSUME NEW r \in Request, NEW s \in {"refunded", "failed"}
  PROVE  [r EXCEPT !.state = s] \in Request
  BY DEF Request

\* The claim finds the order unclaimed, and everybody else leaves a claimed
\* order alone.
LEMMA OneRefunderStep ==
  ASSUME TypeOK, OneRefunder, [Next]_vars
  PROVE  OneRefunder'
  <1> USE DEF Goto, Fault, Doubt, NoFault, row, money, trail, SetRefund, Write,
      OneRefunder, Claimed, TypeOK, Refundable
  <1>1. ASSUME NEW c \in Calls, PrepareRefund(c) PROVE OneRefunder'
    BY <1>1 DEF PrepareRefund
  <1>2. ASSUME NEW c \in Calls, ClaimRefund(c) PROVE OneRefunder'
    BY <1>2 DEF ClaimRefund
  <1>3. ASSUME NEW c \in Calls, Deduct(c) PROVE OneRefunder'
    BY <1>3 DEF Deduct
  <1>4. ASSUME NEW c \in Calls, GatewayRefund(c) PROVE OneRefunder'
    BY <1>4 DEF GatewayRefund
  <1>5. ASSUME NEW c \in Calls, MarkRefundOk(c) PROVE OneRefunder'
    BY <1>5 DEF MarkRefundOk
  <1>6. ASSUME NEW c \in Calls, MarkRefundPending(c) PROVE OneRefunder'
    BY <1>6 DEF MarkRefundPending
  <1>7. ASSUME NEW c \in Calls, RollbackRefund(c) PROVE OneRefunder'
    BY <1>7 DEF RollbackRefund
  <1>8. ASSUME NEW c \in Calls, MarkRollbackFailed(c) PROVE OneRefunder'
    BY <1>8 DEF MarkRollbackFailed
  <1>9. ASSUME NEW c \in Calls, FailRefund(c) PROVE OneRefunder'
    BY <1>9 DEF FailRefund
  <1>10. ASSUME NEW c \in Calls, LogRefundFailed(c) PROVE OneRefunder'
    BY <1>10 DEF LogRefundFailed
  <1>11. ASSUME NEW c \in Calls, RestoreStatus(c) PROVE OneRefunder'
    BY <1>11 DEF RestoreStatus
  <1>12. ASSUME NEW c \in Calls, QueryAndFinalizeRefund(c) PROVE OneRefunder'
    BY <1>12 DEF QueryAndFinalizeRefund, AfterQuery
  <1>13. ASSUME NEW c \in Calls, FinalizePendingRefundSuccess(c) PROVE OneRefunder'
    BY <1>13 DEF FinalizePendingRefundSuccess
  <1>14. ASSUME NEW c \in Calls, FinalizeRefundFailed(c) PROVE OneRefunder'
    BY <1>14 DEF FinalizeRefundFailed, CanFailPending
  <1>15. ASSUME NEW c \in Calls, StrandDeduction(c) PROVE OneRefunder'
    BY <1>15 DEF StrandDeduction, CanFailPending
  <1>16. ASSUME NEW c \in Calls, StepFails(c) PROVE OneRefunder'
    BY <1>16 DEF StepFails, OnError
  <1>17. ASSUME NEW c \in Calls, Die(c) PROVE OneRefunder'
    BY <1>17 DEF Die
  <1>18. CASE RequestRefund
    BY <1>18 DEF RequestRefund
  <1>19. CASE GatewaySettles
    BY <1>19 DEF GatewaySettles
  <1>20. CASE Spend
    BY <1>20 DEF Spend
  <1>21. CASE TopUp
    BY <1>21 DEF TopUp
  <1>22. CASE UNCHANGED vars
    BY <1>22 DEF vars
  <1> QED
    BY <1>1, <1>2, <1>3, <1>4, <1>5, <1>6, <1>7, <1>8, <1>9, <1>10,
       <1>11, <1>12, <1>13, <1>14, <1>15, <1>16, <1>17, <1>18, <1>19, <1>20,
       <1>21, <1>22
    DEF Next, Call

\* Only the claimed call spends what was taken.
LEMMA CoveredStep ==
  ASSUME TypeOK, OneRefunder, PendingOnce, Covered, NEW d \in Calls, [Next]_vars
  PROVE  CoveredBy(d)' /\ PendingCovered'
  <1> USE DEF Goto, Fault, Doubt, NoFault, row, money, trail, SetRefund, Write,
      Covered, CoveredBy, PendingCovered, Claimed, Working, Refundable, Take, Return
  <1>a. /\ pc \in [Calls -> Labels] /\ plan \in [Calls -> RefundPlan]
        /\ taken \in Nat /\ held.deduct \in Nat
        /\ CoveredBy(d) /\ PendingCovered
    BY DEF TypeOK
  <1>1. ASSUME NEW c \in Calls, PrepareRefund(c) PROVE CoveredBy(d)' /\ PendingCovered'
    BY <1>1, <1>a DEF PrepareRefund
  <1>2. ASSUME NEW c \in Calls, ClaimRefund(c) PROVE CoveredBy(d)' /\ PendingCovered'
    <2>0. order.status # "REFUNDING" => pc[d] \notin Claimed
      BY Unclaimed
    <2>1. CASE pc'[c] = "idle"
      BY <1>2, <1>a, <2>0, <2>1 DEF ClaimRefund
    <2>2. CASE pc'[c] # "idle"
      <3>1. pc[d] \notin Claimed /\ order'.status = "REFUNDING" /\ plan' = plan
        BY <1>2, <1>a, <2>0, <2>2 DEF ClaimRefund
      <3>2. pc'[c] = "gateway" => plan[c].deduct \in Nat /\ ~(plan[c].deduct > 0)
        BY <1>2, <1>a, <2>2 DEF ClaimRefund, RefundPlan
      <3>3. UNCHANGED <<taken, held>> /\ (d # c => pc'[d] = pc[d])
        BY <1>2, <1>a DEF ClaimRefund
      <3>4. pc'[c] \in {"deduct", "gateway"} /\ pc[c] = "claim"
        BY <1>2, <1>a, <2>2 DEF ClaimRefund
      <3> QED BY <3>1, <3>2, <3>3, <3>4, <1>a
    <2> QED BY <2>1, <2>2
  <1>3. ASSUME NEW c \in Calls, Deduct(c) PROVE CoveredBy(d)' /\ PendingCovered'
    <2>0. order.status = "REFUNDING" /\ (d # c => pc[d] \notin Claimed)
      BY <1>3, Alone DEF Deduct
    <2>1. Available(plan[c].deduct) \in Nat
      <3>1. plan[c].deduct \in 0..Amount /\ Amount \in Nat
        BY <1>a, RefundAssumption DEF RefundPlan
      <3> QED BY <3>1, AvailableBound
    <2>2. CASE d # c
      BY <1>3, <1>a, <2>0, <2>2 DEF Deduct
    <2>3. CASE d = c
      <3>1. plan'[c].amount = plan[c].amount /\ UNCHANGED <<order, held>>
        BY <1>3, <1>a DEF Deduct, RefundPlan
      <3>2. \/ pc'[c] = "gateway" /\ taken' = taken /\ plan'[c].deduct = 0
            \/ /\ pc'[c] \in {"gateway", "restore"}
               /\ taken' = taken + Available(plan[c].deduct)
               /\ pc'[c] = "gateway" => plan'[c].deduct = Available(plan[c].deduct)
        BY <1>3, <1>a DEF Deduct, RefundPlan
      <3>3. pc[c] \in Working
        BY <1>3 DEF Deduct
      <3> QED BY <1>a, <2>0, <2>1, <2>3, <3>1, <3>2, <3>3
    <2> QED BY <2>2, <2>3
  <1>4. ASSUME NEW c \in Calls, GatewayRefund(c) PROVE CoveredBy(d)' /\ PendingCovered'
    BY <1>4, <1>a DEF GatewayRefund
  <1>5. ASSUME NEW c \in Calls, MarkRefundOk(c) PROVE CoveredBy(d)' /\ PendingCovered'
    <2>0. order.status = "REFUNDING" /\ (d # c => pc[d] \notin Claimed)
      BY <1>5, Alone DEF MarkRefundOk
    <2> QED BY <1>5, <2>0, <1>a DEF MarkRefundOk, RefundedStatus
  <1>6. ASSUME NEW c \in Calls, MarkRefundPending(c)
           PROVE CoveredBy(d)' /\ PendingCovered'
    BY <1>6, <1>a DEF MarkRefundPending
  <1>7. ASSUME NEW c \in Calls, RollbackRefund(c) PROVE CoveredBy(d)' /\ PendingCovered'
    <2>0. order.status = "REFUNDING" /\ (d # c => pc[d] \notin Claimed)
      BY <1>7, Alone DEF RollbackRefund
    <2>1. plan[c].deduct \in Nat
      BY <1>7, <1>a DEF RollbackRefund, RefundPlan
    <2>2. UNCHANGED <<order, held>>
      BY <1>7, <1>a DEF RollbackRefund
    <2>3. pc'[c] \in {"restore", "mark"} /\ plan' = plan
      BY <1>7, <1>a DEF RollbackRefund
    <2>4. /\ pc[d] \in Working \/ pc'[d] \notin Working
          /\ d # c => pc'[d] = pc[d]
      BY <1>7, <1>a DEF RollbackRefund
    <2> QED BY <2>0, <2>1, <2>2, <2>3, <2>4, <1>a
  <1>8. ASSUME NEW c \in Calls, MarkRollbackFailed(c)
           PROVE CoveredBy(d)' /\ PendingCovered'
    BY <1>8, <1>a DEF MarkRollbackFailed
  <1>9. ASSUME NEW c \in Calls, FailRefund(c) PROVE CoveredBy(d)' /\ PendingCovered'
    BY <1>9, <1>a DEF FailRefund
  <1>10. ASSUME NEW c \in Calls, LogRefundFailed(c) PROVE CoveredBy(d)' /\ PendingCovered'
    BY <1>10, <1>a DEF LogRefundFailed
  <1>11. ASSUME NEW c \in Calls, RestoreStatus(c) PROVE CoveredBy(d)' /\ PendingCovered'
    BY <1>11, <1>a DEF RestoreStatus
  <1>12. ASSUME NEW c \in Calls, QueryAndFinalizeRefund(c)
           PROVE CoveredBy(d)' /\ PendingCovered'
    BY <1>12, <1>a DEF QueryAndFinalizeRefund, AfterQuery
  <1>13. ASSUME NEW c \in Calls, FinalizePendingRefundSuccess(c)
           PROVE CoveredBy(d)' /\ PendingCovered'
    BY <1>13, <1>a DEF FinalizePendingRefundSuccess
  <1>14. ASSUME NEW c \in Calls, FinalizeRefundFailed(c)
           PROVE CoveredBy(d)' /\ PendingCovered'
    <2>0. order.status # "REFUNDING" => pc[d] \notin Claimed
      BY Unclaimed
    <2>2. pc'[d] \in Working => pc'[d] = pc[d] /\ plan'[d] = plan[d]
      BY <1>14, <1>a DEF FinalizeRefundFailed
    <2>3. \/ UNCHANGED <<taken, held, order>>
          \/ order.status = "REFUND_PENDING" /\ order'.status = "REFUND_FAILED"
      BY <1>14 DEF FinalizeRefundFailed, CanFailPending
    <2> QED BY <1>a, <2>0, <2>2, <2>3
  <1>15. ASSUME NEW c \in Calls, StrandDeduction(c) PROVE CoveredBy(d)' /\ PendingCovered'
    BY <1>15, <1>a DEF StrandDeduction, CanFailPending
  <1>16. ASSUME NEW c \in Calls, StepFails(c) PROVE CoveredBy(d)' /\ PendingCovered'
    BY <1>16, <1>a DEF StepFails, OnError
  <1>17. ASSUME NEW c \in Calls, Die(c) PROVE CoveredBy(d)' /\ PendingCovered'
    BY <1>17, <1>a DEF Die
  <1>18. CASE RequestRefund
    BY <1>18, <1>a DEF RequestRefund
  <1>19. CASE GatewaySettles
    BY <1>19, <1>a DEF GatewaySettles
  <1>20. CASE Spend
    BY <1>20, <1>a DEF Spend
  <1>21. CASE TopUp
    BY <1>21, <1>a DEF TopUp
  <1>22. CASE UNCHANGED vars
    BY <1>22, <1>a DEF vars
  <1> QED
    BY <1>1, <1>2, <1>3, <1>4, <1>5, <1>6, <1>7, <1>8, <1>9, <1>10,
       <1>11, <1>12, <1>13, <1>14, <1>15, <1>16, <1>17, <1>18, <1>19, <1>20,
       <1>21, <1>22
    DEF Next, Call

\* The audit of the pending refund is written once, and with it what is held.
LEMMA PendingOnceStep ==
  ASSUME TypeOK, OneRefunder, PendingOnce, NEW d \in Calls, [Next]_vars
  PROVE  FinaliserKnows(d)' /\ PendingIsAudited'
  <1> USE DEF Goto, Fault, Doubt, NoFault, row, money, trail, SetRefund, Write,
      FinaliserKnows, PendingIsAudited, PendingOnce, Finalising, Claimed, Refundable,
        Refunded
  <1>a. /\ pc \in [Calls -> Labels] /\ plan \in [Calls -> RefundPlan]
        /\ FinaliserKnows(d) /\ PendingIsAudited
    BY DEF TypeOK
  <1>1. ASSUME NEW c \in Calls, PrepareRefund(c)
           PROVE FinaliserKnows(d)' /\ PendingIsAudited'
    BY <1>1, <1>a DEF PrepareRefund
  <1>2. ASSUME NEW c \in Calls, ClaimRefund(c)
           PROVE FinaliserKnows(d)' /\ PendingIsAudited'
    BY <1>2, <1>a DEF ClaimRefund
  <1>3. ASSUME NEW c \in Calls, Deduct(c) PROVE FinaliserKnows(d)' /\ PendingIsAudited'
    BY <1>3, <1>a DEF Deduct
  <1>4. ASSUME NEW c \in Calls, GatewayRefund(c)
           PROVE FinaliserKnows(d)' /\ PendingIsAudited'
    BY <1>4, <1>a DEF GatewayRefund
  <1>5. ASSUME NEW c \in Calls, MarkRefundOk(c)
           PROVE FinaliserKnows(d)' /\ PendingIsAudited'
    <2>0. order.status = "REFUNDING" /\ (d # c => pc[d] \notin Claimed)
      BY <1>5, Alone DEF MarkRefundOk
    <2> QED BY <1>5, <2>0, <1>a DEF MarkRefundOk, RefundedStatus
  <1>6. ASSUME NEW c \in Calls, MarkRefundPending(c)
           PROVE FinaliserKnows(d)' /\ PendingIsAudited'
    BY <1>6, <1>a DEF MarkRefundPending
  <1>7. ASSUME NEW c \in Calls, RollbackRefund(c)
           PROVE FinaliserKnows(d)' /\ PendingIsAudited'
    BY <1>7, <1>a DEF RollbackRefund
  <1>8. ASSUME NEW c \in Calls, MarkRollbackFailed(c)
           PROVE FinaliserKnows(d)' /\ PendingIsAudited'
    BY <1>8, <1>a DEF MarkRollbackFailed
  <1>9. ASSUME NEW c \in Calls, FailRefund(c)
           PROVE FinaliserKnows(d)' /\ PendingIsAudited'
    BY <1>9, <1>a DEF FailRefund
  <1>10. ASSUME NEW c \in Calls, LogRefundFailed(c)
           PROVE FinaliserKnows(d)' /\ PendingIsAudited'
    BY <1>10, <1>a DEF LogRefundFailed
  <1>11. ASSUME NEW c \in Calls, RestoreStatus(c)
           PROVE FinaliserKnows(d)' /\ PendingIsAudited'
    BY <1>11, <1>a DEF RestoreStatus
  <1>12. ASSUME NEW c \in Calls, QueryAndFinalizeRefund(c)
           PROVE FinaliserKnows(d)' /\ PendingIsAudited'
    BY <1>12, <1>a DEF QueryAndFinalizeRefund, AfterQuery
  <1>13. ASSUME NEW c \in Calls, FinalizePendingRefundSuccess(c)
           PROVE FinaliserKnows(d)' /\ PendingIsAudited'
    BY <1>13, <1>a DEF FinalizePendingRefundSuccess
  <1>14. ASSUME NEW c \in Calls, FinalizeRefundFailed(c)
           PROVE FinaliserKnows(d)' /\ PendingIsAudited'
    BY <1>14, <1>a DEF FinalizeRefundFailed, CanFailPending
  <1>15. ASSUME NEW c \in Calls, StrandDeduction(c)
           PROVE FinaliserKnows(d)' /\ PendingIsAudited'
    BY <1>15, <1>a DEF StrandDeduction, CanFailPending
  <1>16. ASSUME NEW c \in Calls, StepFails(c)
           PROVE FinaliserKnows(d)' /\ PendingIsAudited'
    BY <1>16, <1>a DEF StepFails, OnError
  <1>17. ASSUME NEW c \in Calls, Die(c) PROVE FinaliserKnows(d)' /\ PendingIsAudited'
    BY <1>17, <1>a DEF Die
  <1>18. CASE RequestRefund
    BY <1>18, <1>a DEF RequestRefund
  <1>19. CASE GatewaySettles
    BY <1>19, <1>a DEF GatewaySettles
  <1>20. CASE Spend
    BY <1>20, <1>a DEF Spend
  <1>21. CASE TopUp
    BY <1>21, <1>a DEF TopUp
  <1>22. CASE UNCHANGED vars
    BY <1>22, <1>a DEF vars
  <1> QED
    BY <1>1, <1>2, <1>3, <1>4, <1>5, <1>6, <1>7, <1>8, <1>9, <1>10,
       <1>11, <1>12, <1>13, <1>14, <1>15, <1>16, <1>17, <1>18, <1>19, <1>20,
       <1>21, <1>22
    DEF Next, Call

\* Goto and the faults keep the types of what they write.
LEMMA GotoType ==
  ASSUME TypeOK, NEW c \in Calls, NEW l \in Labels, Goto(c, l)
  PROVE  pc' \in [Calls -> Labels] /\ plan' \in [Calls -> RefundPlan]
  <1>1. NoPlan \in RefundPlan
    BY RefundAssumption DEF NoPlan, RefundPlan, Statuses, Settled
  <1> QED BY <1>1 DEF TypeOK, Goto

LEMMA FaultType ==
  ASSUME TypeOK, NEW d \in {"deduction", "mark", "refund"},
         NoFault \/ Doubt(d) \/ (Fault /\ UNCHANGED doubts)
  PROVE  faults' \in 0..MaxFaults /\ doubts' \subseteq {"deduction", "mark", "refund"}
  <1>1. Fault => faults' \in 0..MaxFaults
    BY RefundAssumption DEF TypeOK, Fault
  <1> QED BY <1>1 DEF TypeOK, NoFault, Doubt

\* The types are inductive.
LEMMA TypeStep ==
  ASSUME TypeOK, OneRefunder, Covered, PendingOnce, [Next]_vars
  PROVE  TypeOK'
  <1> USE DEF row, money, trail, SetRefund, TypeOK, Labels, Claimed
  <1>a. NoPlan \in RefundPlan /\ Amount \in Nat \ {0} /\ MaxFaults \in Nat
    BY RefundAssumption DEF NoPlan, RefundPlan, Statuses, Settled
  <1>b. \A c \in Calls : /\ plan[c].amount \in 0..Amount /\ plan[c].deduct \in 0..Amount
                        /\ plan[c].refund \in Nat /\ plan[c].from \in Statuses
    BY DEF RefundPlan
  <1>c. \A c \in Calls : plan[c] \in RefundPlan
    OBVIOUS
  <1>d. gateway \in Seq(Request)
    BY DEF Request
  <1>1. ASSUME NEW c \in Calls, PrepareRefund(c) PROVE TypeOK'
    <2>1. \A amt \in 1..Amount : Available(amt) \in 0..Amount
      <3>1. \A a \in 0..Amount : Available(a) \in 0..Amount
        BY <1>a, AvailableBound
      <3> QED BY <1>a, <3>1
    <2>2. PICK amt \in 1..Amount, d \in 0..Amount :
            plan' = [plan EXCEPT ![c] = [amount |-> amt, deduct |-> d,
                                         from |-> order.status, refund |-> 0]]
      <3>1. \A amt \in 1..Amount : {0, Available(amt)} \subseteq 0..Amount
        BY <1>a, <2>1
      <3>2. PICK amt \in 1..Amount : \E d \in {0, Available(amt)} :
              plan' = [plan EXCEPT ![c] = [amount |-> amt, deduct |-> d,
                                           from |-> order.status, refund |-> 0]]
        BY <1>1 DEF PrepareRefund
      <3> QED BY <3>1, <3>2
    <2>4. [amount |-> amt, deduct |-> d, from |-> order.status,
        refund |-> 0] \in RefundPlan
      BY <1>a DEF RefundPlan, Order
    <2> QED BY <1>1, <2>2, <2>4 DEF PrepareRefund
  <1>2. ASSUME NEW c \in Calls, ClaimRefund(c) PROVE TypeOK'
    <2>1. order' \in Order /\ order'.status \in Settled
      BY <1>2, WriteType DEF ClaimRefund, TypeOK, Settled, RefundStatuses, Refunded,
          Refundable
    <2>g. \E l \in Labels : Goto(c, l)
      BY <1>2 DEF ClaimRefund
    <2>f. \E d \in {"deduction", "mark", "refund"} :
            NoFault \/ Doubt(d) \/ (Fault /\ UNCHANGED doubts)
      BY <1>2 DEF ClaimRefund
    <2> QED BY <1>2, <2>1, <2>g, <2>f, GotoType, FaultType DEF ClaimRefund
  <1>3. ASSUME NEW c \in Calls, Deduct(c) PROVE TypeOK'
    <2>f. \E d \in {"deduction", "mark", "refund"} :
            NoFault \/ Doubt(d) \/ (Fault /\ UNCHANGED doubts)
      BY <1>3 DEF Deduct
    <2>1. Available(plan[c].deduct) \in 0..Amount
      BY <1>a, <1>b, AvailableBound
    <2>2. \E l \in {"gateway", "restore"}, d \in 0..Amount :
            pc' = [pc EXCEPT ![c] = l] /\ plan' = [plan EXCEPT ![c].deduct = d]
      BY <1>3, <1>a, <1>b, <2>1 DEF Deduct
    <2>3. pc' \in [Calls -> Labels] /\ plan' \in [Calls -> RefundPlan]
      <3>1. PICK d \in 0..Amount : plan' = [plan EXCEPT ![c].deduct = d]
        BY <2>2
      <3>2. [plan[c] EXCEPT !.deduct = d] \in RefundPlan
        BY <1>c, PlanWrites
      <3> QED BY <2>2, <3>1, <3>2
    <2>4. balance' \in Int /\ taken' \in Nat
      BY <1>3, <2>1, <1>a DEF Deduct, Take
    <2> QED BY <1>3, <2>3, <2>4, <2>f, FaultType DEF Deduct
  <1>4. ASSUME NEW c \in Calls, GatewayRefund(c) PROVE TypeOK'
    <2>f. \E d \in {"deduction", "mark", "refund"} :
            NoFault \/ Doubt(d) \/ (Fault /\ UNCHANGED doubts)
      BY <1>4 DEF GatewayRefund
    <2>1. PICK n \in 1..Len(gateway) + 1, s \in {"refunded", "pending", "failed"} :
            /\ NewRequest(n, s, plan[c].amount) \/ RepeatedRequest(n, s, plan[c].amount)
            /\ plan' = [plan EXCEPT ![c].refund = n]
      BY <1>4 DEF GatewayRefund
    <2>2. plan[c].amount \in 1..Amount
      BY <1>4, <1>a, <1>b DEF GatewayRefund, Covered, CoveredBy, Working
    <2>3. gateway' \in Seq([state : {"pending", "refunded", "failed"},
        amount : 1..Amount])
      <3>1. CASE NewRequest(n, s, plan[c].amount)
        BY <2>2, <3>1 DEF NewRequest
      <3>2. CASE RepeatedRequest(n, s, plan[c].amount)
        BY <3>2 DEF RepeatedRequest
      <3> QED BY <2>1, <3>1, <3>2
    <2>4. plan' \in [Calls -> RefundPlan]
      <3>1. n \in Nat
        OBVIOUS
      <3>2. [plan[c] EXCEPT !.refund = n] \in RefundPlan
        BY <1>a, <1>c, <3>1, PlanWrites
      <3> QED BY <2>1, <3>2
    <2>5. pc' \in [Calls -> Labels]
      BY <1>4 DEF GatewayRefund
    <2> QED BY <1>4, <2>3, <2>4, <2>5, <2>f, FaultType DEF GatewayRefund
  <1>5. ASSUME NEW c \in Calls, MarkRefundOk(c) PROVE TypeOK'
    <2>1. order' \in Order /\ order'.status \in Settled
      BY <1>5, WriteType DEF MarkRefundOk, TypeOK, Settled, RefundStatuses, Refunded,
          Refundable, RefundedStatus
    <2>g. \E l \in Labels : Goto(c, l)
      BY <1>5 DEF MarkRefundOk
    <2> QED BY <1>5, <2>1, <2>g, GotoType, <1>b DEF MarkRefundOk
  <1>6. ASSUME NEW c \in Calls, MarkRefundPending(c) PROVE TypeOK'
    <2>1. order' \in Order /\ order'.status \in Settled
      BY <1>6, WriteType DEF MarkRefundPending, TypeOK, Settled, RefundStatuses,
          Refunded, Refundable
    <2>g. \E l \in Labels : Goto(c, l)
      BY <1>6 DEF MarkRefundPending
    <2>2. refundAmount' \in 0..Amount /\ held' \in [refund : Nat, deduct : 0..Amount]
      BY <1>6, <1>b DEF MarkRefundPending
    <2> QED BY <1>6, <2>1, <2>2, <2>g, GotoType DEF MarkRefundPending
  <1>7. ASSUME NEW c \in Calls, RollbackRefund(c) PROVE TypeOK'
    <2>f. \E d \in {"deduction", "mark", "refund"} :
            NoFault \/ Doubt(d) \/ (Fault /\ UNCHANGED doubts)
      BY <1>7 DEF RollbackRefund
    <2>g. \E l \in Labels : Goto(c, l)
      BY <1>7 DEF RollbackRefund
    <2>1. balance' \in Int /\ taken' \in Nat
      BY <1>7, <1>a, <1>b DEF RollbackRefund, Return, Covered, CoveredBy
    <2> QED BY <1>7, <2>1, <2>f, <2>g, GotoType, FaultType DEF RollbackRefund
  <1>8. ASSUME NEW c \in Calls, MarkRollbackFailed(c) PROVE TypeOK'
    <2>f. \E d \in {"deduction", "mark", "refund"} :
            NoFault \/ Doubt(d) \/ (Fault /\ UNCHANGED doubts)
      BY <1>8 DEF MarkRollbackFailed
    <2>g. \E l \in Labels : Goto(c, l)
      BY <1>8 DEF MarkRollbackFailed
    <2> QED BY <1>8, <2>f, <2>g, GotoType, FaultType DEF MarkRollbackFailed
  <1>9. ASSUME NEW c \in Calls, FailRefund(c) PROVE TypeOK'
    <2>1. order' \in Order /\ order'.status \in Settled
      BY <1>9, WriteType DEF FailRefund, TypeOK, Settled, RefundStatuses, Refunded,
          Refundable
    <2>g. \E l \in Labels : Goto(c, l)
      BY <1>9 DEF FailRefund
    <2> QED BY <1>9, <2>1, <2>g, GotoType DEF FailRefund
  <1>10. ASSUME NEW c \in Calls, LogRefundFailed(c) PROVE TypeOK'
    BY <1>10, <1>a DEF LogRefundFailed, Goto
  <1>11. ASSUME NEW c \in Calls, RestoreStatus(c) PROVE TypeOK'
    <2>1. order' \in Order /\ order'.status \in Settled
      BY <1>11, WriteType DEF RestoreStatus, TypeOK, Settled, RefundStatuses, Refunded,
          Refundable
    <2>g. \E l \in Labels : Goto(c, l)
      BY <1>11 DEF RestoreStatus
    <2> QED BY <1>11, <2>1, <2>g, GotoType DEF RestoreStatus
  <1>12. ASSUME NEW c \in Calls, QueryAndFinalizeRefund(c) PROVE TypeOK'
    <2>1. \E l \in Labels : pc' = [pc EXCEPT ![c] = l]
      BY <1>12 DEF QueryAndFinalizeRefund, AfterQuery
    <2>2. [amount |-> refundAmount, deduct |-> held.deduct,
           from |-> "REFUND_PENDING", refund |-> held.refund] \in RefundPlan
      BY <1>a DEF RefundPlan, Statuses, Settled, RefundStatuses
    <2>3. plan' \in [Calls -> RefundPlan]
      BY <1>12, <1>a, <2>2 DEF QueryAndFinalizeRefund, AfterQuery
    <2> QED BY <1>12, <2>1, <2>3 DEF QueryAndFinalizeRefund, AfterQuery
  <1>13. ASSUME NEW c \in Calls, FinalizePendingRefundSuccess(c) PROVE TypeOK'
    <2>1. order' \in Order /\ order'.status \in Settled
      BY <1>13, WriteType DEF FinalizePendingRefundSuccess, TypeOK, Settled,
          RefundStatuses, Refunded, Refundable, RefundedStatus
    <2>g. \E l \in Labels : Goto(c, l)
      BY <1>13 DEF FinalizePendingRefundSuccess
    <2> QED BY <1>13, <2>1, <2>g, GotoType, <1>b DEF FinalizePendingRefundSuccess
  <1>14. ASSUME NEW c \in Calls, FinalizeRefundFailed(c) PROVE TypeOK'
    <2>1. order' \in Order /\ order'.status \in Settled
      BY <1>14, WriteType DEF FinalizeRefundFailed, CanFailPending, TypeOK, Settled,
          RefundStatuses, Refunded, Refundable
    <2>g. \E l \in Labels : Goto(c, l)
      BY <1>14 DEF FinalizeRefundFailed
    <2>f. \E d \in {"deduction", "mark", "refund"} :
            NoFault \/ Doubt(d) \/ (Fault /\ UNCHANGED doubts)
      BY <1>14 DEF FinalizeRefundFailed
    <2>2. CanFailPending => taken >= plan[c].deduct
      BY <1>14 DEF FinalizeRefundFailed, CanFailPending, Covered, PendingCovered,
          PendingOnce, FinaliserKnows, Finalising
    <2>3. balance' \in Int /\ taken' \in Nat
      BY <1>14, <1>b, <2>2 DEF FinalizeRefundFailed, Return
    <2>4. audits' \subseteq {"REFUND_PENDING", "REFUND_FAILED", "REFUND_ROLLBACK_FAILED"}
      BY <1>14 DEF FinalizeRefundFailed
    <2> QED BY <1>14, <2>1, <2>3, <2>4, <2>f, <2>g, GotoType, FaultType
        DEF FinalizeRefundFailed
  <1>15. ASSUME NEW c \in Calls, StrandDeduction(c) PROVE TypeOK'
    <2>1. order' \in Order /\ order'.status \in Settled
      BY <1>15, WriteType DEF StrandDeduction, CanFailPending, TypeOK, Settled,
          RefundStatuses, Refunded, Refundable
    <2>g. \E l \in Labels : Goto(c, l)
      BY <1>15 DEF StrandDeduction
    <2> QED BY <1>15, <2>1, <2>g, GotoType DEF StrandDeduction
  <1>16. ASSUME NEW c \in Calls, StepFails(c) PROVE TypeOK'
    BY <1>16, <1>a DEF StepFails, Goto, Fault, OnError
  <1>17. ASSUME NEW c \in Calls, Die(c) PROVE TypeOK'
    BY <1>17, <1>a DEF Die, Goto, Fault
  <1>18. CASE RequestRefund
    <2>1. order' \in Order /\ order'.status \in Settled
      BY <1>18, WriteType DEF RequestRefund, TypeOK, Settled, RefundStatuses, Refunded,
          Refundable
    <2> QED BY <1>18, <2>1, <1>a DEF RequestRefund
  <1>19. CASE GatewaySettles
    <2>1. PICK n \in DOMAIN gateway, s \in {"refunded", "failed"} :
            gateway' = [gateway EXCEPT ![n].state = s]
      BY <1>19 DEF GatewaySettles
    <2>2. n \in 1..Len(gateway)
      BY <2>1
    <2>3. [gateway[n] EXCEPT !.state = s]
            \in Request
      <3>1. gateway[n] \in Request
        BY <2>2, <1>d
      <3> QED BY <3>1, Answered
    <2>4. gateway' \in Seq(Request)
      BY <2>1, <2>2, <2>3, <1>d, ExceptSeq
    <2> QED BY <1>19, <2>4 DEF GatewaySettles, Request
  <1>20. CASE Spend
    BY <1>20, <1>a DEF Spend
  <1>21. CASE TopUp
    BY <1>21, <1>a DEF TopUp
  <1>22. CASE UNCHANGED vars
    BY <1>22, <1>a DEF vars
  <1> QED
    BY <1>1, <1>2, <1>3, <1>4, <1>5, <1>6, <1>7, <1>8, <1>9, <1>10,
       <1>11, <1>12, <1>13, <1>14, <1>15, <1>16, <1>17, <1>18, <1>19, <1>20,
       <1>21, <1>22
    DEF Next, Call

\* The provider is asked once at a time, and what it answers is kept.
LEMMA GatewayStep ==
  ASSUME TypeOK, OneRefunder, PendingOnce, GatewayKnown, StatusTellsGateway,
    NEW d \in Calls, [Next]_vars
  PROVE  CallKnows(d)' /\ PendingKnows' /\ StatusTellsGateway'
  <1> USE DEF Goto, Fault, Doubt, NoFault, row, money, trail, SetRefund, Write,
      CallKnows, PendingKnows, StatusTellsGateway, AllFailed, OthersFailed, Claimed,
        Refundable, Refunded
  <1>a. /\ pc \in [Calls -> Labels] /\ plan \in [Calls -> RefundPlan]
        /\ CallKnows(d) /\ PendingKnows /\ FinaliserKnows(d) /\ PendingIsAudited
    BY DEF TypeOK, GatewayKnown, PendingOnce
  <1>b. gateway \in Seq(Request) /\ DOMAIN gateway = 1..Len(gateway)
    BY DEF TypeOK, Request
  <1>c. \A n \in DOMAIN gateway :
          gateway[n] = [state |-> gateway[n].state, amount |-> gateway[n].amount]
    <2>1. \A n \in DOMAIN gateway : gateway[n] \in Request
      BY <1>b
    <2> QED BY <2>1, RequestIsPair
  <1>1. ASSUME NEW c \in Calls, PrepareRefund(c)
           PROVE CallKnows(d)' /\ PendingKnows' /\ StatusTellsGateway'
    BY <1>1, <1>a DEF PrepareRefund
  <1>2. ASSUME NEW c \in Calls, ClaimRefund(c)
           PROVE CallKnows(d)' /\ PendingKnows' /\ StatusTellsGateway'
    <2>0. order.status # "REFUNDING" => pc[d] \notin Claimed
      BY Unclaimed
    <2>1. CallKnows(c) /\ FinaliserKnows(c)
      BY DEF GatewayKnown, PendingOnce
    <2> QED BY <1>2, <2>0, <2>1, <1>a DEF ClaimRefund
  <1>3. ASSUME NEW c \in Calls, Deduct(c)
           PROVE CallKnows(d)' /\ PendingKnows' /\ StatusTellsGateway'
    <2>0. order.status = "REFUNDING" /\ (d # c => pc[d] \notin Claimed)
      BY <1>3, Alone DEF Deduct
    <2>1. CallKnows(c) /\ FinaliserKnows(c)
      BY DEF GatewayKnown, PendingOnce
    <2> QED BY <1>3, <2>0, <2>1, <1>a DEF Deduct
  <1>4. ASSUME NEW c \in Calls, GatewayRefund(c)
           PROVE CallKnows(d)' /\ PendingKnows' /\ StatusTellsGateway'
    <2>0. order.status = "REFUNDING" /\ (d # c => pc[d] \notin Claimed)
      BY <1>4, Alone DEF GatewayRefund
    <2>1. CallKnows(c) /\ FinaliserKnows(c)
      BY DEF GatewayKnown, PendingOnce
    <2>2. PICK n \in 1..Len(gateway) + 1, s \in {"refunded", "pending", "failed"} :
            /\ NewRequest(n, s, plan[c].amount) \/ RepeatedRequest(n, s, plan[c].amount)
            /\ plan' = [plan EXCEPT ![c].refund = n]
            /\ \/ /\ pc' = [pc EXCEPT ![c] = CASE s = "refunded" -> "ok"
                                               [] s = "pending"  -> "pending"
                                               [] s = "failed"   -> "rollback"]
                  /\ NoFault
               \/ s # "failed" /\ pc' = [pc EXCEPT ![c] = "rollback"] /\ Doubt("refund")
      BY <1>4 DEF GatewayRefund
    <2>3. /\ n \in DOMAIN gateway' /\ gateway'[n].amount = plan[c].amount
          /\ s = "refunded" => gateway'[n].state = "refunded"
          /\ DOMAIN gateway \subseteq DOMAIN gateway'
          /\ DOMAIN gateway' \subseteq DOMAIN gateway \union {n}
          /\ \A k \in DOMAIN gateway : gateway'[k] = gateway[k]
          /\ s = "failed" /\ n \notin DOMAIN gateway => gateway'[n].state = "failed"
      <3>1. CASE NewRequest(n, s, plan[c].amount)
        BY <1>b, <3>1 DEF NewRequest
      <3>2. CASE RepeatedRequest(n, s, plan[c].amount)
        BY <1>b, <3>2 DEF RepeatedRequest, Known
      <3> QED BY <2>2, <3>1, <3>2
    <2>4. /\ plan'[c].refund = n /\ plan'[c].amount = plan[c].amount
          /\ pc'[c] = "ok" => s = "refunded"
          /\ "refund" \notin doubts' =>
               "refund" \notin doubts /\ (pc'[c] = "rollback" => s = "failed")
          /\ pc'[c] \in {"ok", "pending", "rollback"}
          /\ d # c => pc'[d] = pc[d] /\ plan'[d] = plan[d]
      BY <1>a, <2>2 DEF RefundPlan
    <2>5. "refund" \notin doubts' => AllFailed
      BY <1>4, <2>1, <2>4 DEF GatewayRefund
    <2>6. order' = order /\ UNCHANGED held
      BY <1>4 DEF GatewayRefund
    <2>7. CallKnows(d)'
      <3>1. CASE d = c
        BY <2>0, <2>3, <2>4, <2>5, <2>6, <3>1
      <3>2. CASE d # c
        BY <2>0, <2>4, <2>6, <3>2
      <3> QED BY <3>1, <3>2
    <2> QED BY <2>0, <2>6, <2>7
  <1>5. ASSUME NEW c \in Calls, MarkRefundOk(c)
           PROVE CallKnows(d)' /\ PendingKnows' /\ StatusTellsGateway'
    <2>0. order.status = "REFUNDING" /\ (d # c => pc[d] \notin Claimed)
      BY <1>5, Alone DEF MarkRefundOk
    <2>1. CallKnows(c) /\ FinaliserKnows(c)
      BY DEF GatewayKnown, PendingOnce
    <2>2. /\ order'.status \in Refunded /\ refundAmount' = plan[c].amount
          /\ UNCHANGED <<gateway, doubts>> /\ pc'[c] = "idle" /\ (d # c => pc'[d] = pc[d])
      BY <1>5, <1>a DEF MarkRefundOk, RefundedStatus
    <2>3. CallKnows(d)' /\ PendingKnows'
      BY <2>0, <2>2
    <2>4. /\ plan[c].refund \in DOMAIN gateway
          /\ gateway[plan[c].refund] = [state |-> "refunded", amount |-> plan[c].amount]
          /\ "refund" \notin doubts => OthersFailed(plan[c].refund)
      BY <1>5, <1>c, <2>1 DEF MarkRefundOk
    <2> QED BY <2>2, <2>3, <2>4
  <1>6. ASSUME NEW c \in Calls, MarkRefundPending(c)
           PROVE CallKnows(d)' /\ PendingKnows' /\ StatusTellsGateway'
    <2>0. order.status = "REFUNDING" /\ (d # c => pc[d] \notin Claimed)
      BY <1>6, Alone DEF MarkRefundPending
    <2>1. CallKnows(c) /\ FinaliserKnows(c)
      BY DEF GatewayKnown, PendingOnce
    <2> QED BY <1>6, <2>0, <2>1, <1>a DEF MarkRefundPending, FinaliserKnows, Finalising
  <1>7. ASSUME NEW c \in Calls, RollbackRefund(c)
           PROVE CallKnows(d)' /\ PendingKnows' /\ StatusTellsGateway'
    <2>0. order.status = "REFUNDING" /\ (d # c => pc[d] \notin Claimed)
      BY <1>7, Alone DEF RollbackRefund
    <2>1. CallKnows(c) /\ FinaliserKnows(c)
      BY DEF GatewayKnown, PendingOnce
    <2> QED BY <1>7, <2>0, <2>1, <1>a DEF RollbackRefund
  <1>8. ASSUME NEW c \in Calls, MarkRollbackFailed(c)
           PROVE CallKnows(d)' /\ PendingKnows' /\ StatusTellsGateway'
    <2>0. order.status = "REFUNDING" /\ (d # c => pc[d] \notin Claimed)
      BY <1>8, Alone DEF MarkRollbackFailed
    <2>1. CallKnows(c) /\ FinaliserKnows(c)
      BY DEF GatewayKnown, PendingOnce
    <2> QED BY <1>8, <2>0, <2>1, <1>a DEF MarkRollbackFailed
  <1>9. ASSUME NEW c \in Calls, FailRefund(c)
           PROVE CallKnows(d)' /\ PendingKnows' /\ StatusTellsGateway'
    <2>0. order.status = "REFUNDING" /\ (d # c => pc[d] \notin Claimed)
      BY <1>9, Alone DEF FailRefund
    <2>1. CallKnows(c) /\ FinaliserKnows(c)
      BY DEF GatewayKnown, PendingOnce
    <2> QED BY <1>9, <2>0, <2>1, <1>a DEF FailRefund
  <1>10. ASSUME NEW c \in Calls, LogRefundFailed(c)
           PROVE CallKnows(d)' /\ PendingKnows' /\ StatusTellsGateway'
    BY <1>10, <1>a DEF LogRefundFailed
  <1>11. ASSUME NEW c \in Calls, RestoreStatus(c)
           PROVE CallKnows(d)' /\ PendingKnows' /\ StatusTellsGateway'
    <2>0. order.status = "REFUNDING" /\ (d # c => pc[d] \notin Claimed)
      BY <1>11, Alone DEF RestoreStatus
    <2>1. CallKnows(c) /\ FinaliserKnows(c)
      BY DEF GatewayKnown, PendingOnce
    <2> QED BY <1>11, <2>0, <2>1, <1>a DEF RestoreStatus
  <1>12. ASSUME NEW c \in Calls, QueryAndFinalizeRefund(c)
           PROVE CallKnows(d)' /\ PendingKnows' /\ StatusTellsGateway'
    BY <1>12, <1>a DEF QueryAndFinalizeRefund, AfterQuery
  <1>13. ASSUME NEW c \in Calls, FinalizePendingRefundSuccess(c)
           PROVE CallKnows(d)' /\ PendingKnows' /\ StatusTellsGateway'
    <2>0. order.status # "REFUNDING" => pc[d] \notin Claimed
      BY Unclaimed
    <2>1. CallKnows(c) /\ FinaliserKnows(c)
      BY DEF GatewayKnown, PendingOnce
    <2>2. CASE order.status # "REFUND_PENDING"
      BY <1>13, <1>a, <2>2 DEF FinalizePendingRefundSuccess
    <2>3. CASE order.status = "REFUND_PENDING"
      <3>1. /\ order'.status \in Refunded /\ refundAmount' = plan[c].amount
            /\ UNCHANGED <<gateway,
              doubts>> /\ pc'[c] = "idle" /\ (d # c => pc'[d] = pc[d])
        BY <1>13, <1>a, <2>3 DEF FinalizePendingRefundSuccess, RefundedStatus
      <3>2. CallKnows(d)' /\ PendingKnows'
        BY <2>0, <2>3, <3>1
      <3>3. plan[c].amount = refundAmount
        BY <1>13, <2>1, <2>3 DEF FinalizePendingRefundSuccess, FinaliserKnows, Finalising
      <3>4. /\ held.refund \in DOMAIN gateway
            /\ gateway[held.refund] = [state |-> "refunded", amount |-> plan[c].amount]
            /\ "refund" \notin doubts => OthersFailed(held.refund)
        BY <1>13, <1>a, <1>c, <2>1, <2>3, <3>3 DEF FinalizePendingRefundSuccess
      <3> QED BY <3>1, <3>2, <3>4
    <2> QED BY <2>2, <2>3
  <1>14. ASSUME NEW c \in Calls, FinalizeRefundFailed(c)
           PROVE CallKnows(d)' /\ PendingKnows' /\ StatusTellsGateway'
    <2>0. order.status # "REFUNDING" => pc[d] \notin Claimed
      BY Unclaimed
    <2>1. CallKnows(c) /\ FinaliserKnows(c)
      BY DEF GatewayKnown, PendingOnce
    <2> QED BY <1>14, <2>0, <2>1, <1>a DEF FinalizeRefundFailed, CanFailPending
  <1>15. ASSUME NEW c \in Calls, StrandDeduction(c)
           PROVE CallKnows(d)' /\ PendingKnows' /\ StatusTellsGateway'
    <2>0. order.status # "REFUNDING" => pc[d] \notin Claimed
      BY Unclaimed
    <2>1. CallKnows(c) /\ FinaliserKnows(c)
      BY DEF GatewayKnown, PendingOnce
    <2> QED BY <1>15, <2>0, <2>1, <1>a DEF StrandDeduction, CanFailPending
  <1>16. ASSUME NEW c \in Calls, StepFails(c)
           PROVE CallKnows(d)' /\ PendingKnows' /\ StatusTellsGateway'
    BY <1>16, <1>a DEF StepFails, OnError
  <1>17. ASSUME NEW c \in Calls, Die(c)
           PROVE CallKnows(d)' /\ PendingKnows' /\ StatusTellsGateway'
    BY <1>17, <1>a DEF Die
  <1>18. CASE RequestRefund
    <2>0. order.status # "REFUNDING" => pc[d] \notin Claimed
      BY Unclaimed
    <2> QED BY <1>18, <2>0, <1>a DEF RequestRefund
  <1>19. CASE GatewaySettles
    BY <1>19, <1>a DEF GatewaySettles
  <1>20. CASE Spend
    BY <1>20, <1>a DEF Spend
  <1>21. CASE TopUp
    BY <1>21, <1>a DEF TopUp
  <1>22. CASE UNCHANGED vars
    BY <1>22, <1>a DEF vars
  <1> QED
    BY <1>1, <1>2, <1>3, <1>4, <1>5, <1>6, <1>7, <1>8, <1>9, <1>10,
       <1>11, <1>12, <1>13, <1>14, <1>15, <1>16, <1>17, <1>18, <1>19, <1>20,
       <1>21, <1>22
    DEF Next, Call

\* Whoever takes or returns says so.
LEMMA DeductionStep ==
  ASSUME TypeOK, OneRefunder, PendingOnce, DeductionKnown, NEW d \in Calls, [Next]_vars
  PROVE  CallTook(d)' /\ OrderTook'
  <1> USE DEF Goto, Fault, Doubt, NoFault, row, money, trail, SetRefund, Write,
      CallTook, OrderTook, Told, Claimed, Refundable, Refunded, Take, Return
  <1>a. /\ pc \in [Calls -> Labels] /\ plan \in [Calls -> RefundPlan] /\ taken \in Nat
        /\ CallTook(d) /\ OrderTook /\ FinaliserKnows(d) /\ PendingIsAudited
    BY DEF TypeOK, DeductionKnown, PendingOnce
  <1>b. \A c \in Calls : plan[c].deduct \in Nat
    BY <1>a, RefundAssumption DEF RefundPlan
  <1>1. ASSUME NEW c \in Calls, PrepareRefund(c) PROVE CallTook(d)' /\ OrderTook'
    BY <1>1, <1>a DEF PrepareRefund
  <1>2. ASSUME NEW c \in Calls, ClaimRefund(c) PROVE CallTook(d)' /\ OrderTook'
    <2>0. order.status # "REFUNDING" => pc[d] \notin Claimed
      BY Unclaimed
    <2>1. /\ order.status \in Refundable => order'.status = "REFUNDING"
          /\ UNCHANGED <<taken, audits, doubts, held>> /\ (d # c => pc'[d] = pc[d])
          /\ order.status \notin Refundable => order' = order /\ pc'[c] = "idle"
      BY <1>2, <1>a DEF ClaimRefund
    <2>2. /\ pc'[c] \in {"idle", "deduct", "gateway"}
          /\ pc'[c] = "gateway" => ~(plan[c].deduct > 0) /\ plan' = plan
      BY <1>2, <1>a DEF ClaimRefund
    <2>3. OrderTook'
      BY <1>a, <2>1
    <2>4. CASE order.status \notin Refundable
      BY <1>a, <2>1, <2>4, <1>2 DEF ClaimRefund
    <2>5. CASE order.status \in Refundable /\ d = c
      BY <1>a, <1>b, <2>1, <2>2, <2>5
    <2>6. CASE order.status \in Refundable /\ d # c
      BY <2>0, <2>1, <2>6
    <2> QED BY <2>3, <2>4, <2>5, <2>6
  <1>3. ASSUME NEW c \in Calls, Deduct(c) PROVE CallTook(d)' /\ OrderTook'
    <2>0. order.status = "REFUNDING" /\ (d # c => pc[d] \notin Claimed)
      BY <1>3, Alone DEF Deduct
    <2>1. CallTook(c) /\ FinaliserKnows(c)
      BY DEF DeductionKnown, PendingOnce
    <2>2. /\ UNCHANGED <<order, held, audits>> /\ (d # c => pc'[d] = pc[d])
          /\ pc'[c] \in {"gateway", "restore"}
      BY <1>3, <1>a DEF Deduct
    <2>3. Told' /\ Told => pc'[c] = "gateway" /\ taken' = taken + plan'[c].deduct
      BY <1>3, <1>a DEF Deduct, RefundPlan
    <2>4. Told' => Told
      BY <1>3, <2>2 DEF Deduct
    <2>5. Told => taken = 0
      BY <1>3, <2>1 DEF Deduct
    <2>6. Told' => plan'[c].deduct \in Int
      BY <1>3, <1>a, <1>b, <2>2, <2>3 DEF Deduct, Available, TypeOK, RefundPlan
    <2>7. OrderTook'
      BY <2>0, <2>2
    <2> QED BY <2>0, <2>2, <2>3, <2>4, <2>5, <2>6, <2>7
  <1>4. ASSUME NEW c \in Calls, GatewayRefund(c) PROVE CallTook(d)' /\ OrderTook'
    BY <1>4, <1>a DEF GatewayRefund
  <1>5. ASSUME NEW c \in Calls, MarkRefundOk(c) PROVE CallTook(d)' /\ OrderTook'
    <2>0. order.status = "REFUNDING" /\ (d # c => pc[d] \notin Claimed)
      BY <1>5, Alone DEF MarkRefundOk
    <2>1. CallTook(c) /\ FinaliserKnows(c)
      BY DEF DeductionKnown, PendingOnce
    <2> QED BY <1>5, <2>0, <2>1, <1>a DEF MarkRefundOk, RefundedStatus
  <1>6. ASSUME NEW c \in Calls, MarkRefundPending(c) PROVE CallTook(d)' /\ OrderTook'
    <2>0. order.status = "REFUNDING" /\ (d # c => pc[d] \notin Claimed)
      BY <1>6, Alone DEF MarkRefundPending
    <2>1. CallTook(c) /\ FinaliserKnows(c)
      BY DEF DeductionKnown, PendingOnce
    <2> QED BY <1>6, <2>0, <2>1, <1>a DEF MarkRefundPending, FinaliserKnows, Finalising
  <1>7. ASSUME NEW c \in Calls, RollbackRefund(c) PROVE CallTook(d)' /\ OrderTook'
    <2>0. order.status = "REFUNDING" /\ (d # c => pc[d] \notin Claimed)
      BY <1>7, Alone DEF RollbackRefund
    <2>1. CallTook(c) /\ FinaliserKnows(c)
      BY DEF DeductionKnown, PendingOnce
    <2> QED BY <1>7, <2>0, <2>1, <1>a DEF RollbackRefund
  <1>8. ASSUME NEW c \in Calls, MarkRollbackFailed(c) PROVE CallTook(d)' /\ OrderTook'
    <2>0. order.status = "REFUNDING" /\ (d # c => pc[d] \notin Claimed)
      BY <1>8, Alone DEF MarkRollbackFailed
    <2>1. CallTook(c) /\ FinaliserKnows(c)
      BY DEF DeductionKnown, PendingOnce
    <2> QED BY <1>8, <2>0, <2>1, <1>a DEF MarkRollbackFailed
  <1>9. ASSUME NEW c \in Calls, FailRefund(c) PROVE CallTook(d)' /\ OrderTook'
    <2>0. order.status = "REFUNDING" /\ (d # c => pc[d] \notin Claimed)
      BY <1>9, Alone DEF FailRefund
    <2>1. CallTook(c) /\ FinaliserKnows(c)
      BY DEF DeductionKnown, PendingOnce
    <2> QED BY <1>9, <2>0, <2>1, <1>a DEF FailRefund
  <1>10. ASSUME NEW c \in Calls, LogRefundFailed(c) PROVE CallTook(d)' /\ OrderTook'
    BY <1>10, <1>a DEF LogRefundFailed
  <1>11. ASSUME NEW c \in Calls, RestoreStatus(c) PROVE CallTook(d)' /\ OrderTook'
    <2>0. order.status = "REFUNDING" /\ (d # c => pc[d] \notin Claimed)
      BY <1>11, Alone DEF RestoreStatus
    <2>1. CallTook(c) /\ FinaliserKnows(c)
      BY DEF DeductionKnown, PendingOnce
    <2> QED BY <1>11, <2>0, <2>1, <1>a DEF RestoreStatus
  <1>12. ASSUME NEW c \in Calls, QueryAndFinalizeRefund(c)
           PROVE CallTook(d)' /\ OrderTook'
    BY <1>12, <1>a DEF QueryAndFinalizeRefund, AfterQuery
  <1>13. ASSUME NEW c \in Calls, FinalizePendingRefundSuccess(c)
           PROVE CallTook(d)' /\ OrderTook'
    <2>0. order.status # "REFUNDING" => pc[d] \notin Claimed
      BY Unclaimed
    <2>1. CallTook(c) /\ FinaliserKnows(c)
      BY DEF DeductionKnown, PendingOnce
    <2> QED BY <1>13, <2>0, <2>1, <1>a DEF FinalizePendingRefundSuccess, RefundedStatus
  <1>14. ASSUME NEW c \in Calls, FinalizeRefundFailed(c) PROVE CallTook(d)' /\ OrderTook'
    <2>0. order.status # "REFUNDING" => pc[d] \notin Claimed
      BY Unclaimed
    <2>1. CallTook(c) /\ FinaliserKnows(c)
      BY DEF DeductionKnown, PendingOnce
    <2> QED BY <1>14, <2>0, <2>1, <1>a DEF FinalizeRefundFailed, CanFailPending,
        FinaliserKnows, Finalising
  <1>15. ASSUME NEW c \in Calls, StrandDeduction(c) PROVE CallTook(d)' /\ OrderTook'
    <2>0. order.status # "REFUNDING" => pc[d] \notin Claimed
      BY Unclaimed
    <2>1. CallTook(c) /\ FinaliserKnows(c)
      BY DEF DeductionKnown, PendingOnce
    <2> QED BY <1>15, <2>0, <2>1, <1>a DEF StrandDeduction, CanFailPending
  <1>16. ASSUME NEW c \in Calls, StepFails(c) PROVE CallTook(d)' /\ OrderTook'
    BY <1>16, <1>a DEF StepFails, OnError
  <1>17. ASSUME NEW c \in Calls, Die(c) PROVE CallTook(d)' /\ OrderTook'
    BY <1>17, <1>a DEF Die
  <1>18. CASE RequestRefund
    <2>0. order.status # "REFUNDING" => pc[d] \notin Claimed
      BY Unclaimed
    <2> QED BY <1>18, <2>0, <1>a DEF RequestRefund
  <1>19. CASE GatewaySettles
    BY <1>19, <1>a DEF GatewaySettles
  <1>20. CASE Spend
    BY <1>20, <1>a DEF Spend
  <1>21. CASE TopUp
    BY <1>21, <1>a DEF TopUp
  <1>22. CASE UNCHANGED vars
    BY <1>22, <1>a DEF vars
  <1> QED
    BY <1>1, <1>2, <1>3, <1>4, <1>5, <1>6, <1>7, <1>8, <1>9, <1>10,
       <1>11, <1>12, <1>13, <1>14, <1>15, <1>16, <1>17, <1>18, <1>19, <1>20,
       <1>21, <1>22
    DEF Next, Call

\* Every write of the status is a step of a refund.
LEMMA MovesStep ==
  ASSUME TypeOK, OneRefunder, [Next]_vars
  PROVE  order'.status \in RefundSteps(order.status) \union {order.status}
  <1> USE DEF Goto, Fault, Doubt, NoFault, row, money, trail, SetRefund, Write,
      Claimed, Refundable, Refunded, RefundSteps
  <1>1. ASSUME NEW c \in Calls, PrepareRefund(c)
           PROVE order'.status \in RefundSteps(order.status) \union {order.status}
    BY <1>1 DEF PrepareRefund
  <1>2. ASSUME NEW c \in Calls, ClaimRefund(c)
           PROVE order'.status \in RefundSteps(order.status) \union {order.status}
    BY <1>2 DEF ClaimRefund
  <1>3. ASSUME NEW c \in Calls, Deduct(c)
           PROVE order'.status \in RefundSteps(order.status) \union {order.status}
    BY <1>3 DEF Deduct
  <1>4. ASSUME NEW c \in Calls, GatewayRefund(c)
           PROVE order'.status \in RefundSteps(order.status) \union {order.status}
    BY <1>4 DEF GatewayRefund
  <1>5. ASSUME NEW c \in Calls, MarkRefundOk(c)
           PROVE order'.status \in RefundSteps(order.status) \union {order.status}
    <2>0. order.status = "REFUNDING"
      BY <1>5, Alone DEF MarkRefundOk
    <2> QED BY <1>5, <2>0 DEF MarkRefundOk, RefundedStatus
  <1>6. ASSUME NEW c \in Calls, MarkRefundPending(c)
           PROVE order'.status \in RefundSteps(order.status) \union {order.status}
    <2>0. order.status = "REFUNDING"
      BY <1>6, Alone DEF MarkRefundPending
    <2> QED BY <1>6, <2>0 DEF MarkRefundPending
  <1>7. ASSUME NEW c \in Calls, RollbackRefund(c)
           PROVE order'.status \in RefundSteps(order.status) \union {order.status}
    BY <1>7 DEF RollbackRefund
  <1>8. ASSUME NEW c \in Calls, MarkRollbackFailed(c)
           PROVE order'.status \in RefundSteps(order.status) \union {order.status}
    BY <1>8 DEF MarkRollbackFailed
  <1>9. ASSUME NEW c \in Calls, FailRefund(c)
           PROVE order'.status \in RefundSteps(order.status) \union {order.status}
    <2>0. order.status = "REFUNDING"
      BY <1>9, Alone DEF FailRefund
    <2> QED BY <1>9, <2>0 DEF FailRefund
  <1>10. ASSUME NEW c \in Calls, LogRefundFailed(c)
           PROVE order'.status \in RefundSteps(order.status) \union {order.status}
    BY <1>10 DEF LogRefundFailed
  <1>11. ASSUME NEW c \in Calls, RestoreStatus(c)
           PROVE order'.status \in RefundSteps(order.status) \union {order.status}
    <2>0. order.status = "REFUNDING"
      BY <1>11, Alone DEF RestoreStatus
    <2> QED BY <1>11, <2>0 DEF RestoreStatus
  <1>12. ASSUME NEW c \in Calls, QueryAndFinalizeRefund(c)
           PROVE order'.status \in RefundSteps(order.status) \union {order.status}
    BY <1>12 DEF QueryAndFinalizeRefund, AfterQuery
  <1>13. ASSUME NEW c \in Calls, FinalizePendingRefundSuccess(c)
           PROVE order'.status \in RefundSteps(order.status) \union {order.status}
    BY <1>13 DEF FinalizePendingRefundSuccess, RefundedStatus, Refunded
  <1>14. ASSUME NEW c \in Calls, FinalizeRefundFailed(c)
           PROVE order'.status \in RefundSteps(order.status) \union {order.status}
    BY <1>14 DEF FinalizeRefundFailed, CanFailPending
  <1>15. ASSUME NEW c \in Calls, StrandDeduction(c)
           PROVE order'.status \in RefundSteps(order.status) \union {order.status}
    BY <1>15 DEF StrandDeduction, CanFailPending
  <1>16. ASSUME NEW c \in Calls, StepFails(c)
           PROVE order'.status \in RefundSteps(order.status) \union {order.status}
    BY <1>16 DEF StepFails
  <1>17. ASSUME NEW c \in Calls, Die(c)
           PROVE order'.status \in RefundSteps(order.status) \union {order.status}
    BY <1>17 DEF Die
  <1>18. CASE RequestRefund
    BY <1>18 DEF RequestRefund
  <1>19. CASE GatewaySettles
    BY <1>19 DEF GatewaySettles
  <1>20. CASE Spend
    BY <1>20 DEF Spend
  <1>21. CASE TopUp
    BY <1>21 DEF TopUp
  <1>22. CASE UNCHANGED vars
    BY <1>22 DEF vars
  <1> QED
    BY <1>1, <1>2, <1>3, <1>4, <1>5, <1>6, <1>7, <1>8, <1>9, <1>10,
       <1>11, <1>12, <1>13, <1>14, <1>15, <1>16, <1>17, <1>18, <1>19, <1>20,
       <1>21, <1>22
    DEF Next, Call

\* The invariant holds at first.
LEMMA InitInv == Init => Inv
  <1> SUFFICES ASSUME Init PROVE Inv
    OBVIOUS
  <1>1. NoPlan \in RefundPlan
    BY RefundAssumption DEF NoPlan, RefundPlan, Statuses, Settled
  <1>2. TypeOK
    <2>1. /\ order \in Order /\ order.status \in Settled
      BY DEF Init, Order, Statuses, Settled
    <2>2. balance \in Int /\ taken \in Nat /\ refundAmount \in 0..Amount /\ faults \in 0..MaxFaults
      BY RefundAssumption DEF Init
    <2>3. gateway \in Seq([state : {"pending", "refunded", "failed"}, amount : 1..Amount])
      BY DEF Init
    <2>4. held \in [refund : Nat, deduct : 0..Amount]
      BY RefundAssumption DEF Init
    <2>5. pc \in [Calls -> Labels] /\ plan \in [Calls -> RefundPlan]
      BY <1>1 DEF Init, Labels
    <2> QED BY <2>1, <2>2, <2>3, <2>4, <2>5 DEF TypeOK, Init
  <1>3. \A c \in Calls : pc[c] = "idle"
    BY DEF Init
  <1>4. OneRefunder /\ Covered /\ PendingOnce
    BY <1>3
    DEF Init, OneRefunder, Claimed, Covered, CoveredBy, PendingCovered, Working,
        PendingOnce,
        PendingIsAudited, FinaliserKnows, Finalising
  <1>5. GatewayKnown /\ StatusTellsGateway
    BY <1>3
    DEF Init, GatewayKnown, CallKnows, PendingKnows, StatusTellsGateway, Refunded
  <1>6. DeductionKnown
    BY <1>3 DEF Init, DeductionKnown, CallTook, OrderTook
  <1> QED BY <1>2, <1>4, <1>5, <1>6 DEF Inv

\* And it holds for ever.
THEOREM Invariance == Spec => []Inv
  <1>1. Inv /\ [Next]_vars => Inv'
    <2> SUFFICES ASSUME Inv, [Next]_vars PROVE Inv'
      OBVIOUS
    <2> USE DEF Inv
    <2>1. TypeOK' /\ OneRefunder'
      BY TypeStep, OneRefunderStep
    <2>2. PendingCovered' /\ \A d \in Calls : CoveredBy(d)'
      BY CoveredStep, RefundAssumption
    <2>3. PendingIsAudited' /\ \A d \in Calls : FinaliserKnows(d)'
      BY PendingOnceStep, RefundAssumption
    <2>4. PendingKnows' /\ StatusTellsGateway' /\ \A d \in Calls : CallKnows(d)'
      BY GatewayStep, RefundAssumption
    <2>5. OrderTook' /\ \A d \in Calls : CallTook(d)'
      BY DeductionStep, RefundAssumption
    <2> QED
      BY <2>1, <2>2, <2>3, <2>4, <2>5 DEF Covered, PendingOnce, GatewayKnown,
          DeductionKnown
  <1> QED
    BY InitInv, <1>1, PTL DEF Spec

-----------------------------------------------------------------------------
\* The variables keep their types: nothing is returned that was not taken.
THEOREM RefundTypeCorrect == Spec => []TypeOK
  BY Invariance, PTL DEF Inv

\* The conditional claim gives one call the order, until its last write.
THEOREM ClaimIsExclusive == Spec => []OneRefunder
  BY Invariance, PTL DEF Inv

\* What a refund took is never taken twice nor forgotten, whatever fails and
\* whoever dies, unless the program was told wrongly what it took.
THEOREM NothingTakenIsForgotten == Spec => []DeductionIsAccounted
  <1>1. Inv => DeductionIsAccounted
    BY DEF Inv, TypeOK, DeductionKnown, OrderTook, Told, DeductionIsAccounted, Settled,
           RefundStatuses, Refundable
  <1> QED BY <1>1, Invariance, PTL

\* The status of the order says what the provider did with the money.
THEOREM OrderTellsGateway == Spec => []StatusTellsGateway
  BY Invariance, PTL DEF Inv

\* The status moves as the fulfilment expects, so that its model of a refund
\* is one of every refund.
THEOREM RefundMoves == Spec => MovesAsRefund
  <1>1. Inv /\ [Next]_vars =>
          [order'.status \in RefundSteps(order.status) \union {order.status}]_vars
    BY MovesStep DEF Inv
  <1> QED BY <1>1, Invariance, PTL DEF Spec, MovesAsRefund

===============================================================================
