----------------------------- MODULE PaymentOrder -----------------------------
(* The row of payment_orders that one order is, and the conditions under    *)
(* which the statements of service/payment_*.go update it.                  *)
(*                                                                          *)
(* Every UPDATE sets updated_at (ent/schema/payment_order.go), which the    *)
(* fulfilment uses as the version of its lease and against which five       *)
(* minutes of lease and of grace are measured.  Two times are compared only *)
(* for equality and with "five minutes ago", so the row keeps, in its       *)
(* place, which calls remember the present value and whether it is old.     *)

CONSTANT Calls   \* goroutines at work on the order: requests, webhooks, jobs

Unpaid == {"PENDING", "CANCELLED", "EXPIRED"}
Fulfilling == {"PAID", "RECHARGING", "FAILED"}

\* Wrong variant: a refund that is pending is requested anew.
RefundableAnew == {"COMPLETED", "REFUND_REQUESTED", "REFUND_FAILED", "REFUND_PENDING"}

Refundable == {"COMPLETED", "REFUND_REQUESTED", "REFUND_FAILED"}
Refunded == {"REFUNDED", "PARTIALLY_REFUNDED"}

\* psIsRefundStatus.
RefundStatuses == {"REFUND_REQUESTED", "REFUNDING", "REFUND_PENDING", "REFUND_FAILED"}
                    \union Refunded

Settled == {"COMPLETED"} \union RefundStatuses   \* fulfilled, once and for all
Statuses == Unpaid \union Fulfilling \union Settled

VARIABLE order

Order == [status : Statuses,
          old : BOOLEAN,            \* updated_at is five minutes ago or more
          leases : SUBSET Calls]    \* calls that remember the present updated_at

\* UPDATE payment_orders SET status = s.
Write(s) == order' = [status |-> s, old |-> FALSE, leases |-> {}]

\* A column that is not the status is written.
Touch == Write(order.status)

-----------------------------------------------------------------------------
\* toPaid.
Payable ==
    \/ order.status \in {"PENDING", "CANCELLED"}
    \/ order.status = "EXPIRED" /\ ~order.old

\* Wrong variant: a lease does not lapse.
LeasableOnce == order.status \in {"PAID", "FAILED"}

\* acquirePaymentFulfillmentLease.
Leasable ==
    \/ order.status \in {"PAID", "FAILED"}
    \/ order.status = "RECHARGING" /\ order.old

\* markCompleted and markFailed: nobody wrote since the call read its lease.
Owned(c) == order.status = "RECHARGING" /\ c \in order.leases

\* What a refund does to the status, in one step; see PaymentRefund.
RefundSteps(s) ==
    CASE s = "COMPLETED"        -> {"REFUND_REQUESTED", "REFUNDING"}
      [] s = "REFUND_REQUESTED" -> {"REFUNDING"}
      [] s = "REFUND_FAILED"    -> {"REFUNDING"}
      [] s = "REFUNDING"        -> Refunded \union Refundable \union {"REFUND_PENDING"}
      [] s = "REFUND_PENDING"   -> Refunded \union {"REFUND_FAILED"}
      [] OTHER                  -> {}
=============================================================================
