---------------------------- MODULE BatchImageHold ----------------------------
(* What the pipeline promises about the money of a batch image job: a hold   *)
(* is taken once and closed once, either by a charge that is covered by it   *)
(* or by a full refund, so that the pool of frozen money is the sum of what  *)
(* is held.  Only a job whose settlement was given up may be closed a second *)
(* time, the other way round and once: it then draws on what the other jobs  *)
(* of the user froze.                                                        *)
EXTENDS Integers

CONSTANTS Jobs, Hold,
          Unsure        \* jobs of which nothing better is promised

VARIABLES phase,        \* phase[j] \in {"none", "held", "charged", "refunded", "both"}
          pool,         \* the frozen money
          earned,       \* what was charged
          givenUp       \* the jobs whose settlement was given up

holdVars == <<phase, pool, earned, givenUp>>

Init ==
    /\ phase = [j \in Jobs |-> "none"]
    /\ pool = 0
    /\ earned = 0
    /\ givenUp = Unsure

To(j, from, to) == phase[j] = from /\ phase' = [phase EXCEPT ![j] = to]

Take(j) ==
    /\ To(j, "none", "held")
    /\ pool' = pool + Hold[j]
    /\ UNCHANGED <<earned, givenUp>>

Charge(j) ==
    /\ To(j, "held", "charged")
    /\ pool' = pool - Hold[j]
    /\ earned' \in earned..(earned + Hold[j])
    /\ UNCHANGED givenUp

Refund(j) ==
    /\ To(j, "held", "refunded")
    /\ pool' = pool - Hold[j]
    /\ UNCHANGED <<earned, givenUp>>

GiveUp(j) ==
    /\ givenUp' = givenUp \union {j}
    /\ UNCHANGED <<phase, pool, earned>>

RefundCharged(j) ==
    /\ j \in givenUp
    /\ To(j, "charged", "both")
    /\ pool >= Hold[j] /\ pool' = pool - Hold[j]
    /\ UNCHANGED <<earned, givenUp>>

ChargeRefunded(j) ==
    /\ j \in givenUp
    /\ To(j, "refunded", "both")
    /\ pool >= Hold[j] /\ pool' = pool - Hold[j]
    /\ earned' \in earned..(earned + Hold[j])
    /\ UNCHANGED givenUp

Next == \E j \in Jobs :
    Take(j) \/ Charge(j) \/ Refund(j) \/ GiveUp(j) \/ RefundCharged(j) \/ ChargeRefunded(j)

Spec == Init /\ [][Next]_holdVars
=============================================================================
