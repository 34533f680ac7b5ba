---------------------------- MODULE AlertStages -----------------------------
(***************************************************************************)
(* What the alert lifecycle promises an operator, without rows, requests   *)
(* or transactions: each rule on each node is a condition that is closed   *)
(* or open, an open one is escalated before it is remediated, is           *)
(* remediated once, and closes from any stage.                             *)
(*                                                                         *)
(* AlertLifecycle implements this when requests of one node do not         *)
(* overlap.                                                                *)
(***************************************************************************)
CONSTANT Conditions

VARIABLE stage

Init == stage = [c \in Conditions |-> "closed"]

Moves(c, from, to) ==
  /\ stage[c] \in from /\ stage'[c] = to
  /\ \A d \in Conditions \ {c} : stage'[d] = stage[d]

Open(c) == Moves(c, {"closed"}, "open")

Escalate(c) == Moves(c, {"open"}, "escalated")

Remediate(c) == Moves(c, {"escalated"}, "remediated")

Resolve(c) == Moves(c, {"open", "escalated", "remediated"}, "closed")

Next ==
  \E c \in Conditions :
    /\ stage'[c] # stage[c]           \* always so; spares TLC the other disjuncts
    /\ Open(c) \/ Escalate(c) \/ Remediate(c) \/ Resolve(c)

Spec == Init /\ [][Next]_stage
=============================================================================
