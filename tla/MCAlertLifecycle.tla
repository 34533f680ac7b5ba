-------------------------- MODULE MCAlertLifecycle --------------------------
(* Instances of AlertLifecycle for TLC. *)
EXTENDS AlertLifecycle, TLC

CONSTANTS r1, r2, p1, p2

MCTimes == 0..2
SparseTimes == {0, 1, 3}

(* One rule, any verdict; several rules, but no payload that clears one rule *)
(* and gives a result for another.                                          *)
AllVerdicts == {v \in (SUBSET Rules) \X (SUBSET Rules) : v[1] \cap v[2] = {}}
PlainVerdicts ==
  {v \in AllVerdicts : v[2] = {} \/ (v[1] = {} /\ Cardinality(v[2]) = 1)}

(* One playbook per rule; one rule only. *)
TwoPlaybooks == (r1 :> p1) @@ (r2 :> p2)
OnePlaybook == r1 :> p1

Symmetry ==
  Permutations(AlertIds) \cup Permutations(ActionIds) \cup Permutations(Workers)

(* Exchanging the two rules together with their playbooks keeps TwoPlaybooks. *)
RuleSymmetry ==
  Symmetry \cup {(r1 :> r2) @@ (r2 :> r1) @@ (p1 :> p2) @@ (p2 :> p1)}
=============================================================================
