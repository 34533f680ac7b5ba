------------------------------ MODULE AuditLog ------------------------------
(***************************************************************************)
(* What the remediation audit log promises a reader of                     *)
(* GET /api/v1/remediation-actions, whoever writes the table: a decision   *)
(* is recorded once, as dispatched or as blocked; a dispatched action is   *)
(* settled once it is answered or given up; only what is blocked or        *)
(* settled may be pruned, and nothing comes back.                          *)
(*                                                                         *)
(* RemediationDispatch, which models the writers of a dispatched row in    *)
(* detail, implements this specification.                                  *)
(***************************************************************************)
CONSTANT Entries

VARIABLE log      \* the status of each entry; "none" before it is recorded

Init == log = [e \in Entries |-> "none"]

(* The entries of "batch" move on together, the others keep their status. *)
Moves(batch, from, to) ==
  /\ \A e \in batch : log[e] \in from
  /\ log' = [e \in Entries |-> IF e \in batch THEN to ELSE log[e]]

Record(batch) ==
  \/ Moves(batch, {"none"}, "dispatched")
  \/ Moves(batch, {"none"}, "blocked")

Settle(batch) == Moves(batch, {"dispatched"}, "settled")

Prune(batch) == Moves(batch, {"blocked", "settled"}, "gone")

Next == \E batch \in SUBSET Entries : Record(batch) \/ Settle(batch) \/ Prune(batch)

Spec == Init /\ [][Next]_log
=============================================================================
