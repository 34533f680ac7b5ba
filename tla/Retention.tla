----------------------------- MODULE Retention ------------------------------
(***************************************************************************)
(* RetentionJob: the sweep that prunes the audit log, then the alerts,     *)
(* then the samples, each in batches that are transactions of their own,   *)
(* while the request path keeps opening and resolving alerts, recording    *)
(* actions and reporting their results.                                    *)
(*                                                                         *)
(* resolved_at and created_at are a payload's collected_at, so a buffered  *)
(* payload writes rows that are old already; received_at is the            *)
(* Collector's own clock.  The schema's foreign keys keep the request path *)
(* from referring to a row that is gone.                                   *)
(***************************************************************************)
EXTENDS Integers, FiniteSets

CONSTANTS
  AlertIds, ActionIds, SampleIds,    \* bound the rows of the three tables
  AlertRetention, ActionRetention, SampleRetention,
  BatchSize,                         \* retention_batch_size
  Cooldown,                          \* remediation_cooldown_seconds
  MaxTime                            \* bounds the clock

(* CollectorSettings' field bounds and its retention validator. *)
ASSUME RetentionAssumption ==
  /\ AlertRetention \in Nat \ {0} /\ SampleRetention \in Nat \ {0}
  /\ ActionRetention \in Nat /\ ActionRetention >= AlertRetention
  /\ BatchSize \in Nat \ {0} /\ Cooldown \in Nat /\ MaxTime \in Nat

VARIABLES
  now,         \* the Collector's clock
  alerts, actions, samples,
  job,         \* the running sweep; "due" and "old" are history, see SweepPrunes
  ran          \* history: created_at of every action ever dispatched

vars == <<now, alerts, actions, samples, job, ran>>

Times == 0..MaxTime

NoRow == [status |-> "none"]      \* not inserted yet
Gone == [status |-> "gone"]       \* deleted; a serial id is never used again

AlertRow == [status : {"firing", "resolved"}, at : Times]      \* at: resolved_at
ActionRow ==
  [status : {"dispatched", "blocked", "settled"}, alert : AlertIds, at : Times]
SampleRow == [status : {"stored"}, at : Times]                 \* at: received_at

Present(row) == row \notin {NoRow, Gone}

NoSweep == [pc |-> "idle", at |-> 0, due |-> {}, old |-> {}]

Init ==
  /\ now = 0
  /\ alerts = [i \in AlertIds |-> NoRow]
  /\ actions = [a \in ActionIds |-> NoRow]
  /\ samples = [s \in SampleIds |-> NoRow]
  /\ job = NoSweep
  /\ ran = {}

-----------------------------------------------------------------------------
(* The request path, as far as it writes what a sweep reads *)

Tick ==
  /\ now < MaxTime
  /\ now' = now + 1
  /\ UNCHANGED <<alerts, actions, samples, job, ran>>

CreateAlert(i) ==
  /\ alerts[i] = NoRow
  /\ alerts' = [alerts EXCEPT ![i] = [status |-> "firing", at |-> 0]]
  /\ UNCHANGED <<now, actions, samples, job, ran>>

ResolveAlert(i, t) ==
  /\ alerts[i].status = "firing" /\ t <= now
  /\ alerts' = [alerts EXCEPT ![i] = [status |-> "resolved", at |-> t]]
  /\ UNCHANGED <<now, actions, samples, job, ran>>

(* find_last_action: the latest row still in the table decides. *)
OnCooldown(t) == \E a \in ActionIds : Present(actions[a]) /\ t - actions[a].at < Cooldown

(* RemediationEngine.decide for the one node and playbook of this model; a  *)
(* payload may also be blocked by the hourly limit.  A request that read    *)
(* its alert as firing may insert the action when another one has resolved  *)
(* it; only the foreign key counts.                                         *)
CreateAction(a, i, t, status) ==
  /\ actions[a] = NoRow /\ t <= now
  /\ Present(alerts[i])
  /\ status = "dispatched" => ~OnCooldown(t)
  /\ actions' = [actions EXCEPT ![a] = [status |-> status, alert |-> i, at |-> t]]
  /\ ran' = IF status = "dispatched" THEN ran \cup {t} ELSE ran
  /\ UNCHANGED <<now, alerts, samples, job>>

MarkResult(a) ==
  /\ actions[a].status = "dispatched"
  /\ actions' = [actions EXCEPT ![a].status = "settled"]
  /\ UNCHANGED <<now, alerts, samples, job, ran>>

InsertSample(s) ==
  /\ samples[s] = NoRow
  /\ samples' = [samples EXCEPT ![s] = [status |-> "stored", at |-> now]]
  /\ UNCHANGED <<now, alerts, actions, job, ran>>

-----------------------------------------------------------------------------
(* The sweep *)

Referenced(i) == \E a \in ActionIds : Present(actions[a]) /\ actions[a].alert = i

(* Mutants: DISPATCHED rows are pruned by age too; the window is forgotten. *)
OldActions(at) ==
  {a \in ActionIds : Present(actions[a]) /\ actions[a].at < at - ActionRetention}

EarlierActions(at) ==
  {a \in ActionIds : Present(actions[a]) /\ actions[a].status # "dispatched" /\ actions[a].at < at}

ExpiredActions(at) ==
  {a \in ActionIds : /\ Present(actions[a]) /\ actions[a].status # "dispatched"
                     /\ actions[a].at < at - ActionRetention}

(* Mutant: the query does not skip referenced alerts. *)
OldAlerts(at) ==
  {i \in AlertIds : alerts[i].status = "resolved" /\ alerts[i].at < at - AlertRetention}

ExpiredAlerts(at) ==
  {i \in AlertIds : /\ alerts[i].status = "resolved"
                    /\ alerts[i].at < at - AlertRetention
                    /\ ~Referenced(i)}

ExpiredSamples(at) ==
  {s \in SampleIds : Present(samples[s]) /\ samples[s].at < at - SampleRetention}

(* What one DELETE ... WHERE id IN (SELECT ... LIMIT n) may remove. *)
Batches(expired) ==
  {b \in SUBSET expired :
     Cardinality(b) = BatchSize \/ (b = expired /\ Cardinality(b) < BatchSize)}

Without(table, batch) == [x \in DOMAIN table |-> IF x \in batch THEN Gone ELSE table[x]]

(* Mutant: each table is pruned by one batch only. *)
DrainedOnce(batch, next) ==
  job' = IF next = "idle" THEN NoSweep ELSE [job EXCEPT !.pc = next]

(* Mutant: the loop does not end. *)
DrainedNever(batch, next) == job' = job

(* _drain ends when a call reports no more rows. *)
Drained(batch, next) ==
  job' = IF batch # {} THEN job
         ELSE IF next = "idle" THEN NoSweep ELSE [job EXCEPT !.pc = next]

(* Alerts this sweep is to remove: they and everything that refers to them  *)
(* have outlived their retention.                                           *)
DueAlerts(at) ==
  {i \in AlertIds :
     /\ alerts[i].status = "resolved" /\ alerts[i].at < at - AlertRetention
     /\ \A a \in ActionIds :
          Present(actions[a]) /\ actions[a].alert = i => a \in ExpiredActions(at)}

StartSweep ==
  /\ job = NoSweep
  /\ job' = [pc |-> "actions", at |-> now, due |-> DueAlerts(now),
             old |-> {a \in ActionIds : Present(actions[a])}]
  /\ UNCHANGED <<now, alerts, actions, samples, ran>>

PruneTerminal ==
  /\ job.pc = "actions"
  /\ \E batch \in Batches(ExpiredActions(job.at)) :
       actions' = Without(actions, batch) /\ Drained(batch, "alerts")
  /\ UNCHANGED <<now, alerts, samples, ran>>

PruneResolved ==
  /\ job.pc = "alerts"
  /\ \E batch \in Batches(ExpiredAlerts(job.at)) :
       alerts' = Without(alerts, batch) /\ Drained(batch, "samples")
  /\ UNCHANGED <<now, actions, samples, ran>>

PruneSamples ==
  /\ job.pc = "samples"
  /\ \E batch \in Batches(ExpiredSamples(job.at)) :
       samples' = Without(samples, batch) /\ Drained(batch, "idle")
  /\ UNCHANGED <<now, alerts, actions, ran>>

(* A batch raises PersistenceError, or the Collector stops mid-run. *)
AbortSweep ==
  /\ job # NoSweep
  /\ job' = NoSweep
  /\ UNCHANGED <<now, alerts, actions, samples, ran>>

Next ==
  \/ Tick
  \/ \E i \in AlertIds : CreateAlert(i) \/ \E t \in Times : ResolveAlert(i, t)
  \/ \E a \in ActionIds, i \in AlertIds, t \in Times :
       \E status \in {"dispatched", "blocked"} : CreateAction(a, i, t, status)
  \/ \E a \in ActionIds : MarkResult(a)
  \/ \E s \in SampleIds : InsertSample(s)
  \/ StartSweep \/ PruneTerminal \/ PruneResolved \/ PruneSamples \/ AbortSweep

Spec == Init /\ [][Next]_vars

(* Time passes and the scheduler keeps starting sweeps.  Any of them may be *)
(* interrupted, but a DELETE that is tried again and again succeeds.        *)
FairSpec ==
  /\ Spec
  /\ WF_vars(Tick) /\ WF_vars(StartSweep)
  /\ SF_vars(PruneTerminal) /\ SF_vars(PruneResolved) /\ SF_vars(PruneSamples)

-----------------------------------------------------------------------------
(* Properties *)

(* The tables and the sweep keep their types. *)
TypeOK ==
  /\ now \in Times
  /\ alerts \in [AlertIds -> AlertRow \cup {NoRow, Gone}]
  /\ actions \in [ActionIds -> ActionRow \cup {NoRow, Gone}]
  /\ samples \in [SampleIds -> SampleRow \cup {NoRow, Gone}]
  /\ job \in [pc : {"idle", "actions", "alerts", "samples"}, at : Times,
              due : SUBSET AlertIds, old : SUBSET ActionIds]
  /\ ran \subseteq Times

(* "FK-safe": no row of the audit log refers to an alert that was pruned,   *)
(* whatever the request path records between two batches.                   *)
NoDanglingAction ==
  \A a \in ActionIds : Present(actions[a]) => Present(alerts[actions[a].alert])

(* Unresolved evidence and live state are never pruned, nor is anything     *)
(* that is still within its retention window.                               *)
OnlyExpiredGoes ==
  [][/\ \A a \in ActionIds : Present(actions[a]) /\ actions'[a] = Gone =>
          actions[a].status # "dispatched" /\ actions[a].at < now - ActionRetention
     /\ \A i \in AlertIds : Present(alerts[i]) /\ alerts'[i] = Gone =>
          alerts[i].status = "resolved" /\ alerts[i].at < now - AlertRetention
     /\ \A s \in SampleIds : Present(samples[s]) /\ samples'[s] = Gone =>
          samples[s].at < now - SampleRetention]_vars

(* The order of the passes: once a sweep is past the alerts, the alerts     *)
(* that had expired together with all their audit rows when it began are    *)
(* gone, unless an action was recorded for one since.                       *)
SweepPrunes ==
  job.pc = "samples" => \A i \in job.due :
    \/ alerts[i] = Gone
    \/ \E a \in ActionIds \ job.old : Present(actions[a]) /\ actions[a].alert = i

(* "An interrupt mid-run loses nothing": however often sweeps are cut       *)
(* short, every expired row goes in the end.                                *)
ExpiredIsPruned ==
  /\ \A a \in ActionIds : (a \in ExpiredActions(now)) ~> (actions[a] = Gone)
  /\ \A i \in AlertIds : (i \in ExpiredAlerts(now)) ~> (alerts[i] = Gone \/ Referenced(i))
  /\ \A s \in SampleIds : (s \in ExpiredSamples(now)) ~> (samples[s] = Gone)

(* Pruning the audit log does not shorten the cooldown: an action of a      *)
(* payload that arrives when it is collected is dispatched Cooldown after   *)
(* every earlier one, pruned or not.  Nothing validates the setting against *)
(* the retention window, so this is all the code can promise.               *)
CooldownSurvivesPruning ==
  [][Cooldown <= ActionRetention =>
       \A a \in ActionIds :
         /\ actions[a] = NoRow /\ actions'[a].status = "dispatched"
         /\ actions'[a].at = now
         => \A t \in ran : now - t >= Cooldown]_vars
=============================================================================
