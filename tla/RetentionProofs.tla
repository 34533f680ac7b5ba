--------------------------- MODULE RetentionProofs --------------------------
(***************************************************************************)
(* Proofs about Retention, for any number of rows, any retention windows   *)
(* the settings validator accepts, any batch size and any cooldown.        *)
(*                                                                         *)
(* A sweep works with cutoffs computed when it began and with tables that  *)
(* the request path goes on writing.  SweepKnows says, pass by pass, what  *)
(* is still true of the alerts that were due when the sweep began;         *)
(* RanKept says what became of the row of every action ever dispatched.    *)
(***************************************************************************)
EXTENDS Retention, FiniteSetTheorems, TLAPS

(* The clock does not run back, so the sweep's cutoffs lie in the past. *)
SweepBegan == job.at <= now

(* A resolved alert past the cutoff of the running sweep. *)
Outlived(i) == alerts[i].status = "resolved" /\ alerts[i].at < job.at - AlertRetention

(* While actions are pruned, what refers to a due alert is to be pruned or  *)
(* was recorded since; once they are, only the latter refers to it.         *)
SweepKnows ==
  /\ job.pc # "idle" => \A a \in job.old : actions[a] # NoRow
  /\ job.pc = "actions" => \A i \in job.due :
       /\ Outlived(i)
       /\ \A a \in job.old : Present(actions[a]) /\ actions[a].alert = i =>
            a \in ExpiredActions(job.at)
  /\ job.pc = "alerts" => \A i \in job.due :
       /\ alerts[i] = Gone \/ Outlived(i)
       /\ \A a \in job.old : Present(actions[a]) => actions[a].alert # i

(* The row of a dispatched action is in the table, or older than the        *)
(* retention window.                                                        *)
RanKept ==
  \A t \in ran :
    \/ t < now - ActionRetention
    \/ \E a \in ActionIds : Present(actions[a]) /\ actions[a].at = t

IInv ==
  /\ TypeOK
  /\ SweepBegan
  /\ NoDanglingAction
  /\ SweepKnows
  /\ SweepPrunes
  /\ RanKept
-----------------------------------------------------------------------------
(* Rows and batches *)

(* A row of the alerts table, told by its status. *)
LEMMA AlertCases ==
  ASSUME NEW r \in AlertRow \cup {NoRow, Gone}
  PROVE  /\ Present(r) <=> r \in AlertRow
         /\ r \in AlertRow <=> r.status \in {"firing", "resolved"}
         /\ r = NoRow <=> r.status = "none"
         /\ r = Gone <=> r.status = "gone"
BY DEF AlertRow, NoRow, Gone, Present

(* A row of the audit log, told by its status. *)
LEMMA ActionCases ==
  ASSUME NEW r \in ActionRow \cup {NoRow, Gone}
  PROVE  /\ Present(r) <=> r \in ActionRow
         /\ r \in ActionRow <=> r.status \in {"dispatched", "blocked", "settled"}
         /\ r = NoRow <=> r.status = "none"
         /\ r = Gone <=> r.status = "gone"
BY DEF ActionRow, NoRow, Gone, Present

(* The rows that are not there differ from each other and from every row    *)
(* that is inserted or resolved.                                            *)
LEMMA Literals ==
  /\ NoRow # Gone /\ NoRow.status = "none" /\ Gone.status = "gone"
  /\ [status |-> "firing", at |-> 0] # Gone
  /\ \A t : [status |-> "resolved", at |-> t] # Gone
<1>1. NoRow.status = "none" /\ Gone.status = "gone"
  BY DEF NoRow, Gone
<1>2. \A t : [status |-> "resolved", at |-> t].status = "resolved"
  OBVIOUS
<1>3. [status |-> "firing", at |-> 0].status = "firing"
  OBVIOUS
<1> QED BY <1>1, <1>2, <1>3

(* What is past a cutoff stays past it as the clock runs. *)
LEMMA StillPast ==
  ASSUME NEW x \in Int, NEW y \in Int, NEW z \in Int, NEW r \in Int, x < y - r, y <= z
  PROVE  x < z - r
OBVIOUS

(* A batch comes from what is expired, and an empty one means that nothing  *)
(* is: this is what ends _drain.                                            *)
LEMMA BatchFacts ==
  ASSUME NEW expired, NEW batch \in Batches(expired)
  PROVE  batch \subseteq expired /\ (batch = {} => expired = {})
<1>1. Cardinality({}) = 0
  BY FS_EmptySet
<1>2. BatchSize # 0
  BY RetentionAssumption
<1> QED BY <1>1, <1>2 DEF Batches

-----------------------------------------------------------------------------
(* What a step may do to each table and to the sweep *)

(* The audit log: a row is recorded, answered, or pruned once it is expired *)
(* and answered.                                                            *)
LEMMA ActionMoves ==
  ASSUME TypeOK, [Next]_vars, NEW a \in ActionIds
  PROVE  \/ actions'[a] = actions[a]
         \/ /\ actions[a] = NoRow
            /\ \E i \in AlertIds, t \in Times, status \in {"dispatched", "blocked"} :
                 CreateAction(a, i, t, status)
         \/ /\ actions[a].status = "dispatched"
            /\ actions'[a] = [actions[a] EXCEPT !.status = "settled"]
         \/ /\ job.pc = "actions" /\ a \in ExpiredActions(job.at) /\ job'.at = job.at
            /\ actions'[a] = Gone
<1>t. actions \in [ActionIds -> ActionRow \cup {NoRow, Gone}]
  BY DEF TypeOK
<1>1. CASE Tick
  BY <1>1 DEF Tick
<1>2. CASE \E i \in AlertIds : CreateAlert(i) \/ \E t \in Times : ResolveAlert(i, t)
  BY <1>2 DEF CreateAlert, ResolveAlert
<1>3. ASSUME NEW b \in ActionIds, NEW i \in AlertIds, NEW t \in Times,
             NEW status \in {"dispatched", "blocked"}, CreateAction(b, i, t, status)
      PROVE  \/ actions'[a] = actions[a]
             \/ actions[a] = NoRow /\ CreateAction(a, i, t, status)
  <2>1. CASE a = b
    BY <1>3, <2>1 DEF CreateAction
  <2>2. CASE a # b
    BY <1>3, <1>t, <2>2 DEF CreateAction
  <2> QED BY <2>1, <2>2
<1>4. ASSUME NEW b \in ActionIds, MarkResult(b)
      PROVE  \/ actions'[a] = actions[a]
             \/ /\ actions[a].status = "dispatched"
                /\ actions'[a] = [actions[a] EXCEPT !.status = "settled"]
  BY <1>4, <1>t DEF MarkResult
<1>5. CASE \E s \in SampleIds : InsertSample(s)
  BY <1>5 DEF InsertSample
<1>6. CASE StartSweep
  BY <1>6 DEF StartSweep
<1>7. CASE PruneTerminal
  <2>1. PICK batch \in Batches(ExpiredActions(job.at)) :
          actions' = Without(actions, batch) /\ Drained(batch, "alerts")
    BY <1>7 DEF PruneTerminal
  <2>2. batch \subseteq ExpiredActions(job.at)
    BY <2>1, BatchFacts
  <2>3. actions'[a] = IF a \in batch THEN Gone ELSE actions[a]
    BY <2>1, <1>t DEF Without
  <2>4. a \in batch => job' = job
    BY <2>1 DEF Drained
  <2> QED BY <1>7, <2>2, <2>3, <2>4 DEF PruneTerminal
<1>8. CASE PruneResolved \/ PruneSamples
  BY <1>8 DEF PruneResolved, PruneSamples
<1>9. CASE AbortSweep
  BY <1>9 DEF AbortSweep
<1>10. CASE UNCHANGED vars
  BY <1>10 DEF vars
<1> QED
  BY <1>1, <1>2, <1>3, <1>4, <1>5, <1>6, <1>7, <1>8, <1>9, <1>10 DEF Next

(* The alerts: a row is inserted, resolved, or pruned once it is expired    *)
(* and nothing refers to it.                                                *)
LEMMA AlertMoves ==
  ASSUME TypeOK, [Next]_vars, NEW i \in AlertIds
  PROVE  \/ alerts'[i] = alerts[i]
         \/ alerts[i] = NoRow /\ alerts'[i] = [status |-> "firing", at |-> 0]
         \/ /\ alerts[i].status = "firing"
            /\ \E t \in Times : alerts'[i] = [status |-> "resolved", at |-> t]
         \/ /\ job.pc = "alerts" /\ i \in ExpiredAlerts(job.at)
            /\ alerts'[i] = Gone
<1>t. alerts \in [AlertIds -> AlertRow \cup {NoRow, Gone}]
  BY DEF TypeOK
<1>1. CASE Tick
  BY <1>1 DEF Tick
<1>2. ASSUME NEW j \in AlertIds, CreateAlert(j) \/ \E t \in Times : ResolveAlert(j, t)
      PROVE  \/ alerts'[i] = alerts[i]
             \/ alerts[i] = NoRow /\ alerts'[i] = [status |-> "firing", at |-> 0]
             \/ /\ alerts[i].status = "firing"
                /\ \E t \in Times : alerts'[i] = [status |-> "resolved", at |-> t]
  BY <1>2, <1>t DEF CreateAlert, ResolveAlert
<1>3. CASE \E a \in ActionIds, j \in AlertIds, t \in Times :
             \E status \in {"dispatched", "blocked"} : CreateAction(a, j, t, status)
  BY <1>3 DEF CreateAction
<1>4. CASE \E a \in ActionIds : MarkResult(a)
  BY <1>4 DEF MarkResult
<1>5. CASE \E s \in SampleIds : InsertSample(s)
  BY <1>5 DEF InsertSample
<1>6. CASE StartSweep
  BY <1>6 DEF StartSweep
<1>7. CASE PruneResolved
  <2>1. PICK batch \in Batches(ExpiredAlerts(job.at)) : alerts' = Without(alerts, batch)
    BY <1>7 DEF PruneResolved
  <2>2. batch \subseteq ExpiredAlerts(job.at)
    BY <2>1, BatchFacts
  <2>3. alerts'[i] = IF i \in batch THEN Gone ELSE alerts[i]
    BY <2>1, <1>t DEF Without
  <2> QED BY <1>7, <2>2, <2>3 DEF PruneResolved
<1>8. CASE PruneTerminal \/ PruneSamples
  BY <1>8 DEF PruneTerminal, PruneSamples
<1>9. CASE AbortSweep
  BY <1>9 DEF AbortSweep
<1>10. CASE UNCHANGED vars
  BY <1>10 DEF vars
<1> QED
  BY <1>1, <1>2, <1>3, <1>4, <1>5, <1>6, <1>7, <1>8, <1>9, <1>10 DEF Next

(* The samples: a row is inserted, or pruned once it is expired. *)
LEMMA SampleMoves ==
  ASSUME TypeOK, [Next]_vars, NEW x \in SampleIds
  PROVE  \/ samples'[x] = samples[x]
         \/ samples'[x] = [status |-> "stored", at |-> now]
         \/ job.pc = "samples" /\ x \in ExpiredSamples(job.at) /\ samples'[x] = Gone
<1>t. samples \in [SampleIds -> SampleRow \cup {NoRow, Gone}]
  BY DEF TypeOK
<1>1. ASSUME NEW s \in SampleIds, InsertSample(s)
      PROVE  \/ samples'[x] = samples[x]
             \/ samples'[x] = [status |-> "stored", at |-> now]
  BY <1>1, <1>t DEF InsertSample
<1>2. CASE PruneSamples
  <2>1. PICK batch \in Batches(ExpiredSamples(job.at)) : samples' = Without(samples, batch)
    BY <1>2 DEF PruneSamples
  <2>2. batch \subseteq ExpiredSamples(job.at)
    BY <2>1, BatchFacts
  <2>3. samples'[x] = IF x \in batch THEN Gone ELSE samples[x]
    BY <2>1, <1>t DEF Without
  <2> QED BY <1>2, <2>2, <2>3 DEF PruneSamples
<1>3. CASE UNCHANGED samples
  BY <1>3
<1> QED
  BY <1>1, <1>2, <1>3
  DEF Next, Tick, CreateAlert, ResolveAlert, CreateAction, MarkResult, StartSweep,
      PruneTerminal, PruneResolved, AbortSweep, vars

(* The sweep: it begins, stays in its pass, ends, or enters the next pass   *)
(* when its table holds nothing expired; then no table changes.             *)
LEMMA JobMoves ==
  ASSUME TypeOK, [Next]_vars
  PROVE  \/ UNCHANGED job
         \/ StartSweep
         \/ job' = NoSweep
         \/ /\ job.pc = "actions" /\ job' = [job EXCEPT !.pc = "alerts"]
            /\ ExpiredActions(job.at) = {} /\ UNCHANGED <<alerts, actions>>
         \/ /\ job.pc = "alerts" /\ job' = [job EXCEPT !.pc = "samples"]
            /\ ExpiredAlerts(job.at) = {} /\ UNCHANGED <<alerts, actions>>
<1>1. CASE PruneTerminal
  <2>1. PICK batch \in Batches(ExpiredActions(job.at)) :
          actions' = Without(actions, batch) /\ Drained(batch, "alerts")
    BY <1>1 DEF PruneTerminal
  <2>2. CASE batch # {}
    BY <2>1, <2>2 DEF Drained
  <2>3. CASE batch = {}
    <3>1. ExpiredActions(job.at) = {}
      BY <2>1, <2>3, BatchFacts
    <3>2. actions' = actions
      BY <2>1, <2>3 DEF Without, TypeOK
    <3> QED BY <1>1, <2>1, <2>3, <3>1, <3>2 DEF Drained, PruneTerminal
  <2> QED BY <2>2, <2>3
<1>2. CASE PruneResolved
  <2>1. PICK batch \in Batches(ExpiredAlerts(job.at)) :
          alerts' = Without(alerts, batch) /\ Drained(batch, "samples")
    BY <1>2 DEF PruneResolved
  <2>2. CASE batch # {}
    BY <2>1, <2>2 DEF Drained
  <2>3. CASE batch = {}
    <3>1. ExpiredAlerts(job.at) = {}
      BY <2>1, <2>3, BatchFacts
    <3>2. alerts' = alerts
      BY <2>1, <2>3 DEF Without, TypeOK
    <3> QED BY <1>2, <2>1, <2>3, <3>1, <3>2 DEF Drained, PruneResolved
  <2> QED BY <2>2, <2>3
<1>3. CASE PruneSamples
  BY <1>3 DEF PruneSamples, Drained
<1>4. CASE AbortSweep
  BY <1>4 DEF AbortSweep
<1> QED
  BY <1>1, <1>2, <1>3, <1>4
  DEF Next, Tick, CreateAlert, ResolveAlert, CreateAction, MarkResult, InsertSample, vars

(* The clock and the history of dispatches only grow. *)
LEMMA ClockMoves ==
  ASSUME TypeOK, [Next]_vars
  PROVE  now' \in Times /\ now <= now'
BY RetentionAssumption
DEF TypeOK, Times, Next, Tick, CreateAlert, ResolveAlert, CreateAction, MarkResult,
    InsertSample, StartSweep, PruneTerminal, PruneResolved, PruneSamples, AbortSweep, vars

-----------------------------------------------------------------------------
(* Each part of the invariant *)

(* Every step keeps the types. *)
LEMMA TypeKept == TypeOK /\ [Next]_vars => TypeOK'
<1> SUFFICES ASSUME TypeOK, [Next]_vars PROVE TypeOK'
  OBVIOUS
<1> USE RetentionAssumption
<1>1. ASSUME NEW i \in AlertIds PROVE alerts'[i] \in AlertRow \cup {NoRow, Gone}
  <2>1. 0 \in Times /\ alerts[i] \in AlertRow \cup {NoRow, Gone}
    BY DEF TypeOK, Times
  <2>2. /\ [status |-> "firing", at |-> 0] \in AlertRow
        /\ \A t \in Times : [status |-> "resolved", at |-> t] \in AlertRow
    BY <2>1 DEF AlertRow
  <2> QED BY <2>1, <2>2, AlertMoves
<1>2. DOMAIN alerts' = AlertIds /\ alerts' = [i \in AlertIds |-> alerts'[i]]
  BY DEF TypeOK, Next, Tick, CreateAlert, ResolveAlert, CreateAction, MarkResult, InsertSample,
         StartSweep, PruneTerminal, PruneResolved, PruneSamples, AbortSweep, vars, Without
<1>3. alerts' \in [AlertIds -> AlertRow \cup {NoRow, Gone}]
  BY <1>1, <1>2
<1>4. ASSUME NEW a \in ActionIds PROVE actions'[a] \in ActionRow \cup {NoRow, Gone}
  <2>1. actions[a] \in ActionRow \cup {NoRow, Gone}
    BY DEF TypeOK
  <2>2. CASE actions[a].status = "dispatched" /\ actions'[a] = [actions[a] EXCEPT !.status = "settled"]
    <3>1. actions[a] \in ActionRow
      BY <2>1, <2>2, ActionCases
    <3> QED BY <2>2, <3>1 DEF ActionRow
  <2>3. ASSUME NEW i \in AlertIds, NEW t \in Times, NEW status \in {"dispatched", "blocked"},
               CreateAction(a, i, t, status)
        PROVE  actions'[a] \in ActionRow
    BY <2>3 DEF CreateAction, ActionRow, TypeOK
  <2> QED BY <2>1, <2>2, <2>3, ActionMoves
<1>5. DOMAIN actions' = ActionIds /\ actions' = [a \in ActionIds |-> actions'[a]]
  BY DEF TypeOK, Next, Tick, CreateAlert, ResolveAlert, CreateAction, MarkResult, InsertSample,
         StartSweep, PruneTerminal, PruneResolved, PruneSamples, AbortSweep, vars, Without
<1>6. actions' \in [ActionIds -> ActionRow \cup {NoRow, Gone}]
  BY <1>4, <1>5
<1>7. ASSUME NEW s \in SampleIds PROVE samples'[s] \in SampleRow \cup {NoRow, Gone}
  BY SampleMoves DEF TypeOK, SampleRow
<1>8. DOMAIN samples' = SampleIds /\ samples' = [s \in SampleIds |-> samples'[s]]
  BY DEF TypeOK, Next, Tick, CreateAlert, ResolveAlert, CreateAction, MarkResult, InsertSample,
         StartSweep, PruneTerminal, PruneResolved, PruneSamples, AbortSweep, vars, Without
<1>9. samples' \in [SampleIds -> SampleRow \cup {NoRow, Gone}]
  BY <1>7, <1>8
<1>10. job' \in [pc : {"idle", "actions", "alerts", "samples"}, at : Times,
                 due : SUBSET AlertIds, old : SUBSET ActionIds]
  BY JobMoves DEF TypeOK, NoSweep, StartSweep, DueAlerts, Times
<1>11. ran' \subseteq Times
  BY DEF TypeOK, Next, Tick, CreateAlert, ResolveAlert, CreateAction, MarkResult, InsertSample,
         StartSweep, PruneTerminal, PruneResolved, PruneSamples, AbortSweep, vars
<1> QED BY <1>3, <1>6, <1>9, <1>10, <1>11, ClockMoves DEF TypeOK

(* A row that is in the audit log after a step and was before it is the     *)
(* same row, unless it was answered; and a row that was there is gone only  *)
(* if it was expired.                                                       *)
LEMMA ActionRowKept ==
  ASSUME TypeOK, [Next]_vars, NEW a \in ActionIds, Present(actions[a])
  PROVE  \/ actions'[a] = actions[a]
         \/ /\ actions[a].status = "dispatched" /\ Present(actions'[a])
            /\ actions'[a].alert = actions[a].alert /\ actions'[a].at = actions[a].at
         \/ job.pc = "actions" /\ a \in ExpiredActions(job.at) /\ actions'[a] = Gone
<1>1. actions[a] \in ActionRow /\ actions[a] # NoRow
  BY ActionCases DEF TypeOK, Present
<1>2. CASE actions[a].status = "dispatched" /\ actions'[a] = [actions[a] EXCEPT !.status = "settled"]
  <2>1. actions'[a] \in ActionRow
    BY <1>1, <1>2 DEF ActionRow
  <2>2. Present(actions'[a])
    BY <2>1, ActionCases
  <2> QED BY <1>1, <1>2, <2>2 DEF ActionRow
<1> QED BY <1>1, <1>2, ActionMoves

(* The foreign key: what the audit log refers to is in the alerts table. *)
LEMMA NoDanglingKept ==
  ASSUME TypeOK, NoDanglingAction, [Next]_vars
  PROVE  NoDanglingAction'
<1> SUFFICES ASSUME NEW a \in ActionIds, Present(actions'[a])
             PROVE  Present(alerts'[actions'[a].alert])
  BY DEF NoDanglingAction
<1>1. ASSUME NEW i \in AlertIds, Present(alerts[i]), ~(i \in ExpiredAlerts(job.at))
      PROVE  Present(alerts'[i])
  <2>1. alerts[i] \in AlertRow \cup {NoRow, Gone} /\ alerts'[i] \in AlertRow \cup {NoRow, Gone}
    BY TypeKept DEF TypeOK
  <2> QED BY <1>1, <2>1, AlertMoves, AlertCases
<1>2. CASE Present(actions[a])
  <2>1. actions[a] \in ActionRow
    BY <1>2, ActionCases DEF TypeOK
  <2>2. actions[a].alert \in AlertIds /\ Present(alerts[actions[a].alert])
    BY <1>2, <2>1 DEF NoDanglingAction, ActionRow
  <2>3. ~(actions[a].alert \in ExpiredAlerts(job.at))
    BY <1>2 DEF ExpiredAlerts, Referenced
  <2>4. actions'[a].alert = actions[a].alert
    BY <1>2, ActionRowKept DEF Present
  <2> QED BY <1>1, <2>2, <2>3, <2>4
<1>3. CASE ~Present(actions[a])
  <2>1. PICK i \in AlertIds, t \in Times, status \in {"dispatched", "blocked"} :
          CreateAction(a, i, t, status)
    <3>1. actions[a].status # "dispatched"
      BY <1>3, ActionCases DEF TypeOK
    <3> QED BY <1>3, <3>1, ActionMoves DEF Present
  <2>2. actions'[a].alert = i /\ Present(alerts[i]) /\ alerts' = alerts
    BY <2>1 DEF CreateAction, TypeOK
  <2> QED BY <2>2
<1> QED BY <1>2, <1>3

(* A sweep that stays in its pass. *)
LEMMA SweepGoesOn ==
  ASSUME TypeOK, SweepKnows, SweepPrunes, [Next]_vars, UNCHANGED job
  PROVE  SweepKnows' /\ SweepPrunes'
<1>0. job.due \subseteq AlertIds /\ job.old \subseteq ActionIds
  BY DEF TypeOK
<1>1. ASSUME NEW a \in ActionIds, actions[a] # NoRow PROVE actions'[a] # NoRow
  <2>1. CASE Present(actions[a])
    BY <2>1, ActionRowKept DEF Present, NoRow, Gone
  <2>2. CASE actions[a] = Gone
    BY <1>1, <2>2, ActionMoves, Literals
  <2> QED BY <1>1, <2>1, <2>2 DEF Present
<1>2. ASSUME NEW a \in ActionIds, actions[a] # NoRow, Present(actions'[a])
      PROVE  /\ Present(actions[a]) /\ actions'[a].alert = actions[a].alert
             /\ actions[a].status # "dispatched" => actions'[a] = actions[a]
  <2>1. Present(actions[a])
    BY <1>2, ActionMoves, ActionCases DEF TypeOK, Present
  <2> QED BY <1>2, <2>1, ActionRowKept DEF Present
<1>3. ASSUME NEW i \in AlertIds, Outlived(i), job.pc = "actions" PROVE Outlived(i)'
  BY <1>3, AlertMoves DEF Outlived, NoRow
<1>4. ASSUME NEW i \in AlertIds, Outlived(i) PROVE alerts'[i] = Gone \/ Outlived(i)'
  BY <1>4, AlertMoves DEF Outlived, NoRow
<1>5. ASSUME NEW i \in AlertIds, alerts[i] = Gone PROVE alerts'[i] = Gone
  BY <1>5, AlertMoves DEF ExpiredAlerts, NoRow, Gone
<1>6. ASSUME job.pc = "actions", NEW i \in job.due
      PROVE  /\ Outlived(i)'
             /\ \A a \in job.old : Present(actions'[a]) /\ actions'[a].alert = i =>
                  a \in ExpiredActions(job.at)'
  <2>1. Outlived(i)'
    BY <1>0, <1>3, <1>6 DEF SweepKnows
  <2>2. ASSUME NEW a \in job.old, Present(actions'[a]), actions'[a].alert = i
        PROVE  a \in ExpiredActions(job.at)'
    <3>1. a \in ActionIds /\ actions[a] # NoRow
      BY <1>0, <1>6 DEF SweepKnows
    <3>2. Present(actions[a]) /\ actions[a].alert = i
      BY <1>2, <2>2, <3>1
    <3>3. a \in ExpiredActions(job.at)
      BY <1>6, <3>2 DEF SweepKnows
    <3>4. actions'[a] = actions[a]
      BY <1>2, <2>2, <3>1, <3>3 DEF ExpiredActions
    <3> QED BY <3>3, <3>4 DEF ExpiredActions
  <2> QED BY <2>1, <2>2
<1>7. ASSUME job.pc = "alerts", NEW i \in job.due
      PROVE  /\ alerts'[i] = Gone \/ Outlived(i)'
             /\ \A a \in job.old : Present(actions'[a]) => actions'[a].alert # i
  <2>1. alerts'[i] = Gone \/ Outlived(i)'
    BY <1>0, <1>4, <1>5, <1>7 DEF SweepKnows
  <2>2. ASSUME NEW a \in job.old, Present(actions'[a]) PROVE actions'[a].alert # i
    <3>1. a \in ActionIds /\ actions[a] # NoRow
      BY <1>0, <1>7 DEF SweepKnows
    <3>2. Present(actions[a]) /\ actions'[a].alert = actions[a].alert
      BY <1>2, <2>2, <3>1
    <3> QED BY <1>7, <3>2 DEF SweepKnows
  <2> QED BY <2>1, <2>2
<1>8. SweepKnows'
  BY <1>0, <1>1, <1>6, <1>7 DEF SweepKnows
<1>9. ASSUME job.pc = "samples", NEW i \in job.due
      PROVE  \/ alerts'[i] = Gone
             \/ \E a \in ActionIds \ job.old : Present(actions'[a]) /\ actions'[a].alert = i
  <2>1. CASE alerts[i] = Gone
    BY <1>0, <1>5, <2>1
  <2>2. ASSUME NEW a \in ActionIds \ job.old, Present(actions[a]), actions[a].alert = i
        PROVE  Present(actions'[a]) /\ actions'[a].alert = i
    BY <1>9, <2>2, ActionRowKept
  <2> QED BY <1>9, <2>1, <2>2 DEF SweepPrunes
<1>10. SweepPrunes'
  BY <1>9 DEF SweepPrunes
<1> QED BY <1>8, <1>10

(* Every step keeps what the sweep knows. *)
LEMMA SweepKept ==
  ASSUME TypeOK, SweepKnows, SweepPrunes, [Next]_vars
  PROVE  SweepKnows' /\ SweepPrunes'
<1>0. /\ job \in [pc : {"idle", "actions", "alerts", "samples"}, at : Times,
                 due : SUBSET AlertIds, old : SUBSET ActionIds]
  BY DEF TypeOK
<1>1. CASE UNCHANGED job
  BY <1>1, SweepGoesOn
<1>2. CASE StartSweep
  <2>1. /\ job'.pc = "actions" /\ job'.at = now /\ job'.due = DueAlerts(now)
        /\ job'.old = {a \in ActionIds : Present(actions[a])}
        /\ UNCHANGED <<alerts, actions>>
    BY <1>2 DEF StartSweep
  <2>2. \A a \in job'.old : actions'[a] # NoRow
    BY <2>1 DEF Present
  <2>3. ASSUME NEW i \in job'.due
        PROVE  /\ Outlived(i)'
               /\ \A a \in job'.old : Present(actions'[a]) /\ actions'[a].alert = i =>
                    a \in ExpiredActions(job.at)'
    BY <2>1, <2>3 DEF DueAlerts, Outlived, ExpiredActions
  <2> QED BY <2>1, <2>2, <2>3 DEF SweepKnows, SweepPrunes
<1>3. CASE job' = NoSweep
  BY <1>3 DEF NoSweep, SweepKnows, SweepPrunes
<1>4. CASE /\ job.pc = "actions" /\ job' = [job EXCEPT !.pc = "alerts"]
           /\ ExpiredActions(job.at) = {} /\ UNCHANGED <<alerts, actions>>
  <2>1. /\ job'.pc = "alerts" /\ job'.at = job.at /\ job'.due = job.due /\ job'.old = job.old
    BY <1>0, <1>4
  <2>2. \A i \in job.due : Outlived(i)'
    BY <1>4, <2>1 DEF SweepKnows, Outlived
  <2>3. \A i \in job.due : \A a \in job.old : Present(actions[a]) => actions[a].alert # i
    BY <1>4 DEF SweepKnows
  <2> QED BY <1>4, <2>1, <2>2, <2>3 DEF SweepKnows, SweepPrunes
<1>5. CASE /\ job.pc = "alerts" /\ job' = [job EXCEPT !.pc = "samples"]
           /\ ExpiredAlerts(job.at) = {} /\ UNCHANGED <<alerts, actions>>
  <2>1. /\ job'.pc = "samples" /\ job'.due = job.due /\ job'.old = job.old
        /\ job.due \subseteq AlertIds
    BY <1>0, <1>5
  <2>2. ASSUME NEW i \in job.due
        PROVE  \/ alerts[i] = Gone
               \/ \E a \in ActionIds \ job.old : Present(actions[a]) /\ actions[a].alert = i
    <3>1. alerts[i] = Gone \/ Referenced(i)
      BY <1>5, <2>1 DEF SweepKnows, Outlived, ExpiredAlerts
    <3> QED BY <1>5, <3>1 DEF SweepKnows, Referenced
  <2> QED BY <1>5, <2>1, <2>2 DEF SweepKnows, SweepPrunes
<1> QED BY <1>1, <1>2, <1>3, <1>4, <1>5, JobMoves

(* A dispatched action's row stays as long as the retention window. *)
LEMMA RanKeptKept ==
  ASSUME TypeOK, SweepBegan, RanKept, [Next]_vars
  PROVE  RanKept'
<1> USE RetentionAssumption DEF Times
<1>0. now \in Int /\ now' \in Int /\ now <= now' /\ job.at \in Int /\ job.at <= now
      /\ ActionRetention \in Int
  BY ClockMoves DEF TypeOK, SweepBegan
<1>1. ASSUME NEW t \in ran
      PROVE  \/ t < now' - ActionRetention
             \/ \E a \in ActionIds : Present(actions'[a]) /\ actions'[a].at = t
  <2>1. t \in Int
    BY DEF TypeOK
  <2>2. CASE t < now - ActionRetention
    <3>1. t < now' - ActionRetention
      BY <1>0, <2>1, <2>2, StillPast
    <3> QED BY <3>1
  <2>3. ASSUME NEW a \in ActionIds, Present(actions[a]), actions[a].at = t
        PROVE  \/ t < now' - ActionRetention
               \/ Present(actions'[a]) /\ actions'[a].at = t
    <3>1. CASE a \in ExpiredActions(job.at)
      <4>1. t < job.at - ActionRetention
        BY <2>3, <3>1 DEF ExpiredActions
      <4>2. t < now' - ActionRetention
        <5>1. job.at <= now'
          BY <1>0
        <5> QED BY <1>0, <2>1, <4>1, <5>1, StillPast
      <4> QED BY <4>2
    <3>2. CASE a \notin ExpiredActions(job.at)
      BY <2>3, <3>2, ActionRowKept
    <3> QED BY <3>1, <3>2
  <2> QED BY <2>2, <2>3 DEF RanKept
<1>2. CASE ran' = ran
  BY <1>1, <1>2 DEF RanKept
<1>3. ASSUME NEW a \in ActionIds, NEW i \in AlertIds, NEW t \in Times,
             NEW status \in {"dispatched", "blocked"}, CreateAction(a, i, t, status)
      PROVE  RanKept'
  <2>1. actions'[a] = [status |-> status, alert |-> i, at |-> t]
    BY <1>3 DEF CreateAction, TypeOK
  <2>2. Present(actions'[a]) /\ actions'[a].at = t
    BY <2>1 DEF Present, NoRow, Gone
  <2>3. ran' \subseteq ran \cup {t}
    BY <1>3 DEF CreateAction
  <2> QED BY <1>1, <2>2, <2>3 DEF RanKept
<1> QED
  BY <1>2, <1>3
  DEF Next, Tick, CreateAlert, ResolveAlert, MarkResult, InsertSample,
      StartSweep, PruneTerminal, PruneResolved, PruneSamples, AbortSweep, vars

-----------------------------------------------------------------------------
(* The initial state satisfies the inductive invariant. *)
LEMMA InitIInv == Init => IInv
<1> SUFFICES ASSUME Init PROVE IInv
  OBVIOUS
<1>1. TypeOK
  BY RetentionAssumption DEF Init, TypeOK, Times, NoSweep
<1>2. SweepBegan /\ SweepKnows /\ SweepPrunes /\ RanKept
  BY DEF Init, SweepBegan, SweepKnows, SweepPrunes, RanKept, NoSweep
<1>3. NoDanglingAction
  BY DEF Init, NoDanglingAction, Present
<1> QED BY <1>1, <1>2, <1>3 DEF IInv

(* Every step keeps the inductive invariant. *)
LEMMA NextIInv == IInv /\ [Next]_vars => IInv'
<1> SUFFICES ASSUME IInv, [Next]_vars PROVE IInv'
  OBVIOUS
<1>1. TypeOK'
  BY TypeKept DEF IInv
<1>2. SweepBegan'
  <2>1. now \in Int /\ now' \in Int /\ now <= now' /\ 0 <= now' /\ job.at \in Int
    BY ClockMoves DEF IInv, TypeOK, Times
  <2>2. CASE StartSweep
    BY <2>1, <2>2 DEF StartSweep, SweepBegan
  <2>3. job'.at = job.at \/ job'.at = 0 \/ StartSweep
    BY JobMoves DEF IInv, TypeOK, NoSweep
  <2> QED BY <2>1, <2>2, <2>3 DEF IInv, SweepBegan
<1>3. NoDanglingAction'
  BY NoDanglingKept DEF IInv
<1>4. SweepKnows' /\ SweepPrunes'
  BY SweepKept DEF IInv
<1>5. RanKept'
  BY RanKeptKept DEF IInv
<1> QED BY <1>1, <1>2, <1>3, <1>4, <1>5 DEF IInv

(* The inductive invariant holds in every reachable state. *)
THEOREM Inductive == Spec => []IInv
<1>1. Init => IInv
  BY InitIInv
<1>2. IInv /\ [Next]_vars => IInv'
  BY NextIInv
<1> QED BY <1>1, <1>2, PTL DEF Spec

(* No row of the audit log ever refers to a pruned alert, for any           *)
(* interleaving of batches with requests (prune_resolved_before's NOT       *)
(* EXISTS).                                                                 *)
THEOREM ForeignKeySafe == Spec => []NoDanglingAction
<1>1. IInv => NoDanglingAction
  BY DEF IInv
<1> QED BY <1>1, Inductive, PTL

(* A sweep past its alerts has removed every alert that was due with all    *)
(* its audit rows when it began, unless an action was recorded for it       *)
(* since: the order of the passes in RetentionJob.run is enough.            *)
THEOREM OnePassSuffices == Spec => []SweepPrunes
<1>1. IInv => SweepPrunes
  BY DEF IInv
<1> QED BY <1>1, Inductive, PTL

(* A step deletes only what is terminal and past its retention window at    *)
(* the time of the step, although its cutoff was computed earlier           *)
(* (prune_terminal_before, prune_resolved_before, prune_samples_before).    *)
THEOREM NothingElseIsPruned == Spec => OnlyExpiredGoes
<1> DEFINE Step ==
      /\ \A a \in ActionIds : Present(actions[a]) /\ actions'[a] = Gone =>
           actions[a].status # "dispatched" /\ actions[a].at < now - ActionRetention
      /\ \A i \in AlertIds : Present(alerts[i]) /\ alerts'[i] = Gone =>
           alerts[i].status = "resolved" /\ alerts[i].at < now - AlertRetention
      /\ \A s \in SampleIds : Present(samples[s]) /\ samples'[s] = Gone =>
           samples[s].at < now - SampleRetention
<1>1. IInv /\ [Next]_vars => [Step]_vars
  <2> SUFFICES ASSUME IInv, [Next]_vars PROVE Step
    OBVIOUS
  <2> USE RetentionAssumption
  <2>0. /\ now \in Int /\ job.at \in Int /\ job.at <= now
        /\ ActionRetention \in Int /\ AlertRetention \in Int /\ SampleRetention \in Int
    BY DEF IInv, TypeOK, Times, SweepBegan
  <2>1. ASSUME NEW a \in ActionIds, Present(actions[a]), actions'[a] = Gone
        PROVE  actions[a].status # "dispatched" /\ actions[a].at < now - ActionRetention
    <3>1. a \in ExpiredActions(job.at)
      BY <2>1, ActionRowKept DEF IInv, Present
    <3>2. actions[a].at \in Int
      BY <2>1, ActionCases DEF IInv, TypeOK, ActionRow, Times
    <3> QED BY <2>0, <3>1, <3>2 DEF ExpiredActions
  <2>2. ASSUME NEW i \in AlertIds, Present(alerts[i]), alerts'[i] = Gone
        PROVE  alerts[i].status = "resolved" /\ alerts[i].at < now - AlertRetention
    <3>1. i \in ExpiredAlerts(job.at)
      BY <2>2, AlertMoves, Literals DEF IInv, Present
    <3>2. alerts[i].at \in Int
      BY <2>2, AlertCases DEF IInv, TypeOK, AlertRow, Times
    <3> QED BY <2>0, <3>1, <3>2 DEF ExpiredAlerts
  <2>3. ASSUME NEW s \in SampleIds, Present(samples[s]), samples'[s] = Gone
        PROVE  samples[s].at < now - SampleRetention
    <3>1. s \in ExpiredSamples(job.at)
      BY <2>3, SampleMoves DEF IInv, Present, Gone
    <3>2. samples[s].at \in Int
      BY <2>3 DEF IInv, TypeOK, SampleRow, Times, Present
    <3> QED BY <2>0, <3>1, <3>2 DEF ExpiredSamples
  <2> QED BY <2>1, <2>2, <2>3
<1> QED BY <1>1, Inductive, PTL DEF Spec, OnlyExpiredGoes

(* Pruning never lets an action through that the cooldown should hold back: *)
(* find_last_action misses only rows older than the retention window.       *)
THEOREM PruningKeepsCooldown == Spec => CooldownSurvivesPruning
<1> DEFINE Step ==
      Cooldown <= ActionRetention =>
        \A a \in ActionIds :
          /\ actions[a] = NoRow /\ actions'[a].status = "dispatched"
          /\ actions'[a].at = now
          => \A t \in ran : now - t >= Cooldown
<1>1. IInv /\ [Next]_vars => [Step]_vars
  <2> SUFFICES ASSUME IInv, [Next]_vars, Cooldown <= ActionRetention, NEW a \in ActionIds,
                      actions[a] = NoRow, actions'[a].status = "dispatched",
                      actions'[a].at = now, NEW t \in ran
               PROVE  now - t >= Cooldown
    OBVIOUS
  <2>0. now \in Int /\ t \in Int /\ Cooldown \in Int /\ ActionRetention \in Int
    BY RetentionAssumption DEF IInv, TypeOK, Times
  <2>1. PICK i \in AlertIds, u \in Times, status \in {"dispatched", "blocked"} :
          CreateAction(a, i, u, status)
    BY ActionMoves, Literals DEF IInv
  <2>2. actions'[a] = [status |-> status, alert |-> i, at |-> u]
    BY <2>1 DEF CreateAction, IInv, TypeOK
  <2>3. ~OnCooldown(now)
    BY <2>1, <2>2 DEF CreateAction
  <2>4. CASE t < now - ActionRetention
    BY <2>0, <2>4
  <2>5. ASSUME NEW b \in ActionIds, Present(actions[b]), actions[b].at = t
        PROVE  now - t >= Cooldown
    BY <2>0, <2>3, <2>5 DEF OnCooldown
  <2> QED BY <2>4, <2>5 DEF IInv, RanKept
<1> QED BY <1>1, Inductive, PTL DEF Spec, CooldownSurvivesPruning

=============================================================================
