# ClusterPulse in TLA+

ClusterPulse watches a fleet of machines. An **Agent** on every node collects
metrics and pushes them over HTTP; the **Collector** stores them in PostgreSQL,
evaluates rules, keeps the lifecycle of alerts, decides on automatic
remediation and hands the actions to run back to the Agent on the answer to a
push. Background jobs detect silent nodes, prune history and close remediation
actions nobody answered for.

This directory holds a model of that behaviour, the TLC runs that check it and
TLAPS proofs of its safety properties. Paths below are relative to the
repository.

- [1 Inventory](#1-inventory)
- [2 Modules and how they correspond to the code](#2-modules-and-how-they-correspond-to-the-code)
- [3 Runs](#3-runs)
- [4 Where the code and its documentation disagree](#4-where-the-code-and-its-documentation-disagree)
- [5 Proofs](#5-proofs)
- [6 Abstractions](#6-abstractions)
- [7 Not modelled](#7-not-modelled)
- [8 Plan](#8-plan)

Run everything from this directory: `tlc -config AlertSerial.cfg
MCAlertLifecycle`, `tlapm AlertLifecycleProofs.tla`. `PROJECT.json` lists each run
with its module and configuration, each property with a mutation of the model
that breaks it, and for every definition the source lines it models.

## 1 Inventory

| Component | State | Operations | What makes it correct |
|---|---|---|---|
| Agent scheduler, buffer, transport (`agent/scheduler.py`, `buffer.py`, `transport/http_client.py`) | the buffer file; a drained batch and the current payload, in memory only | a cycle: drain and redeliver, collect, deliver, execute pending actions, report results; retries with a classification into fatal and retryable | no payload disappears without a log line, a put-back batch does not multiply, every buffered payload is dealt with |
| Agent remediation executor (`agent/remediation/`) | none | run a playbook's action, report EXECUTED or FAILED | the audit log says what really happened |
| Metrics ingestion (`collector/services/metrics_ingestion.py`) | `nodes`, `metric_samples` | upsert the node, insert the samples, evaluate rules best-effort, answer with an Ack | an Ack means the samples are stored; a node row precedes its samples |
| Rule engine (`collector/rules/`) | none; reads the latest earlier sample | threshold and rate-of-change rules | duplicates and late samples do not change a verdict |
| Alert lifecycle (`collector/services/alerting.py`, `repositories/alert_repository.py`) | `alerts` | open, advance, escalate, resolve, acknowledge | one firing alert per node and rule; resolved is final; an acknowledgement stops escalation |
| Remediation decision (`collector/remediation/engine.py`) | `remediation_actions` | cooldown check, hourly limit, record DISPATCHED or BLOCKED | the two limits hold; one decision per alert; never before escalation |
| Result reporting (`collector/services/remediation.py`) | `remediation_actions` | accept one result per DISPATCHED row | reports are neither lost nor overwritten |
| Job scheduler (`collector/jobs/scheduler.py`) | its thread, the stop event, when each job is next due | start, stop with a bounded join, run_all_once, the loop | one job at a time, no job starves, stop takes effect |
| Staleness job (`collector/jobs/staleness.py`, `services/node_registry.py`) | `nodes.last_seen_at`, `alerts`, the first-run flag | sweep all nodes, open or resolve one alert each | a silent node is reported once, a live one is not |
| Reconciliation job (`collector/jobs/reconciliation.py`) | `remediation_actions` | list overdue dispatches, mark each FAILED | the audit log converges; no early timeout |
| Retention job (`collector/jobs/retention.py`) | all tables | prune actions, alerts, samples in batches | references hold, only expired rows go, interrupted work is finished later |
| Collector start-up, configuration and loaders (`collector/main.py`, `config.py`, `rules/loader.py`, `remediation/loader.py`) | `app.state`, for the life of the process; environment and files, edited between starts | validate settings, build, load rules, load policy, start and stop the job scheduler | an invalid configuration never serves; what the validators promise holds for alerts that are older than the process |
| Authentication (`collector/api/deps.py`) | the configured tokens | compare the presented token | outside dev nothing is taken on without a token |
| Notifications (`collector/notifications/`) | none | one message per opened, escalated, resolved alert | the messages of a payload are in order, none twice, and end with what the row says |
| Read endpoints, collectors, contracts, deployment | none of their own | see section 7 | |

How they interact. A push is one HTTP request served by a thread of FastAPI's
pool: the handlers are synchronous, so requests run concurrently, and each
repository call is a transaction of its own (`collector/db/session.py`). Nothing
in the code serialises the requests of one node; normally the Agent does, by
sending one payload at a time, but a request that timed out on the Agent's side
goes on running in the Collector while its retry arrives. Pending actions travel
on the Ack; results come back as requests of their own. The jobs share one
thread and write the same tables as the request handlers. Nearly every time the
Collector compares is the payload's `collected_at`, the Agent's clock, so a
buffered payload that is redelivered acts at an old time.

What is hard here, and therefore what the models are about:

- a decision read in one transaction and written in another (dedup, cooldown,
  hourly limit, acknowledgement, result report, reconciliation, staleness sweep);
- a failure between two transactions of one handler, or a process that dies
  between two steps of a cycle;
- lost answers, retried requests, duplicates, redelivery out of order;
- timeouts that race late answers;
- things that must happen eventually although any single attempt may fail;
- rows that outlive the process and the configuration they were written under.

`PROJECT.json` lists each such place with its line and the properties for it.

## 2 Modules and how they correspond to the code

**AlertLifecycle** is the core: `evaluate_and_apply` with
`RemediationEngine.decide`, one action per repository call. `req[w]` is the
request a worker thread serves; its `pc` names the next call and the other
fields are the handler's local variables (`rule`, `alert`, `verdict`, `action`,
the collected `dispatched`). `alerts` and `actions` are the tables, `sent` the
actions that left on an Ack. The pure decisions (`ShouldEscalate`,
`ShouldRemediate`, the policy lookup) are taken on the row the last call
returned, in the action of that call, as the code does. `Fail` is any call that
raises: the handler swallows the exception and the Ack carries no action; it
also stands for a Collector that dies there. `acknowledge` is two actions, its
check and its commit. `Serial` chooses whether requests of one node may overlap;
`CommitsFail` whether calls may raise; `Verdicts` which combinations of breaching
and clear rules a payload may bring (the theorems hold for every choice).
`MCAlertLifecycle` gives the policies, the
clock values and the symmetries for TLC: rows and workers and, where
each of two rules has a playbook of its own, the two rules together with their playbooks.

**AlertStages** is the abstract lifecycle an operator counts on: per node and rule
a condition that is closed, open, escalated or remediated, in that order, and
closes from any stage. `AlertLifecycle!ImplementsStages` reads the stage off the
rows of the open alert (`StageOf`) and is checked as a refinement.

**RemediationDispatch** follows an action from its DISPATCHED row on:
`Dispatch` (with an Ack that arrives or not), the Agent's loop over
`pending_actions` (`Execute`, `Post`, `TimeOut`), each result request as a
`handlers` element that first checks (`CheckReport`: 404, 409) and then writes
(`WriteReport`, `FailReport`), the reconciliation job (`ListDispatched`, one
`MarkTimedOut` per row, `FailSweep`) and the retention of the audit log
(`Prune`). `outcome` is history: what executing the action came to.

**AuditLog** is the abstract audit log: an entry is recorded as dispatched or
blocked, a dispatched one is settled, only blocked and settled ones are pruned, and
none comes back. RemediationDispatch implements it whatever the result handler,
the reconciliation job and pruning do between each other's steps (rows that were
blocked never enter that module).

**AgentDelivery** is `run_once` over `FileBuffer`: `Drain`, then
`Redeliver...` for each drained payload with the three outcomes the transport
ends in, `Requeue` of the rest after a failure, `Collect`, `Deliver...`. A
payload is its number, so age is comparison. `received`, `dropped` (with a log
line: answered 4xx, or evicted) and `lost` are history. `Crash` kills the process
anywhere; `Unclassified` is an httpx error that `_post` does not translate and
that no `except` of the scheduler catches; disk errors make a read return nothing
or a write not happen.

**NodeStaleness** is the registry with the staleness job: `Push`,
`BufferPayload` and `Redeliver` write `last_seen_at`; a sweep reads all nodes
(`StartSweep`), works through them (`SweepNode`) and sets the first-run flag
(`EndSweep`), or fails, or the Collector restarts. `heard` and `late` are history:
when the Collector last received anything from a node, and whether that was a
buffered payload; the sweep keeps what they were when it read the registry.

**JobScheduler** is `PeriodicJobScheduler`. Monotonic time appears as what is
left until each entry is due, which keeps the state finite without bounding the
clock. `thread` holds every loop ever started, since a join that times out
leaves one behind that still reads the shared stop event. The calling thread's
`start`, `stop` (two actions around the join) and `run_all_once` are actions
too. `MCJobScheduler` gives the intervals.

**Retention** is the retention sweep against a request path reduced to the
writes a sweep can observe. One DELETE with its sub-select is one action;
`Drained` is `_drain`'s loop condition. The request path decides on the cooldown
from the rows that are left (`OnCooldown`), which is where retention and the
safety limits meet. `job.due` and `job.old` are history for `SweepPrunes`, `ran`
(when actions were dispatched, pruned since or not) is history for
`CooldownSurvivesPruning`.

**CollectorStartup** is the process across restarts. `create_app` is three actions
(`BuildSettings`, `LoadRules`, `LoadPolicy`), each reading what an operator left
there at that moment; a file that does not load ends the process. `StartServing`
and `Stop` are the lifespan, and `Stop` is a crash as well. While it serves, a
`Push` with an authorised token brings any list of samples, several of one metric
too. `Results` is `RuleEngine.evaluate`: of each sample in turn the result of its
threshold rule and of its rate-of-change rule, as far as they are in force
(`InForce`, the engine's two dicts). The results are then applied one by one (`Open`,
`Advance`, `Resolve`, `Skip`) under the settings in `app.state`; `EvaluationRaises`
drops the rest, `Answer` ends the request. `told` is history: the messages the
payload has sent for each rule. `alerts` survive all of this; `age` is the
time since `first_fired_at`, which goes on while the process is down and stands
still within a request, where it is measured at the payload's `collected_at`. One rule result
is one step here, since AlertLifecycle has the steps inside it.
`MCCollectorStartup` gives the settings and files.

**MetricsIngestion** is `ingest` for one node and metric: `RecordSeen`,
`BulkInsert`, `Evaluate`, `Answer` for each request in flight, any of which may
fail. `series` is what the Agent really measured, so the verdict the rule engine
reaches on the table can be compared with the verdict on the true series.

Operators whose comment begins with "Mutant" are variants of the definition that
follows them, with a plausible mistake in it. No specification uses them; they
show that a property notices the mistake.

Which module relies on which: the dispatched rows of AlertLifecycle are the
`Dispatch` of RemediationDispatch; the outcomes of a send in AgentDelivery are
the requests of MetricsIngestion, whose results are the `breaching` and `clear`
sets of AlertLifecycle; JobScheduler justifies that sweeps of the three job
models never overlap (under the conditions its runs show) and that they keep
being started; CollectorStartup justifies the assumptions on the settings that the
other modules make. Retention and CollectorStartup each include, in coarser
steps, the part of the alert path they depend on.

## 3 Runs

Passing runs:

| Run | Shows |
|---|---|
| `alert_serial` | requests of a node one after another, times in any order, any call failing: types, one open alert, cooldown, rolling-hour limit, at most one action per alert reaches an Agent, an action only for an escalated and old enough alert, what reached the Agent is settled, resolved is final, an acknowledged alert is left alone by every request that reads it afterwards; the whole implements AlertStages |
| `dispatch_faults` | lost Acks, crashes, retries, failing commits and sweeps: the audit log is truthful, no timeout is early, every dispatch reaches a terminal status; implements AuditLog |
| `agent_faults` | any pattern of send outcomes, crashes, unclassified errors and a failing buffer file, batches put back behind newer payloads: the buffer's bound, nothing lost but by a logged drop or with the process, nothing held twice, the file outlives the process, every buffered payload is dealt with, every cycle ends |
| `staleness_live` | failing sweeps, a restart, late payloads: one alert per node, a false alarm does not outlive the next sweep, silence is reported, recovery noticed |
| `jobs` | start, stop, a join that times out, a restart, run_all_once: two loops overlap only after a join that timed out, no job starves, stop takes effect |
| `retention` | sweeps interrupted anywhere beside the request path: references hold, only expired rows go, one sweep suffices for alerts whose audit rows expire with them, every expired row goes in the end, a cooldown no longer than the audit retention survives pruning |
| `startup` | restarts with edited and invalid settings and files, crashes at any point: outside dev every payload is authenticated, no remediation without escalation whatever the alert aged under, several samples of one metric announce what happens to an alert in order, nothing twice, ending with what the row says, no job outside a serving process, enabling remediation or adding a playbook reaches alerts that already fire |
| `ingestion` | overlapping, duplicated, late and failing requests: samples have a node, an Ack means stored, verdicts match the true series |

The runs check a type invariant where it carries a bound of the code or a theorem
(AlertLifecycle, AgentDelivery); the other modules state `TypeOK` as a part of the
inductive invariant.

Some guarantees end with a fault the code does not handle. Those properties say
so in terms of a history variable: `lost` (payloads in memory when the process
ended) and `diskFailures` in AgentDelivery, `orphaned` (a join timed out and left
its thread running) in JobScheduler.

**Bounds.** Every bound is a constant. Two alerts and two actions are enough to
have a pair that breaks a uniqueness or distance property, and with
`MaxPerHour = 1` a second action exceeds the limit. The times of `alert_serial`
are 0, 1 and 3 with an hour of 1 and a cooldown of 3: two actions can fall
inside or outside one hour and one cooldown, in either order of arrival, and an
off-by-one in the cooldown shows at distance 2. No payload clears
one rule and has a result for the other as well (`PlainVerdicts`), which keeps the
run below three minutes;
`alert_two_open` and the theorems allow every combination. One node is enough for AlertLifecycle, since each query filters by
node; the theorems cover any number. Two actions in RemediationDispatch make an
Ack with a batch and a sweep of two rows; `MaxTime = 4` lets a row be dispatched
at 1, time out, be reported late and be pruned. Four payloads with a buffer
of three and batches of two let a batch fail half way, be put back behind newer
payloads, be passed over by the next drain, and a full buffer evict a newer payload
before an older one. One disk failure at any point of the run is enough
to lose or duplicate an entry. In NodeStaleness `MaxTime = 4` is twice the
staleness bound, so a node can be silent, recover and be silent again. Two jobs,
one with twice the other's interval, give ticks with one and with two due entries;
two threads give one restart. Two actions with batches of one make a pass of the
retention sweep take several batches, and `Cooldown = 2` equals the audit
retention, the boundary case. `startup` starts from a base configuration and
everything that differs from it in one group of settings (access, alerting, background
jobs), each validator relating settings of one group, with delays of 0 to 2; the file
contents cover each way a loader accepts or refuses a file. Two samples of the
metric give every pair of results one after the other, and each pair of messages
`MayFollow` allows. The rule in force is the rate-of-change rule, which has all three
verdicts; the threshold rule of the same metric has an alert of its own, no property
relates the two, and the theorems have both. One evaluation may raise. Two copies and two requests in flight give
each payload a duplicate that overlaps another request. `MaxRestarts` and
`MaxFailures` bound how often the staleness sweep is disturbed; what its liveness
properties say holds after the last disturbance.

**Deadlock.** A model whose clock, rows or thread starts are used up has nothing
left to do, so those configurations switch the check off. AgentDelivery,
Retention and CollectorStartup, where the cycle, the sweeps and the restarts go on
for ever, are checked for deadlock.

**Fairness.**

- Time passes (weak fairness of `Tick`), and the threads of the Agent's loop, the
  request pool and the job scheduler run (weak fairness of their steps). Without
  this no server does anything.
- The job scheduler starts each sweep again (weak fairness of `StartSweep`,
  `ListDispatched`): what `NoStarvation` shows of the loop. `job.run()` returns:
  each
  run makes a bounded number of calls; one that hangs for ever is excluded.
- Strong fairness of `MarkTimedOut` and of the three prunes: a sweep may be
  interrupted any number of times, but one row or table does not fail at every
  attempt. Without it a database that refuses every write is a counterexample.
- Strong fairness of `RedeliverOk` per payload: the Collector is not out of reach
  for ever. Only `BufferDrains` needs it.
- In CollectorStartup the node keeps pushing: a rule that stays in force in a process
  that keeps serving has a result in infinitely many payloads (`Evaluates`), and
  time passes between payloads (strong fairness of `Tick`, which no request under way
  interrupts; the Agent sleeps between its cycles). A request is worked off and
  answered (weak fairness of `Apply \/ Answer`), with finitely many evaluations that
  raise (`MaxRaised`). `LaterChangesTakeEffect` needs all of this: an alert only
  moves while its node pushes, as the docstring of `AlertEvaluationService` says.
- Crashes, timeouts, failures and the calls of start, stop, acknowledge or
  run_all_once have no fairness: they may never happen.

## 4 Where the code and its documentation disagree

Four runs expect a violation: each checks one sentence of the repository's
docs, comments or docstrings against what the code does.

| Run | What TLC finds |
|---|---|
| `alert_two_open` | a request that timed out and its retry both find no open alert and both create one |
| `dispatch_late` | a result that arrives after the timeout is answered 409; the job's docstring says it still overwrites the timeout |
| `agent_batch_loss` | an httpx error that `_post` does not classify ends the process with the drained batch in memory |
| `staleness_backlog` | a redelivered payload sets `last_seen_at` back: a node that is reporting is declared stale |

The quoted lines are under `findings` in `PROJECT.json`. The same models exhibit
further behaviours a reader of the code may not expect. They have no run of their own:

- two overlapping requests may both count the recent actions before either
  inserts its own, and so exceed the hourly limit (AlertLifecycle without `Serial`);
- when `mark_remediated` fails after `create_action` committed, the next payload
  decides again for the alert, and the first row stays DISPATCHED though no Ack
  carried it; `OneSentPerAlert` says that the Agent still gets at most one;
- an acknowledgement that commits between `update_last_fired` and
  `escalate_alert` does not stop that escalation;
- a report that lands between the reconciliation job's listing and its write is
  overwritten: EXECUTED becomes FAILED with the timeout reason;
- a batch that is put back sits behind newer entries of the buffer, so a full
  buffer may evict a newer payload before older ones;
- `run_all_once` runs jobs beside the loop, start() after a stop() that timed out
  starts a second loop and, by clearing the event, may keep the first one alive;
- with several jobs due in one tick, the remaining ones are begun after the stop
  event was set;
- a `remediation_cooldown_seconds` longer than the audit retention is accepted, and
  pruning then ends it early; so does a late payload whose `collected_at` is near
  that of an action already pruned (`CooldownSurvivesPruning` excludes both);
- an alert whose rule is removed from the file, or a staleness alert once the job
  is switched off, is never evaluated again and stays firing;
- `_lifespan` starts the job scheduler when any job is enabled, not only, as its
  docstring says, when retention is;
- the rate-of-change rule compares with the latest earlier sample only, so a
  climb in several steps within its window is not reported.

## 5 Proofs

Each component module has a proof module beside it (`AlertLifecycleProofs`,
`RemediationDispatchProofs`, ...), which ends in the theorems `PROJECT.json` lists.
Every invariant and every action property of a passing run, and the two
refinements, is proved: for any number of nodes, rules, rows, payloads, threads and
requests, any times and any settings within the assumptions below. A proof module
has the same shape everywhere: an inductive invariant `IInv`, a lemma that `Init`
implies it, one step or lemma per action that keeps it, and the theorems that follow
from it.

**Assumptions.** They are those of the component modules, which TLC evaluates
on every run, and they say what the code's validators or types ensure: natural
numbers, sizes and windows of at least one where the settings say so, and
`None` (or `Blank`) being no id. Four say more.

- AlertLifecycle, `SettingsAssumption`: `RemediationAfter >= EscalationAfter`, from
  `_require_remediation_after_escalation`. `ModeAssumption`: the action ids are finite,
  without which counting recent actions means nothing.
- Retention, `RetentionAssumption`: audit rows are kept at least as long as alerts,
  from `_require_alert_retention_within_remediation_retention`.
- RemediationDispatch, `DispatchAssumption`: `None` is no result either.
- CollectorStartup, `ConfigurationAssumption`, only types what may be in the environment
  and in the files. The order of the delays is not assumed there; it is proved of
  a process that serves.

`Serial`, where a theorem assumes it, is a hypothesis in its statement.

### AlertLifecycle, requests overlapping or not

`TypeCorrect`, `EscalationComesFirst` (`EscalatedFirst`), `SentActionsAreSettled`
(`SentIsSettled`), `AcknowledgementHolds` (`AcknowledgedIsLeftAlone`). The run
`alert_serial` checks the same properties without overlap.

The invariants are not inductive: between two calls a worker acts on what an
earlier one returned. `IInv` adds, for every worker and `pc`, what is still true
of the tables (`InFlight`): from `advance` on it holds an existing alert of its
node and rule; from `cooldown` on that alert is escalated and old enough; at
`mark` it holds the action it wrote; what it has collected for the Ack is
settled. The argument has two halves. `TablesGrow` says that a step only adds
rows and never takes back what a row says about identity, escalation and
remediation, so a worker that does not move keeps its facts whoever else moves
(`InFlightStable`, `RowsStable`). `WorkerStep` then reduces each action to its own
worker. The step that carries `EscalatedFirst` is `RemediationImpliesEscalated`: the
code never looks at `escalated_at` before it remediates, but an alert that is not
to be escalated now, and is old enough to remediate, must be escalated already
because of the order of the two delays. `AcknowledgementHolds` follows a request
that reads an acknowledged row: it leaves `advance` for `next` only
(`WorkerMoves`, `RowSteps`), so no request that reads after the acknowledgement ever
reaches a call that escalates or remediates.

### AlertLifecycle, requests of one node one after another

With `ASSUME Serial`: `SerialOneOpenAlert`, `SerialCooldown`, `SerialRateLimit`,
`SerialOneSent`, `SerialResolvedIsFinal` and `SerialRefinement` (`ImplementsStages`).
`alert_two_open` shows that the assumption cannot be dropped.

The code checks in one transaction and writes in another. `SInv` adds `Reserved`:
at `create` there is no open alert of the node and rule; at `rate` the cooldown is
over; at a dispatching `decide` both limits leave room. It survives the other
workers because they write rows of other nodes only (`ReservedStable`). That the
limits hold for payloads in any order of `collected_at` comes out of the proof:
`OnCooldown` and `RecentActions` have no upper bound on the time, so an action
from the "future" blocks as well, and any window that contains the new action
starts late enough that the check counted everything in it.

For `SerialOneSent`, `DInv` adds that the alert a request is deciding on is not
marked remediated yet (`UnmarkedKept`: only a request of the same node could mark
it), while the alert of every action that is on its way, sent or collected for an
Ack, is (`TravelsSettled`). So the action that `mark_remediated` puts on its way is
of an alert no travelling action has (`OneTravelsKept`).

For the last two, `LInv` says that the row a request works on is firing, at
`escalate` is not escalated yet, and that every remediated row is escalated
(`LInvKept`). Since nobody else resolves that row, no write hits a resolved one. The
refinement is a step simulation: `StageOf` depends on the one open row of a node and
rule (`OnlyOpenRow`, from `OneOpenAlert`), a write leaves the stages of all others
alone (`OtherStages`), `create_alert` opens (`CreateSimulates`), the three writes escalate,
remediate or close (`WriteSimulates`) and everything else stutters
(`OthersStutter`). Without `LInv` the step would fail at `escalate_alert`: AlertStages
does not escalate a condition that is closed or remediated.

### RemediationDispatch

`AuditIsTruthful`, `TimeoutsAreDue` and `Refinement` (`ImplementsAuditLog`). A result
handler writes some time after it looked at the row, the sweep marks rows from a list
read earlier. `IInv` states what both still know: every request, late or repeated,
carries the outcome of the one execution (`RequestsAgree`), which needs that an
action waiting at the Agent was not executed yet (`TodoIsFresh`), so that
executing it cannot change an outcome already reported; a listed row is there and
overdue (`ListedIsOverdue`), since time does not run back and pruning leaves
dispatched and younger rows alone.

### AgentDelivery

`BufferIsBounded` (`TypeOK`, which holds the bound of the buffer),
`NothingIsLostSilently`, `HeldInOnePlace`, `FileOutlivesProcess`. `HeldOnce` counts
over three places, so `IInv` has it place by place (`Apart`): file and batch are
without repetition, disjoint, and without the current payload. `HeldWasCollected`
makes the next payload new. The lemmas before them say what `Append`, `Tail`,
cutting and concatenating do to the set of elements and to their distinctness, and
`EnqueueFacts` and `DrainFacts` lift that to the buffer's operations, with the
disk failing or not.

### NodeStaleness, JobScheduler

`AtMostOneAlert`, `AlertsHaveCause` (`AlertHasCause`): a sweep judges a node by what
it read when it began. `SeenIsHeard` says when the registry tells the truth: the row
of a node has the time something was received from it, unless that was a buffered
payload. `SweepReads` carries this from the sweep's query to the node it comes to
last, with payloads arriving in between, and says that the alerts of the nodes it has
passed agree with what it read; `UnknownIsQuiet` and the first line of `SweepNode`
account for the nodes it did not read.

`NoOverlap` (`LoopsExclusive`): that two loops never run jobs at once needs
`HandleKnows`, that a live thread is the one `_thread` names unless a join timed
out, and `JobsInTick`, that only a thread inside a tick has jobs to run.

### Retention

`ForeignKeySafe`, `OnePassSuffices`, `NothingElseIsPruned`, `PruningKeepsCooldown`.
`SweepKnows` follows the alerts that were due when the sweep began through its passes:
while actions are pruned, each old audit row of such an alert is itself to be
pruned; after the pass none is left, so the NOT EXISTS of the second pass cannot
protect the alert. `SweepBegan` puts the cutoffs into the past, which is why a
row expired at the start is expired at the DELETE. `RanKept` says that an action
ever dispatched still has its row or is older than the audit retention, hence older
than the cooldown.

### MetricsIngestion

`NodeComesFirst`, `AckIsAPromise`, `VerdictsAreTrue`. `Passed` says what a
request has left behind by the time it reaches each transaction; `InsertsLeft` bounds
the inserts a payload can still get. For the verdict, `find_previous_sample` on the
table must pick the sample the true series has: `Latest` shows that a nonempty set of
earlier times has a greatest one, and duplicates do not change it.

### CollectorStartup

`NeverUnauthenticated`, `HumanBeforeAutomation`, `MessagesInOrder` (`AnnouncedInOrder`),
`JobsNeedServing`. The properties speak of requests, jobs and rows; what makes them true
was checked when the process was wired. `IInv` carries the checks forward: settings in
force are valid (`Validated`), a request was let in under the settings still in force
(`LetIn`), jobs are those of the settings (`JobsMatch`). For the messages,
`ToldTruly` says what row the last message of a rule left behind (`Fits`): just
opened means firing with age 0, escalated means firing with `escalated_at` set. Results
without a message and acknowledgements keep that, so the next message is one that
`MayFollow` allows; that an alert opened by one sample is escalated by the next
only with a delay of 0 rests on the age standing still within a request.
`HumanFirst` needs nothing about the age an alert had under earlier settings: at the
step that remediates, the settings of the moment make it due for escalation too.

### Only model-checked

The liveness properties: `AuditConverges`, `BufferDrains`, `CycleCompletes`,
`SilenceIsReported`, `RecoveryIsNoticed`, `NoStarvation`, `StopTakesEffect`,
`ExpiredIsPruned`, `LaterChangesTakeEffect`. Reasoning about fairness and ENABLED is
out of reach of the installed backends. The four properties of section 4 are false
and have counterexamples instead.

## 6 Abstractions

- A repository call is one atomic step, also where it reads a row and then
  commits it. PostgreSQL runs at READ COMMITTED, and the updates concerned write
  constants or the request's own values and do not depend on the value read.
- Timestamps of which only None-ness is tested (`acknowledged_at`,
  `escalated_at`, `remediated_at`) are Booleans; sample values, severities,
  descriptions and log lines are left out.
- In AlertLifecycle a payload yields at most one result per rule, as the Agent sends
  one sample per metric, and results are applied in any order, as are due jobs; the
  code uses the order of its lists. CollectorStartup has several samples of one
  metric, in order.
- Which rules breach in a payload is arbitrary, except in MetricsIngestion,
  which models the evaluation.
- Serial ids are never reused, so a deleted row stays distinct from one that was
  never inserted. Row ids are sets, not counters.
- The retries of a metrics send are one step with the outcome they end in; the
  retries of a result report are explicit, since their overlap in the Collector
  matters.
- What a playbook does on the node is one outcome, executed or failed.
- A file replaced by rename is written whole or not at all.
- The Agents' and the Collector's clocks agree in NodeStaleness; in
  AlertLifecycle only the Agent's exists.
- The staleness sweep's read and write of one node's alert are one step, because
  that thread is the only writer of that rule's alerts.

## 7 Not modelled

- Read endpoints, schemas and the OpenAPI surface: pure projections of rows.
- The text of notifications, log lines and error messages.
- Metric collectors: stateless psutil reads; a failing one shortens the list of
  samples.
- What a playbook does to the node's file system: one outcome, executed or failed.
- Agent settings: no validation across fields; they appear as constants.
- Alembic migrations, contracts and logging set-up, Grafana, installation scripts and
  the load generator.

## 8 Plan

Written, in this order: AlertLifecycle with its proofs, RemediationDispatch,
AgentDelivery, NodeStaleness, JobScheduler, Retention, MetricsIngestion; then the
abstract AlertStages and AuditLog with the refinements, the cooldown in Retention,
and CollectorStartup; then the proofs of all safety properties.

Next:

1. What the four counterexamples leave: theorems that `OneOpenAlert` can only be
   broken by two overlapping requests of a node, and `BatchKept` only by a killed
   process, an unclassified error or a failing disk.
2. A bounded queue as the abstract specification of the Agent's buffer.
3. AgentDelivery composed with MetricsIngestion: when every measurement of a node
   ends up in the table at least once.
