--------------------------- MODULE AlertLifecycle ---------------------------
(***************************************************************************)
(* The Alert Lifecycle and the remediation decision, as the Collector's    *)
(* ingestion handler carries them out: AlertEvaluationService with the     *)
(* alert repository, RemediationEngine with the remediation repository.    *)
(*                                                                         *)
(* FastAPI runs the synchronous handlers in a thread pool, so several      *)
(* requests may be in flight; each is a worker whose "pc" names the next   *)
(* repository call it makes.  One repository call is one transaction and   *)
(* one action here; the decisions taken between two calls (is it time to   *)
(* escalate? to remediate?) are pure functions of the row the last call    *)
(* returned, so they are taken in the action of that call.                 *)
(*                                                                         *)
(* Time is the payload's collected_at, the Agent's clock: a payload that   *)
(* was buffered and redelivered arrives with an old one, so consecutive    *)
(* requests may carry times in any order.                                  *)
(***************************************************************************)
EXTENDS Integers, FiniteSets

CONSTANTS
  Nodes, Rules, Playbooks,
  PlaybookFor,       \* RemediationPolicy: rule_key -> playbook, or None
  None,
  Workers,           \* request threads of the Collector
  AlertIds, ActionIds,             \* bound the rows of the two tables
  Times,                           \* the values of collected_at
  Verdicts,          \* what the rule engine may return for a payload
  EscalationAfter, RemediationAfter, Cooldown, Hour, MaxPerHour,
  Serial,            \* TRUE: requests of one node never overlap
  CommitsFail        \* TRUE: a repository call may raise PersistenceError

(* What CollectorSettings validates, and what a policy file can hold. *)
ASSUME SettingsAssumption ==
  /\ Times \subseteq Int
  /\ EscalationAfter \in Nat /\ RemediationAfter \in Nat
  /\ Cooldown \in Nat /\ Hour \in Nat
  /\ MaxPerHour \in Nat \ {0}
  /\ RemediationAfter >= EscalationAfter

ASSUME PolicyAssumption ==
  /\ PlaybookFor \in [Rules -> Playbooks \cup {None}]
  /\ None \notin Playbooks \cup Rules \cup AlertIds \cup ActionIds

(* A pair of the rules that are breached and of those that are not. *)
ASSUME VerdictAssumption ==
  \A v \in Verdicts : /\ v \in (SUBSET Rules) \X (SUBSET Rules)
                      /\ v[1] \cap v[2] = {}

ASSUME ModeAssumption ==
  /\ Serial \in BOOLEAN /\ CommitsFail \in BOOLEAN
  /\ IsFiniteSet(ActionIds)

VARIABLES
  alerts,      \* the alerts table
  actions,     \* the remediation_actions table (the audit log)
  req,         \* the ingestion request each worker is serving
  ackReq,      \* alerts an operator's acknowledge request has read as firing
  sent         \* actions that went out on an Ack

vars == <<alerts, actions, req, ackReq, sent>>

-----------------------------------------------------------------------------
(* Rows.  A timestamp column of which only None-ness is ever tested         *)
(* (acknowledged_at, escalated_at, remediated_at) is a Boolean.             *)

NoRow == [status |-> "none"]

AlertRow ==
  [status : {"firing", "resolved"}, node : Nodes, rule : Rules, first : Times,
   ack : BOOLEAN, esc : BOOLEAN, rem : BOOLEAN]

ActionRow ==
  [status : {"dispatched", "blocked"}, node : Nodes, alert : AlertIds,
   playbook : Playbooks, created : Times]

Idle == [pc |-> "idle"]

Request ==
  [pc : {"next", "create", "advance", "escalate", "resolve", "cooldown",
         "rate", "decide", "mark"},
   node : Nodes, at : Times,
   breaching : SUBSET Rules, clear : SUBSET Rules,   \* results still to apply
   rule : Rules \cup {None},                         \* the result being applied
   alert : AlertIds \cup {None},
   verdict : {None, "dispatched", "blocked"},
   action : ActionIds \cup {None},
   dispatched : SUBSET ActionIds]                    \* dispatched_actions so far

Init ==
  /\ alerts = [i \in AlertIds |-> NoRow]
  /\ actions = [a \in ActionIds |-> NoRow]
  /\ req = [w \in Workers |-> Idle]
  /\ ackReq = {}
  /\ sent = {}

-----------------------------------------------------------------------------
(* Decisions *)

(* Mutant: an acknowledged alert no longer counts as open. *)
OpenUnacknowledged(n, r) ==
  {i \in AlertIds : /\ alerts[i].status = "firing" /\ ~alerts[i].ack
                    /\ alerts[i].node = n /\ alerts[i].rule = r}

(* Mutant: the query forgets the status. *)
OpenOrResolved(n, r) ==
  {i \in AlertIds : alerts[i] # NoRow /\ alerts[i].node = n /\ alerts[i].rule = r}

Open(n, r) ==
  {i \in AlertIds : /\ alerts[i].status = "firing"
                    /\ alerts[i].node = n
                    /\ alerts[i].rule = r}

(* Mutant: acknowledged_at is not consulted. *)
ShouldEscalateAcked(row, now) == ~row.esc /\ now - row.first >= EscalationAfter

ShouldEscalate(row, now) ==
  ~row.ack /\ ~row.esc /\ now - row.first >= EscalationAfter

(* Mutant: remediated_at is not consulted. *)
ShouldRemediateAgain(row, now) == ~row.ack /\ now - row.first >= RemediationAfter

ShouldRemediate(row, now) ==
  ~row.ack /\ ~row.rem /\ now - row.first >= RemediationAfter

(* Mutant: the cooldown ends one unit early. *)
CooldownTooShort(n, p, now) ==
  \E a \in ActionIds : /\ actions[a] # NoRow
                       /\ actions[a].node = n /\ actions[a].playbook = p
                       /\ now - actions[a].created < Cooldown - 1

(* find_last_action takes the largest created_at, so "now minus the last is *)
(* at least the cooldown" is "now minus each is".                           *)
OnCooldown(n, p, now) ==
  \E a \in ActionIds : /\ actions[a] # NoRow
                       /\ actions[a].node = n
                       /\ actions[a].playbook = p
                       /\ now - actions[a].created < Cooldown

(* Mutant: only actions up to "now" are counted, as if payloads arrived in  *)
(* the order of their collected_at.                                         *)
ActionsUpToNow(n, now) ==
  {a \in ActionIds : /\ actions[a] # NoRow /\ actions[a].node = n
                     /\ actions[a].created \in (now - Hour)..now}

RecentActions(n, now) ==
  {a \in ActionIds : /\ actions[a] # NoRow
                     /\ actions[a].node = n
                     /\ actions[a].created >= now - Hour}

AtRateLimit(n, now) == Cardinality(RecentActions(n, now)) >= MaxPerHour

(* The call that follows, once the row a call returned is known. *)
AfterEscalation(r, row, now) ==
  IF ShouldRemediate(row, now) /\ PlaybookFor[r] # None THEN "cooldown" ELSE "next"

(* Mutant: remediation is considered before escalation. *)
RemediateFirst(r, row, now) ==
  IF ShouldRemediate(row, now) /\ PlaybookFor[r] # None THEN "cooldown"
  ELSE IF ShouldEscalate(row, now) THEN "escalate" ELSE "next"

AfterAdvance(r, row, now) ==
  IF ShouldEscalate(row, now) THEN "escalate" ELSE AfterEscalation(r, row, now)

-----------------------------------------------------------------------------
(* One ingestion request *)

At(w, step) == req[w].pc = step

Serving(w, n) == ~At(w, "idle") /\ req[w].node = n

Goto(w, step) == req' = [req EXCEPT ![w].pc = step]

(* The loop body of evaluate_and_apply is done with this result. *)
Done(w) ==
  req' = [req EXCEPT ![w].pc = "next", ![w].rule = None, ![w].alert = None,
                     ![w].verdict = None, ![w].action = None]

(* After a call that may be the last one for this result. *)
Continue(w, step) == IF step = "next" THEN Done(w) ELSE Goto(w, step)

(* A payload of node n collected at time t, for which the rule engine       *)
(* returns a breached result for the rules "breaching" and a not-breached   *)
(* one for "clear".                                                         *)
Ingest(w, n, t, breaching, clear) ==
  /\ At(w, "idle")
  /\ <<breaching, clear>> \in Verdicts
  /\ ~(Serial /\ \E v \in Workers : Serving(v, n))
  /\ req' = [req EXCEPT ![w] =
       [pc |-> "next", node |-> n, at |-> t,
        breaching |-> breaching, clear |-> clear,
        rule |-> None, alert |-> None, verdict |-> None, action |-> None,
        dispatched |-> {}]]
  /\ UNCHANGED <<alerts, actions, ackReq, sent>>

Take(w, r, step, i) ==
  req' = [req EXCEPT ![w].pc = step,
                     ![w].rule = IF step = "next" THEN None ELSE r,
                     ![w].alert = i,
                     ![w].breaching = @ \ {r}, ![w].clear = @ \ {r}]

FindOpenAlert(w, r) ==
  /\ At(w, "next")
  /\ LET open == Open(req[w].node, r) IN
       \/ /\ r \in req[w].breaching
          /\ \/ open = {} /\ Take(w, r, "create", None)
             \/ \E i \in open : Take(w, r, "advance", i)
       \/ /\ r \in req[w].clear
          /\ \/ open = {} /\ Take(w, r, "next", None)
             \/ \E i \in open : Take(w, r, "resolve", i)
  /\ UNCHANGED <<alerts, actions, ackReq, sent>>

CreateAlert(w, i) ==
  /\ At(w, "create")
  /\ alerts[i] = NoRow
  /\ alerts' = [alerts EXCEPT ![i] =
       [status |-> "firing", node |-> req[w].node, rule |-> req[w].rule,
        first |-> req[w].at, ack |-> FALSE, esc |-> FALSE, rem |-> FALSE]]
  /\ Done(w)
  /\ UNCHANGED <<actions, ackReq, sent>>

(* update_last_fired changes only columns no decision reads; what matters   *)
(* is the row it returns.                                                   *)
UpdateLastFired(w) ==
  /\ At(w, "advance")
  /\ Continue(w, AfterAdvance(req[w].rule, alerts[req[w].alert], req[w].at))
  /\ UNCHANGED <<alerts, actions, ackReq, sent>>

EscalateAlert(w) ==
  /\ At(w, "escalate")
  /\ alerts' = [alerts EXCEPT ![req[w].alert].esc = TRUE]
  /\ Continue(w, AfterEscalation(req[w].rule, alerts'[req[w].alert], req[w].at))
  /\ UNCHANGED <<actions, ackReq, sent>>

ResolveAlert(w) ==
  /\ At(w, "resolve")
  /\ alerts' = [alerts EXCEPT ![req[w].alert].status = "resolved"]
  /\ Done(w)
  /\ UNCHANGED <<actions, ackReq, sent>>

(* RemediationEngine.decide: two reads, then the insert. *)
CheckCooldown(w) ==
  /\ At(w, "cooldown")
  /\ IF OnCooldown(req[w].node, PlaybookFor[req[w].rule], req[w].at)
       THEN req' = [req EXCEPT ![w].pc = "decide", ![w].verdict = "blocked"]
       ELSE Goto(w, "rate")
  /\ UNCHANGED <<alerts, actions, ackReq, sent>>

(* Mutant: no verdict is recorded when no limit applies. *)
CheckRateLimitNoVerdict(w) ==
  /\ At(w, "rate")
  /\ req' = [req EXCEPT ![w].pc = "decide",
       ![w].verdict = IF AtRateLimit(req[w].node, req[w].at) THEN "blocked" ELSE None]
  /\ UNCHANGED <<alerts, actions, ackReq, sent>>

CheckRateLimit(w) ==
  /\ At(w, "rate")
  /\ req' = [req EXCEPT ![w].pc = "decide",
       ![w].verdict = IF AtRateLimit(req[w].node, req[w].at)
                        THEN "blocked" ELSE "dispatched"]
  /\ UNCHANGED <<alerts, actions, ackReq, sent>>

CreateAction(w, a) ==
  /\ At(w, "decide")
  /\ actions[a] = NoRow
  /\ actions' = [actions EXCEPT ![a] =
       [status |-> req[w].verdict, node |-> req[w].node, alert |-> req[w].alert,
        playbook |-> PlaybookFor[req[w].rule], created |-> req[w].at]]
  /\ req' = [req EXCEPT ![w].pc = "mark", ![w].action = a]
  /\ UNCHANGED <<alerts, ackReq, sent>>

(* Mutant: a blocked action rides the Ack as well. *)
MarkRemediatedAnyStatus(w) ==
  /\ At(w, "mark")
  /\ alerts' = [alerts EXCEPT ![req[w].alert].rem = TRUE]
  /\ req' = [req EXCEPT
       ![w].pc = "next", ![w].rule = None, ![w].alert = None,
       ![w].verdict = None, ![w].action = None,
       ![w].dispatched = @ \cup {req[w].action}]
  /\ UNCHANGED <<actions, ackReq, sent>>

MarkRemediated(w) ==
  /\ At(w, "mark")
  /\ alerts' = [alerts EXCEPT ![req[w].alert].rem = TRUE]
  /\ req' = [req EXCEPT
       ![w].pc = "next", ![w].rule = None, ![w].alert = None,
       ![w].verdict = None, ![w].action = None,
       ![w].dispatched = IF req[w].verdict = "dispatched"
                           THEN @ \cup {req[w].action} ELSE @]
  /\ UNCHANGED <<actions, ackReq, sent>>

(* Every result is applied: the Ack carries the dispatched actions. *)
SendAck(w) ==
  /\ At(w, "next")
  /\ req[w].breaching = {} /\ req[w].clear = {}
  /\ sent' = sent \cup req[w].dispatched
  /\ req' = [req EXCEPT ![w] = Idle]
  /\ UNCHANGED <<alerts, actions, ackReq>>

(* A call raises: _evaluate_rules_best_effort swallows the exception and    *)
(* the Ack carries no action at all.  A Collector that dies mid-request     *)
(* leaves the same state behind.                                            *)
Fail(w) ==
  /\ CommitsFail
  /\ ~At(w, "idle")
  /\ req' = [req EXCEPT ![w] = Idle]
  /\ UNCHANGED <<alerts, actions, ackReq, sent>>

-----------------------------------------------------------------------------
(* AlertEvaluationService.acknowledge: the check, then the commit. *)

AcknowledgeRead(i) ==
  /\ alerts[i].status = "firing"
  /\ ackReq' = ackReq \cup {i}
  /\ UNCHANGED <<alerts, actions, req, sent>>

AcknowledgeWrite(i) ==
  /\ i \in ackReq
  /\ alerts' = [alerts EXCEPT ![i].ack = TRUE]
  /\ ackReq' = ackReq \ {i}
  /\ UNCHANGED <<actions, req, sent>>

AcknowledgeFail(i) ==
  /\ CommitsFail
  /\ i \in ackReq
  /\ ackReq' = ackReq \ {i}
  /\ UNCHANGED <<alerts, actions, req, sent>>

-----------------------------------------------------------------------------
Step(w) ==
  \/ \E r \in Rules : FindOpenAlert(w, r)
  \/ \E i \in AlertIds : CreateAlert(w, i)
  \/ UpdateLastFired(w)
  \/ EscalateAlert(w)
  \/ ResolveAlert(w)
  \/ CheckCooldown(w)
  \/ CheckRateLimit(w)
  \/ \E a \in ActionIds : CreateAction(w, a)
  \/ MarkRemediated(w)
  \/ SendAck(w)

Next ==
  \/ \E w \in Workers, n \in Nodes, t \in Times, breaching \in SUBSET Rules :
       \E clear \in SUBSET (Rules \ breaching) : Ingest(w, n, t, breaching, clear)
  \/ \E w \in Workers : Step(w) \/ Fail(w)
  \/ \E i \in AlertIds :
       AcknowledgeRead(i) \/ AcknowledgeWrite(i) \/ AcknowledgeFail(i)

Spec == Init /\ [][Next]_vars

-----------------------------------------------------------------------------
(* Properties *)

(* The tables and the requests in flight hold rows of the declared types. *)
TypeOK ==
  /\ alerts \in [AlertIds -> AlertRow \cup {NoRow}]
  /\ actions \in [ActionIds -> ActionRow \cup {NoRow}]
  /\ req \in [Workers -> Request \cup {Idle}]
  /\ ackReq \subseteq AlertIds
  /\ sent \subseteq ActionIds

(* Whatever overlaps or fails, an action is only ever recorded for an alert *)
(* that has been escalated and has been firing for RemediationAfter:        *)
(* _should_remediate never looks at escalated_at, so this rests on the      *)
(* order of the calls in _open_or_advance and the validated setting.        *)
EscalatedFirst ==
  \A a \in ActionIds : actions[a] # NoRow =>
    LET row == alerts[actions[a].alert] IN
      /\ row # NoRow
      /\ row.esc
      /\ row.node = actions[a].node
      /\ actions[a].created - row.first >= RemediationAfter

(* An action that reached an Agent is a dispatched one whose alert is       *)
(* marked remediated, so no later request considers that alert again.       *)
SentIsSettled ==
  \A a \in sent : /\ actions[a].status = "dispatched"
                  /\ alerts[actions[a].alert].rem

(* At most one firing alert per (node, rule): the dedup of                  *)
(* _open_or_advance, as AlertModel's docstring states it.                   *)
OneOpenAlert ==
  \A i, j \in AlertIds :
    /\ alerts[i].status = "firing" /\ alerts[j].status = "firing"
    /\ alerts[i].node = alerts[j].node /\ alerts[i].rule = alerts[j].rule
    => i = j

Dispatched(n) ==
  {a \in ActionIds : actions[a].status = "dispatched" /\ actions[a].node = n}

(* Two dispatched runs of one playbook on one node are at least Cooldown    *)
(* apart, in whatever order their payloads arrived.                         *)
CooldownRespected ==
  \A n \in Nodes : \A a, b \in Dispatched(n) :
    a # b /\ actions[a].playbook = actions[b].playbook =>
      \/ actions[a].created - actions[b].created >= Cooldown
      \/ actions[b].created - actions[a].created >= Cooldown

Window(n, from) ==
  {a \in Dispatched(n) : /\ actions[a].created >= from
                         /\ actions[a].created <= from + Hour}

(* max_remediations_per_node_per_hour: no rolling hour, wherever it starts, *)
(* holds more dispatched actions of a node than the limit.                  *)
RateLimitRespected ==
  \A n \in Nodes, from \in Times : Cardinality(Window(n, from)) <= MaxPerHour

(* "Attempted at most once per alert": of the decisions recorded for one    *)
(* alert, which a failing mark_remediated may multiply, at most one reaches *)
(* an Agent.                                                                *)
OneSentPerAlert ==
  \A a, b \in sent : actions[a].alert = actions[b].alert => a = b

(* A resolved alert is history: no step changes its row any more, except    *)
(* that an acknowledge request which read it as firing may still land.      *)
ResolvedIsFinal ==
  [][\A i \in AlertIds : alerts[i].status = "resolved" =>
       \/ alerts'[i] = alerts[i]
       \/ i \in ackReq /\ alerts'[i] = [alerts[i] EXCEPT !.ack = TRUE]]_vars

ActionsOf(i) == {a \in ActionIds : actions[a] # NoRow /\ actions[a].alert = i}

(* An operator has acknowledged the alert, and no request decided on it     *)
(* before that and has yet to act.                                          *)
Claimed(i) ==
  /\ alerts[i] # NoRow /\ alerts[i].ack
  /\ \A w \in Workers : ~At(w, "idle") /\ req[w].alert = i =>
       req[w].pc \in {"next", "advance", "resolve"}

(* "Suppressing further escalation" (acknowledge): whatever payloads arrive *)
(* after that, a claimed alert stays claimed, is not escalated and not      *)
(* remediated.  Only a request that had read the row before the             *)
(* acknowledgement committed may still do so.                               *)
AcknowledgedIsLeftAlone ==
  [][\A i \in AlertIds : Claimed(i) =>
       /\ Claimed(i)'
       /\ alerts'[i].esc = alerts[i].esc /\ alerts'[i].rem = alerts[i].rem
       /\ ActionsOf(i)' = ActionsOf(i)]_vars

StageOf(n, r) ==
  LET open == Open(n, r) IN
    IF open = {} THEN "closed"
    ELSE IF \E i \in open : alerts[i].rem THEN "remediated"
    ELSE IF \E i \in open : alerts[i].esc THEN "escalated"
    ELSE "open"

Stages == INSTANCE AlertStages WITH
            Conditions <- Nodes \X Rules,
            stage <- [c \in Nodes \X Rules |-> StageOf(c[1], c[2])]

(* The rows, read as one condition per node and rule, move the way the      *)
(* abstract lifecycle allows: opened once, escalated before remediated,     *)
(* remediated at most once before it closes.                                *)
ImplementsStages == Stages!Spec
=============================================================================
