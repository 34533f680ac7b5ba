-------------------------- MODULE CollectorStartup --------------------------
(***************************************************************************)
(* The Collector process across restarts: CollectorSettings and its        *)
(* validators, the two configuration files and their loaders, create_app   *)
(* and the lifespan, bearer-token authentication, and the ingestion of     *)
(* payloads under whatever configuration was loaded.                       *)
(*                                                                         *)
(* Settings and files are read once per start, one after the other, and an *)
(* operator may edit them at any time, so each is chosen anew where it is  *)
(* read.  Alerts outlive the process: a row opened under one configuration *)
(* is advanced, escalated and remediated under the next.                   *)
(*                                                                         *)
(* One node; a rule result is applied in one step here, AlertLifecycle has *)
(* the interleavings inside it.                                            *)
(***************************************************************************)
EXTENDS Integers, Sequences

CONSTANTS
  Metrics,         \* metric types
  MaxSamples,      \* bounds the samples of a payload
  MaxRaised,       \* bounds the evaluations that raise
  Tokens, Blank,   \* bearer tokens; a blank entry of the comma-separated list
  SettingsSpace,   \* the environments an operator may start the process with
  RulesFiles,      \* what the file at rules_config_path may hold
  PolicyFiles,     \* what the file at remediation_policy_config_path may hold
  MaxAge           \* no delay is longer; an alert's age is counted up to it

(* A rule key is "{kind}:{metric_type}". *)
Keys == {"threshold", "rate_of_change"} \X Metrics

ActionTypes == {"noop", "clear_directory", "restart_service"}

Playbook == [key : Keys, action : ActionTypes, path : BOOLEAN]

Settings ==
  [environment : {"dev", "staging", "prod"},
   api_tokens : SUBSET (Tokens \cup {Blank}),
   telegram : SUBSET {"bot_token", "chat_id"},
   remediation_enabled : BOOLEAN,
   escalation_after : 0..MaxAge, remediation_after : 0..MaxAge,
   retention_enabled : BOOLEAN, staleness_enabled : BOOLEAN,
   reconciliation_enabled : BOOLEAN,
   alert_retention : Nat \ {0}, action_retention : Nat \ {0}]

(* A file that cannot be read, is not JSON or does not fit the schema does  *)
(* not parse.                                                               *)
ASSUME ConfigurationAssumption ==
  /\ MaxAge \in Nat /\ MaxSamples \in Nat /\ MaxRaised \in Nat /\ Blank \notin Tokens
  /\ SettingsSpace \subseteq Settings
  /\ \A f \in RulesFiles : f.parses \in BOOLEAN /\ f.rules \in Seq(Keys)
  /\ \A f \in PolicyFiles : f.parses \in BOOLEAN /\ f.playbooks \in Seq(Playbook)

VARIABLES
  proc,          \* how far create_app and the server have come
  settings, rules, policy,        \* app.state; <<>> before it is set
  jobs,          \* jobs the scheduler thread runs
  request,       \* the payload being ingested
  raised,        \* how many evaluations raised
  alerts         \* the node's latest alert of each rule key

app == <<proc, settings, rules, policy, jobs>>
vars == <<app, request, raised, alerts>>

-----------------------------------------------------------------------------
(* "decided" is history: the audit log has a row for this alert. *)
AlertRow ==
  [status : {"none", "firing", "resolved"}, age : 0..MaxAge,
   ack : BOOLEAN, esc : BOOLEAN, rem : BOOLEAN, decided : BOOLEAN]

NoAlert ==
  [status |-> "none", age |-> 0, ack |-> FALSE, esc |-> FALSE, rem |-> FALSE,
   decided |-> FALSE]

NoRequest == <<>>

(* What is left to apply of a payload and, as history, the messages it has  *)
(* sent for each rule key.                                                  *)
Request ==
  [token : Tokens \cup {Blank},
   todo : Seq([key : Keys, verdict : {"breached", "clear", "no_result"}]),
   told : [Keys -> Seq({"opened", "escalated", "resolved"})]]

Init ==
  /\ proc = "down" /\ settings = <<>> /\ rules = <<>> /\ policy = <<>>
  /\ jobs = {} /\ request = NoRequest /\ raised = 0
  /\ alerts = [k \in Keys |-> NoAlert]

-----------------------------------------------------------------------------
(* Validation *)

(* Mutant: blank entries count as tokens. *)
TokenSetWithBlanks(s) == s.api_tokens

TokenSet(s) == s.api_tokens \ {Blank}

RequireTokensOutsideDev(s) == s.environment # "dev" => TokenSet(s) # {}

RequireTelegramBothOrNeither(s) == ("bot_token" \in s.telegram) = ("chat_id" \in s.telegram)

RequireAlertRetention(s) == s.retention_enabled => s.alert_retention <= s.action_retention

(* Mutant: the order of the two delays is not checked. *)
AnyDelays(s) == TRUE

RequireRemediationAfterEscalation(s) ==
  s.remediation_enabled => s.remediation_after >= s.escalation_after

ValidSettings(s) ==
  /\ RequireTokensOutsideDev(s) /\ RequireTelegramBothOrNeither(s)
  /\ RequireAlertRetention(s) /\ RequireRemediationAfterEscalation(s)

NoDuplicate(keys) == \A i, j \in DOMAIN keys : keys[i] = keys[j] => i = j

ValidRules(f) == f.parses /\ NoDuplicate(f.rules)

ValidAction(p) ==
  /\ p.action = "clear_directory" => p.path
  /\ p.action # "restart_service"

ValidPolicy(f) ==
  /\ f.parses
  /\ NoDuplicate([i \in DOMAIN f.playbooks |-> f.playbooks[i].key])
  /\ \A i \in DOMAIN f.playbooks : ValidAction(f.playbooks[i])

-----------------------------------------------------------------------------
(* create_app, the lifespan, and the end of the process *)

EnabledJobs(s) ==
  {j \in {"retention", "staleness", "reconciliation"} :
     \/ j = "retention" /\ s.retention_enabled
     \/ j = "staleness" /\ s.staleness_enabled
     \/ j = "reconciliation" /\ s.reconciliation_enabled}

Notifying == settings.telegram = {"bot_token", "chat_id"}

(* Mutant: the scheduler starts as soon as it is built. *)
BuildAndStart(s) ==
  /\ proc = "down" /\ ValidSettings(s)
  /\ proc' = "wired" /\ settings' = s /\ jobs' = EnabledJobs(s)
  /\ UNCHANGED <<rules, policy, request, raised, alerts>>

(* Settings that fail validation raise before anything exists.  The session *)
(* factory, notifier and job scheduler are built, not started.              *)
BuildSettings(s) ==
  /\ proc = "down" /\ ValidSettings(s)
  /\ proc' = "wired" /\ settings' = s
  /\ UNCHANGED <<rules, policy, jobs, request, raised, alerts>>

(* The process is gone, and with it app.state, its threads and requests. *)
Ended ==
  /\ proc' = "down" /\ settings' = <<>> /\ rules' = <<>> /\ policy' = <<>>
  /\ jobs' = {} /\ request' = NoRequest

LoadRules(f) ==
  /\ proc = "wired"
  /\ \/ /\ ValidRules(f)
        /\ proc' = "ruled" /\ rules' = f.rules
        /\ UNCHANGED <<settings, policy, jobs, request>>
     \/ ~ValidRules(f) /\ Ended
  /\ UNCHANGED <<raised, alerts>>

LoadPolicy(f) ==
  /\ proc = "ruled"
  /\ \/ /\ ValidPolicy(f)
        /\ proc' = "created" /\ policy' = f.playbooks
        /\ UNCHANGED <<settings, rules, jobs, request>>
     \/ ~ValidPolicy(f) /\ Ended
  /\ UNCHANGED <<raised, alerts>>

StartServing ==
  /\ proc = "created"
  /\ proc' = "serving" /\ jobs' = EnabledJobs(settings)
  /\ UNCHANGED <<settings, rules, policy, request, raised, alerts>>

(* A shutdown (the lifespan stops the scheduler) or a crash, at any point. *)
Stop ==
  /\ proc # "down"
  /\ Ended
  /\ UNCHANGED <<raised, alerts>>

-----------------------------------------------------------------------------
(* Requests *)

(* verify_api_token; a request without credentials presents a blank. *)
Authorised(token) == TokenSet(settings) = {} \/ token \in TokenSet(settings)

(* A sample, by what the two rules of its metric would say of it.  The      *)
(* rate-of-change rule says nothing without an earlier sample in its window.*)
Sample ==
  [metric : Metrics, threshold : {"breached", "clear"},
   rate_of_change : {"breached", "clear", "no_result"}]

(* The contract takes any list, several samples of one metric too. *)
Payloads == UNION {[1..n -> Sample] : n \in 0..MaxSamples}

(* The rules in force, looked up by kind and metric. *)
InForce == {rules[i] : i \in DOMAIN rules}

Result(sample, kind) ==
  LET k == <<kind, sample.metric>>
  IN  [key |-> k, verdict |-> IF k \in InForce THEN sample[kind] ELSE "no_result"]

(* RuleEngine.evaluate: of each sample in turn, its threshold result and    *)
(* then its rate-of-change result.                                          *)
Results(samples) ==
  [j \in 1..2 * Len(samples) |->
     IF j % 2 = 1 THEN Result(samples[(j + 1) \div 2], "threshold")
                  ELSE Result(samples[j \div 2], "rate_of_change")]

Push(token, samples) ==
  /\ proc = "serving" /\ request = NoRequest
  /\ Authorised(token)
  /\ request' = [token |-> token, todo |-> Results(samples),
                 told |-> [k \in Keys |-> <<>>]]
  /\ UNCHANGED <<app, raised, alerts>>

Acknowledge(token, k) ==
  /\ proc = "serving" /\ Authorised(token)
  /\ alerts[k].status = "firing"
  /\ alerts' = [alerts EXCEPT ![k].ack = TRUE]
  /\ UNCHANGED <<app, request, raised>>

ShouldEscalate(row) == ~row.ack /\ ~row.esc /\ row.age >= settings.escalation_after

Escalated(row) == IF ShouldEscalate(row) THEN [row EXCEPT !.esc = TRUE] ELSE row

ShouldRemediate(row) == ~row.ack /\ ~row.rem /\ row.age >= settings.remediation_after

(* RemediationEngine: the playbook decide() would act on, if any. *)
Mapped(k) ==
  {policy[i] : i \in {j \in DOMAIN policy : settings.remediation_enabled /\ policy[j].key = k}}

(* Mutant: the one attempt is used up although decide() returned None. *)
ConsumeAttempt(k, row) ==
  IF ShouldRemediate(row) THEN [row EXCEPT !.rem = TRUE, !.decided = Mapped(k) # {}] ELSE row

(* Dispatched or blocked by a safety limit, a decision is recorded and the  *)
(* alert marked; without one nothing happens.                               *)
Remediated(k, row) ==
  IF ShouldRemediate(row) /\ Mapped(k) # {}
    THEN [row EXCEPT !.rem = TRUE, !.decided = TRUE] ELSE row

(* The message of this transition, if a notifier is configured.  Delivery   *)
(* is a single attempt that never raises.                                   *)
Tell(k, transition) ==
  IF Notifying THEN [request.told EXCEPT ![k] = Append(@, transition)] ELSE request.told

(* The result at the head of the list is for this key, with this verdict. *)
Due(k, verdict) ==
  /\ request # NoRequest /\ request.todo # <<>>
  /\ Head(request.todo) = [key |-> k, verdict |-> verdict]

(* _apply is done: the row after the result, the messages sent.             *)
Applied(k, row, told) ==
  /\ alerts' = [alerts EXCEPT ![k] = row]
  /\ request' = [request EXCEPT !.todo = Tail(@), !.told = told]
  /\ UNCHANGED <<app, raised>>

Open(k) ==
  /\ Due(k, "breached") /\ alerts[k].status # "firing"
  /\ Applied(k, [NoAlert EXCEPT !.status = "firing"], Tell(k, "opened"))

Advance(k) ==
  /\ Due(k, "breached") /\ alerts[k].status = "firing"
  /\ Applied(k, Remediated(k, Escalated(alerts[k])),
             IF ShouldEscalate(alerts[k]) THEN Tell(k, "escalated") ELSE request.told)

(* Mutant: a clear result resolves whatever row the rule had last. *)
ResolveAny(k) ==
  /\ Due(k, "clear") /\ alerts[k].status # "none"
  /\ Applied(k, [alerts[k] EXCEPT !.status = "resolved"], Tell(k, "resolved"))

Resolve(k) ==
  /\ Due(k, "clear") /\ alerts[k].status = "firing"
  /\ Applied(k, [alerts[k] EXCEPT !.status = "resolved"], Tell(k, "resolved"))

(* The rule engine returns no result, or a clear one finds nothing open. *)
Skip(k) ==
  /\ Due(k, "no_result") \/ (Due(k, "clear") /\ alerts[k].status # "firing")
  /\ Applied(k, alerts[k], request.told)

Apply == \E k \in Keys : Open(k) \/ Advance(k) \/ Resolve(k) \/ Skip(k)

(* A call raises; _evaluate_rules_best_effort swallows it, and what was     *)
(* applied before stays.                                                    *)
EvaluationRaises ==
  /\ request # NoRequest /\ request.todo # <<>>
  /\ raised < MaxRaised
  /\ raised' = raised + 1
  /\ request' = [request EXCEPT !.todo = <<>>]
  /\ UNCHANGED <<app, alerts>>

(* The Ack goes out. *)
Answer ==
  /\ request # NoRequest /\ request.todo = <<>>
  /\ request' = NoRequest
  /\ UNCHANGED <<app, raised, alerts>>

(* Time passes for every firing alert; within a request it does not, since  *)
(* ages are measured at the payload's collected_at.                         *)
Tick ==
  /\ request = NoRequest
  /\ \E k \in Keys : alerts[k].status = "firing" /\ alerts[k].age < MaxAge
  /\ alerts' = [k \in Keys |->
       IF alerts[k].status = "firing" /\ alerts[k].age < MaxAge
         THEN [alerts[k] EXCEPT !.age = @ + 1] ELSE alerts[k]]
  /\ UNCHANGED <<app, request, raised>>

-----------------------------------------------------------------------------
Presented == Tokens \cup {Blank}

Next ==
  \/ \E s \in SettingsSpace : BuildSettings(s)
  \/ \E f \in RulesFiles : LoadRules(f)
  \/ \E f \in PolicyFiles : LoadPolicy(f)
  \/ StartServing \/ Stop
  \/ \E token \in Presented, samples \in Payloads : Push(token, samples)
  \/ \E token \in Presented, k \in Keys : Acknowledge(token, k)
  \/ Apply \/ EvaluationRaises \/ Answer \/ Tick

Spec == Init /\ [][Next]_vars

(* A payload under way has a result of this rule still to apply. *)
Evaluates(k) ==
  /\ request # NoRequest
  /\ \E i \in DOMAIN request.todo :
       request.todo[i].key = k /\ request.todo[i].verdict # "no_result"

(* The node keeps pushing, with time between its payloads: a rule that      *)
(* stays in force is evaluated again and again.  Each request is worked off *)
(* and answered.                                                            *)
FairSpec ==
  /\ Spec
  /\ SF_vars(Tick)
  /\ \A k \in Keys : <>[](proc = "serving" /\ k \in InForce) => []<>Evaluates(k)
  /\ WF_vars(Apply \/ Answer)

-----------------------------------------------------------------------------
(* Properties *)

(* What is loaded, in flight and stored has its type; settings and files    *)
(* are loaded in create_app's order.                                        *)
TypeOK ==
  /\ proc \in {"down", "wired", "ruled", "created", "serving"}
  /\ settings \in IF proc = "down" THEN {<<>>} ELSE SettingsSpace
  /\ rules \in Seq(Keys)
  /\ policy \in Seq(Playbook)
  /\ jobs \subseteq {"retention", "staleness", "reconciliation"}
  /\ request = NoRequest \/ request \in Request
  /\ raised \in 0..MaxRaised
  /\ alerts \in [Keys -> AlertRow]

(* "The Collector cannot boot unauthenticated outside local development":   *)
(* a payload taken on outside dev presented a token that is configured and  *)
(* not blank.  It rests on the validator, on token_set dropping blanks and  *)
(* on a request without credentials presenting a blank, all at once.        *)
Authenticated ==
  request # NoRequest /\ settings.environment # "dev" =>
    request.token # Blank /\ request.token \in settings.api_tokens

(* Automation acts only after the alert was escalated to a human, although  *)
(* the alert may have aged under other delays, with remediation switched    *)
(* off, before the configuration changed.                                   *)
HumanFirst == \A k \in Keys : alerts[k].decided => alerts[k].esc

(* What may be announced of one rule after what, within one payload: an     *)
(* alert just opened has age 0 and is escalated only if that is the delay.  *)
MayFollow(first, second) ==
  \/ first \in {"opened", "escalated"} /\ second = "resolved"
  \/ first = "resolved" /\ second = "opened"
  \/ first = "opened" /\ second = "escalated" /\ settings.escalation_after = 0

(* A payload with several samples of one metric applies several results to  *)
(* one alert, each to a row the one before may have changed, while          *)
(* acknowledgements come in.  Nothing is announced twice or out of order,   *)
(* and the last thing announced is what the row says.                       *)
AnnouncedInOrder ==
  request # NoRequest =>
    \A k \in Keys :
      LET told == request.told[k]
      IN  /\ \A i \in 1..Len(told) - 1 : MayFollow(told[i], told[i + 1])
          /\ told # <<>> =>
               alerts[k].status = IF told[Len(told)] = "resolved" THEN "resolved" ELSE "firing"

(* Background jobs run only in a process that serves, and only those whose  *)
(* settings were validated; a start that fails half way leaves none behind. *)
JobsOfServingOnly ==
  jobs # {} => /\ proc = "serving"
               /\ "retention" \in jobs =>
                    settings.alert_retention <= settings.action_retention

(* "Later configuration changes (enabling remediation, adding a Playbook)"  *)
(* take effect on alerts that are already firing: once a Collector with     *)
(* remediation enabled and a playbook for the rule stays up, an alert that  *)
(* keeps firing unacknowledged gets its decision.                           *)
Eligible(k) ==
  /\ proc = "serving" /\ alerts[k].status = "firing" /\ ~alerts[k].ack
  /\ k \in InForce
  /\ Mapped(k) # {}

LaterChangesTakeEffect == \A k \in Keys : <>[]Eligible(k) => <>(alerts[k].decided)
=============================================================================
