------------------------- MODULE MCCollectorStartup -------------------------
(* An instance of CollectorStartup for TLC: the configurations an operator   *)
(* may leave behind are a base and what differs from it in one group of      *)
(* settings that are checked together.                                       *)
EXTENDS CollectorStartup, FiniteSets

CONSTANTS m1, t1

RateOfChange == <<"rate_of_change", m1>>

Base ==
  [environment |-> "dev", api_tokens |-> {}, telegram |-> {},
   remediation_enabled |-> FALSE, escalation_after |-> 0, remediation_after |-> 0,
   retention_enabled |-> FALSE, staleness_enabled |-> FALSE,
   reconciliation_enabled |-> FALSE, alert_retention |-> 1, action_retention |-> 1]

(* Who may push. *)
Access ==
  {[Base EXCEPT !.environment = e, !.api_tokens = t] :
     e \in {"dev", "prod"}, t \in SUBSET {t1, Blank}}

(* What becomes of alerts. *)
Alerting ==
  {[Base EXCEPT !.telegram = c, !.remediation_enabled = b, !.escalation_after = e,
                !.remediation_after = r] :
     c \in SUBSET {"bot_token", "chat_id"}, b \in BOOLEAN, e \in 0..MaxAge, r \in 0..MaxAge}

(* Which jobs run. *)
Background ==
  {[Base EXCEPT !.retention_enabled = b, !.staleness_enabled = c, !.reconciliation_enabled = c,
                !.alert_retention = a, !.action_retention = r] :
     b \in BOOLEAN, c \in BOOLEAN, a \in 1..2, r \in 1..2}

MCSettings == Access \cup Alerting \cup Background

MCRulesFiles ==
  {[parses |-> FALSE, rules |-> <<>>]}
    \cup {[parses |-> TRUE, rules |-> r] : r \in {<<>>, <<RateOfChange>>, <<RateOfChange, RateOfChange>>}}

One(action, path) == <<[key |-> RateOfChange, action |-> action, path |-> path]>>

MCPolicyFiles ==
  {[parses |-> FALSE, playbooks |-> <<>>]}
    \cup {[parses |-> TRUE, playbooks |-> p] :
            p \in {<<>>, One("noop", FALSE), One("clear_directory", TRUE),
                   One("clear_directory", FALSE), One("restart_service", FALSE),
                   One("noop", FALSE) \o One("clear_directory", TRUE)}}
=============================================================================
