------------------------ MODULE RemediationDispatch -------------------------
(***************************************************************************)
(* The life of a remediation action after it was recorded as DISPATCHED:   *)
(* the Ack that carries it, the Agent that executes it and reports back    *)
(* over HTTP with retries, RemediationActionService.report_result, the     *)
(* ReconciliationJob that times unanswered dispatches out, and the         *)
(* retention sweep of the audit log.                                       *)
(*                                                                         *)
(* The result handler and the job each read a row in one transaction and   *)
(* write it in a later one; both run concurrently.  The jobs share one     *)
(* scheduler thread, so reconciliation and retention never overlap.        *)
(***************************************************************************)
EXTENDS Integers, FiniteSets

CONSTANTS
  Actions, None,
  DispatchTimeout,       \* remediation_dispatch_timeout_seconds
  ActionRetention,       \* remediation_actions_retention_days
  RetryAttempts,         \* http_retry_attempts of the Agent
  MaxTime,               \* bounds the Collector's clock
  MaxDispatch,           \* no action is dispatched after this time
  Faults                 \* TRUE: requests time out, commits fail, Agents die

ASSUME DispatchAssumption ==
  /\ None \notin Actions \cup {"executed", "failed"}
  /\ DispatchTimeout \in Nat \ {0} /\ ActionRetention \in Nat \ {0}
  /\ RetryAttempts \in Nat \ {0}
  /\ MaxTime \in Nat /\ MaxDispatch \in 0..MaxTime
  /\ Faults \in BOOLEAN

VARIABLES
  now,        \* the Collector's wall clock
  row,        \* the remediation_actions table
  agent,      \* the Agent's loop over an Ack's pending_actions
  outcome,    \* what executing the action on the node really came to
  handlers,   \* result requests inside the Collector
  sweep       \* the action ids the running reconciliation still has to mark

vars == <<now, row, agent, outcome, handlers, sweep>>

-----------------------------------------------------------------------------
NoRow == [status |-> "none"]
Pruned == [status |-> "pruned"]      \* PostgreSQL never reuses a serial id

Row ==
  [status : {"dispatched", "executed", "failed"}, created : 0..MaxTime,
   timedOut : BOOLEAN]                         \* reason = TIMED_OUT_REASON

Results == {"executed", "failed"}

(* "todo" are the actions of the current Ack still to execute; "cur" is the *)
(* executed one whose result is being reported, in attempt "tries".         *)
AgentState ==
  [todo : SUBSET Actions, cur : Actions \cup {None}, tries : 0..RetryAttempts,
   waiting : BOOLEAN]

AgentIdle == [todo |-> {}, cur |-> None, tries |-> 0, waiting |-> FALSE]

(* A result request: its attempt number, and where its handler stands. *)
Handler ==
  [action : Actions, result : Results, try : 1..RetryAttempts, pc : {"check", "write"}]

Init ==
  /\ now = 0
  /\ row = [a \in Actions |-> NoRow]
  /\ agent = AgentIdle
  /\ outcome = [a \in Actions |-> None]
  /\ handlers = {}
  /\ sweep = {}

-----------------------------------------------------------------------------
(* Dispatch *)

Tick ==
  /\ now < MaxTime
  /\ now' = now + 1
  /\ UNCHANGED <<row, agent, outcome, handlers, sweep>>

(* The actions of one payload, collected at t, are recorded.  Their Ack     *)
(* reaches an Agent that executes them, or no execution ever follows: the   *)
(* request timed out, the payload was a buffered one (whose Ack the Agent   *)
(* ignores), the Agent has no executor, or evaluation failed afterwards.    *)
Dispatch(batch, t, delivered) ==
  /\ batch # {} /\ now <= MaxDispatch /\ t <= now
  /\ \A a \in batch : row[a] = NoRow
  /\ row' = [a \in Actions |->
       IF a \in batch
         THEN [status |-> "dispatched", created |-> t, timedOut |-> FALSE]
         ELSE row[a]]
  /\ IF delivered
       THEN agent = AgentIdle /\ agent' = [agent EXCEPT !.todo = batch]
       ELSE UNCHANGED agent
  /\ UNCHANGED <<now, outcome, handlers, sweep>>

-----------------------------------------------------------------------------
(* The Agent: _execute_pending_actions, _report_action_result, HttpTransport *)

Execute(a, result) ==
  /\ agent.cur = None
  /\ a \in agent.todo
  /\ outcome' = [outcome EXCEPT ![a] = result]
  /\ agent' = [agent EXCEPT !.todo = @ \ {a}, !.cur = a, !.tries = 0, !.waiting = FALSE]
  /\ UNCHANGED <<now, row, handlers, sweep>>

Post ==
  /\ agent.cur # None /\ ~agent.waiting
  /\ agent' = [agent EXCEPT !.tries = @ + 1, !.waiting = TRUE]
  /\ handlers' = handlers \cup
       {[action |-> agent.cur, result |-> outcome[agent.cur],
         try |-> agent.tries + 1, pc |-> "check"]}
  /\ UNCHANGED <<now, row, outcome, sweep>>

(* The Agent is through with the report: it was accepted, was rejected      *)
(* (4xx), or the retries are exhausted and the result is dropped.           *)
Reported == [agent EXCEPT !.cur = None, !.tries = 0, !.waiting = FALSE]

(* A retryable failure: timeout, connection error or 5xx. *)
Retry ==
  IF agent.tries < RetryAttempts THEN [agent EXCEPT !.waiting = FALSE] ELSE Reported

(* The Collector answers request h; the answer counts only if the Agent is  *)
(* still waiting for that attempt.                                          *)
Answer(h, next) ==
  agent' = IF agent.cur = h.action /\ agent.waiting /\ agent.tries = h.try
             THEN next ELSE agent

(* No answer in time, or the connection was refused and nothing arrived. *)
TimeOut ==
  /\ Faults
  /\ agent.waiting
  /\ agent' = Retry
  /\ \/ handlers' = handlers
     \/ \E h \in handlers :
          /\ h.action = agent.cur /\ h.try = agent.tries /\ h.pc = "check"
          /\ handlers' = handlers \ {h}
  /\ UNCHANGED <<now, row, outcome, sweep>>

(* The process dies (or an unclassified httpx error ends it) and restarts. *)
AgentCrash ==
  /\ Faults
  /\ agent # AgentIdle
  /\ agent' = AgentIdle
  /\ UNCHANGED <<now, row, outcome, handlers, sweep>>

-----------------------------------------------------------------------------
(* RemediationActionService.report_result *)

MarkResult(a, status, timedOut) ==
  row' = [row EXCEPT ![a].status = status, ![a].timedOut = timedOut]

(* 404 for an action that is gone, 409 for one that is not DISPATCHED. *)
CheckReport(h) ==
  /\ h.pc = "check"
  /\ IF row[h.action].status = "dispatched"
       THEN /\ handlers' = (handlers \ {h}) \cup {[h EXCEPT !.pc = "write"]}
            /\ UNCHANGED agent
       ELSE /\ handlers' = handlers \ {h}
            /\ Answer(h, Reported)
  /\ UNCHANGED <<now, row, outcome, sweep>>

(* mark_result does not look at the status again; a row that is gone by     *)
(* now raises PersistenceError (503).                                       *)
WriteReport(h) ==
  /\ h.pc = "write"
  /\ handlers' = handlers \ {h}
  /\ IF row[h.action] = Pruned
       THEN Answer(h, Retry) /\ UNCHANGED row
       ELSE Answer(h, Reported) /\ MarkResult(h.action, h.result, FALSE)
  /\ UNCHANGED <<now, outcome, sweep>>

FailReport(h) ==
  /\ Faults
  /\ handlers' = handlers \ {h}
  /\ Answer(h, Retry)
  /\ UNCHANGED <<now, row, outcome, sweep>>

-----------------------------------------------------------------------------
(* ReconciliationJob.run: list_dispatched_before, then mark_result for each *)

(* Mutants: the timeout is forgotten; the comparison is the wrong way round. *)
OverdueAtOnce(a) == row[a].status = "dispatched" /\ row[a].created < now

OverdueReversed(a) ==
  row[a].status = "dispatched" /\ row[a].created > now - DispatchTimeout

Overdue(a) == row[a].status = "dispatched" /\ row[a].created < now - DispatchTimeout

ListDispatched ==
  /\ sweep = {}
  /\ \E a \in Actions : Overdue(a)
  /\ sweep' = {a \in Actions : Overdue(a)}
  /\ UNCHANGED <<now, row, agent, outcome, handlers>>

(* Mutant: the timeout reason is not recorded. *)
MarkFailedOnly(a) ==
  /\ a \in sweep
  /\ MarkResult(a, "failed", FALSE)
  /\ sweep' = sweep \ {a}
  /\ UNCHANGED <<now, agent, outcome, handlers>>

MarkTimedOut(a) ==
  /\ a \in sweep
  /\ MarkResult(a, "failed", TRUE)
  /\ sweep' = sweep \ {a}
  /\ UNCHANGED <<now, agent, outcome, handlers>>

(* An exception ends this run of the job; the next one starts afresh. *)
FailSweep ==
  /\ Faults
  /\ sweep # {}
  /\ sweep' = {}
  /\ UNCHANGED <<now, row, agent, outcome, handlers>>

(* Mutant: unanswered dispatches are pruned by age as well. *)
PruneUnanswered(batch) ==
  /\ sweep = {}
  /\ batch # {}
  /\ \A a \in batch : row[a] \notin {NoRow, Pruned} /\ row[a].created < now - ActionRetention
  /\ row' = [a \in Actions |-> IF a \in batch THEN Pruned ELSE row[a]]
  /\ UNCHANGED <<now, agent, outcome, handlers, sweep>>

(* RetentionJob: prune_terminal_before, one batch. *)
Prune(batch) ==
  /\ sweep = {}
  /\ batch # {}
  /\ \A a \in batch :
       /\ row[a].status \in Results
       /\ row[a].created < now - ActionRetention
  /\ row' = [a \in Actions |-> IF a \in batch THEN Pruned ELSE row[a]]
  /\ UNCHANGED <<now, agent, outcome, handlers, sweep>>

-----------------------------------------------------------------------------
Next ==
  \/ Tick
  \/ \E batch \in SUBSET Actions, t \in 0..MaxTime, delivered \in BOOLEAN :
       Dispatch(batch, t, delivered)
  \/ \E a \in Actions, result \in Results : Execute(a, result)
  \/ Post \/ TimeOut \/ AgentCrash
  \/ \E h \in handlers : CheckReport(h) \/ WriteReport(h) \/ FailReport(h)
  \/ ListDispatched
  \/ \E a \in Actions : MarkTimedOut(a)
  \/ FailSweep
  \/ \E batch \in SUBSET Actions : Prune(batch)

Spec == Init /\ [][Next]_vars

(* Time passes; the job scheduler runs the job every interval; a run may    *)
(* fail, but not every run at every row.                                    *)
ReconciliationFairness ==
  /\ WF_vars(Tick)
  /\ WF_vars(ListDispatched)
  /\ \A a \in Actions : SF_vars(MarkTimedOut(a))

(* The Agent's loop and the Collector's request threads keep running. *)
ReportFairness ==
  /\ \A a \in Actions : WF_vars(\E result \in Results : Execute(a, result))
  /\ WF_vars(Post)
  /\ WF_vars(\E h \in handlers : CheckReport(h) \/ WriteReport(h))

FairSpec == Spec /\ ReconciliationFairness /\ ReportFairness

-----------------------------------------------------------------------------
(* Properties *)

(* The table, the Agent and the requests in flight keep their types. *)
TypeOK ==
  /\ now \in 0..MaxTime
  /\ row \in [Actions -> Row \cup {NoRow, Pruned}]
  /\ agent \in AgentState
  /\ outcome \in [Actions -> Results \cup {None}]
  /\ handlers \subseteq Handler
  /\ sweep \subseteq Actions

(* A result in the audit log that is not a timeout is what executing the    *)
(* action came to, whatever was retried, lost, late or overlapping.         *)
AuditTruthful ==
  \A a \in Actions :
    row[a].status \in Results => row[a].timedOut \/ row[a].status = outcome[a]

(* Nothing is declared timed out before its timeout: a timed-out row is     *)
(* FAILED and older than DispatchTimeout.                                   *)
TimeoutIsDue ==
  \A a \in Actions : row[a].status \in Results =>
    (row[a].timedOut =>
       row[a].status = "failed" /\ row[a].created < now - DispatchTimeout)

(* "The audit log always converges to a terminal answer": no dispatch       *)
(* stays unanswered.                                                        *)
AuditConverges ==
  \A a \in Actions : (row[a].status = "dispatched") ~> (row[a].status # "dispatched")

LogStatus(r) ==
  CASE r = NoRow -> "none"
    [] r = Pruned -> "gone"
    [] r.status = "dispatched" -> "dispatched"
    [] OTHER -> "settled"

Log == INSTANCE AuditLog WITH
         Entries <- Actions, log <- [a \in Actions |-> LogStatus(row[a])]

(* The status of every action moves the way the abstract audit log allows:  *)
(* late, repeated and racing reports, timeouts and pruning never bring an   *)
(* action back or drop an unanswered one.                                   *)
ImplementsAuditLog == Log!Spec

(* "The report still overwrites it": a result report that finds its row     *)
(* timed out is not turned away.                                            *)
LateReportWins ==
  [][\A h \in handlers :
       (h.pc = "check" /\ h \notin handlers' /\ row[h.action].status \in Results
          /\ row[h.action].timedOut)
       => [h EXCEPT !.pc = "write"] \in handlers']_vars
=============================================================================
