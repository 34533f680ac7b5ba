---------------------- MODULE RemediationDispatchProofs ---------------------
(***************************************************************************)
(* Proofs about RemediationDispatch, for any actions, timeouts, retention  *)
(* window and number of retries, with or without faults.                   *)
(*                                                                         *)
(* The result handler writes what it was sent some time after it looked at *)
(* the row, and the sweep marks rows from a list it read before.  The      *)
(* audit log stays truthful because of what both still know when they      *)
(* write: the request carries what the one execution of the action came    *)
(* to, and a listed row is overdue for good and cannot be pruned meanwhile.*)
(***************************************************************************)
EXTENDS RemediationDispatch, TLAPS

(* An action waiting to be executed was recorded and has not been executed. *)
TodoIsFresh == \A a \in agent.todo : row[a] # NoRow /\ outcome[a] = None

(* The Agent reports what it executed, and has an attempt left to send it.  *)
CurIsExecuted ==
  agent.cur # None =>
    /\ outcome[agent.cur] \in Results
    /\ ~agent.waiting => agent.tries < RetryAttempts

(* Only what was recorded is executed. *)
ExecutedIsRecorded == \A a \in Actions : outcome[a] # None => row[a] # NoRow

(* Every attempt, late or repeated, carries the outcome of the execution. *)
RequestsAgree == \A h \in handlers : outcome[h.action] = h.result

(* What the sweep listed is still there and still overdue. *)
ListedIsOverdue ==
  \A a \in sweep : row[a] \in Row /\ row[a].created < now - DispatchTimeout

IInv ==
  /\ TypeOK
  /\ TodoIsFresh
  /\ CurIsExecuted
  /\ ExecutedIsRecorded
  /\ RequestsAgree
  /\ ListedIsOverdue
  /\ AuditTruthful
  /\ TimeoutIsDue
-----------------------------------------------------------------------------
(* Facts the actions share *)

(* A row of the table, told by its status. *)
LEMMA RowCases ==
  ASSUME NEW r \in Row \cup {NoRow, Pruned}
  PROVE  /\ r \in Row <=> r.status \in {"dispatched", "executed", "failed"}
         /\ r = NoRow <=> r.status = "none"
         /\ r = Pruned <=> r.status = "pruned"
BY DEF Row, NoRow, Pruned

(* mark_result changes one row's status and reason, nothing else. *)
LEMMA MarkFacts ==
  ASSUME row \in [Actions -> Row \cup {NoRow, Pruned}],
         NEW a \in Actions, row[a] \in Row, NEW status \in Results, NEW timedOut \in BOOLEAN,
         MarkResult(a, status, timedOut)
  PROVE  /\ row' \in [Actions -> Row \cup {NoRow, Pruned}]
         /\ row'[a] \in Row /\ row'[a].status = status /\ row'[a].timedOut = timedOut
         /\ row'[a].created = row[a].created
         /\ \A b \in Actions \ {a} : row'[b] = row[b]
<1> DEFINE marked == [row[a] EXCEPT !.status = status, !.timedOut = timedOut]
<1>1. /\ marked \in Row /\ marked.status = status /\ marked.timedOut = timedOut
      /\ marked.created = row[a].created
  BY DEF Row, Results
<1>2. row' = [row EXCEPT ![a] = marked]
  BY DEF MarkResult
<1> HIDE DEF marked
<1> QED BY <1>1, <1>2

(* An answer, or its absence, leaves the Agent with an attempt in hand or   *)
(* through with the report.                                                 *)
LEMMA AgentFacts ==
  ASSUME agent \in AgentState, CurIsExecuted, agent' \in {agent, Reported, Retry}
  PROVE  /\ agent' \in AgentState /\ agent'.todo = agent.todo
         /\ agent'.cur # None => agent'.cur = agent.cur
         /\ agent'.cur # None /\ ~agent'.waiting => agent'.tries < RetryAttempts
<1>1. 0 \in 0..RetryAttempts
  BY DispatchAssumption
<1>2. CASE agent' = agent
  BY <1>2 DEF CurIsExecuted
<1>3. CASE agent' = Reported
  BY <1>1, <1>3 DEF Reported, AgentState
<1>4. CASE agent' = Retry /\ agent.tries < RetryAttempts
  BY <1>4 DEF Retry, AgentState
<1> QED BY <1>2, <1>3, <1>4 DEF Retry

(* Whatever is answered, the Agent ends in one of these states. *)
LEMMA AnswerFacts ==
  ASSUME NEW h, Answer(h, Reported) \/ Answer(h, Retry)
  PROVE  agent' \in {agent, Reported, Retry}
BY DEF Answer

(* As long as the table, the outcomes and the clock stand still, so does    *)
(* everything that relates them; a shorter list is still overdue.           *)
LEMMA TableStands ==
  ASSUME IInv, UNCHANGED <<now, row, outcome>>
  PROVE  /\ ExecutedIsRecorded' /\ AuditTruthful' /\ TimeoutIsDue'
         /\ sweep' \subseteq sweep => ListedIsOverdue'
         /\ handlers' \subseteq handlers => RequestsAgree'
         /\ agent'.todo = agent.todo => TodoIsFresh'
BY DEF IInv, ExecutedIsRecorded, AuditTruthful, TimeoutIsDue, ListedIsOverdue, RequestsAgree,
       TodoIsFresh

(* Marking a recorded row keeps every part but the two about results. *)
LEMMA MarkKeeps ==
  ASSUME IInv, NEW a \in Actions, row[a] \in Row, NEW status \in Results,
         NEW timedOut \in BOOLEAN, MarkResult(a, status, timedOut),
         UNCHANGED <<now, outcome>>
  PROVE  /\ ExecutedIsRecorded'
         /\ sweep' \subseteq sweep => ListedIsOverdue'
         /\ agent'.todo = agent.todo => TodoIsFresh'
<1>1. row \in [Actions -> Row \cup {NoRow, Pruned}] /\ sweep \subseteq Actions /\ agent \in AgentState
  BY DEF IInv, TypeOK
<1>2. /\ row'[a] \in Row /\ row'[a].created = row[a].created
      /\ \A b \in Actions \ {a} : row'[b] = row[b]
      /\ row'[a] # NoRow
  BY <1>1, MarkFacts, RowCases
<1>3. agent.todo \subseteq Actions
  BY <1>1 DEF AgentState
<1>4. ExecutedIsRecorded'
  BY <1>2 DEF IInv, ExecutedIsRecorded
<1>5. ASSUME sweep' \subseteq sweep PROVE ListedIsOverdue'
  BY <1>1, <1>2, <1>5 DEF IInv, ListedIsOverdue
<1>6. ASSUME agent'.todo = agent.todo PROVE TodoIsFresh'
  BY <1>2, <1>3, <1>6 DEF IInv, TodoIsFresh
<1> QED BY <1>4, <1>5, <1>6

(* The initial state satisfies the inductive invariant. *)
LEMMA InitIInv == Init => IInv
<1> SUFFICES ASSUME Init PROVE IInv
  OBVIOUS
<1> USE DispatchAssumption
<1>1. TypeOK
  BY DEF Init, TypeOK, AgentIdle, AgentState
<1>2. \A a \in Actions : row[a].status = "none"
  BY DEF Init, NoRow
<1>3. TodoIsFresh /\ CurIsExecuted /\ ExecutedIsRecorded /\ RequestsAgree /\ ListedIsOverdue
  BY DEF Init, AgentIdle, TodoIsFresh, CurIsExecuted, ExecutedIsRecorded, RequestsAgree,
         ListedIsOverdue
<1>4. AuditTruthful /\ TimeoutIsDue
  BY <1>2 DEF AuditTruthful, TimeoutIsDue, Results
<1> QED BY <1>1, <1>3, <1>4 DEF IInv

(* Recording a payload's actions. *)
LEMMA DispatchKeeps ==
  ASSUME IInv, NEW batch \in SUBSET Actions, NEW t \in 0..MaxTime, NEW delivered \in BOOLEAN,
         Dispatch(batch, t, delivered)
  PROVE  IInv'
<1> DEFINE new == [status |-> "dispatched", created |-> t, timedOut |-> FALSE]
<1>0. /\ row \in [Actions -> Row \cup {NoRow, Pruned}] /\ agent \in AgentState
      /\ sweep \subseteq Actions
  BY DEF IInv, TypeOK
<1>1. new \in Row /\ new.status = "dispatched"
  BY DEF Row
<1>2. new # NoRow
  BY <1>1, RowCases
<1>3. /\ \A a \in Actions : row'[a] = IF a \in batch THEN new ELSE row[a]
      /\ row' = [a \in Actions |-> IF a \in batch THEN new ELSE row[a]]
      /\ \A a \in batch : row[a] = NoRow
      /\ UNCHANGED <<now, outcome, handlers, sweep>>
  BY DEF Dispatch
<1> HIDE DEF new
<1>4. row' \in [Actions -> Row \cup {NoRow, Pruned}]
  BY <1>0, <1>1, <1>3
<1>5. /\ agent' \in AgentState /\ agent'.cur = agent.cur /\ agent'.tries = agent.tries
      /\ agent'.waiting = agent.waiting
      /\ agent'.todo = agent.todo \/ agent'.todo = batch
  BY <1>0 DEF Dispatch, AgentState
<1>6. TypeOK'
  BY <1>3, <1>4, <1>5 DEF IInv, TypeOK
<1>7. TodoIsFresh'
  <2>1. agent.todo \subseteq Actions
    BY <1>0 DEF AgentState
  <2>2. \A a \in Actions : row[a] # NoRow => row'[a] # NoRow
    BY <1>2, <1>3
  <2>3. \A a \in batch : row'[a] # NoRow /\ outcome[a] = None
    BY <1>2, <1>3 DEF IInv, ExecutedIsRecorded
  <2> QED BY <1>3, <1>5, <2>1, <2>2, <2>3 DEF IInv, TodoIsFresh
<1>8. CurIsExecuted'
  BY <1>3, <1>5 DEF IInv, CurIsExecuted
<1>9. ExecutedIsRecorded'
  BY <1>2, <1>3 DEF IInv, ExecutedIsRecorded
<1>10. RequestsAgree'
  BY <1>3 DEF IInv, RequestsAgree
<1>11. ListedIsOverdue'
  <2>1. ASSUME NEW a \in sweep PROVE row'[a] = row[a]
    BY <1>0, <1>3, <2>1, RowCases DEF IInv, ListedIsOverdue
  <2> QED BY <1>3, <2>1 DEF IInv, ListedIsOverdue
<1>12. AuditTruthful' /\ TimeoutIsDue'
  <2>1. new.status \notin Results
    BY <1>1 DEF Results
  <2> QED BY <1>3, <2>1 DEF IInv, AuditTruthful, TimeoutIsDue
<1> QED
  BY <1>6, <1>7, <1>8, <1>9, <1>10, <1>11, <1>12 DEF IInv

(* Executing an action that was never executed before. *)
LEMMA ExecuteKeeps ==
  ASSUME IInv, NEW a \in Actions, NEW result \in Results, Execute(a, result)
  PROVE  IInv'
<1>0. /\ agent \in AgentState /\ outcome \in [Actions -> Results \cup {None}]
      /\ None \notin Results /\ None \notin Actions /\ 0 \in 0..RetryAttempts /\ 0 < RetryAttempts
  BY DispatchAssumption DEF IInv, TypeOK, Results
<1>1. /\ agent' \in AgentState /\ agent'.todo = agent.todo \ {a} /\ agent'.cur = a
      /\ agent'.tries = 0
      /\ outcome' = [outcome EXCEPT ![a] = result]
      /\ UNCHANGED <<now, row, handlers, sweep>>
  BY <1>0 DEF Execute, AgentState
<1>2. outcome[a] = None /\ row[a] # NoRow
  BY DEF IInv, TodoIsFresh, Execute
<1>3. TypeOK'
  BY <1>0, <1>1 DEF IInv, TypeOK
<1>4. TodoIsFresh'
  BY <1>0, <1>1 DEF IInv, TodoIsFresh, AgentState
<1>5. CurIsExecuted'
  BY <1>0, <1>1 DEF CurIsExecuted
<1>6. ExecutedIsRecorded'
  BY <1>0, <1>1, <1>2 DEF IInv, ExecutedIsRecorded
<1>7. RequestsAgree'
  <2>1. ASSUME NEW h \in handlers PROVE outcome'[h.action] = h.result
    <3>1. h.action \in Actions /\ h.result \in Results /\ outcome[h.action] = h.result
      BY DEF IInv, TypeOK, Handler, RequestsAgree
    <3>2. h.action # a
      BY <1>0, <1>2, <3>1
    <3> QED BY <1>0, <1>1, <3>1, <3>2
  <2> QED BY <1>1, <2>1 DEF RequestsAgree
<1>8. AuditTruthful'
  <2>1. ASSUME NEW b \in Actions, row[b].status \in Results
        PROVE  row[b].timedOut \/ row[b].status = outcome'[b]
    <3>1. row[b].timedOut \/ row[b].status = outcome[b]
      BY <2>1 DEF IInv, AuditTruthful
    <3> QED BY <1>0, <1>1, <1>2, <2>1, <3>1
  <2> QED BY <1>1, <2>1 DEF AuditTruthful
<1>9. ListedIsOverdue' /\ TimeoutIsDue'
  BY <1>1 DEF IInv, ListedIsOverdue, TimeoutIsDue
<1> QED BY <1>3, <1>4, <1>5, <1>6, <1>7, <1>8, <1>9 DEF IInv

(* The result handler's write: the request carries the outcome, so the row  *)
(* becomes truthful whatever it said before.                                *)
LEMMA WriteKeeps ==
  ASSUME IInv, NEW h \in handlers, WriteReport(h)
  PROVE  IInv'
<1>0. /\ h \in Handler /\ h.action \in Actions /\ h.result \in Results
      /\ row \in [Actions -> Row \cup {NoRow, Pruned}] /\ agent \in AgentState
      /\ outcome[h.action] = h.result /\ None \notin Results
  BY DispatchAssumption DEF IInv, TypeOK, Handler, RequestsAgree, Results
<1>1. agent' \in {agent, Reported, Retry}
  BY AnswerFacts DEF WriteReport
<1>2. /\ agent' \in AgentState /\ agent'.todo = agent.todo
      /\ agent'.cur # None => agent'.cur = agent.cur
      /\ agent'.cur # None /\ ~agent'.waiting => agent'.tries < RetryAttempts
  BY <1>0, <1>1, AgentFacts DEF IInv
<1>3. handlers' \subseteq handlers /\ UNCHANGED <<now, outcome, sweep>>
  BY DEF WriteReport
<1>4. CurIsExecuted' /\ RequestsAgree'
  BY <1>2, <1>3 DEF IInv, CurIsExecuted, RequestsAgree
<1>5. CASE row[h.action] = Pruned
  <2>1. UNCHANGED row
    BY <1>5 DEF WriteReport
  <2>2. TypeOK'
    BY <1>2, <1>3, <2>1 DEF IInv, TypeOK
  <2> QED BY <1>2, <1>3, <1>4, <2>1, <2>2, TableStands DEF IInv
<1>6. CASE row[h.action] # Pruned
  <2>1. row[h.action] \in Row
    <3>1. row[h.action] # NoRow
      BY <1>0 DEF IInv, ExecutedIsRecorded
    <3> QED BY <1>0, <1>6, <3>1
  <2>2. MarkResult(h.action, h.result, FALSE)
    BY <1>6 DEF WriteReport
  <2>3. /\ row' \in [Actions -> Row \cup {NoRow, Pruned}]
        /\ row'[h.action].status = h.result /\ ~row'[h.action].timedOut
        /\ \A b \in Actions \ {h.action} : row'[b] = row[b]
    BY <1>0, <2>1, <2>2, MarkFacts
  <2>4. TypeOK'
    BY <1>2, <1>3, <2>3 DEF IInv, TypeOK
  <2>5. AuditTruthful'
    BY <1>0, <1>3, <2>3 DEF IInv, AuditTruthful
  <2>6. TimeoutIsDue'
    BY <1>3, <2>3 DEF IInv, TimeoutIsDue
  <2>7. ExecutedIsRecorded' /\ ListedIsOverdue' /\ TodoIsFresh'
    BY <1>0, <1>2, <1>3, <2>1, <2>2, MarkKeeps
  <2> QED BY <1>4, <2>4, <2>5, <2>6, <2>7 DEF IInv
<1> QED BY <1>5, <1>6

(* The sweep's write: the listed row is overdue, so the timeout is due. *)
LEMMA MarkTimedOutKeeps ==
  ASSUME IInv, NEW a \in Actions, MarkTimedOut(a)
  PROVE  IInv'
<1>0. row \in [Actions -> Row \cup {NoRow, Pruned}] /\ "failed" \in Results
  BY DEF IInv, TypeOK, Results
<1>1. row[a] \in Row /\ row[a].created < now - DispatchTimeout
  BY DEF IInv, ListedIsOverdue, MarkTimedOut
<1>2. /\ MarkResult(a, "failed", TRUE) /\ sweep' \subseteq sweep
      /\ UNCHANGED <<now, agent, outcome, handlers>>
  BY DEF MarkTimedOut
<1>3. /\ row' \in [Actions -> Row \cup {NoRow, Pruned}]
      /\ row'[a].status = "failed" /\ row'[a].timedOut
      /\ row'[a].created = row[a].created
      /\ \A b \in Actions \ {a} : row'[b] = row[b]
  BY <1>0, <1>1, <1>2, MarkFacts
<1>4. TypeOK'
  BY <1>2, <1>3 DEF IInv, TypeOK
<1>5. ExecutedIsRecorded' /\ ListedIsOverdue' /\ TodoIsFresh'
  BY <1>0, <1>1, <1>2, MarkKeeps
<1>6. CurIsExecuted' /\ RequestsAgree'
  BY <1>2 DEF IInv, CurIsExecuted, RequestsAgree
<1>7. AuditTruthful'
  BY <1>2, <1>3 DEF IInv, AuditTruthful
<1>8. TimeoutIsDue'
  BY <1>1, <1>2, <1>3 DEF IInv, TimeoutIsDue
<1> QED BY <1>4, <1>5, <1>6, <1>7, <1>8 DEF IInv

(* Pruning removes answered rows while no sweep is under way. *)
LEMMA PruneKeeps ==
  ASSUME IInv, NEW batch \in SUBSET Actions, Prune(batch)
  PROVE  IInv'
<1>1. /\ row \in [Actions -> Row \cup {NoRow, Pruned}]
      /\ \A a \in Actions : row'[a] = IF a \in batch THEN Pruned ELSE row[a]
      /\ row' \in [Actions -> Row \cup {NoRow, Pruned}]
      /\ sweep = {} /\ UNCHANGED <<now, agent, outcome, handlers, sweep>>
  BY DEF IInv, TypeOK, Prune
<1>2. Pruned # NoRow /\ Pruned.status = "pruned"
  BY DEF Pruned, NoRow
<1>3. TypeOK'
  BY <1>1 DEF IInv, TypeOK
<1>4. agent.todo \subseteq Actions
  BY DEF IInv, TypeOK, AgentState
<1>5. TodoIsFresh' /\ ExecutedIsRecorded'
  BY <1>1, <1>2, <1>4 DEF IInv, TodoIsFresh, ExecutedIsRecorded
<1>6. CurIsExecuted' /\ RequestsAgree' /\ ListedIsOverdue'
  BY <1>1 DEF IInv, CurIsExecuted, RequestsAgree, ListedIsOverdue
<1>7. Pruned.status \notin Results
  BY <1>2 DEF Results
<1>8. AuditTruthful' /\ TimeoutIsDue'
  BY <1>1, <1>7 DEF IInv, AuditTruthful, TimeoutIsDue
<1> QED BY <1>3, <1>5, <1>6, <1>8 DEF IInv

(* Every step keeps the inductive invariant. *)
LEMMA NextIInv == IInv /\ [Next]_vars => IInv'
<1> SUFFICES ASSUME IInv, [Next]_vars PROVE IInv'
  OBVIOUS
<1>t. TypeOK /\ agent \in AgentState /\ handlers \subseteq Handler
  BY DEF IInv, TypeOK
<1>1. CASE Tick
  <2>1. /\ now \in Int /\ now' \in 0..MaxTime /\ now' = now + 1 /\ DispatchTimeout \in Int
        /\ UNCHANGED <<row, agent, outcome, handlers, sweep>>
    BY <1>1, <1>t, DispatchAssumption DEF Tick, TypeOK
  <2>2. TypeOK'
    BY <1>t, <2>1 DEF TypeOK
  <2>3. \A x \in Int : x < now - DispatchTimeout => x < now' - DispatchTimeout
    BY <2>1
  <2>4. \A r \in Row : r.created \in Int
    BY DispatchAssumption DEF Row
  <2>5. ListedIsOverdue'
    BY <2>1, <2>3, <2>4 DEF IInv, ListedIsOverdue
  <2>6. TimeoutIsDue'
    <3>1. \A a \in Actions : row[a].status \in Results => row[a] \in Row
      BY <1>t, RowCases DEF TypeOK, Results
    <3> QED BY <2>1, <2>3, <2>4, <3>1 DEF IInv, TimeoutIsDue
  <2>7. TodoIsFresh' /\ CurIsExecuted' /\ ExecutedIsRecorded' /\ RequestsAgree' /\ AuditTruthful'
    BY <2>1 DEF IInv, TodoIsFresh, CurIsExecuted, ExecutedIsRecorded, RequestsAgree, AuditTruthful
  <2> QED BY <2>2, <2>5, <2>6, <2>7 DEF IInv
<1>2. ASSUME NEW batch \in SUBSET Actions, NEW t \in 0..MaxTime, NEW delivered \in BOOLEAN,
             Dispatch(batch, t, delivered)
      PROVE  IInv'
  BY <1>2, DispatchKeeps
<1>3. ASSUME NEW a \in Actions, NEW result \in Results, Execute(a, result) PROVE IInv'
  BY <1>3, ExecuteKeeps
<1>4. CASE Post
  <2> DEFINE h == [action |-> agent.cur, result |-> outcome[agent.cur],
                   try |-> agent.tries + 1, pc |-> "check"]
  <2>1. /\ agent.cur \in Actions /\ outcome[agent.cur] \in Results
        /\ agent.tries + 1 \in 1..RetryAttempts
    BY <1>4, <1>t, DispatchAssumption DEF IInv, CurIsExecuted, Post, AgentState
  <2>2. h \in Handler /\ h.action = agent.cur /\ h.result = outcome[agent.cur]
    BY <2>1 DEF Handler
  <2>3. handlers' = handlers \cup {h} /\ UNCHANGED <<now, row, outcome, sweep>>
    BY <1>4 DEF Post
  <2> HIDE DEF h
  <2>4. /\ agent' \in AgentState /\ agent'.todo = agent.todo /\ agent'.cur = agent.cur
        /\ agent'.waiting
    <3>1. agent.tries + 1 \in 0..RetryAttempts
      BY <2>1, DispatchAssumption
    <3>2. agent' = [agent EXCEPT !.tries = agent.tries + 1, !.waiting = TRUE]
      BY <1>4 DEF Post
    <3> QED BY <1>t, <3>1, <3>2 DEF AgentState
  <2>5. TypeOK'
    BY <1>t, <2>2, <2>3, <2>4 DEF TypeOK
  <2>6. CurIsExecuted'
    BY <2>1, <2>3, <2>4 DEF CurIsExecuted
  <2>7. RequestsAgree'
    BY <2>2, <2>3 DEF IInv, RequestsAgree
  <2> QED BY <2>3, <2>4, <2>5, <2>6, <2>7, TableStands DEF IInv
<1>5. ASSUME UNCHANGED <<now, row, outcome, sweep>>, handlers' \subseteq handlers,
             agent' \in {agent, Reported, Retry}
      PROVE  IInv'
  <2>1. /\ agent' \in AgentState /\ agent'.todo = agent.todo
        /\ agent'.cur # None => agent'.cur = agent.cur
        /\ agent'.cur # None /\ ~agent'.waiting => agent'.tries < RetryAttempts
    BY <1>5, <1>t, AgentFacts DEF IInv
  <2>2. TypeOK'
    BY <1>5, <1>t, <2>1 DEF TypeOK
  <2>3. CurIsExecuted'
    BY <1>5, <2>1 DEF IInv, CurIsExecuted
  <2> QED BY <1>5, <2>1, <2>2, <2>3, TableStands DEF IInv
<1>6. CASE TimeOut
  BY <1>5, <1>6 DEF TimeOut
<1>7. CASE AgentCrash
  <2>1. /\ agent'.todo = {} /\ agent'.cur = None /\ agent' \in AgentState
        /\ UNCHANGED <<now, row, outcome, handlers, sweep>>
    BY <1>7, DispatchAssumption DEF AgentCrash, AgentIdle, AgentState
  <2>2. TypeOK' /\ CurIsExecuted' /\ TodoIsFresh'
    BY <1>t, <2>1 DEF TypeOK, CurIsExecuted, TodoIsFresh
  <2> QED BY <2>1, <2>2, TableStands DEF IInv
<1>8. ASSUME NEW h \in handlers, CheckReport(h) PROVE IInv'
  <2>1. CASE row[h.action].status = "dispatched"
    <3> DEFINE g == [h EXCEPT !.pc = "write"]
    <3>1. h \in Handler /\ outcome[h.action] = h.result
      BY <1>t DEF IInv, RequestsAgree
    <3>2. g \in Handler /\ g.action = h.action /\ g.result = h.result
      BY <3>1 DEF Handler
    <3>3. /\ handlers' = (handlers \ {h}) \cup {g}
          /\ UNCHANGED <<now, row, agent, outcome, sweep>>
      BY <1>8, <2>1 DEF CheckReport
    <3> HIDE DEF g
    <3>4. TypeOK'
      BY <1>t, <3>2, <3>3 DEF TypeOK
    <3>5. CurIsExecuted' /\ RequestsAgree'
      BY <3>1, <3>2, <3>3 DEF IInv, CurIsExecuted, RequestsAgree
    <3> QED BY <3>3, <3>4, <3>5, TableStands DEF IInv
  <2>2. CASE row[h.action].status # "dispatched"
    <3>1. agent' \in {agent, Reported, Retry}
      BY <1>8, <2>2, AnswerFacts DEF CheckReport
    <3> QED BY <1>5, <1>8, <2>2, <3>1 DEF CheckReport
  <2> QED BY <2>1, <2>2
<1>9. ASSUME NEW h \in handlers, WriteReport(h) PROVE IInv'
  BY <1>9, WriteKeeps
<1>10. ASSUME NEW h \in handlers, FailReport(h) PROVE IInv'
  <2>1. agent' \in {agent, Reported, Retry}
    BY <1>10, AnswerFacts DEF FailReport
  <2> QED BY <1>5, <1>10, <2>1 DEF FailReport
<1>11. CASE ListDispatched
  <2>1. /\ sweep' = {a \in Actions : Overdue(a)}
        /\ UNCHANGED <<now, row, agent, outcome, handlers>>
    BY <1>11 DEF ListDispatched
  <2>2. \A a \in sweep' : row[a] \in Row /\ row[a].created < now - DispatchTimeout
    BY <1>t, <2>1, RowCases DEF TypeOK, Overdue
  <2>3. TypeOK' /\ CurIsExecuted' /\ ListedIsOverdue'
    BY <1>t, <2>1, <2>2 DEF IInv, TypeOK, CurIsExecuted, ListedIsOverdue
  <2> QED BY <2>1, <2>3, TableStands DEF IInv
<1>12. ASSUME NEW a \in Actions, MarkTimedOut(a) PROVE IInv'
  BY <1>12, MarkTimedOutKeeps
<1>13. CASE FailSweep
  <2>1. sweep' = {} /\ UNCHANGED <<now, row, agent, outcome, handlers>>
    BY <1>13 DEF FailSweep
  <2>2. TypeOK' /\ CurIsExecuted'
    BY <1>t, <2>1 DEF IInv, TypeOK, CurIsExecuted
  <2> QED BY <2>1, <2>2, TableStands DEF IInv
<1>14. ASSUME NEW batch \in SUBSET Actions, Prune(batch) PROVE IInv'
  BY <1>14, PruneKeeps
<1>15. CASE UNCHANGED vars
  BY <1>5, <1>15 DEF vars
<1> QED
  BY <1>1, <1>2, <1>3, <1>4, <1>6, <1>7, <1>8, <1>9, <1>10, <1>11, <1>12, <1>13, <1>14, <1>15
  DEF Next

(* The inductive invariant holds in every reachable state. *)
THEOREM Inductive == Spec => []IInv
<1>1. Init => IInv
  BY InitIInv
<1>2. IInv /\ [Next]_vars => IInv'
  BY NextIInv
<1> QED BY <1>1, <1>2, PTL DEF Spec

(* A result in the audit log that is not a timeout is what executing the    *)
(* action came to (report_result, mark_result), for any number of actions,  *)
(* retries and overlapping handlers.                                        *)
THEOREM AuditIsTruthful == Spec => []AuditTruthful
<1>1. IInv => AuditTruthful
  BY DEF IInv
<1> QED BY <1>1, Inductive, PTL

(* No row is marked as timed out before its timeout (ReconciliationJob.run).*)
THEOREM TimeoutsAreDue == Spec => []TimeoutIsDue
<1>1. IInv => TimeoutIsDue
  BY DEF IInv
<1> QED BY <1>1, Inductive, PTL

-----------------------------------------------------------------------------
(* The refinement of AuditLog *)

(* The log the table stands for. *)
Shown == [a \in Actions |-> LogStatus(row[a])]

(* What a row shows, told by its status. *)
LEMMA ShownStatus ==
  ASSUME NEW r \in Row \cup {NoRow, Pruned}
  PROVE  /\ r.status = "none" => LogStatus(r) = "none"
         /\ r.status = "pruned" => LogStatus(r) = "gone"
         /\ r.status = "dispatched" => LogStatus(r) = "dispatched"
         /\ r.status \in Results => LogStatus(r) = "settled"
<1>1. /\ r = NoRow <=> r.status = "none"
      /\ r = Pruned <=> r.status = "pruned"
      /\ NoRow # Pruned /\ NoRow.status = "none" /\ Pruned.status = "pruned"
  BY RowCases DEF NoRow, Pruned
<1>2. r \notin {NoRow, Pruned} => LogStatus(r) = IF r.status = "dispatched" THEN "dispatched" ELSE "settled"
  BY DEF LogStatus
<1>3. LogStatus(NoRow) = "none"
  BY <1>1 DEF LogStatus
<1>4. LogStatus(Pruned) = "gone"
  BY <1>1 DEF LogStatus
<1> QED BY <1>1, <1>2, <1>3, <1>4 DEF Results

(* A recorded row that is marked settles, or had been settled. *)
LEMMA MarkSettles ==
  ASSUME TypeOK, NEW a \in Actions, row[a] \in Row, NEW status \in Results,
         NEW timedOut \in BOOLEAN, MarkResult(a, status, timedOut)
  PROVE  Shown' = Shown \/ Log!Settle({a})
<1>0. row \in [Actions -> Row \cup {NoRow, Pruned}]
  BY DEF TypeOK
<1>1. /\ row'[a] \in Row /\ row'[a].status \in Results
      /\ \A b \in Actions \ {a} : row'[b] = row[b]
  BY <1>0, MarkFacts
<1>2. LogStatus(row'[a]) = "settled"
  BY <1>1, ShownStatus
<1>3. \A b \in Actions \ {a} : LogStatus(row'[b]) = LogStatus(row[b])
  BY <1>1
<1>4. CASE row[a].status = "dispatched"
  <2>1. LogStatus(row[a]) = "dispatched"
    BY <1>4, ShownStatus
  <2>2. \A e \in {a} : Shown[e] \in {"dispatched"}
    BY <2>1 DEF Shown
  <2>3. Shown' = [e \in Actions |-> IF e \in {a} THEN "settled" ELSE Shown[e]]
    BY <1>2, <1>3 DEF Shown
  <2> QED BY <2>2, <2>3 DEF Log!Settle, Log!Moves, Shown
<1>5. CASE row[a].status \in Results
  <2>1. LogStatus(row[a]) = "settled"
    BY <1>5, ShownStatus
  <2> QED BY <1>2, <1>3, <2>1 DEF Shown
<1>6. row[a].status = "dispatched" \/ row[a].status \in Results
  BY DEF Row, Results
<1> QED BY <1>4, <1>5, <1>6

(* A step of the detailed specification is a step of the log, or none. *)
LEMMA StepSimulates ==
  ASSUME IInv, [Next]_vars
  PROVE  [Log!Next]_Shown
<1>t. TypeOK /\ row \in [Actions -> Row \cup {NoRow, Pruned}]
  BY DEF IInv, TypeOK
<1>1. CASE UNCHANGED row
  BY <1>1 DEF Shown
<1>2. ASSUME NEW batch \in SUBSET Actions, NEW t \in 0..MaxTime, NEW delivered \in BOOLEAN,
             Dispatch(batch, t, delivered)
      PROVE  Log!Next
  <2> DEFINE new == [status |-> "dispatched", created |-> t, timedOut |-> FALSE]
  <2>1. new \in Row /\ new.status = "dispatched"
    BY DEF Row
  <2>2. /\ \A a \in Actions : row'[a] = IF a \in batch THEN new ELSE row[a]
        /\ \A a \in batch : row[a] = NoRow
    BY <1>2 DEF Dispatch
  <2> HIDE DEF new
  <2>3. LogStatus(new) = "dispatched" /\ LogStatus(NoRow) = "none"
    BY <2>1, ShownStatus DEF NoRow
  <2>4. \A e \in batch : Shown[e] \in {"none"}
    BY <2>2, <2>3 DEF Shown
  <2>5. Shown' = [e \in Actions |-> IF e \in batch THEN "dispatched" ELSE Shown[e]]
    BY <2>2, <2>3 DEF Shown
  <2>6. Log!Record(batch)
    BY <2>4, <2>5 DEF Log!Record, Log!Moves, Shown
  <2> QED BY <2>6 DEF Log!Next
<1>3. ASSUME NEW h \in handlers, WriteReport(h) PROVE [Log!Next]_Shown
  <2>1. h.action \in Actions /\ h.result \in Results
    BY DEF IInv, TypeOK, Handler
  <2>2. CASE row[h.action] = Pruned
    BY <1>1, <1>3, <2>2 DEF WriteReport
  <2>3. CASE row[h.action] # Pruned
    <3>1. row[h.action] # NoRow
      BY <2>1, DispatchAssumption DEF IInv, RequestsAgree, ExecutedIsRecorded, Results
    <3>2. row[h.action] \in Row
      BY <1>t, <2>1, <2>3, <3>1
    <3>3. MarkResult(h.action, h.result, FALSE)
      BY <1>3, <2>3 DEF WriteReport
    <3>4. Shown' = Shown \/ Log!Settle({h.action})
      BY <1>t, <2>1, <3>2, <3>3, MarkSettles
    <3> QED BY <2>1, <3>4 DEF Log!Next
  <2> QED BY <2>2, <2>3
<1>4. ASSUME NEW a \in Actions, MarkTimedOut(a) PROVE [Log!Next]_Shown
  <2>1. row[a] \in Row /\ MarkResult(a, "failed", TRUE) /\ "failed" \in Results
    BY <1>4 DEF IInv, ListedIsOverdue, MarkTimedOut, Results
  <2>2. Shown' = Shown \/ Log!Settle({a})
    BY <1>t, <2>1, MarkSettles
  <2> QED BY <2>2 DEF Log!Next
<1>5. ASSUME NEW batch \in SUBSET Actions, Prune(batch) PROVE Log!Next
  <2>1. /\ \A a \in Actions : row'[a] = IF a \in batch THEN Pruned ELSE row[a]
        /\ \A a \in batch : row[a].status \in Results
    BY <1>5 DEF Prune
  <2>2. LogStatus(Pruned) = "gone"
    BY ShownStatus DEF Pruned
  <2>3. \A e \in batch : Shown[e] \in {"blocked", "settled"}
    BY <1>t, <2>1, ShownStatus DEF Shown
  <2>4. Shown' = [e \in Actions |-> IF e \in batch THEN "gone" ELSE Shown[e]]
    BY <2>1, <2>2 DEF Shown
  <2>5. Log!Prune(batch)
    BY <2>3, <2>4 DEF Log!Prune, Log!Moves, Shown
  <2> QED BY <2>5 DEF Log!Next
<1>6. CASE \/ Tick \/ (\E a \in Actions, result \in Results : Execute(a, result))
           \/ Post \/ TimeOut \/ AgentCrash
           \/ (\E h \in handlers : CheckReport(h) \/ FailReport(h))
           \/ ListDispatched \/ FailSweep \/ UNCHANGED vars
  BY <1>1, <1>6
  DEF Tick, Execute, Post, TimeOut, AgentCrash, CheckReport, FailReport, ListDispatched,
      FailSweep, vars
<1> QED BY <1>2, <1>3, <1>4, <1>5, <1>6 DEF Next

(* The table with all its writers implements the abstract audit log: an     *)
(* action is recorded once, settled once, pruned only when settled, and     *)
(* never comes back.                                                        *)
THEOREM Refinement == Spec => ImplementsAuditLog
<1>1. Init => Log!Init
  <2>1. LogStatus(NoRow) = "none"
    BY ShownStatus DEF NoRow
  <2> QED BY <2>1 DEF Init, Log!Init
<1>2. IInv /\ [Next]_vars => [Log!Next]_Shown
  BY StepSimulates
<1> QED BY <1>1, <1>2, Inductive, PTL DEF Spec, ImplementsAuditLog, Log!Spec, Shown

=============================================================================
