------------------------ MODULE AlertLifecycleProofs ------------------------
(***************************************************************************)
(* Proofs about AlertLifecycle, for every value of its constants.          *)
(*                                                                         *)
(* The safety properties are not inductive by themselves: between two      *)
(* repository calls a worker acts on what an earlier call returned.  The   *)
(* strengthening InFlight says what is still true of the tables, at each   *)
(* pc, of the facts the worker relies on.                                  *)
(***************************************************************************)
EXTENDS AlertLifecycle, FiniteSetTheorems, TLAPS

OnAlert == {"advance", "escalate", "resolve", "cooldown", "rate", "decide", "mark"}
Deciding == {"cooldown", "rate", "decide", "mark"}

(* The worker holds a rule, and an existing alert of its node and rule. *)
HoldsAlert(q) ==
  /\ q.rule \in Rules
  /\ q.alert \in AlertIds
  /\ alerts[q.alert] \in AlertRow
  /\ alerts[q.alert].node = q.node
  /\ alerts[q.alert].rule = q.rule

(* What makes remediation legitimate has been established. *)
MayRemediate(q) ==
  /\ PlaybookFor[q.rule] \in Playbooks
  /\ alerts[q.alert].esc
  /\ q.at - alerts[q.alert].first >= RemediationAfter

HoldsAction(q) ==
  /\ q.action \in ActionIds
  /\ actions[q.action] \in ActionRow
  /\ actions[q.action].status = q.verdict
  /\ actions[q.action].alert = q.alert

Settled(a) ==
  /\ actions[a] \in ActionRow
  /\ actions[a].status = "dispatched"
  /\ alerts[actions[a].alert] \in AlertRow
  /\ alerts[actions[a].alert].rem

InFlight(q) ==
  /\ q \in Request
  /\ q.pc = "create" => q.rule \in Rules
  /\ q.pc \in OnAlert => HoldsAlert(q)
  /\ q.pc \in Deciding => MayRemediate(q)
  /\ q.pc \in {"decide", "mark"} => q.verdict \in {"dispatched", "blocked"}
  /\ q.pc = "mark" => HoldsAction(q)
  /\ \A a \in q.dispatched : Settled(a)

(* A recorded action rests on an alert that was escalated, long enough. *)
Justified(a) ==
  /\ actions[a] \in ActionRow
  /\ alerts[actions[a].alert] \in AlertRow
  /\ alerts[actions[a].alert].esc
  /\ alerts[actions[a].alert].node = actions[a].node
  /\ actions[a].created - alerts[actions[a].alert].first >= RemediationAfter

IInv ==
  /\ TypeOK
  /\ \A w \in Workers : req[w] = Idle \/ InFlight(req[w])
  /\ \A i \in ackReq : alerts[i] \in AlertRow
  /\ \A a \in sent : Settled(a)
  /\ \A a \in ActionIds : actions[a] # NoRow => Justified(a)

(* Rows are only added, and what an alert row says about its identity, its  *)
(* escalation and its remediation is never taken back.                      *)
TablesGrow ==
  /\ \A i \in AlertIds : alerts[i] \in AlertRow =>
       /\ alerts'[i] \in AlertRow
       /\ alerts'[i].node = alerts[i].node
       /\ alerts'[i].rule = alerts[i].rule
       /\ alerts'[i].first = alerts[i].first
       /\ alerts[i].esc => alerts'[i].esc
       /\ alerts[i].rem => alerts'[i].rem
  /\ \A a \in ActionIds : actions[a] \in ActionRow => actions'[a] = actions[a]

-----------------------------------------------------------------------------
(* A worker that does not move keeps what it relies on while tables grow. *)
LEMMA InFlightStable ==
  ASSUME NEW w \in Workers, InFlight(req[w]), TablesGrow, req'[w] = req[w]
  PROVE  InFlight(req[w])'
<1>1. req[w] \in Request
  BY DEF InFlight
<1>2. HoldsAlert(req[w]) => HoldsAlert(req[w])'
  BY DEF HoldsAlert, TablesGrow
<1>3. HoldsAlert(req[w]) /\ MayRemediate(req[w]) => MayRemediate(req[w])'
  BY DEF HoldsAlert, MayRemediate, TablesGrow
<1>4. HoldsAction(req[w]) => HoldsAction(req[w])'
  BY DEF HoldsAction, TablesGrow
<1>5. ASSUME NEW a \in req[w].dispatched, Settled(a) PROVE Settled(a)'
  <2>1. a \in ActionIds
    BY <1>1 DEF Request
  <2>2. actions[a].alert \in AlertIds
    BY <1>5 DEF Settled, ActionRow
  <2> QED BY <1>5, <2>1, <2>2 DEF Settled, TablesGrow
<1> QED
  BY <1>1, <1>2, <1>3, <1>4, <1>5 DEF InFlight, OnAlert, Deciding

(* Facts about rows that no worker holds survive as well. *)
LEMMA RowsStable ==
  ASSUME IInv, TablesGrow
  PROVE  /\ \A i \in ackReq : alerts'[i] \in AlertRow
         /\ \A a \in sent : Settled(a)'
         /\ \A a \in ActionIds : actions[a] # NoRow => Justified(a)'
<1>1. \A i \in ackReq : alerts'[i] \in AlertRow
  BY DEF IInv, TypeOK, TablesGrow
<1>2. ASSUME NEW a \in sent PROVE Settled(a)'
  <2>1. a \in ActionIds /\ Settled(a)
    BY DEF IInv, TypeOK
  <2>2. actions[a].alert \in AlertIds
    BY <2>1 DEF Settled, ActionRow
  <2> QED BY <2>1, <2>2 DEF Settled, TablesGrow
<1>3. ASSUME NEW a \in ActionIds, actions[a] # NoRow PROVE Justified(a)'
  <2>1. Justified(a)
    BY <1>3 DEF IInv
  <2>2. actions'[a] = actions[a]
    BY <2>1 DEF Justified, TablesGrow
  <2>3. actions[a].alert \in AlertIds
    BY <2>1 DEF Justified, ActionRow
  <2> QED BY <2>1, <2>2, <2>3 DEF Justified, TablesGrow
<1> QED BY <1>1, <1>2, <1>3

(* So a step of one worker preserves the invariant if it lets the tables    *)
(* grow and the worker's own new state, and any new row, are in order.      *)
LEMMA WorkerStep ==
  ASSUME IInv, TypeOK', TablesGrow, NEW w \in Workers,
         \A v \in Workers \ {w} : req'[v] = req[v],
         req'[w] = Idle \/ InFlight(req[w])',
         ackReq' = ackReq,
         \A a \in sent' \ sent : Settled(a)',
         \A a \in ActionIds : actions[a] = NoRow /\ actions'[a] # NoRow => Justified(a)'
  PROVE  IInv'
<1>1. \A v \in Workers : req'[v] = Idle \/ InFlight(req[v])'
  BY InFlightStable DEF IInv
<1>2. \A i \in ackReq' : alerts'[i] \in AlertRow
  BY RowsStable
<1>3. \A a \in sent' : Settled(a)'
  BY RowsStable
<1>4. \A a \in ActionIds : actions'[a] # NoRow => Justified(a)'
  BY RowsStable
<1> QED BY <1>1, <1>2, <1>3, <1>4 DEF IInv

-----------------------------------------------------------------------------
(* The empty tables and idle workers satisfy the inductive invariant. *)
LEMMA InitIInv == Init => IInv
<1> SUFFICES ASSUME Init PROVE IInv
  OBVIOUS
<1>1. TypeOK
  BY DEF Init, TypeOK
<1> QED BY <1>1 DEF Init, IInv, NoRow, Idle

(* Steps that leave both tables alone. *)
LEMMA SameTables ==
  ASSUME alerts' = alerts, actions' = actions
  PROVE  TablesGrow
  BY DEF TablesGrow

(* A new request starts with nothing held: only its types matter. *)
LEMMA IngestIInv ==
  ASSUME IInv, NEW w \in Workers, NEW n \in Nodes, NEW t \in Times,
         NEW breaching \in SUBSET Rules, NEW clear \in SUBSET Rules,
         Ingest(w, n, t, breaching, clear)
  PROVE  IInv'
<1>1. req'[w] \in Request /\ req'[w].pc = "next" /\ req'[w].dispatched = {}
  BY DEF Ingest, Request, IInv, TypeOK
<1>2. TypeOK'
  BY <1>1 DEF Ingest, IInv, TypeOK
<1>3. InFlight(req[w])'
  BY <1>1 DEF InFlight, OnAlert, Deciding
<1> QED BY <1>2, <1>3, SameTables, WorkerStep DEF Ingest, IInv, TypeOK

(* The worker's request before the step, typed. *)
LEMMA Holding ==
  ASSUME IInv, NEW w \in Workers, NEW s, At(w, s), s # "idle"
  PROVE  req[w] \in Request /\ InFlight(req[w])
  BY DEF IInv, At, Idle, InFlight

(* find_open_alert hands its worker an existing row of the node and rule *)
(* it asked for, or none.                                                *)
LEMMA FindOpenAlertIInv ==
  ASSUME IInv, NEW w \in Workers, NEW r \in Rules, FindOpenAlert(w, r)
  PROVE  IInv'
<1>1. InFlight(req[w]) /\ req[w] \in Request
  BY Holding DEF FindOpenAlert
<1>2. PICK s \in {"create", "next", "advance", "resolve"}, i \in AlertIds \cup {None} :
        /\ Take(w, r, s, i)
        /\ s \in {"advance", "resolve"} => i \in Open(req[w].node, r)
  BY DEF FindOpenAlert, Open
<1>3. /\ req'[w] \in Request /\ req'[w].pc = s /\ req'[w].alert = i
      /\ req'[w].dispatched = req[w].dispatched /\ req'[w].node = req[w].node
      /\ s # "next" => req'[w].rule = r
      /\ \A v \in Workers \ {w} : req'[v] = req[v]
  BY <1>1, <1>2 DEF Take, Request, IInv, TypeOK
<1>4. TypeOK'
  BY <1>1, <1>2, <1>3 DEF FindOpenAlert, Take, IInv, TypeOK
<1>5. UNCHANGED <<alerts, actions, ackReq, sent>>
  BY DEF FindOpenAlert
<1>6. s \in {"advance", "resolve"} => HoldsAlert(req[w])'
  BY <1>2, <1>3, <1>5 DEF HoldsAlert, Open, IInv, TypeOK, NoRow
<1>7. InFlight(req[w])'
  BY <1>1, <1>3, <1>5, <1>6 DEF InFlight, OnAlert, Deciding, Settled
<1> QED BY <1>3, <1>4, <1>5, <1>7, SameTables, WorkerStep

(* What the control helpers do to the worker's request. *)
LEMMA DoneFacts ==
  ASSUME IInv, NEW w \in Workers, req[w] \in Request, Done(w)
  PROVE  /\ req' \in [Workers -> Request \cup {Idle}]
         /\ req'[w] \in Request /\ req'[w].pc = "next"
         /\ req'[w].dispatched = req[w].dispatched
         /\ \A v \in Workers \ {w} : req'[v] = req[v]
  BY DEF Done, Request, IInv, TypeOK

(* Moving on to another call keeps what the worker holds. *)
LEMMA GotoFacts ==
  ASSUME IInv, NEW w \in Workers, req[w] \in Request,
         NEW s \in {"escalate", "cooldown", "rate"}, Goto(w, s)
  PROVE  /\ req' \in [Workers -> Request \cup {Idle}]
         /\ req'[w] \in Request /\ req'[w].pc = s
         /\ req'[w].node = req[w].node /\ req'[w].at = req[w].at
         /\ req'[w].rule = req[w].rule /\ req'[w].alert = req[w].alert
         /\ req'[w].dispatched = req[w].dispatched
         /\ \A v \in Workers \ {w} : req'[v] = req[v]
  BY DEF Goto, Request, IInv, TypeOK

(* The dispatched actions a worker has collected stay settled. *)
LEMMA CollectedStable ==
  ASSUME TablesGrow, NEW w \in Workers, InFlight(req[w])
  PROVE  \A a \in req[w].dispatched : Settled(a)'
<1> SUFFICES ASSUME NEW a \in req[w].dispatched PROVE Settled(a)'
  OBVIOUS
<1>1. a \in ActionIds /\ Settled(a)
  BY DEF InFlight, Request
<1>2. actions[a].alert \in AlertIds
  BY <1>1 DEF Settled, ActionRow
<1> QED BY <1>1, <1>2 DEF Settled, TablesGrow

(* A worker that is done with a result is in order. *)
LEMMA DoneInFlight ==
  ASSUME IInv, NEW w \in Workers, InFlight(req[w]), TablesGrow, Done(w)
  PROVE  InFlight(req[w])'
<1>1. req[w] \in Request
  BY DEF InFlight
<1> QED BY <1>1, DoneFacts, CollectedStable DEF InFlight, OnAlert, Deciding

(* create_alert adds a row nobody holds yet. *)
LEMMA CreateAlertIInv ==
  ASSUME IInv, NEW w \in Workers, NEW i \in AlertIds, CreateAlert(w, i)
  PROVE  IInv'
<1>1. InFlight(req[w]) /\ req[w] \in Request
  BY Holding DEF CreateAlert
<1>2. req[w].rule \in Rules
  BY <1>1 DEF InFlight, CreateAlert, At
<1>3. alerts' \in [AlertIds -> AlertRow \cup {NoRow}]
  BY <1>1, <1>2 DEF CreateAlert, IInv, TypeOK, AlertRow, Request
<1>4. \A j \in AlertIds : alerts[j] \in AlertRow => alerts'[j] = alerts[j]
  BY DEF CreateAlert, IInv, TypeOK, AlertRow, NoRow
<1>5. TablesGrow
  BY <1>4 DEF TablesGrow, CreateAlert
<1>6. TypeOK'
  BY <1>1, <1>3, DoneFacts DEF CreateAlert, IInv, TypeOK
<1>7. InFlight(req[w])'
  BY <1>1, <1>5, DoneInFlight DEF CreateAlert
<1> QED BY <1>1, <1>5, <1>6, <1>7, DoneFacts, WorkerStep DEF CreateAlert

(* resolve_alert changes the status only, which no worker relies on. *)
LEMMA ResolveAlertIInv ==
  ASSUME IInv, NEW w \in Workers, ResolveAlert(w)
  PROVE  IInv'
<1>1. InFlight(req[w]) /\ req[w] \in Request /\ HoldsAlert(req[w])
  BY Holding DEF ResolveAlert, InFlight, OnAlert, At
<1>2. alerts' \in [AlertIds -> AlertRow \cup {NoRow}]
  BY <1>1 DEF ResolveAlert, HoldsAlert, IInv, TypeOK, AlertRow
<1>3. TablesGrow
  BY <1>1, <1>2 DEF TablesGrow, ResolveAlert, HoldsAlert, IInv, TypeOK, AlertRow
<1>4. TypeOK'
  BY <1>1, <1>2, DoneFacts DEF ResolveAlert, IInv, TypeOK
<1>5. InFlight(req[w])'
  BY <1>1, <1>3, DoneInFlight DEF ResolveAlert
<1> QED BY <1>1, <1>3, <1>4, <1>5, DoneFacts, WorkerStep DEF ResolveAlert

(* The heart of EscalatedFirst: a worker goes on to the safety limits only  *)
(* with an alert that is escalated.                                         *)
LEMMA RemediationImpliesEscalated ==
  ASSUME NEW row \in AlertRow, NEW now \in Times,
         ~ShouldEscalate(row, now), ShouldRemediate(row, now)
  PROVE  row.esc /\ now - row.first >= RemediationAfter
<1>1. now \in Int /\ row.first \in Int
  BY SettingsAssumption DEF AlertRow
<1> QED BY <1>1, SettingsAssumption DEF ShouldEscalate, ShouldRemediate, AlertRow

(* update_last_fired sends the worker on to escalate, to the remediation      *)
(* decision, or to the next result; the second one only with an alert that is *)
(* escalated already.                                                         *)
LEMMA UpdateLastFiredIInv ==
  ASSUME IInv, NEW w \in Workers, UpdateLastFired(w)
  PROVE  IInv'
<1> DEFINE row == alerts[req[w].alert]
           s == AfterAdvance(req[w].rule, row, req[w].at)
<1>1. InFlight(req[w]) /\ req[w] \in Request /\ HoldsAlert(req[w])
  BY Holding DEF UpdateLastFired, InFlight, OnAlert, At
<1>2. UNCHANGED <<alerts, actions, ackReq, sent>> /\ TablesGrow
  BY SameTables DEF UpdateLastFired
<1>3. row \in AlertRow /\ req[w].at \in Times
  BY <1>1 DEF HoldsAlert, Request
<1>4. CASE s = "next"
  <2>1. Done(w)
    BY <1>4 DEF UpdateLastFired, Continue
  <2>2. TypeOK'
    BY <2>1, <1>1, <1>2, DoneFacts DEF IInv, TypeOK
  <2> QED BY <2>1, <2>2, <1>1, <1>2, DoneInFlight, DoneFacts, WorkerStep
<1>5. CASE s # "next"
  <2>1. Goto(w, s) /\ s \in {"escalate", "cooldown"}
    BY <1>5 DEF UpdateLastFired, Continue, AfterAdvance, AfterEscalation
  <2>2. TypeOK'
    BY <2>1, <1>1, <1>2, GotoFacts DEF IInv, TypeOK
  <2>3. HoldsAlert(req[w])'
    BY <2>1, <1>1, <1>2, GotoFacts DEF HoldsAlert
  <2>4. s = "cooldown" => MayRemediate(req[w])'
    <3> SUFFICES ASSUME s = "cooldown" PROVE MayRemediate(req[w])'
      OBVIOUS
    <3>1. ~ShouldEscalate(row, req[w].at) /\ ShouldRemediate(row, req[w].at)
          /\ PlaybookFor[req[w].rule] # None
      BY DEF AfterAdvance, AfterEscalation
    <3>2. row.esc /\ req[w].at - row.first >= RemediationAfter
      BY <3>1, <1>3, RemediationImpliesEscalated
    <3>3. PlaybookFor[req[w].rule] \in Playbooks
      BY <3>1, <1>1, PolicyAssumption DEF HoldsAlert
    <3> QED BY <3>2, <3>3, <2>1, <1>1, <1>2, GotoFacts DEF MayRemediate
  <2>5. req'[w] \in Request /\ req'[w].pc = s /\ req'[w].dispatched = req[w].dispatched
    BY <2>1, <1>1, GotoFacts
  <2>6. InFlight(req[w])'
    BY <2>1, <2>3, <2>4, <2>5, <1>1, <1>2, CollectedStable
       DEF InFlight, OnAlert, Deciding
  <2> QED BY <2>1, <2>2, <2>6, <1>1, <1>2, GotoFacts, WorkerStep
<1> QED BY <1>4, <1>5

(* escalate_alert makes its alert escalated before remediation is decided. *)
LEMMA EscalateAlertIInv ==
  ASSUME IInv, NEW w \in Workers, EscalateAlert(w)
  PROVE  IInv'
<1> DEFINE row == alerts'[req[w].alert]
           s == AfterEscalation(req[w].rule, row, req[w].at)
<1>1. InFlight(req[w]) /\ req[w] \in Request /\ HoldsAlert(req[w])
  BY Holding DEF EscalateAlert, InFlight, OnAlert, At
<1>2. /\ alerts' \in [AlertIds -> AlertRow \cup {NoRow}]
      /\ row \in AlertRow /\ row.esc
      /\ row.node = req[w].node /\ row.rule = req[w].rule
  BY <1>1 DEF EscalateAlert, HoldsAlert, IInv, TypeOK, AlertRow
<1>3. TablesGrow
  BY <1>1, <1>2 DEF TablesGrow, EscalateAlert, HoldsAlert, IInv, TypeOK, AlertRow
<1>4. CASE s = "next"
  <2>1. Done(w)
    BY <1>4 DEF EscalateAlert, Continue
  <2>2. TypeOK'
    BY <2>1, <1>1, <1>2, DoneFacts DEF IInv, TypeOK, EscalateAlert
  <2> QED BY <2>1, <2>2, <1>1, <1>3, DoneInFlight, DoneFacts, WorkerStep
          DEF EscalateAlert
<1>5. CASE s # "next"
  <2>1. Goto(w, s) /\ s = "cooldown"
    BY <1>5 DEF EscalateAlert, Continue, AfterEscalation
  <2>2. TypeOK'
    BY <2>1, <1>1, <1>2, GotoFacts DEF IInv, TypeOK, EscalateAlert
  <2>3. HoldsAlert(req[w])'
    BY <2>1, <1>1, <1>2, GotoFacts DEF HoldsAlert
  <2>4. ShouldRemediate(row, req[w].at) /\ PlaybookFor[req[w].rule] # None
    BY <1>5 DEF AfterEscalation
  <2>5. PlaybookFor[req[w].rule] \in Playbooks
    BY <2>4, <1>1, PolicyAssumption DEF HoldsAlert
  <2>6. MayRemediate(req[w])'
    BY <2>1, <2>4, <2>5, <1>1, <1>2, GotoFacts DEF MayRemediate, ShouldRemediate
  <2>7. InFlight(req[w])'
    BY <2>1, <2>3, <2>6, <1>1, <1>3, GotoFacts, CollectedStable
       DEF InFlight, OnAlert, Deciding
  <2> QED BY <2>1, <2>2, <2>7, <1>1, <1>3, GotoFacts, WorkerStep DEF EscalateAlert
<1> QED BY <1>4, <1>5

(* A step to a later call of decide, carrying the verdict so far. *)
LEMMA DecideStep ==
  ASSUME IInv, NEW w \in Workers, req[w].pc \in Deciding, InFlight(req[w]),
         NEW v \in {"dispatched", "blocked"},
         UNCHANGED <<alerts, actions, ackReq, sent>>,
         \/ Goto(w, "rate")
         \/ req' = [req EXCEPT ![w].pc = "decide", ![w].verdict = v]
  PROVE  IInv'
<1>1. req[w] \in Request /\ HoldsAlert(req[w]) /\ MayRemediate(req[w])
  BY DEF InFlight, OnAlert, Deciding
<1>2. /\ req'[w] \in Request /\ req'[w].pc \in {"rate", "decide"}
      /\ req'[w].pc = "decide" => req'[w].verdict = v
      /\ req'[w].node = req[w].node /\ req'[w].at = req[w].at
      /\ req'[w].rule = req[w].rule /\ req'[w].alert = req[w].alert
      /\ req'[w].dispatched = req[w].dispatched
      /\ \A u \in Workers \ {w} : req'[u] = req[u]
      /\ req' \in [Workers -> Request \cup {Idle}]
  BY <1>1 DEF Goto, Request, IInv, TypeOK
<1>3. TablesGrow
  BY SameTables
<1>4. HoldsAlert(req[w])' /\ MayRemediate(req[w])'
  BY <1>1, <1>2 DEF HoldsAlert, MayRemediate
<1>5. InFlight(req[w])'
  BY <1>2, <1>3, <1>4, CollectedStable DEF InFlight, OnAlert, Deciding
<1> QED BY <1>2, <1>3, <1>5, WorkerStep DEF IInv, TypeOK

(* The cooldown check reads the tables and records a verdict or moves on. *)
LEMMA CheckCooldownIInv ==
  ASSUME IInv, NEW w \in Workers, CheckCooldown(w)
  PROVE  IInv'
<1>1. InFlight(req[w]) /\ req[w].pc \in Deciding
  BY Holding DEF CheckCooldown, At, Deciding
<1> QED BY <1>1, DecideStep DEF CheckCooldown

(* The hourly check reads the tables and records a verdict. *)
LEMMA CheckRateLimitIInv ==
  ASSUME IInv, NEW w \in Workers, CheckRateLimit(w)
  PROVE  IInv'
<1>1. InFlight(req[w]) /\ req[w].pc \in Deciding
  BY Holding DEF CheckRateLimit, At, Deciding
<1> QED BY <1>1, DecideStep DEF CheckRateLimit

(* create_action inserts a row that what its worker holds justifies. *)
LEMMA CreateActionIInv ==
  ASSUME IInv, NEW w \in Workers, NEW a \in ActionIds, CreateAction(w, a)
  PROVE  IInv'
<1>1. /\ InFlight(req[w]) /\ req[w] \in Request
      /\ HoldsAlert(req[w]) /\ MayRemediate(req[w])
      /\ req[w].verdict \in {"dispatched", "blocked"}
  BY Holding DEF CreateAction, InFlight, OnAlert, Deciding, At
<1>2. /\ actions' \in [ActionIds -> ActionRow \cup {NoRow}]
      /\ actions'[a] \in ActionRow
      /\ actions'[a].status = req[w].verdict
      /\ actions'[a].alert = req[w].alert
      /\ actions'[a].node = req[w].node
      /\ actions'[a].created = req[w].at
      /\ \A b \in ActionIds \ {a} : actions'[b] = actions[b]
  BY <1>1 DEF CreateAction, HoldsAlert, MayRemediate, Request, ActionRow, IInv, TypeOK
<1>3. TablesGrow
  BY <1>2 DEF TablesGrow, CreateAction, ActionRow, NoRow
<1>4. /\ req'[w] \in Request /\ req'[w].pc = "mark" /\ req'[w].action = a
      /\ req'[w].node = req[w].node /\ req'[w].at = req[w].at
      /\ req'[w].rule = req[w].rule /\ req'[w].alert = req[w].alert
      /\ req'[w].verdict = req[w].verdict
      /\ req'[w].dispatched = req[w].dispatched
      /\ \A v \in Workers \ {w} : req'[v] = req[v]
      /\ req' \in [Workers -> Request \cup {Idle}]
  BY <1>1 DEF CreateAction, Request, IInv, TypeOK
<1>5. TypeOK'
  BY <1>2, <1>4 DEF CreateAction, IInv, TypeOK
<1>6. HoldsAlert(req[w])' /\ MayRemediate(req[w])'
  BY <1>1, <1>4 DEF HoldsAlert, MayRemediate, CreateAction
<1>7. HoldsAction(req[w])'
  BY <1>2, <1>4 DEF HoldsAction
<1>8. InFlight(req[w])'
  BY <1>1, <1>3, <1>4, <1>6, <1>7, CollectedStable DEF InFlight, OnAlert, Deciding
<1>9. Justified(a)'
  BY <1>1, <1>2 DEF Justified, HoldsAlert, MayRemediate, CreateAction
<1> QED BY <1>2, <1>3, <1>4, <1>5, <1>8, <1>9, WorkerStep DEF CreateAction

(* mark_remediated settles the action, which may now ride the Ack. *)
LEMMA MarkRemediatedIInv ==
  ASSUME IInv, NEW w \in Workers, MarkRemediated(w)
  PROVE  IInv'
<1>1. /\ InFlight(req[w]) /\ req[w] \in Request
      /\ HoldsAlert(req[w]) /\ HoldsAction(req[w])
  BY Holding DEF MarkRemediated, InFlight, OnAlert, Deciding, At
<1>2. /\ alerts' \in [AlertIds -> AlertRow \cup {NoRow}]
      /\ alerts'[req[w].alert] \in AlertRow
      /\ alerts'[req[w].alert].rem
  BY <1>1 DEF MarkRemediated, HoldsAlert, IInv, TypeOK, AlertRow
<1>3. TablesGrow
  BY <1>1, <1>2 DEF TablesGrow, MarkRemediated, HoldsAlert, IInv, TypeOK, AlertRow
<1>4. /\ req'[w] \in Request /\ req'[w].pc = "next"
      /\ req'[w].dispatched = IF req[w].verdict = "dispatched"
                                THEN req[w].dispatched \cup {req[w].action}
                                ELSE req[w].dispatched
      /\ \A v \in Workers \ {w} : req'[v] = req[v]
      /\ req' \in [Workers -> Request \cup {Idle}]
  <2> DEFINE D == IF req[w].verdict = "dispatched"
                    THEN req[w].dispatched \cup {req[w].action}
                    ELSE req[w].dispatched
  <2>1. D \in SUBSET ActionIds
    BY <1>1 DEF HoldsAction, Request
  <2>2. req' = [req EXCEPT ![w].pc = "next", ![w].rule = None, ![w].alert = None,
                           ![w].verdict = None, ![w].action = None,
                           ![w].dispatched = D]
    BY <1>1 DEF MarkRemediated, IInv, TypeOK, Request
  <2> HIDE DEF D
  <2>3. /\ req'[w] \in Request /\ req'[w].pc = "next" /\ req'[w].dispatched = D
        /\ \A v \in Workers \ {w} : req'[v] = req[v]
        /\ req' \in [Workers -> Request \cup {Idle}]
    BY <1>1, <2>1, <2>2 DEF Request, IInv, TypeOK
  <2> QED BY <2>3 DEF D
<1>5. TypeOK'
  BY <1>2, <1>4 DEF MarkRemediated, IInv, TypeOK
<1>6. InFlight(req[w])'
  <2>1. \A b \in req'[w].dispatched : Settled(b)'
    <3> SUFFICES ASSUME NEW b \in req'[w].dispatched PROVE Settled(b)'
      OBVIOUS
    <3>1. CASE b \in req[w].dispatched
      BY <3>1, <1>1, <1>3, CollectedStable
    <3>2. CASE b = req[w].action /\ req[w].verdict = "dispatched"
      BY <3>2, <1>1, <1>2 DEF MarkRemediated, HoldsAction, Settled
    <3> QED BY <3>1, <3>2, <1>4
  <2> QED BY <2>1, <1>4 DEF InFlight, OnAlert, Deciding
<1> QED BY <1>3, <1>4, <1>5, <1>6, WorkerStep DEF MarkRemediated

(* The Ack carries settled actions only. *)
LEMMA SendAckIInv ==
  ASSUME IInv, NEW w \in Workers, SendAck(w)
  PROVE  IInv'
<1>1. InFlight(req[w]) /\ req[w] \in Request
  BY Holding DEF SendAck
<1>2. TablesGrow
  BY SameTables DEF SendAck
<1>3. TypeOK'
  BY <1>1 DEF SendAck, IInv, TypeOK, Request
<1>4. \A a \in sent' \ sent : Settled(a)'
  BY <1>1, <1>2, CollectedStable DEF SendAck
<1>5. req'[w] = Idle /\ \A v \in Workers \ {w} : req'[v] = req[v]
  BY DEF SendAck, IInv, TypeOK
<1> QED BY <1>2, <1>3, <1>4, <1>5, WorkerStep DEF SendAck

(* A failing call drops what its worker held and changes no row. *)
LEMMA FailIInv ==
  ASSUME IInv, NEW w \in Workers, Fail(w)
  PROVE  IInv'
<1>1. TablesGrow
  BY SameTables DEF Fail
<1>2. TypeOK'
  BY DEF Fail, IInv, TypeOK
<1>3. req'[w] = Idle /\ \A v \in Workers \ {w} : req'[v] = req[v]
  BY DEF Fail, IInv, TypeOK
<1> QED BY <1>1, <1>2, <1>3, WorkerStep DEF Fail

(* A step of the acknowledge handler moves no worker. *)
LEMMA AcknowledgeIInv ==
  ASSUME IInv, NEW i \in AlertIds,
         AcknowledgeRead(i) \/ AcknowledgeWrite(i) \/ AcknowledgeFail(i)
  PROVE  IInv'
<1>1. /\ alerts[i] \in AlertRow
      /\ req' = req /\ actions' = actions /\ sent' = sent
      /\ ackReq' \subseteq ackReq \cup {i}
      /\ \/ alerts' = alerts
         \/ alerts' = [alerts EXCEPT ![i].ack = TRUE]
  BY DEF AcknowledgeRead, AcknowledgeWrite, AcknowledgeFail, IInv, TypeOK, NoRow
<1>2. ASSUME alerts' = [alerts EXCEPT ![i].ack = TRUE]
      PROVE  alerts' \in [AlertIds -> AlertRow \cup {NoRow}] /\ TablesGrow
  <2>1. alerts'[i] \in AlertRow /\ alerts'[i] = [alerts[i] EXCEPT !.ack = TRUE]
    BY <1>1, <1>2 DEF IInv, TypeOK, AlertRow
  <2>2. \A j \in AlertIds \ {i} : alerts'[j] = alerts[j]
    BY <1>2 DEF IInv, TypeOK
  <2>3. alerts' \in [AlertIds -> AlertRow \cup {NoRow}]
    BY <1>2, <2>1 DEF IInv, TypeOK
  <2>4. TablesGrow
    BY <1>1, <2>1, <2>2 DEF TablesGrow, AlertRow
  <2> QED BY <2>3, <2>4
<1>3. alerts' \in [AlertIds -> AlertRow \cup {NoRow}] /\ TablesGrow
  <2>1. CASE alerts' = alerts
    BY <1>1, <2>1, SameTables DEF IInv, TypeOK
  <2> QED BY <1>1, <1>2, <2>1
<1>4. TypeOK'
  BY <1>1, <1>3 DEF IInv, TypeOK
<1>5. \A w \in Workers : req'[w] = Idle \/ InFlight(req[w])'
  BY <1>1, <1>3, InFlightStable DEF IInv
<1>6. \A j \in ackReq' : alerts'[j] \in AlertRow
  BY <1>1, <1>3, RowsStable DEF TablesGrow
<1> QED BY <1>1, <1>3, <1>4, <1>5, <1>6, RowsStable DEF IInv

(* Every step, and every stuttering step, preserves the invariant. *)
LEMMA NextIInv == IInv /\ [Next]_vars => IInv'
<1> SUFFICES ASSUME IInv, [Next]_vars PROVE IInv'
  OBVIOUS
<1>1. CASE UNCHANGED vars
  <2>1. TablesGrow
    BY <1>1, SameTables DEF vars
  <2> QED BY <1>1, <2>1, InFlightStable, RowsStable DEF vars, IInv, TypeOK
<1>2. ASSUME NEW w \in Workers, NEW n \in Nodes, NEW t \in Times,
             NEW breaching \in SUBSET Rules, NEW clear \in SUBSET (Rules \ breaching),
             Ingest(w, n, t, breaching, clear)
      PROVE  IInv'
  BY <1>2, IngestIInv
<1>3. ASSUME NEW w \in Workers, Step(w) PROVE IInv'
  BY <1>3, FindOpenAlertIInv, CreateAlertIInv, UpdateLastFiredIInv,
     EscalateAlertIInv, ResolveAlertIInv, CheckCooldownIInv, CheckRateLimitIInv,
     CreateActionIInv, MarkRemediatedIInv, SendAckIInv DEF Step
<1>4. ASSUME NEW w \in Workers, Fail(w) PROVE IInv'
  BY <1>4, FailIInv
<1>5. ASSUME NEW i \in AlertIds,
             AcknowledgeRead(i) \/ AcknowledgeWrite(i) \/ AcknowledgeFail(i)
      PROVE  IInv'
  BY <1>5, AcknowledgeIInv
<1> QED BY <1>1, <1>2, <1>3, <1>4, <1>5 DEF Next

(* The inductive invariant holds in every reachable state. *)
LEMMA InvariantHolds == Spec => []IInv
  BY InitIInv, NextIInv, PTL DEF Spec

-----------------------------------------------------------------------------
(* The tables and the requests in flight keep their declared types, for any *)
(* number of nodes, rules, workers and rows and any order of payloads.      *)
THEOREM TypeCorrect == Spec => []TypeOK
<1>1. IInv => TypeOK
  BY DEF IInv
<1> QED BY <1>1, InvariantHolds, PTL

(* No remediation action is ever recorded for an alert that was not         *)
(* escalated or has not been firing for RemediationAfter, even when         *)
(* requests overlap, acknowledgements race them and commits fail.           *)
THEOREM EscalationComesFirst == Spec => []EscalatedFirst
<1>1. IInv => EscalatedFirst
  BY DEF IInv, EscalatedFirst, Justified, AlertRow, NoRow
<1> QED BY <1>1, InvariantHolds, PTL

(* Every action an Ack carried is a dispatched one of an alert that is      *)
(* marked remediated, under the same conditions.                            *)
THEOREM SentActionsAreSettled == Spec => []SentIsSettled
<1>1. IInv => SentIsSettled
  BY DEF IInv, SentIsSettled, Settled
<1> QED BY <1>1, InvariantHolds, PTL

-----------------------------------------------------------------------------
(***************************************************************************)
(* What holds when the requests of one node do not overlap (Serial): at    *)
(* most one open alert per (node, rule), the cooldown and the hourly       *)
(* limit, for payloads in any order and whatever fails.                    *)
(*                                                                         *)
(* The code checks first and writes in a later transaction.  Reserved says *)
(* what the check established; it still holds at the write because no      *)
(* other worker writes rows of this worker's node.                         *)
(***************************************************************************)

OneRequestPerNode ==
  \A v, w \in Workers :
    req[v] # Idle /\ req[w] # Idle /\ req[v].node = req[w].node => v = w

CooledDown(q) == ~OnCooldown(q.node, PlaybookFor[q.rule], q.at)

Reserved(q) ==
  /\ q.pc = "create" => Open(q.node, q.rule) = {}
  /\ q.pc = "rate" => CooledDown(q)
  /\ q.pc = "decide" /\ q.verdict = "dispatched" =>
       CooledDown(q) /\ ~AtRateLimit(q.node, q.at)

SInv ==
  /\ OneRequestPerNode
  /\ \A w \in Workers : req[w] # Idle => Reserved(req[w])
  /\ OneOpenAlert
  /\ CooldownRespected
  /\ RateLimitRespected

(* No alert starts firing. *)
NothingOpened ==
  \A i \in AlertIds : alerts'[i].status = "firing" =>
    /\ alerts[i].status = "firing"
    /\ alerts'[i].node = alerts[i].node
    /\ alerts'[i].rule = alerts[i].rule

-----------------------------------------------------------------------------
(* A missing row and an idle worker are told apart from every other value. *)
LEMMA NoRowFacts ==
  /\ NoRow.status = "none"
  /\ NoRow \notin AlertRow /\ NoRow \notin ActionRow
  /\ Idle \notin Request
  /\ Idle.pc = "idle"
  /\ \A q \in Request : q.pc # "idle"
  BY DEF NoRow, AlertRow, ActionRow, Idle, Request

(* A worker's step moves that worker only, and never to another payload. *)
LEMMA StepMovesOneWorker ==
  ASSUME IInv, NEW w \in Workers, Step(w) \/ Fail(w)
  PROVE  /\ req[w] \in Request
         /\ \A v \in Workers \ {w} : req'[v] = req[v]
         /\ \/ req'[w] = Idle
            \/ /\ req'[w] \in Request
               /\ req'[w].node = req[w].node
               /\ req'[w].at = req[w].at
<1>1. req[w] \in Request
  BY NoRowFacts DEF Step, Fail, At, IInv, TypeOK, FindOpenAlert, CreateAlert,
     UpdateLastFired, EscalateAlert, ResolveAlert, CheckCooldown, CheckRateLimit,
     CreateAction, MarkRemediated, SendAck
<1> DEFINE Same == /\ \A v \in Workers \ {w} : req'[v] = req[v]
                   /\ req'[w].node = req[w].node /\ req'[w].at = req[w].at
<1>2. ASSUME NEW s, NEW r, NEW i, Goto(w, s) \/ Done(w) \/ Take(w, r, s, i) PROVE Same
  BY <1>1, <1>2 DEF Goto, Done, Take, IInv, TypeOK, Request
<1>3. CASE SendAck(w) \/ Fail(w)
  BY <1>1, <1>3 DEF SendAck, Fail, IInv, TypeOK
<1>4. IInv'
  BY NextIInv DEF Next
<1>5. CASE Step(w) /\ ~SendAck(w)
  <2>1. Same
    <3>1. ASSUME NEW r \in Rules, FindOpenAlert(w, r) PROVE Same
      BY <3>1, <1>2 DEF FindOpenAlert
    <3>2. ASSUME NEW i \in AlertIds, CreateAlert(w, i) PROVE Same
      BY <3>2, <1>2 DEF CreateAlert
    <3>3. CASE UpdateLastFired(w) \/ EscalateAlert(w) \/ ResolveAlert(w)
      BY <3>3, <1>2 DEF UpdateLastFired, EscalateAlert, ResolveAlert, Continue
    <3>4. CASE CheckCooldown(w)
      BY <3>4, <1>1 DEF CheckCooldown, Goto, IInv, TypeOK, Request
    <3>5. CASE CheckRateLimit(w)
      BY <3>5, <1>1 DEF CheckRateLimit, IInv, TypeOK, Request
    <3>6. ASSUME NEW a \in ActionIds, CreateAction(w, a) PROVE Same
      BY <3>6, <1>1 DEF CreateAction, IInv, TypeOK, Request
    <3>7. CASE MarkRemediated(w)
      BY <3>7, <1>1 DEF MarkRemediated, IInv, TypeOK, Request
    <3> QED BY <1>5, <3>1, <3>2, <3>3, <3>4, <3>5, <3>6, <3>7 DEF Step
  <2>2. req'[w].pc # "idle"
    <3>1. ASSUME NEW r \in Rules, FindOpenAlert(w, r) PROVE req'[w].pc # "idle"
      <4>1. PICK s \in {"create", "advance", "next", "resolve"},
                 i \in AlertIds \cup {None} : Take(w, r, s, i)
        BY <3>1 DEF FindOpenAlert, Open
      <4> QED BY <4>1, <1>1 DEF Take, IInv, TypeOK, Request
    <3>2. ASSUME NEW i \in AlertIds, CreateAlert(w, i) PROVE req'[w].pc # "idle"
      BY <3>2, <1>1 DEF CreateAlert, Done, IInv, TypeOK, Request
    <3>3. CASE UpdateLastFired(w) \/ EscalateAlert(w) \/ ResolveAlert(w)
      BY <3>3, <1>1 DEF UpdateLastFired, EscalateAlert, ResolveAlert, Continue,
         Done, Goto, AfterAdvance, AfterEscalation, IInv, TypeOK, Request
    <3>4. CASE CheckCooldown(w) \/ CheckRateLimit(w)
      BY <3>4, <1>1 DEF CheckCooldown, CheckRateLimit, Goto, IInv, TypeOK, Request
    <3>5. ASSUME NEW a \in ActionIds, CreateAction(w, a) PROVE req'[w].pc # "idle"
      BY <3>5, <1>1 DEF CreateAction, IInv, TypeOK, Request
    <3>6. CASE MarkRemediated(w)
      BY <3>6, <1>1 DEF MarkRemediated, IInv, TypeOK, Request
    <3> QED BY <1>5, <3>1, <3>2, <3>3, <3>4, <3>5, <3>6 DEF Step
  <2>3. req'[w] \in Request
    BY <1>4, <2>2, NoRowFacts DEF IInv, TypeOK
  <2> QED BY <2>1, <2>3, <1>1
<1> QED BY <1>3, <1>5

(* The guard of Ingest under Serial keeps a node's requests apart. *)
LEMMA OneRequestKept ==
  ASSUME Serial, IInv, SInv, [Next]_vars
  PROVE  OneRequestPerNode'
<1>1. ASSUME NEW w \in Workers, Step(w) \/ Fail(w) PROVE OneRequestPerNode'
  BY <1>1, StepMovesOneWorker, NoRowFacts DEF SInv, OneRequestPerNode
<1>2. ASSUME NEW w \in Workers, NEW n \in Nodes, NEW t \in Times,
             NEW breaching \in SUBSET Rules, NEW clear \in SUBSET (Rules \ breaching),
             Ingest(w, n, t, breaching, clear)
      PROVE  OneRequestPerNode'
  <2>1. req'[w].node = n /\ \A v \in Workers \ {w} : req'[v] = req[v]
    BY <1>2 DEF Ingest, IInv, TypeOK
  <2>2. \A v \in Workers : req[v] # Idle => req[v].node # n
    BY <1>2, NoRowFacts DEF Ingest, Serving, At, IInv, TypeOK
  <2> QED BY <2>1, <2>2 DEF SInv, OneRequestPerNode
<1>3. CASE req' = req
  BY <1>3 DEF SInv, OneRequestPerNode
<1> QED BY <1>1, <1>2, <1>3 DEF Next, vars, AcknowledgeRead, AcknowledgeWrite, AcknowledgeFail

-----------------------------------------------------------------------------
(* Only CreateAlert makes an alert fire; only CreateAction adds an action. *)
LEMMA WhoOpens ==
  ASSUME IInv, [Next]_vars,
         \A w \in Workers, i \in AlertIds : ~CreateAlert(w, i)
  PROVE  NothingOpened
<1>1. CASE alerts' = alerts
  BY <1>1 DEF NothingOpened
<1>2. ASSUME NEW i \in AlertIds, alerts[i] \in AlertRow,
             \/ alerts' = [alerts EXCEPT ![i].esc = TRUE]
             \/ alerts' = [alerts EXCEPT ![i].rem = TRUE]
             \/ alerts' = [alerts EXCEPT ![i].ack = TRUE]
             \/ alerts' = [alerts EXCEPT ![i].status = "resolved"]
      PROVE  NothingOpened
  BY <1>2 DEF NothingOpened, IInv, TypeOK, AlertRow
<1>3. ASSUME NEW w \in Workers, EscalateAlert(w) \/ ResolveAlert(w) \/ MarkRemediated(w)
      PROVE  NothingOpened
  <2>1. HoldsAlert(req[w])
    BY <1>3, Holding DEF EscalateAlert, ResolveAlert, MarkRemediated, At, InFlight, OnAlert
  <2> QED BY <2>1, <1>2, <1>3
          DEF HoldsAlert, EscalateAlert, ResolveAlert, MarkRemediated
<1>4. ASSUME NEW i \in AlertIds, AcknowledgeWrite(i) PROVE NothingOpened
  BY <1>4, <1>2 DEF AcknowledgeWrite, IInv
<1> QED BY <1>1, <1>3, <1>4 DEF Next, Step, vars, Ingest, Fail, FindOpenAlert,
        CreateAlert, UpdateLastFired, CheckCooldown, CheckRateLimit, CreateAction,
        SendAck, AcknowledgeRead, AcknowledgeFail

(* Only create_action adds to the audit log; nothing here changes its rows. *)
LEMMA WhoRecords ==
  ASSUME [Next]_vars,
         \A w \in Workers, a \in ActionIds : ~CreateAction(w, a)
  PROVE  actions' = actions
  BY DEF Next, Step, vars, Ingest, Fail, FindOpenAlert, CreateAlert,
     UpdateLastFired, EscalateAlert, ResolveAlert, CheckCooldown, CheckRateLimit,
     MarkRemediated, SendAck, AcknowledgeRead, AcknowledgeWrite, AcknowledgeFail

(* A new alert or action belongs to the node of the worker that writes it. *)
LEMMA CreateAlertRow ==
  ASSUME IInv, NEW w \in Workers, NEW i \in AlertIds, CreateAlert(w, i)
  PROVE  /\ alerts'[i].node = req[w].node /\ alerts'[i].rule = req[w].rule
         /\ \A j \in AlertIds \ {i} : alerts'[j] = alerts[j]
  BY DEF CreateAlert, IInv, TypeOK

(* What create_action writes, and that it writes one row only. *)
LEMMA CreateActionRow ==
  ASSUME IInv, NEW w \in Workers, NEW a \in ActionIds, CreateAction(w, a)
  PROVE  /\ actions[a] = NoRow
         /\ actions'[a] # NoRow
         /\ actions'[a].node = req[w].node
         /\ actions'[a].playbook = PlaybookFor[req[w].rule]
         /\ actions'[a].created = req[w].at
         /\ actions'[a].status = req[w].verdict
         /\ \A b \in ActionIds \ {a} : actions'[b] = actions[b]
<1>1. req[w].verdict \in {"dispatched", "blocked"}
  BY Holding DEF CreateAction, At, InFlight
<1> QED BY <1>1, NoRowFacts DEF CreateAction, IInv, TypeOK

(* The reads behind Reserved do not notice another node's rows. *)
LEMMA ReservedStable ==
  ASSUME IInv, SInv, [Next]_vars, OneRequestPerNode,
         NEW v \in Workers, req[v] # Idle, req'[v] = req[v],
         \A i \in AlertIds : ~CreateAlert(v, i),
         \A a \in ActionIds : ~CreateAction(v, a)
  PROVE  Reserved(req[v])'
<1>0. Reserved(req[v]) /\ req[v] \in Request
  BY DEF SInv, IInv, TypeOK
<1>1. Open(req[v].node, req[v].rule) = {} => (Open(req[v].node, req[v].rule) = {})'
  <2>1. CASE \A w \in Workers, i \in AlertIds : ~CreateAlert(w, i)
    BY <2>1, WhoOpens DEF NothingOpened, Open
  <2>2. ASSUME NEW w \in Workers, NEW i \in AlertIds, CreateAlert(w, i)
        PROVE  Open(req[v].node, req[v].rule) = {} => (Open(req[v].node, req[v].rule) = {})'
    <3>1. w # v /\ req[w] # Idle
      BY <2>2, NoRowFacts DEF CreateAlert, At
    <3>2. req[w].node # req[v].node
      BY <3>1 DEF OneRequestPerNode
    <3> QED BY <3>2, <2>2, CreateAlertRow DEF Open
  <2> QED BY <2>1, <2>2
<1>2. /\ CooledDown(req[v]) => CooledDown(req[v])'
      /\ RecentActions(req[v].node, req[v].at)' = RecentActions(req[v].node, req[v].at)
  <2>1. CASE \A w \in Workers, a \in ActionIds : ~CreateAction(w, a)
    BY <2>1, WhoRecords DEF CooledDown, OnCooldown, RecentActions
  <2>2. ASSUME NEW w \in Workers, NEW a \in ActionIds, CreateAction(w, a)
        PROVE  /\ CooledDown(req[v]) => CooledDown(req[v])'
               /\ RecentActions(req[v].node, req[v].at)' = RecentActions(req[v].node, req[v].at)
    <3>1. w # v /\ req[w] # Idle
      BY <2>2, NoRowFacts DEF CreateAction, At
    <3>2. req[w].node # req[v].node
      BY <3>1 DEF OneRequestPerNode
    <3> QED BY <3>2, <2>2, CreateActionRow DEF CooledDown, OnCooldown, RecentActions
  <2> QED BY <2>1, <2>2
<1> QED BY <1>0, <1>1, <1>2 DEF Reserved, AtRateLimit

(* The moving worker: the check it just made is what Reserved records. *)
LEMMA ReservedMoves ==
  ASSUME IInv, SInv, NEW w \in Workers, Step(w), req'[w] # Idle
  PROVE  Reserved(req[w])'
<1>0. req[w] \in Request /\ Reserved(req[w])
  BY StepMovesOneWorker, NoRowFacts DEF SInv
<1> DEFINE Harmless == req'[w].pc \notin {"create", "rate", "decide"}
<1>1. Harmless => Reserved(req[w])'
  BY DEF Reserved
<1>2. ASSUME NEW r \in Rules, FindOpenAlert(w, r) PROVE Reserved(req[w])'
  <2>1. PICK s \in {"create", "advance", "next", "resolve"}, i \in AlertIds \cup {None} :
          Take(w, r, s, i) /\ (s = "create" => Open(req[w].node, r) = {})
    BY <1>2 DEF FindOpenAlert, Open
  <2>2. /\ req'[w].pc = s /\ req'[w].node = req[w].node
        /\ s = "create" => req'[w].rule = r
    BY <2>1, <1>0 DEF Take, IInv, TypeOK, Request
  <2> QED BY <2>1, <2>2, <1>2 DEF FindOpenAlert, Reserved, Open
<1>3. ASSUME NEW i \in AlertIds, CreateAlert(w, i) PROVE Harmless
  BY <1>0, <1>3, DoneFacts DEF CreateAlert
<1>4. CASE ResolveAlert(w)
  BY <1>0, <1>1, <1>4, DoneFacts DEF ResolveAlert
<1>5. CASE UpdateLastFired(w) \/ EscalateAlert(w)
  <2>1. PICK s \in {"next", "escalate", "cooldown"} : Continue(w, s)
    BY <1>5 DEF UpdateLastFired, EscalateAlert, AfterAdvance, AfterEscalation
  <2> QED BY <2>1, <1>0, <1>1, DoneFacts, GotoFacts DEF Continue
<1>6. CASE CheckCooldown(w)
  <2>1. CASE OnCooldown(req[w].node, PlaybookFor[req[w].rule], req[w].at)
    <3>1. req'[w].pc = "decide" /\ req'[w].verdict = "blocked"
      BY <1>0, <1>6, <2>1 DEF CheckCooldown, IInv, TypeOK, Request
    <3> QED BY <3>1 DEF Reserved
  <2>2. CASE ~OnCooldown(req[w].node, PlaybookFor[req[w].rule], req[w].at)
    <3>1. Goto(w, "rate") /\ actions' = actions
      BY <1>6, <2>2 DEF CheckCooldown
    <3> QED BY <3>1, <2>2, <1>0, GotoFacts DEF Reserved, CooledDown, OnCooldown
  <2> QED BY <2>1, <2>2
<1>7. CASE CheckRateLimit(w)
  <2>1. /\ req'[w].pc = "decide" /\ req'[w].node = req[w].node
        /\ req'[w].at = req[w].at /\ req'[w].rule = req[w].rule
        /\ req'[w].verdict = "dispatched" => ~AtRateLimit(req[w].node, req[w].at)
    BY <1>0, <1>7 DEF CheckRateLimit, IInv, TypeOK, Request
  <2>2. CooledDown(req[w]) /\ actions' = actions
    BY <1>0, <1>7 DEF Reserved, CheckRateLimit, At
  <2> QED BY <2>1, <2>2 DEF Reserved, CooledDown, OnCooldown, AtRateLimit, RecentActions
<1>8. ASSUME NEW a \in ActionIds, CreateAction(w, a) PROVE Harmless
  BY <1>0, <1>8 DEF CreateAction, IInv, TypeOK, Request
<1>9. CASE MarkRemediated(w)
  BY <1>0, <1>1, <1>9 DEF MarkRemediated, IInv, TypeOK, Request
<1>10. CASE SendAck(w)
  BY <1>10 DEF SendAck, IInv, TypeOK
<1> QED BY <1>1, <1>2, <1>3, <1>4, <1>5, <1>6, <1>7, <1>8, <1>9, <1>10 DEF Step

(* Every worker, moving or not, keeps what its checks established. *)
LEMMA ReservedKept ==
  ASSUME Serial, IInv, SInv, [Next]_vars, NEW v \in Workers, req'[v] # Idle
  PROVE  Reserved(req[v])'
<1>1. CASE Step(v)
  BY <1>1, ReservedMoves
<1>2. CASE ~Step(v) /\ req'[v] = req[v]
  <2>1. /\ \A i \in AlertIds : ~CreateAlert(v, i)
        /\ \A a \in ActionIds : ~CreateAction(v, a)
    BY <1>2 DEF Step
  <2> QED BY <1>2, <2>1, ReservedStable DEF SInv
<1>3. ASSUME NEW n \in Nodes, NEW t \in Times,
             NEW breaching \in SUBSET Rules, NEW clear \in SUBSET (Rules \ breaching),
             Ingest(v, n, t, breaching, clear)
      PROVE  Reserved(req[v])'
  <2>1. req'[v].pc = "next"
    BY <1>3 DEF Ingest, IInv, TypeOK
  <2> QED BY <2>1 DEF Reserved
<1>4. ASSUME NEW w \in Workers, NEW n \in Nodes, NEW t \in Times,
             NEW breaching \in SUBSET Rules, NEW clear \in SUBSET (Rules \ breaching),
             Ingest(w, n, t, breaching, clear), w # v
      PROVE  req'[v] = req[v]
  BY <1>4 DEF Ingest, IInv, TypeOK
<1>5. ASSUME NEW w \in Workers, Step(w) \/ Fail(w), w # v PROVE req'[v] = req[v]
  BY <1>5, StepMovesOneWorker
<1>6. CASE Fail(v)
  BY <1>6 DEF Fail, IInv, TypeOK
<1> QED BY <1>1, <1>2, <1>3, <1>4, <1>5, <1>6 DEF Next, vars, AcknowledgeRead,
        AcknowledgeWrite, AcknowledgeFail

-----------------------------------------------------------------------------
(* Dedup is preserved: a created alert had no open one beside it. *)
LEMMA OneOpenKept ==
  ASSUME IInv, SInv, [Next]_vars
  PROVE  OneOpenAlert'
<1>1. CASE \A w \in Workers, i \in AlertIds : ~CreateAlert(w, i)
  BY <1>1, WhoOpens DEF SInv, OneOpenAlert, NothingOpened
<1>2. ASSUME NEW w \in Workers, NEW i \in AlertIds, CreateAlert(w, i)
      PROVE  OneOpenAlert'
  <2>1. Open(req[w].node, req[w].rule) = {}
    BY <1>2, NoRowFacts DEF CreateAlert, At, SInv, Reserved
  <2>2. \A j \in AlertIds \ {i} :
          alerts'[j].status = "firing" =>
            ~(alerts'[j].node = alerts'[i].node /\ alerts'[j].rule = alerts'[i].rule)
    BY <2>1, <1>2, CreateAlertRow DEF Open
  <2> QED BY <2>2, <1>2, CreateAlertRow DEF SInv, OneOpenAlert
<1> QED BY <1>1, <1>2

(* What the two checks mean for the row that CreateAction then writes. *)
LEMMA NewDispatch ==
  ASSUME IInv, SInv, NEW w \in Workers, NEW a \in ActionIds, CreateAction(w, a),
         actions'[a].status = "dispatched"
  PROVE  CooledDown(req[w]) /\ ~AtRateLimit(req[w].node, req[w].at)
  BY CreateActionRow, NoRowFacts DEF CreateAction, At, SInv, Reserved

(* The cooldown is preserved: a new dispatch is far from every older one. *)
LEMMA CooldownKept ==
  ASSUME IInv, IInv', SInv, [Next]_vars
  PROVE  CooldownRespected'
<1>1. CASE \A w \in Workers, a \in ActionIds : ~CreateAction(w, a)
  BY <1>1, WhoRecords DEF SInv, CooldownRespected, Dispatched
<1>2. ASSUME NEW w \in Workers, NEW a \in ActionIds, CreateAction(w, a)
      PROVE  CooldownRespected'
  <2> SUFFICES ASSUME NEW n \in Nodes, NEW x \in Dispatched(n)', NEW y \in Dispatched(n)',
                      x # y, actions'[x].playbook = actions'[y].playbook
               PROVE  \/ actions'[x].created - actions'[y].created >= Cooldown
                      \/ actions'[y].created - actions'[x].created >= Cooldown
    BY DEF CooldownRespected
  <2>0. x \in ActionIds /\ y \in ActionIds
    BY DEF Dispatched
  <2>1. ASSUME NEW b \in ActionIds, b # a, actions'[a].status = "dispatched",
               actions'[b].status = "dispatched", actions'[b].node = actions'[a].node,
               actions'[b].playbook = actions'[a].playbook
        PROVE  actions'[a].created - actions'[b].created >= Cooldown
    <3>1. CooledDown(req[w])
      BY <1>2, <2>1, NewDispatch
    <3>2. actions'[b] = actions[b] /\ actions[b] # NoRow
      BY <1>2, <2>1, CreateActionRow, NoRowFacts
    <3>3. ~(req[w].at - actions[b].created < Cooldown)
      BY <3>1, <3>2, <2>1, <1>2, CreateActionRow DEF CooledDown, OnCooldown
    <3>4. req[w].at \in Int /\ actions[b].created \in Int
      <4>1. actions[b] \in ActionRow
        BY <3>2 DEF IInv, TypeOK
      <4>2. req[w] \in Request
        BY <1>2, Holding DEF CreateAction
      <4> QED BY <4>1, <4>2, SettingsAssumption DEF ActionRow, Request
    <3> QED BY <3>2, <3>3, <3>4, <1>2, CreateActionRow, SettingsAssumption
  <2>2. CASE x = a
    BY <2>0, <2>1, <2>2 DEF Dispatched
  <2>3. CASE y = a
    BY <2>0, <2>1, <2>3 DEF Dispatched
  <2>4. CASE x # a /\ y # a
    <3>1. actions'[x] = actions[x] /\ actions'[y] = actions[y]
      BY <2>0, <2>4, <1>2, CreateActionRow
    <3> QED BY <3>1 DEF SInv, CooldownRespected, Dispatched
  <2> QED BY <2>2, <2>3, <2>4
<1> QED BY <1>1, <1>2

(* The hourly limit is preserved: any window that holds the new dispatch *)
(* starts after now - Hour, so it was counted by the check.              *)
LEMMA RateLimitKept ==
  ASSUME IInv, SInv, [Next]_vars
  PROVE  RateLimitRespected'
<1>1. CASE \A w \in Workers, a \in ActionIds : ~CreateAction(w, a)
  BY <1>1, WhoRecords DEF SInv, RateLimitRespected, Window, Dispatched
<1>2. ASSUME NEW w \in Workers, NEW a \in ActionIds, CreateAction(w, a)
      PROVE  RateLimitRespected'
  <2> SUFFICES ASSUME NEW n \in Nodes, NEW from \in Times
               PROVE  Cardinality(Window(n, from)') <= MaxPerHour
    BY DEF RateLimitRespected
  <2> DEFINE W == Window(n, from)
  <2>1. Cardinality(W) <= MaxPerHour
    BY DEF SInv, RateLimitRespected
  <2>2. CASE a \notin W'
    <3>1. W' = W
      <4>1. W' \subseteq W
        BY <2>2, <1>2, CreateActionRow DEF Window, Dispatched
      <4>2. a \notin W
        BY <1>2, CreateActionRow, NoRowFacts DEF Window, Dispatched
      <4>3. W \subseteq W'
        BY <4>2, <1>2, CreateActionRow DEF Window, Dispatched
      <4> QED BY <4>1, <4>3
    <3> QED BY <2>1, <3>1
  <2>3. CASE a \in W'
    <3> DEFINE R == RecentActions(req[w].node, req[w].at)
    <3>1. /\ actions'[a].status = "dispatched" /\ n = req[w].node
          /\ req[w].at <= from + Hour
      BY <2>3, <1>2, CreateActionRow DEF Window, Dispatched
    <3>2. ~(Cardinality(R) >= MaxPerHour)
      BY <3>1, <1>2, NewDispatch DEF AtRateLimit
    <3>3. IsFiniteSet(R) /\ Cardinality(R) \in Nat
      BY ModeAssumption, FS_Subset, FS_CardinalityType DEF RecentActions
    <3>4. a \notin R /\ IsFiniteSet(R \cup {a}) /\ Cardinality(R \cup {a}) = Cardinality(R) + 1
      BY <3>3, <1>2, CreateActionRow, FS_AddElement DEF RecentActions
    <3>5. W' \subseteq R \cup {a}
      <4> SUFFICES ASSUME NEW b \in W', b # a PROVE b \in R
        OBVIOUS
      <4>1. b \in ActionIds /\ actions'[b] = actions[b]
        BY <1>2, CreateActionRow DEF Window, Dispatched
      <4>2. /\ actions[b].status = "dispatched" /\ actions[b].node = n
            /\ actions[b].created >= from
        BY <4>1 DEF Window, Dispatched
      <4>3. actions[b] # NoRow /\ actions[b].created \in Int
        <5>1. actions[b] # NoRow
          BY <4>2, NoRowFacts
        <5>2. actions[b] \in ActionRow
          BY <5>1, <4>1 DEF IInv, TypeOK
        <5> QED BY <5>1, <5>2, SettingsAssumption DEF ActionRow
      <4>4. req[w].at \in Int
        <5>1. req[w] \in Request
          BY <1>2, Holding DEF CreateAction
        <5> QED BY <5>1, SettingsAssumption DEF Request
      <4>5. actions[b].created >= req[w].at - Hour
        BY <3>1, <4>2, <4>3, <4>4, SettingsAssumption
      <4> QED BY <4>1, <4>2, <4>3, <4>5, <3>1 DEF RecentActions
    <3>6. Cardinality(W') <= Cardinality(R \cup {a}) /\ Cardinality(W') \in Nat
      BY <3>4, <3>5, FS_Subset, FS_CardinalityType
    <3> QED BY <3>2, <3>3, <3>4, <3>6, SettingsAssumption
  <2> QED BY <2>2, <2>3
<1> QED BY <1>1, <1>2

-----------------------------------------------------------------------------
(* Initially nothing is in flight and the tables are empty. *)
LEMMA InitSInv == Init => SInv
<1> SUFFICES ASSUME Init PROVE SInv
  OBVIOUS
<1>1. \A n \in Nodes, from \in Times : Window(n, from) = {}
  BY NoRowFacts DEF Init, Window, Dispatched
<1>2. RateLimitRespected
  BY <1>1, FS_EmptySet, SettingsAssumption DEF RateLimitRespected
<1> QED BY <1>2, NoRowFacts DEF Init, SInv, OneRequestPerNode, OneOpenAlert,
        CooldownRespected, Dispatched

(* Both invariants hold throughout when requests of a node do not overlap. *)
LEMMA SerialInvariant == ASSUME Serial PROVE Spec => [](IInv /\ SInv)
<1>1. IInv /\ SInv /\ [Next]_vars => (IInv /\ SInv)'
  <2> SUFFICES ASSUME IInv, SInv, [Next]_vars PROVE IInv' /\ SInv'
    OBVIOUS
  <2>1. IInv'
    BY NextIInv
  <2>2. \A v \in Workers : req'[v] # Idle => Reserved(req[v])'
    BY ReservedKept
  <2> QED BY <2>1, <2>2, OneRequestKept, OneOpenKept, CooldownKept, RateLimitKept
          DEF SInv
<1> QED BY <1>1, InitIInv, InitSInv, PTL DEF Spec

(* When a node's requests do not overlap there is never a second firing     *)
(* alert for the same node and rule.                                        *)
THEOREM SerialOneOpenAlert == ASSUME Serial PROVE Spec => []OneOpenAlert
<1>1. IInv /\ SInv => OneOpenAlert
  BY DEF SInv
<1> QED BY <1>1, SerialInvariant, PTL

(* ... two dispatched runs of a playbook on a node are a cooldown apart,    *)
(* whatever the order in which old payloads are redelivered.                *)
THEOREM SerialCooldown == ASSUME Serial PROVE Spec => []CooldownRespected
<1>1. IInv /\ SInv => CooldownRespected
  BY DEF SInv
<1> QED BY <1>1, SerialInvariant, PTL

(* ... and no rolling hour holds more than MaxPerHour dispatched actions of *)
(* a node.                                                                  *)
THEOREM SerialRateLimit == ASSUME Serial PROVE Spec => []RateLimitRespected
<1>1. IInv /\ SInv => RateLimitRespected
  BY DEF SInv
<1> QED BY <1>1, SerialInvariant, PTL

-----------------------------------------------------------------------------
(* Actions that an Agent has been sent, or is about to be. *)
Travels(a) ==
  \/ a \in sent
  \/ \E w \in Workers : req[w] # Idle /\ a \in req[w].dispatched

(* While a request decides on an alert, the alert is not marked remediated; *)
(* the alert of every action that travels is.                               *)
DInv ==
  /\ \A w \in Workers : req[w] # Idle =>
       (req[w].pc \in Deciding => ~alerts[req[w].alert].rem)
  /\ \A a, b \in ActionIds :
       Travels(a) /\ Travels(b) /\ actions[a].alert = actions[b].alert => a = b

(* What travels is settled. *)
LEMMA TravelsSettled ==
  ASSUME IInv, NEW a, Travels(a)
  PROVE  a \in ActionIds /\ Settled(a)
<1>1. CASE a \in sent
  BY <1>1 DEF IInv, TypeOK
<1>2. ASSUME NEW w \in Workers, req[w] # Idle, a \in req[w].dispatched
      PROVE  a \in ActionIds /\ Settled(a)
  BY <1>2 DEF IInv, InFlight, Request
<1> QED BY <1>1, <1>2 DEF Travels

(* Only mark_remediated marks an alert remediated. *)
LEMMA WhoRemediates ==
  ASSUME IInv, [Next]_vars, \A w \in Workers : ~MarkRemediated(w),
         NEW i \in AlertIds, alerts[i] \in AlertRow, ~alerts[i].rem
  PROVE  ~alerts'[i].rem
<1>1. CASE alerts' = alerts
  BY <1>1
<1>2. ASSUME NEW w \in Workers, NEW j \in AlertIds, CreateAlert(w, j) PROVE ~alerts'[i].rem
  BY <1>2, NoRowFacts DEF CreateAlert, IInv, TypeOK
<1>3. ASSUME NEW w \in Workers, EscalateAlert(w) \/ ResolveAlert(w) PROVE ~alerts'[i].rem
  BY <1>3 DEF EscalateAlert, ResolveAlert, IInv, TypeOK, AlertRow
<1>4. ASSUME NEW j \in AlertIds, AcknowledgeWrite(j) PROVE ~alerts'[i].rem
  BY <1>4 DEF AcknowledgeWrite, IInv, TypeOK, AlertRow
<1> QED BY <1>1, <1>2, <1>3, <1>4 DEF Next, Step, vars, Ingest, FindOpenAlert,
        UpdateLastFired, CheckCooldown, CheckRateLimit, CreateAction, SendAck, Fail,
        AcknowledgeRead, AcknowledgeFail

(* A row of the audit log keeps its contents. *)
LEMMA ActionsKept ==
  ASSUME IInv, [Next]_vars, NEW a \in ActionIds, actions[a] \in ActionRow
  PROVE  actions'[a] = actions[a]
<1>1. CASE \A w \in Workers, b \in ActionIds : ~CreateAction(w, b)
  BY <1>1, WhoRecords
<1>2. ASSUME NEW w \in Workers, NEW b \in ActionIds, CreateAction(w, b)
      PROVE  actions'[a] = actions[a]
  BY <1>2, CreateActionRow, NoRowFacts
<1> QED BY <1>1, <1>2

(* Only mark_remediated adds to what a worker has collected for its Ack. *)
LEMMA StepCollects ==
  ASSUME IInv, NEW w \in Workers, Step(w), ~MarkRemediated(w), req'[w] # Idle
  PROVE  req'[w].dispatched = req[w].dispatched
<1>0. req[w] \in Request
  BY StepMovesOneWorker
<1>1. ASSUME NEW s, NEW r, NEW i, Goto(w, s) \/ Done(w) \/ Take(w, r, s, i)
      PROVE  req'[w].dispatched = req[w].dispatched
  BY <1>0, <1>1 DEF Goto, Done, Take, IInv, TypeOK, Request
<1>2. ASSUME NEW r \in Rules, FindOpenAlert(w, r)
      PROVE  req'[w].dispatched = req[w].dispatched
  BY <1>1, <1>2 DEF FindOpenAlert
<1>3. ASSUME NEW i \in AlertIds, CreateAlert(w, i)
      PROVE  req'[w].dispatched = req[w].dispatched
  BY <1>1, <1>3 DEF CreateAlert
<1>4. CASE UpdateLastFired(w) \/ EscalateAlert(w) \/ ResolveAlert(w)
  BY <1>1, <1>4 DEF UpdateLastFired, EscalateAlert, ResolveAlert, Continue
<1>5. CASE CheckCooldown(w) \/ CheckRateLimit(w)
  BY <1>0, <1>5 DEF CheckCooldown, CheckRateLimit, Goto, IInv, TypeOK, Request
<1>6. ASSUME NEW a \in ActionIds, CreateAction(w, a)
      PROVE  req'[w].dispatched = req[w].dispatched
  BY <1>0, <1>6 DEF CreateAction, IInv, TypeOK, Request
<1>7. CASE SendAck(w)
  BY <1>7 DEF SendAck, IInv, TypeOK
<1> QED BY <1>2, <1>3, <1>4, <1>5, <1>6, <1>7 DEF Step

(* Nothing but mark_remediated puts an action on its way. *)
LEMMA WhoTravels ==
  ASSUME IInv, [Next]_vars, NEW a, Travels(a)'
  PROVE  \/ Travels(a)
         \/ \E w \in Workers : MarkRemediated(w) /\ a = req[w].action
<1>1. CASE a \in sent' /\ a \notin sent
  <2>1. PICK w \in Workers : SendAck(w)
    BY <1>1 DEF Next, Step, vars, Ingest, FindOpenAlert, CreateAlert, UpdateLastFired,
       EscalateAlert, ResolveAlert, CheckCooldown, CheckRateLimit, CreateAction,
       MarkRemediated, Fail, AcknowledgeRead, AcknowledgeWrite, AcknowledgeFail
  <2>2. a \in req[w].dispatched /\ req[w] # Idle
    BY <1>1, <2>1, NoRowFacts DEF SendAck, At
  <2> QED BY <2>2 DEF Travels
<1>2. CASE a \in sent
  BY <1>2 DEF Travels
<1>3. ASSUME NEW w \in Workers, req'[w] # Idle, a \in req'[w].dispatched
      PROVE  Travels(a) \/ (MarkRemediated(w) /\ a = req[w].action)
  <2>1. CASE req'[w] = req[w]
    BY <2>1, <1>3 DEF Travels
  <2>2. CASE Step(w) /\ ~MarkRemediated(w)
    <3>1. req[w] # Idle
      BY <2>2, StepMovesOneWorker, NoRowFacts
    <3> QED BY <2>2, <3>1, <1>3, StepCollects DEF Travels
  <2>3. CASE MarkRemediated(w)
    <3>1. req[w] \in Request
      BY <2>3, StepMovesOneWorker DEF Step
    <3>2. a \in req[w].dispatched \/ a = req[w].action
      BY <3>1, <2>3, <1>3 DEF MarkRemediated, IInv, TypeOK, Request
    <3> QED BY <2>3, <3>1, <3>2, NoRowFacts DEF Travels
  <2>4. CASE Fail(w)
    BY <2>4, <1>3 DEF Fail, IInv, TypeOK
  <2>5. ASSUME NEW v \in Workers, NEW n \in Nodes, NEW t \in Times,
               NEW breaching \in SUBSET Rules, NEW clear \in SUBSET (Rules \ breaching),
               Ingest(v, n, t, breaching, clear)
        PROVE  req'[w] = req[w] \/ req'[w].dispatched = {}
    BY <2>5 DEF Ingest, IInv, TypeOK
  <2>6. ASSUME NEW v \in Workers, Step(v) \/ Fail(v), v # w PROVE req'[w] = req[w]
    BY <2>6, StepMovesOneWorker
  <2> QED BY <1>3, <2>1, <2>2, <2>3, <2>4, <2>5, <2>6 DEF Next, vars,
          AcknowledgeRead, AcknowledgeWrite, AcknowledgeFail
<1> QED BY <1>1, <1>2, <1>3 DEF Travels

(* Two actions of one alert never travel both: the one that is put on its   *)
(* way is of an alert that was not marked yet.                              *)
LEMMA OneTravelsKept ==
  ASSUME IInv, DInv, [Next]_vars, NEW a \in ActionIds, NEW b \in ActionIds,
         Travels(a)', Travels(b)', actions'[a].alert = actions'[b].alert
  PROVE  a = b
<1>1. ASSUME NEW w \in Workers, MarkRemediated(w), NEW c, Travels(c)
      PROVE  /\ actions' = actions
             /\ actions[req[w].action].alert # actions[c].alert
  <2>1. InFlight(req[w]) /\ req[w] # Idle /\ req[w].pc = "mark"
    BY <1>1, Holding, NoRowFacts DEF MarkRemediated, At
  <2>2. actions[req[w].action].alert = req[w].alert /\ ~alerts[req[w].alert].rem
    BY <2>1 DEF InFlight, HoldsAction, DInv, Deciding
  <2>3. alerts[actions[c].alert].rem
    BY <1>1, TravelsSettled DEF Settled
  <2> QED BY <1>1, <2>2, <2>3 DEF MarkRemediated
<1>2. CASE Travels(a) /\ Travels(b)
  <2>1. actions'[a] = actions[a] /\ actions'[b] = actions[b]
    BY <1>2, TravelsSettled, ActionsKept DEF Settled
  <2> QED BY <1>2, <2>1 DEF DInv
<1>3. ASSUME NEW w \in Workers, MarkRemediated(w), a = req[w].action, ~Travels(a)
      PROVE  a = b
  <2>1. CASE Travels(b)
    BY <1>1, <1>3, <2>1
  <2>2. ASSUME NEW v \in Workers, MarkRemediated(v), b = req[v].action PROVE a = b
    <3>1. v = w
      <4>1. req[w].pc = "mark" /\ req[w] \in Request /\ req'[w].pc = "next"
        BY <1>3, Holding DEF MarkRemediated, At, IInv, TypeOK, Request
      <4>2. v # w => req'[w] = req[w]
        BY <2>2, StepMovesOneWorker DEF Step
      <4> QED BY <4>1, <4>2
    <3> QED BY <3>1, <1>3, <2>2
  <2> QED BY <2>1, <2>2, WhoTravels
<1>4. ASSUME NEW w \in Workers, MarkRemediated(w), b = req[w].action, Travels(a)
      PROVE  a = b
  BY <1>1, <1>4
<1> QED BY <1>2, <1>3, <1>4, WhoTravels

(* A request that decides on an alert keeps it unmarked: no other request   *)
(* of its node is there to mark it.                                         *)
LEMMA UnmarkedKept ==
  ASSUME IInv, SInv, DInv, [Next]_vars, NEW v \in Workers, req'[v] # Idle,
         req'[v].pc \in Deciding
  PROVE  ~alerts'[req'[v].alert].rem
<1>1. CASE Step(v)
  <2>0. req[v] \in Request
    BY <1>1, StepMovesOneWorker
  <2>1. CASE UpdateLastFired(v) \/ EscalateAlert(v)
    <3>1. PICK s \in {"next", "escalate", "cooldown"} :
            /\ Continue(v, s)
            /\ s = "cooldown" => ~alerts'[req[v].alert].rem
      BY <2>1 DEF UpdateLastFired, EscalateAlert, AfterAdvance, AfterEscalation,
         ShouldRemediate
    <3>2. s = "cooldown" /\ req'[v].alert = req[v].alert
      BY <3>1, <2>0, DoneFacts, GotoFacts DEF Continue, Deciding
    <3> QED BY <3>1, <3>2
  <2>2. CASE CheckCooldown(v) \/ CheckRateLimit(v)
    <3>1. req'[v].alert = req[v].alert /\ req[v].pc \in Deciding /\ alerts' = alerts
      BY <2>0, <2>2 DEF CheckCooldown, CheckRateLimit, Goto, At, Deciding, IInv, TypeOK,
         Request
    <3> QED BY <3>1, <2>0, NoRowFacts DEF DInv
  <2>3. ASSUME NEW a \in ActionIds, CreateAction(v, a)
        PROVE  ~alerts'[req'[v].alert].rem
    <3>1. req'[v].alert = req[v].alert /\ req[v].pc \in Deciding /\ alerts' = alerts
      BY <2>0, <2>3 DEF CreateAction, At, Deciding, IInv, TypeOK, Request
    <3> QED BY <3>1, <2>0, NoRowFacts DEF DInv
  <2>4. ASSUME NEW r \in Rules, FindOpenAlert(v, r) PROVE FALSE
    <3>1. PICK s \in {"create", "advance", "next", "resolve"},
               i \in AlertIds \cup {None} : Take(v, r, s, i)
      BY <2>4 DEF FindOpenAlert, Open
    <3> QED BY <3>1, <2>0 DEF Take, IInv, TypeOK, Request, Deciding
  <2>5. ASSUME NEW i \in AlertIds, CreateAlert(v, i) PROVE FALSE
    BY <2>0, <2>5, DoneFacts DEF CreateAlert, Deciding
  <2>6. CASE ResolveAlert(v)
    BY <2>0, <2>6, DoneFacts DEF ResolveAlert, Deciding
  <2>7. CASE MarkRemediated(v)
    BY <2>0, <2>7 DEF MarkRemediated, IInv, TypeOK, Request, Deciding
  <2>8. CASE SendAck(v)
    BY <2>8 DEF SendAck, IInv, TypeOK
  <2> QED BY <1>1, <2>1, <2>2, <2>3, <2>4, <2>5, <2>6, <2>7, <2>8 DEF Step
<1>2. CASE ~Step(v) /\ req'[v] = req[v]
  <2>1. /\ req[v] # Idle /\ HoldsAlert(req[v])
        /\ ~alerts[req[v].alert].rem
    BY <1>2 DEF IInv, InFlight, OnAlert, Deciding, DInv
  <2>2. CASE \A w \in Workers : ~MarkRemediated(w)
    BY <1>2, <2>1, <2>2, WhoRemediates DEF HoldsAlert
  <2>3. ASSUME NEW w \in Workers, MarkRemediated(w)
        PROVE  alerts'[req[v].alert] = alerts[req[v].alert]
    <3>1. w # v /\ req[w] # Idle /\ HoldsAlert(req[w])
      BY <1>2, <2>3, Holding, NoRowFacts DEF Step, MarkRemediated, At, InFlight, OnAlert
    <3>2. req[w].node # req[v].node
      BY <2>1, <3>1 DEF SInv, OneRequestPerNode
    <3> QED BY <2>1, <2>3, <3>1, <3>2 DEF HoldsAlert, MarkRemediated, IInv, TypeOK
  <2> QED BY <1>2, <2>1, <2>2, <2>3
<1>3. ASSUME NEW w \in Workers, NEW n \in Nodes, NEW t \in Times,
             NEW breaching \in SUBSET Rules, NEW clear \in SUBSET (Rules \ breaching),
             Ingest(w, n, t, breaching, clear)
      PROVE  req'[v] = req[v] \/ req'[v].pc = "next"
  BY <1>3 DEF Ingest, IInv, TypeOK
<1>4. ASSUME NEW w \in Workers, Step(w) \/ Fail(w), w # v PROVE req'[v] = req[v]
  BY <1>4, StepMovesOneWorker
<1>5. CASE Fail(v)
  BY <1>5 DEF Fail, IInv, TypeOK
<1> QED BY <1>1, <1>2, <1>3, <1>4, <1>5 DEF Next, vars, Deciding, AcknowledgeRead,
        AcknowledgeWrite, AcknowledgeFail

(* DInv holds throughout when requests of a node do not overlap. *)
LEMMA SerialDecisions == ASSUME Serial PROVE Spec => []DInv
<1>1. Init => DInv
  BY NoRowFacts DEF Init, DInv, Travels
<1>2. IInv /\ SInv /\ DInv /\ [Next]_vars => DInv'
  <2> SUFFICES ASSUME IInv, SInv, DInv, [Next]_vars PROVE DInv'
    OBVIOUS
  <2>1. \A v \in Workers : req'[v] # Idle =>
          (req'[v].pc \in Deciding => ~alerts'[req'[v].alert].rem)
    BY UnmarkedKept
  <2>2. \A a, b \in ActionIds :
          Travels(a)' /\ Travels(b)' /\ actions'[a].alert = actions'[b].alert => a = b
    BY OneTravelsKept
  <2> QED BY <2>1, <2>2 DEF DInv
<1> QED BY <1>1, <1>2, SerialInvariant, PTL DEF Spec

(* ... and of the actions recorded for one alert at most one reaches an     *)
(* Agent, although a failing mark_remediated may have several recorded.     *)
THEOREM SerialOneSent == ASSUME Serial PROVE Spec => []OneSentPerAlert
<1>1. IInv /\ DInv => OneSentPerAlert
  BY DEF DInv, Travels, OneSentPerAlert, IInv, TypeOK
<1> QED BY <1>1, SerialInvariant, SerialDecisions, PTL

-----------------------------------------------------------------------------
(* Rows and workers step by step *)

(* How a step changes an alert row that exists. *)
LEMMA RowSteps ==
  ASSUME IInv, [Next]_vars, NEW i \in AlertIds, alerts[i] \in AlertRow
  PROVE  \/ alerts'[i] = alerts[i]
         \/ \E w \in Workers : /\ EscalateAlert(w) /\ req[w].alert = i
                               /\ alerts'[i] = [alerts[i] EXCEPT !.esc = TRUE]
         \/ \E w \in Workers : /\ ResolveAlert(w) /\ req[w].alert = i
                               /\ alerts'[i] = [alerts[i] EXCEPT !.status = "resolved"]
         \/ \E w \in Workers : /\ MarkRemediated(w) /\ req[w].alert = i
                               /\ alerts'[i] = [alerts[i] EXCEPT !.rem = TRUE]
         \/ AcknowledgeWrite(i) /\ alerts'[i] = [alerts[i] EXCEPT !.ack = TRUE]
<1>1. CASE alerts' = alerts
  BY <1>1
<1>2. ASSUME NEW w \in Workers, NEW j \in AlertIds, CreateAlert(w, j)
      PROVE  alerts'[i] = alerts[i]
  <2>1. i # j
    BY <1>2, NoRowFacts DEF CreateAlert
  <2> QED BY <1>2, <2>1, CreateAlertRow
<1>3. ASSUME NEW w \in Workers, EscalateAlert(w)
      PROVE  \/ alerts'[i] = alerts[i]
             \/ req[w].alert = i /\ alerts'[i] = [alerts[i] EXCEPT !.esc = TRUE]
  BY <1>3 DEF EscalateAlert, IInv, TypeOK
<1>4. ASSUME NEW w \in Workers, ResolveAlert(w)
      PROVE  \/ alerts'[i] = alerts[i]
             \/ req[w].alert = i /\ alerts'[i] = [alerts[i] EXCEPT !.status = "resolved"]
  BY <1>4 DEF ResolveAlert, IInv, TypeOK
<1>5. ASSUME NEW w \in Workers, MarkRemediated(w)
      PROVE  \/ alerts'[i] = alerts[i]
             \/ req[w].alert = i /\ alerts'[i] = [alerts[i] EXCEPT !.rem = TRUE]
  BY <1>5 DEF MarkRemediated, IInv, TypeOK
<1>6. ASSUME NEW j \in AlertIds, AcknowledgeWrite(j)
      PROVE  \/ alerts'[i] = alerts[i]
             \/ i = j /\ alerts'[i] = [alerts[i] EXCEPT !.ack = TRUE]
  BY <1>6 DEF AcknowledgeWrite, IInv, TypeOK
<1>7. \/ alerts' = alerts
      \/ \E w \in Workers, j \in AlertIds : CreateAlert(w, j)
      \/ \E w \in Workers : EscalateAlert(w) \/ ResolveAlert(w) \/ MarkRemediated(w)
      \/ \E j \in AlertIds : AcknowledgeWrite(j)
  BY DEF Next, Step, vars, Ingest, Fail, FindOpenAlert, UpdateLastFired, CheckCooldown,
     CheckRateLimit, CreateAction, SendAck, AcknowledgeRead, AcknowledgeFail
<1> QED BY <1>1, <1>2, <1>3, <1>4, <1>5, <1>6, <1>7

(* What a worker holds after a step of its own. *)
LEMMA StepHolds ==
  ASSUME IInv, NEW w \in Workers, Step(w), req'[w] # Idle
  PROVE  \/ req'[w].pc = "next"
         \/ req'[w].pc = "create" /\ req'[w].alert = None
         \/ /\ req'[w].pc \in {"advance", "resolve"} /\ alerts' = alerts
            /\ req'[w].alert \in AlertIds
            /\ alerts[req'[w].alert].status = "firing"
         \/ /\ req'[w].pc \in {"escalate", "cooldown", "rate", "decide", "mark"}
            /\ req[w].pc \in {"advance", "escalate", "cooldown", "rate", "decide"}
            /\ req'[w].alert = req[w].alert
            /\ req[w].pc = "advance" => ~alerts[req[w].alert].ack
            /\ req'[w].pc = "escalate" =>
                 /\ req[w].pc = "advance" /\ alerts' = alerts
                 /\ ~alerts[req[w].alert].esc
<1>0. req[w] \in Request
  BY StepMovesOneWorker
<1>1. ASSUME NEW r \in Rules, FindOpenAlert(w, r)
      PROVE  \/ req'[w].pc = "next"
             \/ req'[w].pc = "create" /\ req'[w].alert = None
             \/ /\ req'[w].pc \in {"advance", "resolve"} /\ alerts' = alerts
                /\ req'[w].alert \in AlertIds
                /\ alerts[req'[w].alert].status = "firing"
  <2>1. PICK s \in {"create", "next", "advance", "resolve"}, i \in AlertIds \cup {None} :
          /\ Take(w, r, s, i) /\ alerts' = alerts
          /\ s = "create" => i = None
          /\ s \in {"advance", "resolve"} => i \in Open(req[w].node, r)
    BY <1>1 DEF FindOpenAlert, Open
  <2>2. req'[w].pc = s /\ req'[w].alert = i
    BY <1>0, <2>1 DEF Take, Request, IInv, TypeOK
  <2> QED BY <2>1, <2>2 DEF Open
<1>2. ASSUME NEW i \in AlertIds, CreateAlert(w, i) PROVE req'[w].pc = "next"
  BY <1>0, <1>2, DoneFacts DEF CreateAlert
<1>3. CASE UpdateLastFired(w)
  <2> DEFINE row == alerts[req[w].alert]
  <2>1. PICK s \in {"next", "escalate", "cooldown"} :
          /\ Continue(w, s) /\ alerts' = alerts /\ req[w].pc = "advance"
          /\ s # "next" => ~row.ack
          /\ s = "escalate" => ~row.esc
    BY <1>3 DEF UpdateLastFired, AfterAdvance, AfterEscalation, ShouldEscalate,
       ShouldRemediate, At
  <2>2. CASE s = "next"
    BY <1>0, <2>1, <2>2, DoneFacts DEF Continue
  <2>3. CASE s # "next"
    BY <1>0, <2>1, <2>3, GotoFacts DEF Continue
  <2> QED BY <2>2, <2>3
<1>4. CASE EscalateAlert(w)
  <2>1. PICK s \in {"next", "cooldown"} : Continue(w, s) /\ req[w].pc = "escalate"
    BY <1>4 DEF EscalateAlert, AfterEscalation, At
  <2> QED BY <1>0, <2>1, DoneFacts, GotoFacts DEF Continue
<1>5. CASE ResolveAlert(w) \/ MarkRemediated(w)
  BY <1>0, <1>5 DEF ResolveAlert, MarkRemediated, Done, Request, IInv, TypeOK
<1>6. CASE CheckCooldown(w) \/ CheckRateLimit(w)
  BY <1>0, <1>6 DEF CheckCooldown, CheckRateLimit, Goto, At, Request, IInv, TypeOK
<1>7. ASSUME NEW a \in ActionIds, CreateAction(w, a)
      PROVE  /\ req'[w].pc = "mark" /\ req[w].pc = "decide" /\ req'[w].alert = req[w].alert
  BY <1>0, <1>7 DEF CreateAction, At, Request, IInv, TypeOK
<1>8. CASE SendAck(w)
  BY <1>8 DEF SendAck, IInv, TypeOK
<1> QED BY <1>1, <1>2, <1>3, <1>4, <1>5, <1>6, <1>7, <1>8 DEF Step

(* Every worker moves, stands still, or begins or ends its request. *)
LEMMA WorkerMoves ==
  ASSUME IInv, [Next]_vars, NEW v \in Workers
  PROVE  \/ Step(v)
         \/ ~Step(v) /\ req'[v] = req[v]
         \/ req'[v] = Idle
         \/ req'[v].pc = "next"
<1>1. ASSUME NEW w \in Workers, NEW n \in Nodes, NEW t \in Times,
             NEW breaching \in SUBSET Rules, NEW clear \in SUBSET (Rules \ breaching),
             Ingest(w, n, t, breaching, clear)
      PROVE  req'[v] = req[v] \/ req'[v].pc = "next"
  BY <1>1 DEF Ingest, IInv, TypeOK
<1>2. ASSUME NEW w \in Workers, Step(w) \/ Fail(w), w # v PROVE req'[v] = req[v]
  BY <1>2, StepMovesOneWorker
<1>3. CASE Fail(v)
  BY <1>3 DEF Fail, IInv, TypeOK
<1> QED BY <1>1, <1>2, <1>3 DEF Next, vars, AcknowledgeRead, AcknowledgeWrite, AcknowledgeFail

-----------------------------------------------------------------------------
(* An acknowledged alert that no request has yet decided on stays so: it is *)
(* neither escalated nor remediated, however requests overlap               *)
(* (AlertEvaluationService.acknowledge, _should_escalate, _should_remediate).*)
THEOREM AcknowledgementHolds == Spec => AcknowledgedIsLeftAlone
<1> DEFINE Alone(i) == /\ Claimed(i)'
                       /\ alerts'[i].esc = alerts[i].esc /\ alerts'[i].rem = alerts[i].rem
                       /\ ActionsOf(i)' = ActionsOf(i)
<1>1. IInv /\ [Next]_vars => [\A i \in AlertIds : Claimed(i) => Alone(i)]_vars
  <2> SUFFICES ASSUME IInv, [Next]_vars, NEW i \in AlertIds, Claimed(i) PROVE Alone(i)
    OBVIOUS
  <2>0. /\ alerts[i] \in AlertRow /\ alerts[i].ack
        /\ \A w \in Workers : req[w].pc # "idle" /\ req[w].alert = i =>
             req[w].pc \in {"next", "advance", "resolve"}
    BY DEF Claimed, At, IInv, TypeOK
  <2>1. /\ alerts'[i] \in AlertRow /\ alerts'[i].ack
        /\ alerts'[i].esc = alerts[i].esc /\ alerts'[i].rem = alerts[i].rem
    <3>1. \A w \in Workers : EscalateAlert(w) \/ MarkRemediated(w) => req[w].alert # i
      BY <2>0 DEF EscalateAlert, MarkRemediated, At
    <3>2. \/ alerts'[i] = alerts[i]
          \/ alerts'[i] = [alerts[i] EXCEPT !.status = "resolved"]
          \/ alerts'[i] = [alerts[i] EXCEPT !.ack = TRUE]
      BY <2>0, <3>1, RowSteps
    <3>3. CASE alerts'[i] = alerts[i]
      BY <2>0, <3>3
    <3>4. CASE alerts'[i] = [alerts[i] EXCEPT !.status = "resolved"]
      BY <2>0, <3>4 DEF AlertRow
    <3>5. CASE alerts'[i] = [alerts[i] EXCEPT !.ack = TRUE]
      BY <2>0, <3>5 DEF AlertRow
    <3> QED BY <3>2, <3>3, <3>4, <3>5
  <2>2. ASSUME NEW w \in Workers, req'[w].pc # "idle", req'[w].alert = i
        PROVE  req'[w].pc \in {"next", "advance", "resolve"}
    <3>1. CASE Step(w)
      <4>1. req'[w] # Idle /\ req[w].pc # "idle"
        BY <2>2, <3>1, NoRowFacts, StepMovesOneWorker
      <4>2. i # None
        BY PolicyAssumption
      <4> QED BY <2>0, <2>2, <3>1, <4>1, <4>2, StepHolds
    <3>2. CASE req'[w] = req[w]
      BY <2>0, <2>2, <3>2
    <3> QED BY <2>2, <3>1, <3>2, WorkerMoves, NoRowFacts
  <2>3. ActionsOf(i)' = ActionsOf(i)
    <3>1. CASE \A w \in Workers, a \in ActionIds : ~CreateAction(w, a)
      BY <3>1, WhoRecords DEF ActionsOf
    <3>2. ASSUME NEW w \in Workers, NEW a \in ActionIds, CreateAction(w, a)
          PROVE  ActionsOf(i)' = ActionsOf(i)
      <4>1. req[w].alert # i
        BY <2>0, <3>2 DEF CreateAction, At
      <4>2. actions'[a].alert = req[w].alert /\ actions[a] = NoRow
        BY <3>2 DEF CreateAction, IInv, TypeOK
      <4>3. \A b \in ActionIds \ {a} : actions'[b] = actions[b]
        BY <3>2, CreateActionRow
      <4> QED BY <4>1, <4>2, <4>3 DEF ActionsOf
    <3> QED BY <3>1, <3>2
  <2>4. Claimed(i)'
    BY <2>1, <2>2, NoRowFacts DEF Claimed, At
  <2> QED BY <2>1, <2>3, <2>4
<1> QED BY <1>1, InvariantHolds, PTL DEF Spec, AcknowledgedIsLeftAlone

-----------------------------------------------------------------------------
(* What a serial request knows of the row it works on *)

(* The row a request works on is firing; it escalates a row that was not    *)
(* escalated; a row is remediated only after it was escalated.              *)
LInv ==
  /\ \A w \in Workers : req[w] # Idle =>
       /\ req[w].pc \in OnAlert => alerts[req[w].alert].status = "firing"
       /\ req[w].pc = "escalate" => ~alerts[req[w].alert].esc
  /\ \A i \in AlertIds : alerts[i] \in AlertRow /\ alerts[i].rem => alerts[i].esc

(* Nobody else changes the row a request works on, except to acknowledge it. *)
LEMMA HeldRow ==
  ASSUME IInv, SInv, [Next]_vars, NEW v \in Workers, req[v] # Idle, req[v].pc \in OnAlert
  PROVE  LET i == req[v].alert IN
           /\ i \in AlertIds /\ alerts[i] \in AlertRow
           /\ ~ResolveAlert(v) => alerts'[i].status = alerts[i].status
           /\ ~EscalateAlert(v) => alerts'[i].esc = alerts[i].esc
<1> DEFINE i == req[v].alert
<1>1. /\ HoldsAlert(req[v]) /\ i \in AlertIds /\ alerts[i] \in AlertRow
  BY DEF IInv, InFlight, HoldsAlert
<1>2. ASSUME NEW w \in Workers, EscalateAlert(w) \/ ResolveAlert(w) \/ MarkRemediated(w),
             req[w].alert = i
      PROVE  w = v
  <2>1. req[w] # Idle /\ HoldsAlert(req[w])
    BY <1>2, Holding, NoRowFacts DEF EscalateAlert, ResolveAlert, MarkRemediated, At,
       InFlight, OnAlert
  <2>2. req[w].node = req[v].node
    BY <1>1, <1>2, <2>1 DEF HoldsAlert
  <2> QED BY <2>1, <2>2 DEF SInv, OneRequestPerNode
<1> HIDE DEF i
<1>3. CASE alerts'[i] = alerts[i]
  BY <1>1, <1>3 DEF i
<1>4. CASE EscalateAlert(v) /\ alerts'[i] = [alerts[i] EXCEPT !.esc = TRUE]
  <2>1. alerts'[i].status = alerts[i].status
    BY <1>1, <1>4 DEF AlertRow
  <2> QED BY <1>1, <1>4, <2>1 DEF i
<1>5. CASE ResolveAlert(v) /\ alerts'[i] = [alerts[i] EXCEPT !.status = "resolved"]
  <2>1. alerts'[i].esc = alerts[i].esc
    BY <1>1, <1>5 DEF AlertRow
  <2> QED BY <1>1, <1>5, <2>1 DEF i
<1>6. CASE \/ alerts'[i] = [alerts[i] EXCEPT !.rem = TRUE]
           \/ alerts'[i] = [alerts[i] EXCEPT !.ack = TRUE]
  <2>1. alerts'[i].esc = alerts[i].esc /\ alerts'[i].status = alerts[i].status
    BY <1>1, <1>6 DEF AlertRow
  <2> QED BY <1>1, <2>1 DEF i
<1> QED BY <1>1, <1>2, <1>3, <1>4, <1>5, <1>6, RowSteps

(* A row is marked remediated only after it was escalated. *)
LEMMA RemediatedKept ==
  ASSUME IInv, LInv, [Next]_vars, NEW i \in AlertIds, alerts'[i] \in AlertRow, alerts'[i].rem
  PROVE  alerts'[i].esc
<1>1. CASE alerts[i] \in AlertRow
  <2>0. alerts[i].rem => alerts[i].esc
    BY <1>1 DEF LInv
  <2>1. ASSUME NEW w \in Workers, MarkRemediated(w), req[w].alert = i PROVE alerts[i].esc
    BY <2>1, Holding DEF MarkRemediated, At, InFlight, Deciding, MayRemediate
  <2>2. CASE alerts'[i] = alerts[i]
    BY <2>0, <2>2
  <2>3. CASE alerts'[i] = [alerts[i] EXCEPT !.esc = TRUE]
    BY <1>1, <2>3 DEF AlertRow
  <2>4. CASE \/ alerts'[i] = [alerts[i] EXCEPT !.status = "resolved"]
             \/ alerts'[i] = [alerts[i] EXCEPT !.ack = TRUE]
    BY <1>1, <2>0, <2>4 DEF AlertRow
  <2>5. ASSUME alerts[i].esc, alerts'[i] = [alerts[i] EXCEPT !.rem = TRUE]
        PROVE  alerts'[i].esc
    BY <1>1, <2>5 DEF AlertRow
  <2> QED BY <1>1, <2>1, <2>2, <2>3, <2>4, <2>5, RowSteps
<1>2. CASE alerts[i] = NoRow
  <2>1. alerts'[i] # alerts[i]
    BY <1>2, NoRowFacts
  <2>2. ASSUME NEW w \in Workers, NEW j \in AlertIds, CreateAlert(w, j) PROVE FALSE
    <3>1. i = j
      BY <2>1, <2>2, CreateAlertRow
    <3> QED BY <2>2, <3>1 DEF CreateAlert, IInv, TypeOK
  <2>3. ASSUME NEW w \in Workers, EscalateAlert(w) \/ ResolveAlert(w) \/ MarkRemediated(w)
        PROVE  FALSE
    <3>1. alerts[req[w].alert] \in AlertRow
      BY <2>3, Holding DEF EscalateAlert, ResolveAlert, MarkRemediated, At, InFlight,
         OnAlert, HoldsAlert
    <3>2. req[w].alert # i
      BY <1>2, <3>1, NoRowFacts
    <3> QED BY <2>1, <2>3, <3>2 DEF EscalateAlert, ResolveAlert, MarkRemediated, IInv, TypeOK
  <2>4. ASSUME NEW j \in AlertIds, AcknowledgeWrite(j) PROVE FALSE
    <3>1. j # i
      BY <1>2, <2>4, NoRowFacts DEF AcknowledgeWrite, IInv
    <3> QED BY <2>1, <2>4, <3>1 DEF AcknowledgeWrite, IInv, TypeOK
  <2> QED
    BY <2>1, <2>2, <2>3, <2>4 DEF Next, Step, vars, Ingest, Fail, FindOpenAlert,
       UpdateLastFired, CheckCooldown, CheckRateLimit, CreateAction, SendAck,
       AcknowledgeRead, AcknowledgeFail
<1> QED BY <1>1, <1>2 DEF IInv, TypeOK

(* Every step keeps what a request knows of its row. *)
LEMMA LInvKept ==
  ASSUME IInv, SInv, LInv, [Next]_vars
  PROVE  LInv'
<1>1. ASSUME NEW v \in Workers, req'[v] # Idle
      PROVE  /\ req'[v].pc \in OnAlert => alerts'[req'[v].alert].status = "firing"
             /\ req'[v].pc = "escalate" => ~alerts'[req'[v].alert].esc
  <2>1. CASE Step(v)
    <3>0. req[v] # Idle
      BY <2>1, StepMovesOneWorker, NoRowFacts
    <3>1. CASE req'[v].pc \in {"next", "create"}
      BY <3>1 DEF OnAlert
    <3>2. CASE /\ req'[v].pc \in {"advance", "resolve"} /\ alerts' = alerts
               /\ alerts[req'[v].alert].status = "firing"
      BY <3>2
    <3>3. CASE /\ req'[v].pc \in {"escalate", "cooldown", "rate", "decide", "mark"}
               /\ req[v].pc \in {"advance", "escalate", "cooldown", "rate", "decide"}
               /\ req'[v].alert = req[v].alert
               /\ req'[v].pc = "escalate" =>
                    alerts' = alerts /\ ~alerts[req[v].alert].esc
      <4>1. req[v].pc \in OnAlert /\ ~ResolveAlert(v)
        BY <3>3 DEF OnAlert, ResolveAlert, At
      <4>2. alerts'[req[v].alert].status = "firing"
        BY <3>0, <4>1, HeldRow DEF LInv
      <4> QED BY <3>3, <4>2
    <3> QED BY <1>1, <2>1, <3>1, <3>2, <3>3, StepHolds
  <2>2. CASE ~Step(v) /\ req'[v] = req[v]
    <3>1. ~ResolveAlert(v) /\ ~EscalateAlert(v)
      BY <2>2 DEF Step
    <3>2. CASE req[v].pc \in OnAlert
      BY <1>1, <2>2, <3>1, <3>2, HeldRow DEF LInv
    <3>3. CASE req[v].pc \notin OnAlert
      BY <2>2, <3>3 DEF OnAlert
    <3> QED BY <3>2, <3>3
  <2>3. CASE req'[v].pc = "next"
    BY <2>3 DEF OnAlert
  <2> QED BY <1>1, <2>1, <2>2, <2>3, WorkerMoves
<1> QED BY <1>1, RemediatedKept DEF LInv

(* LInv holds throughout when requests of a node do not overlap. *)
LEMMA SerialRows == ASSUME Serial PROVE Spec => []LInv
<1>1. Init => LInv
  BY NoRowFacts DEF Init, LInv
<1>2. IInv /\ SInv /\ LInv /\ [Next]_vars => LInv'
  BY LInvKept
<1> QED BY <1>1, <1>2, SerialInvariant, PTL DEF Spec

(* When requests of one node do not overlap, a resolved alert's row never   *)
(* changes again, except by an acknowledgement under way                    *)
(* (AlertRepository.resolve_alert, acknowledge_alert).                      *)
THEOREM SerialResolvedIsFinal == ASSUME Serial PROVE Spec => ResolvedIsFinal
<1> DEFINE Final ==
      \A i \in AlertIds : alerts[i].status = "resolved" =>
        \/ alerts'[i] = alerts[i]
        \/ i \in ackReq /\ alerts'[i] = [alerts[i] EXCEPT !.ack = TRUE]
<1>1. IInv /\ LInv /\ [Next]_vars => [Final]_vars
  <2> SUFFICES ASSUME IInv, LInv, [Next]_vars, NEW i \in AlertIds,
                      alerts[i].status = "resolved"
               PROVE  \/ alerts'[i] = alerts[i]
                      \/ i \in ackReq /\ alerts'[i] = [alerts[i] EXCEPT !.ack = TRUE]
    OBVIOUS
  <2>1. alerts[i] \in AlertRow
    BY NoRowFacts DEF IInv, TypeOK
  <2>2. ASSUME NEW w \in Workers, EscalateAlert(w) \/ ResolveAlert(w) \/ MarkRemediated(w)
        PROVE  req[w].alert # i
    <3>1. req[w].pc \in OnAlert /\ req[w] # Idle
      BY <2>2, NoRowFacts DEF EscalateAlert, ResolveAlert, MarkRemediated, At, OnAlert
    <3> QED BY <3>1 DEF LInv
  <2>3. AcknowledgeWrite(i) => i \in ackReq
    BY DEF AcknowledgeWrite
  <2> QED BY <2>1, <2>2, <2>3, RowSteps
<1> QED BY <1>1, InvariantHolds, SerialRows, PTL DEF Spec, ResolvedIsFinal

-----------------------------------------------------------------------------
(* AlertLifecycle implements AlertStages *)

Shown == [c \in Nodes \X Rules |-> StageOf(c[1], c[2])]

(* A condition's stage is read off its open rows. *)
LEMMA StageSame ==
  ASSUME NEW n, NEW r, Open(n, r)' = Open(n, r),
         \A i \in Open(n, r) : alerts'[i].esc = alerts[i].esc /\ alerts'[i].rem = alerts[i].rem
  PROVE  StageOf(n, r)' = StageOf(n, r)
BY DEF StageOf

(* The stage of a condition whose only open row is i. *)
LEMMA StageOfRow ==
  ASSUME NEW n, NEW r, NEW i, Open(n, r) = {i}
  PROVE  /\ alerts[i].rem => StageOf(n, r) = "remediated"
         /\ ~alerts[i].rem /\ alerts[i].esc => StageOf(n, r) = "escalated"
         /\ ~alerts[i].rem /\ ~alerts[i].esc => StageOf(n, r) = "open"
BY DEF StageOf

(* ... and after the step. *)
LEMMA StageOfRowNext ==
  ASSUME NEW n, NEW r, NEW i, Open(n, r)' = {i}
  PROVE  /\ alerts'[i].rem => StageOf(n, r)' = "remediated"
         /\ ~alerts'[i].rem /\ alerts'[i].esc => StageOf(n, r)' = "escalated"
         /\ ~alerts'[i].rem /\ ~alerts'[i].esc => StageOf(n, r)' = "open"
BY DEF StageOf

(* A step that moves one condition, legally, is a step of AlertStages. *)
LEMMA OneStageMoves ==
  ASSUME NEW n \in Nodes, NEW r \in Rules,
         \A m \in Nodes, q \in Rules : m # n \/ q # r => StageOf(m, q)' = StageOf(m, q),
         \/ StageOf(n, r) = "closed" /\ StageOf(n, r)' = "open"
         \/ StageOf(n, r) = "open" /\ StageOf(n, r)' = "escalated"
         \/ StageOf(n, r) = "escalated" /\ StageOf(n, r)' = "remediated"
         \/ StageOf(n, r) \in {"open", "escalated", "remediated"} /\ StageOf(n, r)' = "closed"
  PROVE  Stages!Next
<1> DEFINE c == <<n, r>>
<1>1. c \in Nodes \X Rules /\ Shown[c] = StageOf(n, r) /\ Shown'[c] = StageOf(n, r)'
  BY DEF Shown
<1>2. ASSUME NEW d \in (Nodes \X Rules) \ {c} PROVE Shown'[d] = Shown[d]
  <2>1. /\ d[1] \in Nodes /\ d[2] \in Rules /\ (d[1] # n \/ d[2] # r)
        /\ Shown[d] = StageOf(d[1], d[2]) /\ Shown'[d] = StageOf(d[1], d[2])'
    BY DEF Shown
  <2> QED BY <2>1
<1> HIDE DEF c
<1>3. Shown'[c] # Shown[c]
  BY <1>1
<1>4. \/ Shown[c] \in {"closed"} /\ Shown'[c] = "open"
      \/ Shown[c] \in {"open"} /\ Shown'[c] = "escalated"
      \/ Shown[c] \in {"escalated"} /\ Shown'[c] = "remediated"
      \/ Shown[c] \in {"open", "escalated", "remediated"} /\ Shown'[c] = "closed"
  BY <1>1
<1> QED BY <1>1, <1>2, <1>3, <1>4
        DEF Shown, Stages!Next, Stages!Open, Stages!Escalate, Stages!Remediate,
            Stages!Resolve, Stages!Moves

(* A step that changes row i only leaves every other condition alone. *)
LEMMA OtherStages ==
  ASSUME NEW i \in AlertIds, \A j \in AlertIds \ {i} : alerts'[j] = alerts[j],
         NEW n, NEW r, i \notin Open(n, r), i \notin Open(n, r)'
  PROVE  StageOf(n, r)' = StageOf(n, r)
<1>1. Open(n, r)' = Open(n, r)
  BY DEF Open
<1>2. \A j \in Open(n, r) : alerts'[j] = alerts[j]
  BY DEF Open
<1> QED BY <1>1, <1>2, StageSame

(* The row that a request works on is the only open one of its condition. *)
LEMMA OnlyOpenRow ==
  ASSUME IInv, SInv, LInv, NEW w \in Workers, req[w] # Idle, req[w].pc \in OnAlert
  PROVE  /\ req[w].node \in Nodes /\ req[w].rule \in Rules /\ req[w].alert \in AlertIds
         /\ alerts[req[w].alert] \in AlertRow
         /\ alerts[req[w].alert].node = req[w].node
         /\ alerts[req[w].alert].rule = req[w].rule
         /\ Open(req[w].node, req[w].rule) = {req[w].alert}
<1>1. req[w] \in Request /\ HoldsAlert(req[w])
  BY DEF IInv, InFlight
<1>2. alerts[req[w].alert].status = "firing"
  BY DEF LInv
<1> QED BY <1>1, <1>2 DEF HoldsAlert, Request, SInv, OneOpenAlert, Open

(* create_alert opens a condition that was closed. *)
LEMMA CreateSimulates ==
  ASSUME IInv, SInv, NEW w \in Workers, NEW i \in AlertIds, CreateAlert(w, i)
  PROVE  Stages!Next
<1>0. req[w].node \in Nodes /\ req[w].rule \in Rules /\ req[w] # Idle /\ req[w].pc = "create"
  BY Holding, NoRowFacts DEF CreateAlert, At, InFlight, Request
<1>1. PICK n \in Nodes, r \in Rules : n = req[w].node /\ r = req[w].rule
  BY <1>0
<1>2. Open(n, r) = {} /\ alerts[i] = NoRow
  BY <1>0, <1>1 DEF SInv, Reserved, CreateAlert
<1>3. /\ alerts'[i].status = "firing" /\ alerts'[i].node = n /\ alerts'[i].rule = r
      /\ ~alerts'[i].esc /\ ~alerts'[i].rem
      /\ \A j \in AlertIds \ {i} : alerts'[j] = alerts[j]
  BY <1>1 DEF CreateAlert, IInv, TypeOK
<1>4. Open(n, r)' = {i}
  BY <1>2, <1>3 DEF Open
<1>5. StageOf(n, r) = "closed" /\ StageOf(n, r)' = "open"
  <2>1. StageOf(n, r) = "closed"
    BY <1>2 DEF StageOf
  <2>2. StageOf(n, r)' = "open"
    BY <1>3, <1>4, StageOfRowNext
  <2> QED BY <2>1, <2>2
<1>6. ASSUME NEW m \in Nodes, NEW q \in Rules, m # n \/ q # r
      PROVE  StageOf(m, q)' = StageOf(m, q)
  <2>1. i \notin Open(m, q) /\ i \notin Open(m, q)'
    BY <1>2, <1>3, <1>6, NoRowFacts DEF Open
  <2> QED BY <1>3, <2>1, OtherStages
<1> QED BY <1>5, <1>6, OneStageMoves

(* escalate_alert, resolve_alert and mark_remediated move their condition   *)
(* one stage on, or close it.                                               *)
LEMMA WriteSimulates ==
  ASSUME IInv, SInv, DInv, LInv, NEW w \in Workers,
         EscalateAlert(w) \/ ResolveAlert(w) \/ MarkRemediated(w)
  PROVE  Stages!Next
<1>1. req[w] # Idle /\ req[w].pc \in OnAlert
  BY NoRowFacts DEF EscalateAlert, ResolveAlert, MarkRemediated, At, OnAlert
<1>0. PICK n \in Nodes, r \in Rules, i \in AlertIds :
        n = req[w].node /\ r = req[w].rule /\ i = req[w].alert
  BY <1>1, OnlyOpenRow
<1>2. /\ alerts[i] \in AlertRow
      /\ alerts[i].node = n /\ alerts[i].rule = r /\ Open(n, r) = {i}
  BY <1>0, <1>1, OnlyOpenRow
<1>3. /\ \A j \in AlertIds \ {i} : alerts'[j] = alerts[j]
      /\ alerts'[i].node = n /\ alerts'[i].rule = r
  <2>1. \A j \in AlertIds \ {i} : alerts'[j] = alerts[j]
    BY <1>0 DEF EscalateAlert, ResolveAlert, MarkRemediated, IInv, TypeOK
  <2>2. \/ alerts'[i] = [alerts[i] EXCEPT !.esc = TRUE]
        \/ alerts'[i] = [alerts[i] EXCEPT !.status = "resolved"]
        \/ alerts'[i] = [alerts[i] EXCEPT !.rem = TRUE]
    BY <1>0, <1>2 DEF EscalateAlert, ResolveAlert, MarkRemediated, IInv, TypeOK
  <2> QED BY <1>2, <2>1, <2>2 DEF AlertRow
<1>4. ASSUME NEW m \in Nodes, NEW q \in Rules, m # n \/ q # r
      PROVE  StageOf(m, q)' = StageOf(m, q)
  <2>1. i \notin Open(m, q) /\ i \notin Open(m, q)'
    BY <1>2, <1>3, <1>4 DEF Open
  <2> QED BY <1>2, <1>3, <2>1, OtherStages
<1>5. alerts[i].status = "firing" /\ (alerts[i].rem => alerts[i].esc)
  BY <1>0, <1>1, <1>2 DEF LInv
<1>6. CASE EscalateAlert(w)
  <2>1. alerts'[i] = [alerts[i] EXCEPT !.esc = TRUE] /\ ~alerts[i].esc
    BY <1>0, <1>1, <1>2, <1>6 DEF EscalateAlert, At, LInv, IInv, TypeOK
  <2>2. alerts'[i].status = "firing" /\ alerts'[i].esc /\ ~alerts'[i].rem
    BY <1>2, <1>5, <2>1 DEF AlertRow
  <2>3. Open(n, r)' = {i}
    BY <1>2, <1>3, <2>2 DEF Open
  <2>4. StageOf(n, r) = "open"
    BY <1>2, <1>5, <2>1, StageOfRow
  <2>5. StageOf(n, r)' = "escalated"
    BY <2>2, <2>3, StageOfRowNext
  <2> QED BY <1>2, <1>4, <2>4, <2>5, OneStageMoves
<1>7. CASE MarkRemediated(w)
  <2>1. alerts'[i] = [alerts[i] EXCEPT !.rem = TRUE] /\ alerts[i].esc /\ ~alerts[i].rem
    BY <1>0, <1>1, <1>2, <1>7, Holding
       DEF MarkRemediated, At, DInv, Deciding, InFlight, MayRemediate, IInv, TypeOK
  <2>2. alerts'[i].status = "firing" /\ alerts'[i].rem
    BY <1>2, <1>5, <2>1 DEF AlertRow
  <2>3. Open(n, r)' = {i}
    BY <1>2, <1>3, <2>2 DEF Open
  <2>4. StageOf(n, r) = "escalated"
    BY <1>2, <2>1, StageOfRow
  <2>5. StageOf(n, r)' = "remediated"
    BY <2>2, <2>3, StageOfRowNext
  <2> QED BY <1>2, <1>4, <2>4, <2>5, OneStageMoves
<1>8. CASE ResolveAlert(w)
  <2>1. alerts'[i] = [alerts[i] EXCEPT !.status = "resolved"]
    BY <1>0, <1>2, <1>8 DEF ResolveAlert, IInv, TypeOK
  <2>2. alerts'[i].status = "resolved"
    BY <1>2, <2>1 DEF AlertRow
  <2>3. Open(n, r)' = {}
    BY <1>2, <1>3, <2>2 DEF Open
  <2>4. StageOf(n, r) \in {"open", "escalated", "remediated"}
    BY <1>2, StageOfRow
  <2>5. StageOf(n, r)' = "closed"
    BY <2>3 DEF StageOf
  <2> QED BY <1>2, <1>4, <2>4, <2>5, OneStageMoves
<1> QED BY <1>6, <1>7, <1>8

(* No other step moves a condition. *)
LEMMA OthersStutter ==
  ASSUME IInv, [Next]_vars,
         \A w \in Workers, i \in AlertIds : ~CreateAlert(w, i),
         \A w \in Workers : ~EscalateAlert(w) /\ ~ResolveAlert(w) /\ ~MarkRemediated(w)
  PROVE  Shown' = Shown
<1>1. \A i \in AlertIds : /\ alerts'[i].status = alerts[i].status
                          /\ alerts[i].status = "firing" =>
                               /\ alerts'[i].node = alerts[i].node
                               /\ alerts'[i].rule = alerts[i].rule
                               /\ alerts'[i].esc = alerts[i].esc
                               /\ alerts'[i].rem = alerts[i].rem
  <2>1. CASE alerts' = alerts
    BY <2>1
  <2>2. ASSUME NEW j \in AlertIds, AcknowledgeWrite(j), NEW i \in AlertIds
        PROVE  /\ alerts'[i].status = alerts[i].status
               /\ alerts'[i].node = alerts[i].node
               /\ alerts'[i].rule = alerts[i].rule
               /\ alerts'[i].esc = alerts[i].esc
               /\ alerts'[i].rem = alerts[i].rem
    <3>1. CASE i # j
      BY <2>2, <3>1 DEF AcknowledgeWrite, IInv, TypeOK
    <3>2. CASE i = j
      <4>1. alerts[i] \in AlertRow /\ alerts'[i] = [alerts[i] EXCEPT !.ack = TRUE]
        BY <2>2, <3>2 DEF AcknowledgeWrite, IInv, TypeOK
      <4> QED BY <4>1 DEF AlertRow
    <3> QED BY <3>1, <3>2
  <2> QED BY <2>1, <2>2 DEF Next, Step, vars, Ingest, Fail, FindOpenAlert, UpdateLastFired,
          CheckCooldown, CheckRateLimit, CreateAction, SendAck, AcknowledgeRead,
          AcknowledgeFail
<1>2. ASSUME NEW n \in Nodes, NEW r \in Rules PROVE StageOf(n, r)' = StageOf(n, r)
  <2>1. Open(n, r)' = Open(n, r)
    BY <1>1 DEF Open
  <2>2. \A i \in Open(n, r) : alerts'[i].esc = alerts[i].esc /\ alerts'[i].rem = alerts[i].rem
    BY <1>1 DEF Open
  <2> QED BY <2>1, <2>2, StageSame
<1> QED BY <1>2 DEF Shown

(* When requests of one node do not overlap, the rows implement the         *)
(* abstract lifecycle: every condition opens, is escalated, is remediated   *)
(* at most once, and closes (_open_or_advance, _resolve).                   *)
THEOREM SerialRefinement == ASSUME Serial PROVE Spec => ImplementsStages
<1>1. Init => Stages!Init
  <2> SUFFICES ASSUME Init PROVE Stages!Init
    OBVIOUS
  <2>1. \A n \in Nodes, r \in Rules : StageOf(n, r) = "closed"
    BY NoRowFacts DEF Init, StageOf, Open
  <2> QED BY <2>1 DEF Stages!Init
<1>2. IInv /\ SInv /\ DInv /\ LInv /\ [Next]_vars => [Stages!Next]_Shown
  BY CreateSimulates, WriteSimulates, OthersStutter
<1> QED BY <1>1, <1>2, SerialInvariant, SerialDecisions, SerialRows, PTL
        DEF Spec, ImplementsStages, Stages!Spec, Shown

=============================================================================
