----------------------- MODULE CollectorStartupProofs -----------------------
(***************************************************************************)
(* Proofs about CollectorStartup, for every set of metrics, tokens,        *)
(* environments and configuration files.                                   *)
(*                                                                         *)
(* Each property speaks of what a request, a job or an alert row is now,   *)
(* while what makes it true was checked when the process was wired or the  *)
(* request came in.  IInv carries those checks forward: settings in force  *)
(* passed their validators, a request in flight was let in under the       *)
(* settings still in force, and the row of each rule is what the payload's *)
(* last message of it said.                                                *)
(***************************************************************************)
EXTENDS CollectorStartup, TLAPS

(* What create_app validated is what is in force. *)
Validated == proc # "down" => ValidSettings(settings)

(* Only a serving process holds a request, and it let it in. *)
LetIn == request # NoRequest => proc = "serving" /\ Authorised(request.token)

(* Background jobs are those of the settings in force. *)
JobsMatch == jobs # {} => proc = "serving" /\ jobs = EnabledJobs(settings)

(* The row a message leaves behind: nothing but another message changes it  *)
(* before the request is over.                                              *)
Fits(message, row) ==
  \/ message = "opened" /\ row.status = "firing" /\ row.age = 0
  \/ message = "escalated" /\ row.status = "firing" /\ row.esc
  \/ message = "resolved" /\ row.status = "resolved"

(* The messages of one rule, and the row they lead to. *)
Told(messages, row) ==
  /\ ~Notifying => messages = <<>>
  /\ \A i \in 1..Len(messages) - 1 : MayFollow(messages[i], messages[i + 1])
  /\ messages # <<>> => Fits(messages[Len(messages)], row)

ToldTruly == request # NoRequest => \A k \in Keys : Told(request.told[k], alerts[k])

IInv ==
  /\ TypeOK
  /\ Validated
  /\ LetIn
  /\ JobsMatch
  /\ ToldTruly
  /\ HumanFirst
-----------------------------------------------------------------------------
(* Facts the actions share *)

(* The messages of a rule. *)
Messages == Seq({"opened", "escalated", "resolved"})

(* A message that may follow the last one keeps the sequence in order. *)
LEMMA AppendTold ==
  ASSUME NEW t \in Messages, NEW m \in {"opened", "escalated", "resolved"},
         NEW row, NEW old, Told(t, old), Notifying, Fits(m, row),
         \A x : Fits(x, old) => MayFollow(x, m)
  PROVE  Told(Append(t, m), row)
<1> DEFINE u == Append(t, m)
<1>1. /\ Len(t) \in Nat /\ Len(u) = Len(t) + 1 /\ u[Len(u)] = m /\ u # <<>>
      /\ \A i \in 1..Len(t) : u[i] = t[i]
  BY DEF Messages
<1>2. \A i \in 1..Len(t) - 1 : MayFollow(t[i], t[i + 1])
  BY DEF Told
<1>3. Len(t) > 0 => MayFollow(t[Len(t)], m)
  BY <1>1 DEF Told
<1> HIDE DEF u
<1>4. ASSUME NEW i \in 1..Len(u) - 1 PROVE MayFollow(u[i], u[i + 1])
  <2>1. CASE i = Len(t)
    BY <1>1, <1>3, <1>4, <2>1
  <2>2. CASE i # Len(t)
    <3>1. i \in 1..Len(t) - 1 /\ i \in 1..Len(t) /\ i + 1 \in 1..Len(t)
      BY <1>1, <1>4, <2>2
    <3>2. MayFollow(t[i], t[i + 1]) /\ u[i] = t[i] /\ u[i + 1] = t[i + 1]
      BY <1>1, <1>2, <3>1
    <3> QED BY <3>2
  <2> QED BY <2>1, <2>2
<1>5. u = Append(t, m)
  BY DEF u
<1> QED BY <1>1, <1>4, <1>5 DEF Told

(* Ending the process clears everything the invariant speaks of but the     *)
(* alert rows.                                                              *)
LEMMA EndedIInv ==
  ASSUME IInv, Ended, UNCHANGED <<raised, alerts>>
  PROVE  IInv'
<1> USE DEF IInv, Ended
<1>1. TypeOK'
  BY DEF TypeOK, NoRequest
<1>2. Validated' /\ LetIn' /\ JobsMatch' /\ ToldTruly'
  BY DEF Validated, LetIn, JobsMatch, ToldTruly
<1>3. HumanFirst'
  BY DEF HumanFirst
<1> QED BY <1>1, <1>2, <1>3

(* A step that leaves the process and the request alone keeps every part    *)
(* that does not speak of the alert rows.                                   *)
LEMMA AppKept ==
  ASSUME IInv, UNCHANGED <<app, request>>
  PROVE  Validated' /\ LetIn' /\ JobsMatch'
BY DEF IInv, app, Validated, LetIn, JobsMatch, Authorised

(* Advancing a row remediates it only if it is escalated by then: the       *)
(* validator made the escalation delay the shorter one.                     *)
LEMMA AdvancedRow ==
  ASSUME NEW k \in Keys, alerts[k] \in AlertRow, settings \in Settings,
         ValidSettings(settings), MaxAge \in Nat,
         alerts[k].decided => alerts[k].esc
  PROVE  /\ Remediated(k, Escalated(alerts[k])) \in AlertRow
         /\ Remediated(k, Escalated(alerts[k])).decided =>
              Remediated(k, Escalated(alerts[k])).esc
<1> DEFINE e == Escalated(alerts[k])
<1>1. /\ e \in AlertRow /\ e.ack = alerts[k].ack /\ e.age = alerts[k].age
      /\ e.decided = alerts[k].decided
      /\ alerts[k].esc => e.esc
  BY DEF Escalated, AlertRow
<1>2. ~e.ack /\ e.age >= settings.escalation_after => e.esc
  BY <1>1 DEF Escalated, ShouldEscalate, AlertRow, Settings
<1>3. Mapped(k) # {} => settings.remediation_enabled
  BY DEF Mapped
<1>4. Mapped(k) # {} => settings.remediation_after >= settings.escalation_after
  BY <1>3 DEF ValidSettings, RequireRemediationAfterEscalation
<1>5. ShouldRemediate(e) /\ Mapped(k) # {} => e.esc
  <2> SUFFICES ASSUME ShouldRemediate(e), Mapped(k) # {} PROVE e.esc
    OBVIOUS
  <2>1. e.age \in Int /\ settings.remediation_after \in Int /\ settings.escalation_after \in Int
    BY <1>1 DEF AlertRow, Settings
  <2>2. e.age >= settings.escalation_after
    BY <1>4, <2>1 DEF ShouldRemediate
  <2> QED BY <1>2, <2>2 DEF ShouldRemediate
<1>6. Remediated(k, e) \in AlertRow
  BY <1>1 DEF Remediated, AlertRow
<1>7. Remediated(k, e).decided => Remediated(k, e).esc
  <2> HIDE DEF e
  <2> QED BY <1>1, <1>5 DEF Remediated, AlertRow
<1> QED BY <1>6, <1>7

(* The results of a payload. *)
LEMMA ResultsType ==
  ASSUME NEW samples \in Payloads
  PROVE  Results(samples) \in Seq([key : Keys, verdict : {"breached", "clear", "no_result"}])
<1> DEFINE R == [key : Keys, verdict : {"breached", "clear", "no_result"}]
<1>1. PICK n \in 0..MaxSamples : samples \in [1..n -> Sample]
  BY DEF Payloads
<1>2. n \in Nat /\ Len(samples) = n
  BY <1>1, ConfigurationAssumption
<1>3. ASSUME NEW sample \in Sample, NEW kind \in {"threshold", "rate_of_change"}
      PROVE  Result(sample, kind) \in R
  <2>1. <<kind, sample.metric>> \in Keys /\ sample[kind] \in {"breached", "clear", "no_result"}
    BY DEF Sample, Keys
  <2> QED BY <2>1 DEF Result
<1>4. ASSUME NEW j \in 1..2 * n PROVE Results(samples)[j] \in R
  <2>1. CASE j % 2 = 1
    <3>1. (j + 1) \div 2 \in 1..n
      BY <1>2, <2>1
    <3> QED BY <1>1, <1>2, <1>3, <2>1, <3>1 DEF Results
  <2>2. CASE j % 2 # 1
    <3>1. j \div 2 \in 1..n
      BY <1>2, <2>2
    <3> QED BY <1>1, <1>2, <1>3, <2>2, <3>1 DEF Results
  <2> QED BY <2>1, <2>2
<1>5. Results(samples) \in [1..2 * n -> R] /\ 2 * n \in Nat
  BY <1>2, <1>4 DEF Results
<1> HIDE DEF R
<1>6. Results(samples) \in Seq(R)
  BY <1>5
<1> QED BY <1>6 DEF R

(* Applying one result: the row keeps its type and its order, the messages  *)
(* of its rule still lead to it.                                            *)
LEMMA AppliedIInv ==
  ASSUME IInv, NEW k \in Keys, NEW row \in AlertRow, NEW messages \in Messages,
         NEW told, told = [request.told EXCEPT ![k] = messages],
         Told(messages, row), row.decided => row.esc,
         request # NoRequest, request.todo # <<>>,
         Applied(k, row, told)
  PROVE  IInv'
<1> DEFINE R == [key : Keys, verdict : {"breached", "clear", "no_result"}]
<1>0. /\ request \in Request /\ request.todo \in Seq(R) /\ alerts \in [Keys -> AlertRow]
      /\ request.told \in [Keys -> Messages]
  BY DEF IInv, TypeOK, Request, Messages
<1>1. Tail(request.todo) \in Seq(R)
  BY <1>0
<1>2. told \in [Keys -> Messages] /\ told[k] = messages
      /\ \A l \in Keys : l # k => told[l] = request.told[l]
  BY <1>0
<1>3. /\ request'.todo = Tail(request.todo) /\ request'.told = told
      /\ request'.token = request.token
      /\ request' = [request EXCEPT !.todo = Tail(@), !.told = told]
  BY <1>0 DEF Applied, Request
<1>4. request' \in Request
  BY <1>0, <1>1, <1>2, <1>3 DEF Request, Messages
<1>5. /\ alerts' \in [Keys -> AlertRow] /\ alerts'[k] = row
      /\ \A l \in Keys : l # k => alerts'[l] = alerts[l]
  BY <1>0 DEF Applied
<1>6. TypeOK'
  BY <1>4, <1>5 DEF IInv, TypeOK, Applied, app
<1>7. ToldTruly'
  <2>1. \A l \in Keys : Told(told[l], alerts'[l])
    BY <1>2, <1>5 DEF IInv, ToldTruly
  <2>2. settings' = settings
    BY DEF Applied, app
  <2> QED BY <1>3, <2>1, <2>2 DEF ToldTruly, Told, Notifying, MayFollow, Fits
<1>8. Validated' /\ LetIn' /\ JobsMatch'
  BY <1>3 DEF IInv, Applied, app, Validated, LetIn, JobsMatch, Authorised
<1>9. HumanFirst'
  BY <1>0 DEF IInv, HumanFirst, Applied
<1> QED BY <1>6, <1>7, <1>8, <1>9 DEF IInv

(* A transition that is announced: the messages of its rule with and        *)
(* without a notifier.                                                      *)
LEMMA TellTold ==
  ASSUME IInv, request # NoRequest, NEW k \in Keys,
         NEW m \in {"opened", "escalated", "resolved"}, NEW row, Fits(m, row),
         \A x : Fits(x, alerts[k]) => MayFollow(x, m)
  PROVE  \E messages \in Messages :
           Tell(k, m) = [request.told EXCEPT ![k] = messages] /\ Told(messages, row)
<1>0. request.told \in [Keys -> Messages] /\ Told(request.told[k], alerts[k])
  BY DEF IInv, TypeOK, Request, Messages, ToldTruly
<1>1. CASE Notifying
  <2>1. Told(Append(request.told[k], m), row)
    BY <1>0, <1>1, AppendTold
  <2>2. Append(request.told[k], m) \in Messages
    BY <1>0 DEF Messages
  <2>3. Tell(k, m) = [request.told EXCEPT ![k] = Append(request.told[k], m)]
    BY <1>1 DEF Tell
  <2> QED BY <2>1, <2>2, <2>3
<1>2. CASE ~Notifying
  <2>1. request.told[k] = <<>>
    BY <1>0, <1>2 DEF Told
  <2>2. Told(request.told[k], row)
    BY <2>1 DEF Told
  <2>3. Tell(k, m) = [request.told EXCEPT ![k] = request.told[k]]
    BY <1>0, <1>2 DEF Tell
  <2> QED BY <1>0, <2>2, <2>3
<1> QED BY <1>1, <1>2

(* A transition without a message keeps what the last one spoke of. *)
LEMMA SilentTold ==
  ASSUME IInv, request # NoRequest, NEW k \in Keys, NEW row,
         \A x : Fits(x, alerts[k]) => Fits(x, row)
  PROVE  /\ request.told[k] \in Messages
         /\ request.told = [request.told EXCEPT ![k] = request.told[k]]
         /\ Told(request.told[k], row)
<1>0. request.told \in [Keys -> Messages] /\ Told(request.told[k], alerts[k])
  BY DEF IInv, TypeOK, Request, Messages, ToldTruly
<1> QED BY <1>0 DEF Told

-----------------------------------------------------------------------------
(* The initial state satisfies the inductive invariant. *)
LEMMA InitIInv == Init => IInv
<1> SUFFICES ASSUME Init PROVE IInv
  OBVIOUS
<1>1. TypeOK
  BY ConfigurationAssumption DEF Init, TypeOK, NoAlert, AlertRow, NoRequest
<1>2. HumanFirst
  BY DEF Init, HumanFirst, NoAlert
<1> QED
  BY <1>1, <1>2 DEF Init, IInv, Validated, LetIn, JobsMatch, ToldTruly

(* Every step keeps the inductive invariant. *)
LEMMA NextIInv == IInv /\ [Next]_vars => IInv'
<1> SUFFICES ASSUME IInv, [Next]_vars PROVE IInv'
  OBVIOUS
<1> USE ConfigurationAssumption
<1>t. TypeOK /\ alerts \in [Keys -> AlertRow]
  BY DEF IInv, TypeOK
<1>1. ASSUME NEW s \in SettingsSpace, BuildSettings(s) PROVE IInv'
  <2>1. request = NoRequest /\ jobs = {}
    BY <1>1 DEF IInv, LetIn, JobsMatch, BuildSettings
  <2>2. TypeOK'
    BY <1>1, <1>t DEF TypeOK, BuildSettings
  <2>3. Validated' /\ LetIn' /\ JobsMatch' /\ ToldTruly' /\ HumanFirst'
    BY <1>1, <2>1 DEF IInv, BuildSettings, Validated, LetIn, JobsMatch, ToldTruly, HumanFirst
  <2> QED BY <2>2, <2>3 DEF IInv
<1>2. ASSUME NEW f \in RulesFiles, LoadRules(f) PROVE IInv'
  <2>1. CASE Ended
    BY <1>2, <2>1, EndedIInv DEF LoadRules
  <2>2. CASE ~Ended
    <3>1. request = NoRequest /\ jobs = {}
      BY <1>2 DEF IInv, LetIn, JobsMatch, LoadRules
    <3>2. /\ proc' = "ruled" /\ rules' = f.rules
          /\ UNCHANGED <<settings, policy, jobs, request, raised, alerts>>
      BY <1>2, <2>2 DEF LoadRules
    <3>3. TypeOK'
      BY <1>2, <1>t, <3>2 DEF TypeOK, LoadRules
    <3>4. Validated' /\ LetIn' /\ JobsMatch' /\ ToldTruly' /\ HumanFirst'
      BY <1>2, <3>1, <3>2
      DEF IInv, LoadRules, Validated, LetIn, JobsMatch, ToldTruly, HumanFirst
    <3> QED BY <3>3, <3>4 DEF IInv
  <2> QED BY <2>1, <2>2
<1>3. ASSUME NEW f \in PolicyFiles, LoadPolicy(f) PROVE IInv'
  <2>1. CASE Ended
    BY <1>3, <2>1, EndedIInv DEF LoadPolicy
  <2>2. CASE ~Ended
    <3>1. request = NoRequest /\ jobs = {}
      BY <1>3 DEF IInv, LetIn, JobsMatch, LoadPolicy
    <3>2. /\ proc' = "created" /\ policy' = f.playbooks
          /\ UNCHANGED <<settings, rules, jobs, request, raised, alerts>>
      BY <1>3, <2>2 DEF LoadPolicy
    <3>3. TypeOK'
      BY <1>3, <1>t, <3>2 DEF TypeOK, LoadPolicy
    <3>4. Validated' /\ LetIn' /\ JobsMatch' /\ ToldTruly' /\ HumanFirst'
      BY <1>3, <3>1, <3>2
      DEF IInv, LoadPolicy, Validated, LetIn, JobsMatch, ToldTruly, HumanFirst
    <3> QED BY <3>3, <3>4 DEF IInv
  <2> QED BY <2>1, <2>2
<1>4. CASE StartServing
  <2>1. request = NoRequest
    BY <1>4 DEF IInv, LetIn, StartServing
  <2>2. TypeOK'
    BY <1>4, <1>t DEF TypeOK, StartServing, EnabledJobs
  <2>3. Validated' /\ LetIn' /\ JobsMatch' /\ ToldTruly' /\ HumanFirst'
    BY <1>4, <2>1 DEF IInv, StartServing, Validated, LetIn, JobsMatch, ToldTruly, HumanFirst
  <2> QED BY <2>2, <2>3 DEF IInv
<1>5. CASE Stop
  BY <1>5, EndedIInv DEF Stop
<1>6. ASSUME NEW token \in Presented, NEW samples \in Payloads, Push(token, samples)
      PROVE  IInv'
  <2> DEFINE R == [key : Keys, verdict : {"breached", "clear", "no_result"}]
  <2>1. request' = [token |-> token, todo |-> Results(samples), told |-> [k \in Keys |-> <<>>]]
    BY <1>6 DEF Push
  <2>2. Results(samples) \in Seq(R)
    BY ResultsType
  <2>3. request' \in Request
    BY <2>1, <2>2 DEF Request, Presented
  <2>4. TypeOK'
    BY <1>6, <1>t, <2>3 DEF TypeOK, Push, app
  <2>5. Validated' /\ JobsMatch' /\ HumanFirst'
    BY <1>6 DEF IInv, Push, app, Validated, JobsMatch, HumanFirst
  <2>6. LetIn'
    BY <1>6, <2>1 DEF Push, app, LetIn, Authorised
  <2>7. ToldTruly'
    <3>1. \A k \in Keys : request'.told[k] = <<>>
      BY <2>1
    <3> QED BY <3>1 DEF ToldTruly, Told
  <2> QED BY <2>4, <2>5, <2>6, <2>7 DEF IInv
<1>7. ASSUME NEW token \in Presented, NEW k \in Keys, Acknowledge(token, k) PROVE IInv'
  <2>1. /\ alerts' \in [Keys -> AlertRow]
        /\ \A l \in Keys : /\ alerts'[l].status = alerts[l].status
                           /\ alerts'[l].age = alerts[l].age /\ alerts'[l].esc = alerts[l].esc
                           /\ alerts'[l].decided = alerts[l].decided
    BY <1>7, <1>t DEF Acknowledge, AlertRow
  <2>2. HumanFirst'
    BY <2>1 DEF IInv, HumanFirst
  <2>3. TypeOK'
    BY <1>7, <1>t, <2>1 DEF TypeOK, Acknowledge, app
  <2>4. ToldTruly'
    BY <1>7, <2>1
    DEF IInv, ToldTruly, Told, Fits, MayFollow, Notifying, Acknowledge, app
  <2> QED BY <1>7, <2>2, <2>3, <2>4, AppKept DEF IInv, Acknowledge
<1>8. CASE Apply
  <2>1. PICK k \in Keys : Open(k) \/ Advance(k) \/ Resolve(k) \/ Skip(k)
    BY <1>8 DEF Apply
  <2>2. request # NoRequest /\ request.todo # <<>>
    BY <2>1 DEF Open, Advance, Resolve, Skip, Due
  <2>3. /\ alerts[k] \in AlertRow
        /\ alerts[k].decided => alerts[k].esc
    BY <1>t DEF IInv, HumanFirst
  <2>4. proc = "serving" /\ ValidSettings(settings) /\ settings \in Settings
    BY <2>2, <1>t DEF IInv, LetIn, Validated, TypeOK
  <2>5. CASE Open(k)
    <3> DEFINE row == [NoAlert EXCEPT !.status = "firing"]
    <3>1. row \in AlertRow /\ ~row.decided /\ Fits("opened", row)
      <4>1. NoAlert \in AlertRow /\ ~NoAlert.decided /\ NoAlert.age = 0
        BY DEF NoAlert, AlertRow
      <4> QED BY <4>1 DEF AlertRow, Fits
    <3>2. \A x : Fits(x, alerts[k]) => MayFollow(x, "opened")
      BY <2>5 DEF Open, Fits, MayFollow
    <3> HIDE DEF row
    <3>3. PICK messages \in Messages :
            Tell(k, "opened") = [request.told EXCEPT ![k] = messages] /\ Told(messages, row)
      BY <2>2, <3>1, <3>2, TellTold
    <3>4. Applied(k, row, Tell(k, "opened"))
      BY <2>5 DEF Open, row
    <3> QED BY <2>2, <3>1, <3>3, <3>4, AppliedIInv
  <2>6. CASE Advance(k)
    <3> DEFINE row == Remediated(k, Escalated(alerts[k]))
    <3>1. row \in AlertRow /\ (row.decided => row.esc)
      BY <2>3, <2>4, AdvancedRow
    <3>2. /\ row.status = "firing" /\ row.age = alerts[k].age
          /\ ShouldEscalate(alerts[k]) => row.esc
          /\ alerts[k].esc => row.esc
      BY <2>3, <2>6 DEF Advance, Remediated, Escalated, AlertRow
    <3> HIDE DEF row
    <3>3. CASE ShouldEscalate(alerts[k])
      <4>1. Fits("escalated", row)
        BY <3>2, <3>3 DEF Fits
      <4>2. ASSUME NEW x, Fits(x, alerts[k]) PROVE MayFollow(x, "escalated")
        <5>1. x = "opened" /\ alerts[k].age = 0
          BY <2>6, <3>3, <4>2 DEF Fits, Advance, ShouldEscalate
        <5>2. settings.escalation_after = 0
          BY <2>4, <3>3, <5>1 DEF ShouldEscalate, Settings
        <5> QED BY <5>1, <5>2 DEF MayFollow
      <4>3. PICK messages \in Messages :
              Tell(k, "escalated") = [request.told EXCEPT ![k] = messages] /\ Told(messages, row)
        BY <2>2, <4>1, <4>2, TellTold
      <4>4. Applied(k, row, Tell(k, "escalated"))
        BY <2>6, <3>3 DEF Advance, row
      <4> QED BY <2>2, <3>1, <4>3, <4>4, AppliedIInv
    <3>4. CASE ~ShouldEscalate(alerts[k])
      <4>1. \A x : Fits(x, alerts[k]) => Fits(x, row)
        BY <2>6, <3>2 DEF Fits, Advance
      <4>2. /\ request.told[k] \in Messages
            /\ request.told = [request.told EXCEPT ![k] = request.told[k]]
            /\ Told(request.told[k], row)
        BY <2>2, <4>1, SilentTold
      <4>3. Applied(k, row, request.told)
        BY <2>6, <3>4 DEF Advance, row
      <4> QED BY <2>2, <3>1, <4>2, <4>3, AppliedIInv
    <3> QED BY <3>3, <3>4
  <2>7. CASE Resolve(k)
    <3> DEFINE row == [alerts[k] EXCEPT !.status = "resolved"]
    <3>1. row \in AlertRow /\ (row.decided => row.esc) /\ Fits("resolved", row)
      BY <2>3 DEF AlertRow, Fits
    <3>2. \A x : Fits(x, alerts[k]) => MayFollow(x, "resolved")
      BY <2>7 DEF Resolve, Fits, MayFollow
    <3> HIDE DEF row
    <3>3. PICK messages \in Messages :
            Tell(k, "resolved") = [request.told EXCEPT ![k] = messages] /\ Told(messages, row)
      BY <2>2, <3>1, <3>2, TellTold
    <3>4. Applied(k, row, Tell(k, "resolved"))
      BY <2>7 DEF Resolve, row
    <3> QED BY <2>2, <3>1, <3>3, <3>4, AppliedIInv
  <2>8. CASE Skip(k)
    <3>1. /\ request.told[k] \in Messages
          /\ request.told = [request.told EXCEPT ![k] = request.told[k]]
          /\ Told(request.told[k], alerts[k])
      BY <2>2, SilentTold
    <3>2. Applied(k, alerts[k], request.told)
      BY <2>8 DEF Skip
    <3> QED BY <2>2, <2>3, <3>1, <3>2, AppliedIInv
  <2> QED BY <2>1, <2>5, <2>6, <2>7, <2>8
<1>9. CASE Answer
  <2>1. TypeOK' /\ HumanFirst'
    BY <1>9, <1>t DEF IInv, TypeOK, HumanFirst, Answer, app
  <2>2. Validated' /\ LetIn' /\ JobsMatch' /\ ToldTruly'
    BY <1>9 DEF IInv, Answer, app, Validated, LetIn, JobsMatch, ToldTruly
  <2> QED BY <2>1, <2>2 DEF IInv
<1>10. CASE Tick
  <2>1. ASSUME NEW k \in Keys
        PROVE  /\ alerts'[k] \in AlertRow
               /\ alerts'[k].decided = alerts[k].decided /\ alerts'[k].esc = alerts[k].esc
    <3>1. CASE alerts[k].status = "firing" /\ alerts[k].age < MaxAge
      <4>1. alerts'[k] = [alerts[k] EXCEPT !.age = @ + 1]
        BY <1>10, <3>1 DEF Tick
      <4>2. alerts[k] \in AlertRow /\ alerts[k].age + 1 \in 0..MaxAge
        BY <1>t, <3>1 DEF AlertRow
      <4> QED BY <4>1, <4>2 DEF AlertRow
    <3>2. CASE ~(alerts[k].status = "firing" /\ alerts[k].age < MaxAge)
      <4>1. alerts'[k] = alerts[k]
        BY <1>10, <3>2 DEF Tick
      <4> QED BY <1>t, <4>1
    <3> QED BY <3>1, <3>2
  <2>2. alerts' \in [Keys -> AlertRow]
    BY <1>10, <2>1 DEF Tick
  <2>3. HumanFirst'
    BY <2>1 DEF IInv, HumanFirst
  <2>4. TypeOK'
    BY <1>10, <1>t, <2>2 DEF TypeOK, Tick, app
  <2>5. ToldTruly'
    BY <1>10 DEF Tick, ToldTruly
  <2> QED BY <1>10, <2>3, <2>4, <2>5, AppKept DEF IInv, Tick
<1>11. CASE EvaluationRaises
  <2>1. /\ request # NoRequest /\ request \in Request
        /\ request' = [request EXCEPT !.todo = <<>>] /\ raised' \in 0..MaxRaised
        /\ UNCHANGED <<app, alerts>>
    BY <1>11, <1>t DEF EvaluationRaises, TypeOK
  <2>2. /\ request' \in Request /\ request'.told = request.told
        /\ request'.token = request.token
    <3> DEFINE R == [key : Keys, verdict : {"breached", "clear", "no_result"}]
    <3>1. <<>> \in Seq(R)
      OBVIOUS
    <3> DEFINE none == <<>>
    <3>2. none \in Seq(R) /\ request' = [request EXCEPT !.todo = none]
      BY <2>1, <3>1
    <3> HIDE DEF none
    <3> QED BY <2>1, <3>2 DEF Request
  <2>3. TypeOK'
    BY <1>t, <2>1, <2>2 DEF TypeOK, app
  <2>4. Validated' /\ LetIn' /\ JobsMatch' /\ HumanFirst'
    BY <2>1, <2>2 DEF IInv, Validated, LetIn, JobsMatch, HumanFirst, Authorised, app
  <2>5. ToldTruly'
    BY <2>1, <2>2 DEF IInv, ToldTruly, Told, Fits, MayFollow, Notifying, app
  <2> QED BY <2>3, <2>4, <2>5 DEF IInv
<1>12. CASE UNCHANGED vars
  <2>1. TypeOK' /\ HumanFirst'
    BY <1>12, <1>t DEF IInv, TypeOK, HumanFirst, vars, app
  <2>2. ToldTruly'
    BY <1>12 DEF IInv, ToldTruly, Told, Fits, MayFollow, Notifying, vars, app
  <2> QED BY <1>12, <2>1, <2>2, AppKept DEF IInv, vars
<1> QED
  BY <1>1, <1>2, <1>3, <1>4, <1>5, <1>6, <1>7, <1>8, <1>9, <1>10, <1>11, <1>12 DEF Next

-----------------------------------------------------------------------------
(* The inductive invariant holds in every reachable state. *)
THEOREM Inductive == Spec => []IInv
<1>1. Init => IInv
  BY InitIInv
<1>2. IInv /\ [Next]_vars => IInv'
  BY NextIInv
<1> QED BY <1>1, <1>2, PTL DEF Spec

(* A payload taken on outside dev presented a configured token that is not  *)
(* blank, whatever the environment of the start it happened under:          *)
(* _require_tokens_outside_dev, token_set and verify_api_token together.    *)
THEOREM NeverUnauthenticated == Spec => []Authenticated
<1>1. IInv => Authenticated
  <2> SUFFICES ASSUME IInv, request # NoRequest, settings.environment # "dev"
               PROVE  request.token # Blank /\ request.token \in settings.api_tokens
    BY DEF Authenticated
  <2>1. Authorised(request.token) /\ ValidSettings(settings)
    BY DEF IInv, LetIn, Validated
  <2>2. TokenSet(settings) # {}
    BY <2>1 DEF ValidSettings, RequireTokensOutsideDev
  <2> QED BY <2>1, <2>2 DEF Authorised, TokenSet
<1> QED BY <1>1, Inductive, PTL

(* No alert has a remediation decision without having been escalated, under *)
(* any sequence of restarts and configuration changes between the two       *)
(* (_maybe_remediate, _require_remediation_after_escalation).               *)
THEOREM HumanBeforeAutomation == Spec => []HumanFirst
<1>1. IInv => HumanFirst
  BY DEF IInv
<1> QED BY <1>1, Inductive, PTL

(* However many samples of one metric a payload has, what it announces of a *)
(* rule is in order, nothing twice, and ends with what the row says         *)
(* (RuleEngine.evaluate, AlertEvaluationService._apply).                    *)
THEOREM MessagesInOrder == Spec => []AnnouncedInOrder
<1>1. IInv => AnnouncedInOrder
  <2> SUFFICES ASSUME IInv, request # NoRequest, NEW k \in Keys
               PROVE  LET told == request.told[k]
                      IN  /\ \A i \in 1..Len(told) - 1 : MayFollow(told[i], told[i + 1])
                          /\ told # <<>> =>
                               alerts[k].status =
                                 IF told[Len(told)] = "resolved" THEN "resolved" ELSE "firing"
    BY DEF AnnouncedInOrder
  <2> DEFINE told == request.told[k]
  <2>1. /\ \A i \in 1..Len(told) - 1 : MayFollow(told[i], told[i + 1])
        /\ told # <<>> => Fits(told[Len(told)], alerts[k])
    BY DEF IInv, ToldTruly, Told
  <2> HIDE DEF told
  <2>2. told # <<>> =>
          alerts[k].status = IF told[Len(told)] = "resolved" THEN "resolved" ELSE "firing"
    BY <2>1 DEF Fits
  <2> QED BY <2>1, <2>2 DEF told
<1> QED BY <1>1, Inductive, PTL

(* Background jobs run in a serving process only, and retention only with   *)
(* windows the validator accepted (create_app, _lifespan).                  *)
THEOREM JobsNeedServing == Spec => []JobsOfServingOnly
<1>1. IInv => JobsOfServingOnly
  BY DEF IInv, Validated, JobsMatch, JobsOfServingOnly, ValidSettings, EnabledJobs,
         RequireAlertRetention
<1> QED BY <1>1, Inductive, PTL

=============================================================================
