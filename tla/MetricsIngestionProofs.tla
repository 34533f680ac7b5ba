----------------------- MODULE MetricsIngestionProofs -----------------------
(***************************************************************************)
(* Proofs about MetricsIngestion, for any measurements, thresholds and     *)
(* windows, any number of copies of a payload and of requests in flight.   *)
(*                                                                         *)
(* Order of the three transactions is what the properties rest on: Passed  *)
(* says what a request has left behind when it reaches each of them, and   *)
(* InsertsLeft that a copy of a payload still has at most one insert ahead *)
(* of it.  That the rule engine finds the right earlier sample needs a     *)
(* latest one to exist, which is the lemma Latest.                         *)
(***************************************************************************)
EXTENDS MetricsIngestion, FiniteSetTheorems, WellFoundedInduction, TLAPS

(* What is true once a request has come this far. *)
Passed(r) ==
  /\ series[r.at] # None
  /\ r.pc \in {"insert", "evaluate", "answer"} => registered
  /\ r.pc \in {"evaluate", "answer"} => rows[r.at] > 0

(* The requests for payload t that have not inserted its samples yet. *)
Pending(t) == {r \in requests : r.at = t /\ r.pc \in {"seen", "insert"}}

(* No copy of a payload is inserted twice. *)
InsertsLeft == \A t \in Times : rows[t] + Cardinality(Pending(t)) <= copies[t]

(* Only what was measured is in the table. *)
RowsAreMeasured == \A t \in Times : rows[t] > 0 => series[t] # None

IInv ==
  /\ TypeOK
  /\ IsFiniteSet(requests)
  /\ \A r \in requests : Passed(r)
  /\ InsertsLeft
  /\ RowsAreMeasured
  /\ SamplesHaveNode
  /\ AckedIsPersisted
-----------------------------------------------------------------------------
(* A nonempty set of numbers with an upper bound has a greatest element. *)
LEMMA Latest ==
  ASSUME NEW T \in SUBSET Nat, NEW b \in Nat, T # {}, \A t \in T : t <= b
  PROVE  \E x \in T : \A y \in T : y <= x
<1> DEFINE D == {n \in Nat : b - n \in T}      \* the distances from b
           R == OpToRel(<, Nat)
<1>1. D \subseteq Nat /\ D # {}
  <2>1. PICK t \in T : TRUE
    OBVIOUS
  <2>2. b - t \in D
    BY <2>1
  <2> QED BY <2>2
<1>2. IsWellFoundedOn(R, Nat)
  BY NatLessThanWellFounded
<1>3. \A m, n \in Nat : m < n => <<m, n>> \in R
  BY DEF OpToRel
<1> HIDE DEF R
<1>4. PICK d \in D : \A e \in D : ~(<<e, d>> \in R)
  BY <1>1, <1>2, WFMin
<1>5. \A e \in D : ~(e < d)
  BY <1>1, <1>3, <1>4
<1>6. ASSUME NEW y \in T PROVE y <= b - d
  <2>1. b - y \in D /\ b - y \in Nat
    BY <1>6
  <2> QED BY <1>5, <2>1
<1> QED BY <1>4, <1>6

(* A request that moves on is a request, at the next transaction. *)
LEMMA Moved ==
  ASSUME NEW r \in Request, NEW pc \in {"seen", "insert", "evaluate", "answer"}
  PROVE  /\ [r EXCEPT !.pc = pc] \in Request
         /\ [r EXCEPT !.pc = pc].at = r.at
         /\ [r EXCEPT !.pc = pc].pc = pc
BY DEF Request

(* The set of requests stays finite. *)
LEMMA StaysFinite ==
  ASSUME IsFiniteSet(requests), NEW r, NEW q, requests' \subseteq (requests \ {r}) \cup {q}
  PROVE  IsFiniteSet(requests')
<1>1. IsFiniteSet((requests \ {r}) \cup {q})
  BY FS_RemoveElement, FS_AddElement
<1> QED BY <1>1, FS_Subset

(* Pending requests are finitely many, and fewer requests pend no more. *)
LEMMA PendingFacts ==
  ASSUME IsFiniteSet(requests), IsFiniteSet(requests'), NEW t
  PROVE  /\ Cardinality(Pending(t)) \in Nat /\ IsFiniteSet(Pending(t))
         /\ Cardinality(Pending(t)') \in Nat /\ IsFiniteSet(Pending(t)')
         /\ Pending(t)' \subseteq Pending(t) => Cardinality(Pending(t)') <= Cardinality(Pending(t))
<1>1. Pending(t) \subseteq requests /\ Pending(t)' \subseteq requests'
  BY DEF Pending
<1>2. IsFiniteSet(Pending(t)) /\ IsFiniteSet(Pending(t)')
  BY <1>1, FS_Subset
<1> QED BY <1>2, FS_Subset, FS_CardinalityType

(* A step that inserts nothing and sends nothing leaves every count right,  *)
(* as long as no more requests pend than before.                            *)
LEMMA CountsKept ==
  ASSUME IInv, UNCHANGED <<rows, copies>>, IsFiniteSet(requests'),
         \A t \in Times : Cardinality(Pending(t)') <= Cardinality(Pending(t))
  PROVE  InsertsLeft'
<1> SUFFICES ASSUME NEW t \in Times PROVE rows[t] + Cardinality(Pending(t)') <= copies[t]
  BY DEF InsertsLeft
<1>1. rows[t] \in Int /\ copies[t] \in Int
  BY IngestionAssumption DEF IInv, TypeOK
<1>2. /\ rows[t] + Cardinality(Pending(t)) <= copies[t]
      /\ Cardinality(Pending(t)) \in Nat /\ Cardinality(Pending(t)') \in Nat
  BY PendingFacts DEF IInv, InsertsLeft
<1> QED BY <1>1, <1>2

-----------------------------------------------------------------------------
(* The initial state satisfies the inductive invariant. *)
LEMMA InitIInv == Init => IInv
<1> SUFFICES ASSUME Init PROVE IInv
  OBVIOUS
<1>1. TypeOK
  <2>1. 0 \in 0..MaxCopies
    BY IngestionAssumption
  <2> QED BY <2>1 DEF Init, TypeOK
<1>2. IsFiniteSet(requests)
  BY FS_EmptySet DEF Init
<1>3. InsertsLeft
  <2>1. \A t \in Times : Cardinality(Pending(t)) = 0
    BY FS_EmptySet DEF Init, Pending
  <2> QED BY <2>1 DEF Init, InsertsLeft
<1> QED BY <1>1, <1>2, <1>3 DEF Init, IInv, RowsAreMeasured, SamplesHaveNode, AckedIsPersisted

(* A measurement is taken once and stays. *)
LEMMA CollectKeeps ==
  ASSUME IInv, NEW t \in Times, NEW v \in Values, Collect(t, v)
  PROVE  IInv'
<1>1. /\ series \in [Times -> Values \cup {None}] /\ None \notin Values
      /\ series' = [series EXCEPT ![t] = v]
      /\ UNCHANGED <<copies, registered, rows, requests, results, acked>>
  BY IngestionAssumption DEF IInv, TypeOK, Collect
<1>2. \A u \in Times : series[u] # None => series'[u] # None
  BY <1>1
<1>3. \A r \in requests : r.at \in Times
  BY DEF IInv, TypeOK, Request
<1>4. TypeOK'
  BY <1>1 DEF IInv, TypeOK
<1>5. \A r \in requests' : Passed(r)'
  BY <1>1, <1>2, <1>3 DEF IInv, Passed
<1>6. InsertsLeft'
  BY <1>1 DEF IInv, InsertsLeft, Pending
<1>7. RowsAreMeasured' /\ SamplesHaveNode' /\ AckedIsPersisted'
  BY <1>1, <1>2 DEF IInv, RowsAreMeasured, SamplesHaveNode, AckedIsPersisted
<1> QED BY <1>1, <1>4, <1>5, <1>6, <1>7 DEF IInv

(* A copy that is sent brings one insert with it. *)
LEMMA SendKeeps ==
  ASSUME IInv, NEW t \in Times, Send(t)
  PROVE  IInv'
<1> DEFINE q == [at |-> t, copy |-> copies[t] + 1, pc |-> "seen"]
<1>1. /\ copies \in [Times -> 0..MaxCopies] /\ copies[t] < MaxCopies /\ MaxCopies \in Nat
      /\ copies' = [copies EXCEPT ![t] = copies[t] + 1] /\ requests' = requests \cup {q}
      /\ series[t] # None
      /\ UNCHANGED <<series, registered, rows, results, acked>>
  BY IngestionAssumption DEF IInv, TypeOK, Send
<1>2. copies[t] \in Nat /\ copies[t] + 1 \in 0..MaxCopies /\ copies[t] + 1 \in 1..MaxCopies
  BY <1>1
<1>3. q \in Request /\ q.at = t /\ q.pc = "seen"
  BY <1>2 DEF Request
<1> HIDE DEF q
<1>4. TypeOK'
  BY <1>1, <1>2, <1>3 DEF IInv, TypeOK
<1>5. IsFiniteSet(requests')
  BY <1>1, FS_AddElement DEF IInv
<1>6. \A r \in requests' : Passed(r)'
  BY <1>1, <1>3 DEF IInv, Passed
<1>7. InsertsLeft'
  <2> SUFFICES ASSUME NEW u \in Times
               PROVE  rows[u] + Cardinality(Pending(u)') <= copies'[u]
    BY <1>1 DEF InsertsLeft
  <2>1. /\ rows[u] \in Int /\ copies[u] \in Int
        /\ Cardinality(Pending(u)) \in Nat /\ IsFiniteSet(Pending(u))
        /\ rows[u] + Cardinality(Pending(u)) <= copies[u]
    BY <1>5, PendingFacts, IngestionAssumption DEF IInv, InsertsLeft, TypeOK
  <2>2. CASE u = t
    <3>1. Pending(u)' = Pending(u) \cup {q}
      BY <1>1, <1>3, <2>2 DEF Pending
    <3>2. \/ Cardinality(Pending(u) \cup {q}) = Cardinality(Pending(u))
          \/ Cardinality(Pending(u) \cup {q}) = Cardinality(Pending(u)) + 1
      BY <2>1, FS_AddElement
    <3>3. Cardinality(Pending(u) \cup {q}) \in Nat
      BY <2>1, FS_AddElement, FS_CardinalityType
    <3>4. copies'[u] = copies[u] + 1
      BY <1>1, <2>2
    <3> QED BY <2>1, <3>1, <3>2, <3>3, <3>4
  <2>3. CASE u # t
    <3>1. Pending(u)' = Pending(u) /\ copies'[u] = copies[u]
      BY <1>1, <1>3, <2>3 DEF Pending
    <3> QED BY <2>1, <3>1
  <2> QED BY <2>2, <2>3
<1>8. RowsAreMeasured' /\ SamplesHaveNode' /\ AckedIsPersisted'
  BY <1>1 DEF IInv, RowsAreMeasured, SamplesHaveNode, AckedIsPersisted
<1> QED BY <1>4, <1>5, <1>6, <1>7, <1>8 DEF IInv

(* The registry row is written before the insert is tried. *)
LEMMA RecordSeenKeeps ==
  ASSUME IInv, NEW r \in requests, RecordSeen(r)
  PROVE  IInv'
<1> DEFINE q == [r EXCEPT !.pc = "insert"]
<1>1. /\ r \in Request /\ r.at \in Times /\ r.pc = "seen" /\ Passed(r)
      /\ requests' = (requests \ {r}) \cup {q} /\ registered' = TRUE
      /\ UNCHANGED <<series, copies, rows, results, acked>>
  BY DEF IInv, TypeOK, RecordSeen, Advance, Request
<1>2. q \in Request /\ q.at = r.at /\ q.pc = "insert"
  BY <1>1, Moved
<1> HIDE DEF q
<1>3. TypeOK'
  BY <1>1, <1>2 DEF IInv, TypeOK
<1>4. IsFiniteSet(requests')
  BY <1>1, StaysFinite DEF IInv
<1>5. \A p \in requests' : Passed(p)'
  BY <1>1, <1>2 DEF IInv, Passed
<1>6. InsertsLeft'
  <2>1. ASSUME NEW t \in Times
        PROVE  Cardinality(Pending(t)') <= Cardinality(Pending(t))
    <3>1. Cardinality(Pending(t)) \in Nat /\ IsFiniteSet(Pending(t))
      BY <1>4, PendingFacts DEF IInv
    <3>2. CASE r.at = t
      <4>1. Pending(t)' = (Pending(t) \ {r}) \cup {q} /\ r \in Pending(t)
        BY <1>1, <1>2, <3>2 DEF Pending
      <4>2. /\ IsFiniteSet(Pending(t) \ {r})
            /\ Cardinality(Pending(t) \ {r}) = Cardinality(Pending(t)) - 1
        BY <3>1, <4>1, FS_RemoveElement
      <4>3. \/ Cardinality((Pending(t) \ {r}) \cup {q}) = Cardinality(Pending(t) \ {r})
            \/ Cardinality((Pending(t) \ {r}) \cup {q}) = Cardinality(Pending(t) \ {r}) + 1
        BY <4>2, FS_AddElement
      <4> QED BY <3>1, <4>1, <4>2, <4>3
    <3>3. CASE r.at # t
      <4>1. Pending(t)' = Pending(t)
        BY <1>1, <1>2, <3>3 DEF Pending
      <4> QED BY <3>1, <4>1
    <3> QED BY <3>2, <3>3
  <2> QED BY <1>1, <1>4, <2>1, CountsKept
<1>7. RowsAreMeasured' /\ SamplesHaveNode' /\ AckedIsPersisted'
  BY <1>1 DEF IInv, RowsAreMeasured, SamplesHaveNode, AckedIsPersisted
<1> QED BY <1>3, <1>4, <1>5, <1>6, <1>7 DEF IInv

(* The insert uses up the one this copy had left. *)
LEMMA BulkInsertKeeps ==
  ASSUME IInv, NEW r \in requests, BulkInsert(r)
  PROVE  IInv'
<1> DEFINE q == [r EXCEPT !.pc = "evaluate"]
<1>1. /\ r \in Request /\ r.at \in Times /\ r.pc = "insert" /\ Passed(r)
      /\ requests' = (requests \ {r}) \cup {q}
      /\ rows' = [rows EXCEPT ![r.at] = rows[r.at] + 1]
      /\ UNCHANGED <<series, copies, registered, results, acked>>
      /\ rows \in [Times -> 0..MaxCopies] /\ MaxCopies \in Nat
  BY IngestionAssumption DEF IInv, TypeOK, BulkInsert, Advance, Request
<1>2. q \in Request /\ q.at = r.at /\ q.pc = "evaluate"
  BY <1>1, Moved
<1> HIDE DEF q
<1>3. IsFiniteSet(requests')
  BY <1>1, StaysFinite DEF IInv
<1>4. /\ Cardinality(Pending(r.at)) \in Nat /\ IsFiniteSet(Pending(r.at))
      /\ rows[r.at] \in Nat /\ copies[r.at] \in 0..MaxCopies
      /\ rows[r.at] + Cardinality(Pending(r.at)) <= copies[r.at]
  BY <1>1, <1>3, PendingFacts DEF IInv, InsertsLeft, TypeOK
<1>5. Pending(r.at)' = Pending(r.at) \ {r} /\ r \in Pending(r.at)
  BY <1>1, <1>2 DEF Pending
<1>6. Cardinality(Pending(r.at)') = Cardinality(Pending(r.at)) - 1
  BY <1>4, <1>5, FS_RemoveElement
<1>7. rows[r.at] + 1 \in 0..MaxCopies
  <2>1. Cardinality(Pending(r.at)') \in Nat
    BY <1>3, PendingFacts DEF IInv
  <2> QED BY <1>1, <1>4, <1>6, <2>1
<1>8. rows' \in [Times -> 0..MaxCopies]
  BY <1>1, <1>7
<1>9. \A t \in Times : rows[t] > 0 => rows'[t] > 0
  BY <1>1, <1>4
<1>10. TypeOK'
  BY <1>1, <1>2, <1>8 DEF IInv, TypeOK
<1>11. \A p \in requests' : Passed(p)'
  <2>1. rows'[r.at] > 0
    BY <1>1, <1>4
  <2>2. \A p \in requests : p.at \in Times
    BY DEF IInv, TypeOK, Request
  <2> QED BY <1>1, <1>2, <1>9, <2>1, <2>2 DEF IInv, Passed
<1>12. InsertsLeft'
  <2> SUFFICES ASSUME NEW t \in Times PROVE rows'[t] + Cardinality(Pending(t)') <= copies[t]
    BY <1>1 DEF InsertsLeft
  <2>1. CASE t = r.at
    <3>1. rows'[t] = rows[t] + 1 /\ copies[t] \in Int
      BY <1>1, <1>4, <2>1
    <3> QED BY <1>4, <1>6, <2>1, <3>1
  <2>2. CASE t # r.at
    <3>1. Pending(t)' = Pending(t) /\ rows'[t] = rows[t]
      BY <1>1, <1>2, <2>2 DEF Pending
    <3> QED BY <3>1 DEF IInv, InsertsLeft
  <2> QED BY <2>1, <2>2
<1>13. RowsAreMeasured'
  BY <1>1 DEF IInv, RowsAreMeasured, Passed
<1>14. SamplesHaveNode'
  BY <1>1 DEF Passed, SamplesHaveNode
<1>15. AckedIsPersisted'
  BY <1>1, <1>9 DEF IInv, TypeOK, AckedIsPersisted
<1> QED BY <1>3, <1>10, <1>11, <1>12, <1>13, <1>14, <1>15 DEF IInv

(* A request that goes on past the insert, or ends, changes no table. *)
LEMMA TablesStand ==
  ASSUME IInv, NEW r, NEW q, q.pc = "answer",
         requests' \subseteq (requests \ {r}) \cup {q},
         UNCHANGED <<series, copies, registered, rows>>
  PROVE  IsFiniteSet(requests') /\ InsertsLeft' /\ RowsAreMeasured' /\ SamplesHaveNode'
<1>1. IsFiniteSet(requests')
  BY StaysFinite DEF IInv
<1>2. \A t \in Times : Pending(t)' \subseteq Pending(t)
  BY DEF Pending
<1>3. InsertsLeft'
  BY <1>1, <1>2, PendingFacts, CountsKept DEF IInv
<1> QED BY <1>1, <1>3 DEF IInv, RowsAreMeasured, SamplesHaveNode

(* What the rules say is a result. *)
LEMMA RuleResult ==
  ASSUME NEW t \in Times
  PROVE  EvaluateRules(t) \in Result
<1>1. \A v, b : Breach(v, b) \in Verdict
  BY DEF Breach, Verdict
<1>2. EvaluateThreshold(t) \in Verdict /\ EvaluateRateOfChange(t) \in Verdict \cup {None}
  BY <1>1 DEF EvaluateThreshold, EvaluateRateOfChange
<1> QED BY <1>2 DEF EvaluateRules, Result

(* Every step keeps the inductive invariant. *)
LEMMA NextIInv == IInv /\ [Next]_vars => IInv'
<1> SUFFICES ASSUME IInv, [Next]_vars PROVE IInv'
  OBVIOUS
<1>1. ASSUME NEW t \in Times, NEW v \in Values, Collect(t, v) PROVE IInv'
  BY <1>1, CollectKeeps
<1>2. ASSUME NEW t \in Times, Send(t) PROVE IInv'
  BY <1>2, SendKeeps
<1>3. ASSUME NEW r \in requests, RecordSeen(r) PROVE IInv'
  BY <1>3, RecordSeenKeeps
<1>4. ASSUME NEW r \in requests, BulkInsert(r) PROVE IInv'
  BY <1>4, BulkInsertKeeps
<1>5. ASSUME NEW r \in requests, Evaluate(r) PROVE IInv'
  <2> DEFINE q == [r EXCEPT !.pc = "answer"]
  <2>1. /\ r \in Request /\ r.at \in Times /\ r.pc = "evaluate" /\ Passed(r)
        /\ requests' = (requests \ {r}) \cup {q}
        /\ UNCHANGED <<series, copies, registered, rows, acked>>
    BY <1>5 DEF IInv, TypeOK, Evaluate, Advance, Request
  <2>2. q \in Request /\ q.at = r.at /\ q.pc = "answer"
    BY <2>1, Moved
  <2> HIDE DEF q
  <2>3. results' \in [Times -> SUBSET Result]
    <3>1. EvaluateRules(r.at) \in Result /\ results \in [Times -> SUBSET Result]
      BY <2>1, RuleResult DEF IInv, TypeOK
    <3> QED BY <1>5, <2>1, <3>1 DEF Evaluate
  <2>4. TypeOK'
    BY <2>1, <2>2, <2>3 DEF IInv, TypeOK
  <2>5. \A p \in requests' : Passed(p)'
    BY <2>1, <2>2 DEF IInv, Passed
  <2>6. IsFiniteSet(requests') /\ InsertsLeft' /\ RowsAreMeasured' /\ SamplesHaveNode'
    BY <2>1, <2>2, TablesStand
  <2>7. AckedIsPersisted'
    BY <2>1 DEF IInv, AckedIsPersisted
  <2> QED BY <2>4, <2>5, <2>6, <2>7 DEF IInv
<1>6. ASSUME NEW r \in requests, Answer(r) \/ Fail(r) PROVE IInv'
  <2>1. /\ r \in Request /\ r.at \in Times /\ Passed(r)
        /\ requests' = requests \ {r}
        /\ UNCHANGED <<series, copies, registered, rows, results>>
        /\ \/ acked' = acked
           \/ acked' = acked \cup {r.at} /\ r.pc = "answer"
    BY <1>6 DEF IInv, TypeOK, Answer, Fail, Request
  <2>2. TypeOK'
    BY <2>1 DEF IInv, TypeOK
  <2>3. \A p \in requests' : Passed(p)'
    BY <2>1 DEF IInv, Passed
  <2>4. IsFiniteSet(requests') /\ InsertsLeft' /\ RowsAreMeasured' /\ SamplesHaveNode'
    <3> DEFINE q == [pc |-> "answer"]
    <3>1. q.pc = "answer" /\ requests' \subseteq (requests \ {r}) \cup {q}
      BY <2>1
    <3> HIDE DEF q
    <3> QED BY <2>1, <3>1, TablesStand
  <2>5. AckedIsPersisted'
    BY <2>1 DEF IInv, AckedIsPersisted, Passed
  <2> QED BY <2>2, <2>3, <2>4, <2>5 DEF IInv
<1>7. CASE UNCHANGED vars
  <2>1. /\ UNCHANGED <<series, copies, registered, rows, requests, results, acked>>
    BY <1>7 DEF vars
  <2>2. TypeOK' /\ IsFiniteSet(requests') /\ \A r \in requests' : Passed(r)'
    BY <2>1 DEF IInv, TypeOK, Passed
  <2>3. InsertsLeft' /\ RowsAreMeasured' /\ SamplesHaveNode' /\ AckedIsPersisted'
    BY <2>1 DEF IInv, InsertsLeft, Pending, RowsAreMeasured, SamplesHaveNode, AckedIsPersisted
  <2> QED BY <2>2, <2>3 DEF IInv
<1> QED BY <1>1, <1>2, <1>3, <1>4, <1>5, <1>6, <1>7 DEF Next

(* The inductive invariant holds in every reachable state. *)
THEOREM Inductive == Spec => []IInv
<1>1. Init => IInv
  BY InitIInv
<1>2. IInv /\ [Next]_vars => IInv'
  BY NextIInv
<1> QED BY <1>1, <1>2, PTL DEF Spec

(* The node's row precedes its first sample, for any number of overlapping  *)
(* and failing first requests (MetricsIngestionService.ingest).             *)
THEOREM NodeComesFirst == Spec => []SamplesHaveNode
<1>1. IInv => SamplesHaveNode
  BY DEF IInv
<1> QED BY <1>1, Inductive, PTL

(* What was answered with an Ack is in the table (ingest's bulk_insert).    *)
THEOREM AckIsAPromise == Spec => []AckedIsPersisted
<1>1. IInv => AckedIsPersisted
  BY DEF IInv
<1> QED BY <1>1, Inductive, PTL

-----------------------------------------------------------------------------
(* With everything before it persisted, the table's window before t is the  *)
(* Agent's own.                                                             *)
LEMMA WindowIsPrior ==
  ASSUME IInv, NEW t \in Times, \A u \in Prior(t) : rows[u] > 0
  PROVE  InWindow(t) = Prior(t)
BY DEF IInv, RowsAreMeasured, InWindow, Prior

(* The rate-of-change rule then compares with the Agent's last measurement. *)
LEMMA RateIsTrue ==
  ASSUME IInv, NEW t \in Times, \A u \in Prior(t) : rows[u] > 0
  PROVE  EvaluateRateOfChange(t) = TrueRate(t)
<1>1. InWindow(t) = Prior(t)
  BY WindowIsPrior
<1>2. CASE Prior(t) = {}
  BY <1>1, <1>2 DEF EvaluateRateOfChange, FindPreviousSample, TrueRate
<1>3. CASE Prior(t) # {}
  <2> DEFINE last == CHOOSE u \in Prior(t) : \A w \in Prior(t) : w <= u
  <2>1. Prior(t) \in SUBSET Nat /\ t \in Nat /\ \A u \in Prior(t) : u <= t
    <3>1. Times \subseteq Nat
      BY IngestionAssumption
    <3>2. \A u \in Prior(t) : u \in Times /\ u < t
      BY DEF Prior
    <3>3. \A m, n \in Nat : m < n => m <= n
      OBVIOUS
    <3>4. t \in Nat /\ \A u \in Prior(t) : u \in Nat
      BY <3>1, <3>2
    <3>5. \A u \in Prior(t) : u <= t
      BY <3>2, <3>3, <3>4
    <3> QED BY <3>4, <3>5
  <2>2. \E u \in Prior(t) : \A w \in Prior(t) : w <= u
    BY <1>3, <2>1, Latest
  <2>3. last \in Prior(t)
    BY <2>2
  <2>4. FindPreviousSample(t) = series[last]
    BY <1>1, <1>3 DEF FindPreviousSample
  <2>5. TrueRate(t) = Breach(series[t] - series[last], MaxDelta)
    BY <1>3 DEF TrueRate
  <2> HIDE DEF last
  <2>6. series[last] # None
    BY <2>3 DEF Prior
  <2> QED BY <2>4, <2>5, <2>6 DEF EvaluateRateOfChange
<1> QED BY <1>2, <1>3

(* Once the measurements before a payload are persisted, every evaluation   *)
(* of every copy of it says what the Agent's series says, whatever else is  *)
(* in the table (find_previous_sample, _evaluate_rate_of_change).           *)
THEOREM VerdictsAreTrue == Spec => VerdictIsTrue
<1> DEFINE Step ==
      \A t \in Times : (\A u \in Prior(t) : rows[u] > 0) =>
        \A res \in results'[t] \ results[t] : res.rate = TrueRate(t)
<1>1. IInv /\ [Next]_vars => [Step]_vars
  <2> SUFFICES ASSUME IInv, [Next]_vars, NEW t \in Times, \A u \in Prior(t) : rows[u] > 0,
                      NEW res \in results'[t] \ results[t]
               PROVE  res.rate = TrueRate(t)
    OBVIOUS
  <2>1. results' # results
    OBVIOUS
  <2>2. PICK r \in requests : Evaluate(r)
    BY <2>1 DEF Next, Collect, Send, RecordSeen, BulkInsert, Answer, Fail, vars
  <2>3. r.at = t /\ res = EvaluateRules(t)
    BY <2>1, <2>2 DEF IInv, TypeOK, Evaluate
  <2>4. res.rate = EvaluateRateOfChange(t)
    BY <2>3 DEF EvaluateRules
  <2> QED BY <2>4, RateIsTrue
<1> QED BY <1>1, Inductive, PTL DEF Spec, VerdictIsTrue

=============================================================================
