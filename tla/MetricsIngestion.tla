-------------------------- MODULE MetricsIngestion --------------------------
(***************************************************************************)
(* MetricsIngestionService.ingest for one node and one metric: the node    *)
(* registry row, the sample insert and the evaluation of the threshold and *)
(* the rate-of-change rule, three transactions in this order.              *)
(*                                                                         *)
(* The Agent numbers its payloads by collected_at.  It sends one again     *)
(* when no answer came (so a payload may be persisted twice, and its two   *)
(* requests may overlap) and sends buffered ones late (so samples arrive   *)
(* out of order).  What each rule said of each payload is compared with    *)
(* what the Agent's own series of measurements says.                       *)
(***************************************************************************)
EXTENDS Integers, FiniteSets

CONSTANTS
  Times,           \* the values of collected_at
  Values,          \* the values of the metric
  Comparison,      \* "gt", "gte", "lt" or "lte"
  Threshold, MaxDelta, Window,
  MaxCopies,       \* bounds how often a payload is sent
  MaxInFlight,     \* bounds the requests the Collector is serving at a time
  None

ASSUME IngestionAssumption ==
  /\ Times \subseteq Nat /\ Values \subseteq Int
  /\ Comparison \in {"gt", "gte", "lt", "lte"}
  /\ Threshold \in Int /\ MaxDelta \in Int /\ Window \in Nat
  /\ MaxCopies \in Nat \ {0} /\ MaxInFlight \in Nat \ {0}
  /\ None \notin Values

VARIABLES
  series,      \* what the Agent measured at each time, None if not yet
  copies,      \* how many requests were sent for the payload of each time
  registered,  \* the node has a row in nodes
  rows,        \* how many rows metric_samples holds for each collected_at
  requests,    \* ingestion requests in flight
  results,     \* what the rules said of each payload, once per evaluation
  acked        \* payloads answered with an Ack

vars == <<series, copies, registered, rows, requests, results, acked>>

Request ==
  [at : Times, copy : 1..MaxCopies, pc : {"seen", "insert", "evaluate", "answer"}]

Verdict == {"breached", "clear"}
Result == [threshold : Verdict, rate : Verdict \cup {None}]

Init ==
  /\ series = [t \in Times |-> None]
  /\ copies = [t \in Times |-> 0]
  /\ registered = FALSE
  /\ rows = [t \in Times |-> 0]
  /\ requests = {}
  /\ results = [t \in Times |-> {}]
  /\ acked = {}

-----------------------------------------------------------------------------
(* The rule engine *)

EvaluateComparison(value, bound) ==
  CASE Comparison = "gt"  -> value > bound
    [] Comparison = "gte" -> value >= bound
    [] Comparison = "lt"  -> value < bound
    [] Comparison = "lte" -> value <= bound

(* Mutant: the payload's own samples are in the window. *)
InWindowInclusive(before) ==
  {t \in Times : rows[t] > 0 /\ t <= before /\ t >= before - Window}

(* The persisted samples in [before - window, before). *)
InWindow(before) ==
  {t \in Times : rows[t] > 0 /\ t < before /\ t >= before - Window}

(* order_by(collected_at.desc()).limit(1) *)
FindPreviousSample(before) ==
  IF InWindow(before) = {} THEN None
  ELSE series[CHOOSE t \in InWindow(before) : \A u \in InWindow(before) : u <= t]

Breach(value, bound) == IF EvaluateComparison(value, bound) THEN "breached" ELSE "clear"

EvaluateThreshold(t) == Breach(series[t], Threshold)

(* No result at all when there is nothing to compare with. *)
EvaluateRateOfChange(t) ==
  LET previous == FindPreviousSample(t) IN
    IF previous = None THEN None ELSE Breach(series[t] - previous, MaxDelta)

EvaluateRules(t) ==
  [threshold |-> EvaluateThreshold(t), rate |-> EvaluateRateOfChange(t)]

-----------------------------------------------------------------------------
(* The Agent *)

Collect(t, v) ==
  /\ series[t] = None
  /\ \A u \in Times : u < t => series[u] # None
  /\ series' = [series EXCEPT ![t] = v]
  /\ UNCHANGED <<copies, registered, rows, requests, results, acked>>

(* A first attempt, a retry or a redelivery. *)
Send(t) ==
  /\ series[t] # None
  /\ t \notin acked
  /\ copies[t] < MaxCopies /\ Cardinality(requests) < MaxInFlight
  /\ copies' = [copies EXCEPT ![t] = @ + 1]
  /\ requests' = requests \cup {[at |-> t, copy |-> copies[t] + 1, pc |-> "seen"]}
  /\ UNCHANGED <<series, registered, rows, results, acked>>

-----------------------------------------------------------------------------
(* The Collector *)

Advance(r, pc) == requests' = (requests \ {r}) \cup {[r EXCEPT !.pc = pc]}

(* Mutant: a registry failure is swallowed. *)
RecordSeenBestEffort(r) ==
  /\ r.pc = "seen"
  /\ registered' \in {registered, TRUE}
  /\ Advance(r, "insert")
  /\ UNCHANGED <<series, copies, rows, results, acked>>

RecordSeen(r) ==
  /\ r.pc = "seen"
  /\ registered' = TRUE
  /\ Advance(r, "insert")
  /\ UNCHANGED <<series, copies, rows, results, acked>>

(* Mutant: a failed insert is swallowed. *)
BulkInsertBestEffort(r) ==
  /\ r.pc = "insert"
  /\ rows' \in {rows, [rows EXCEPT ![r.at] = @ + 1]}
  /\ Advance(r, "evaluate")
  /\ UNCHANGED <<series, copies, registered, results, acked>>

BulkInsert(r) ==
  /\ r.pc = "insert"
  /\ rows' = [rows EXCEPT ![r.at] = @ + 1]
  /\ Advance(r, "evaluate")
  /\ UNCHANGED <<series, copies, registered, results, acked>>

(* The results go on to the alert lifecycle; an exception is swallowed. *)
Evaluate(r) ==
  /\ r.pc = "evaluate"
  /\ \/ results' = [results EXCEPT ![r.at] = @ \cup {EvaluateRules(r.at)}]
     \/ UNCHANGED results
  /\ Advance(r, "answer")
  /\ UNCHANGED <<series, copies, registered, rows, acked>>

Answer(r) ==
  /\ r.pc = "answer"
  /\ requests' = requests \ {r}
  /\ acked' = acked \cup {r.at}
  /\ UNCHANGED <<series, copies, registered, rows, results>>

(* A transaction fails and is answered 503, or the answer never arrives. *)
Fail(r) ==
  /\ requests' = requests \ {r}
  /\ UNCHANGED <<series, copies, registered, rows, results, acked>>

Next ==
  \/ \E t \in Times, v \in Values : Collect(t, v)
  \/ \E t \in Times : Send(t)
  \/ \E r \in requests : RecordSeen(r) \/ BulkInsert(r) \/ Evaluate(r) \/ Answer(r) \/ Fail(r)

Spec == Init /\ [][Next]_vars

-----------------------------------------------------------------------------
(* Properties *)

(* The series, the tables and the requests keep their types. *)
TypeOK ==
  /\ series \in [Times -> Values \cup {None}]
  /\ copies \in [Times -> 0..MaxCopies]
  /\ registered \in BOOLEAN
  /\ rows \in [Times -> 0..MaxCopies]
  /\ requests \subseteq Request
  /\ results \in [Times -> SUBSET Result]
  /\ acked \subseteq Times

(* metric_samples.node_id refers to nodes: the node's row is there before   *)
(* its first sample, also when requests of a new node overlap or fail.      *)
SamplesHaveNode == (\E t \in Times : rows[t] > 0) => registered

(* An Ack is a promise: the Agent forgets the payload, so its samples are   *)
(* in the table.                                                            *)
AckedIsPersisted == \A t \in acked : rows[t] > 0

(* The Agent's measurements in the window before t. *)
Prior(t) == {u \in Times : u < t /\ u >= t - Window /\ series[u] # None}

TrueRate(t) ==
  IF Prior(t) = {} THEN None
  ELSE LET last == CHOOSE u \in Prior(t) : \A w \in Prior(t) : w <= u IN
         Breach(series[t] - series[last], MaxDelta)

(* A payload's own samples are in the table when it is evaluated, twice if  *)
(* it was sent twice, and later payloads' may be too: none of them counts.  *)
(* Once the measurements before it are persisted, the rules say of every    *)
(* copy what the Agent's own series says.                                   *)
VerdictIsTrue ==
  [][\A t \in Times : (\A u \in Prior(t) : rows[u] > 0) =>
       \A res \in results'[t] \ results[t] : res.rate = TrueRate(t)]_vars
=============================================================================
