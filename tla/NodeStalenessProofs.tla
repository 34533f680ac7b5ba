------------------------ MODULE NodeStalenessProofs -------------------------
(***************************************************************************)
(* Proofs about NodeStaleness, for any nodes, any staleness window and any *)
(* number of restarts and failing sweeps.                                  *)
(*                                                                         *)
(* The registry row of a node is what a sweep judges it by.  SeenIsHeard   *)
(* says when that row tells the truth, SweepReads carries it over from     *)
(* the sweep's one query to the node it reaches last, whatever is received *)
(* in between.                                                             *)
(***************************************************************************)
EXTENDS NodeStaleness, TLAPS

(* Unless its last payload was a buffered one, the row of a node has the    *)
(* time the Collector received it.                                          *)
SeenIsHeard == \A n \in Nodes : n \notin late => lastSeen[n] = heard[n]

(* A node without a row has no alert. *)
UnknownIsQuiet == \A n \in Nodes : lastSeen[n] = Unknown => firing[n] = 0

(* What the sweep read was true when it read it, and the alerts of the      *)
(* nodes it has passed agree with what it read.                             *)
SweepReads ==
  sweep # NoSweep =>
    \A n \in Nodes :
      /\ n \notin sweep.late => sweep.seen[n] = sweep.heard[n]
      /\ n \in sweep.todo => lastSeen[n] # Unknown
      /\ n \notin sweep.todo /\ firing[n] > 0 => Stale(sweep.seen[n], sweep.at)

(* The type of the running sweep. *)
Sweep == [at : Times \cup {Unknown}, seen : [Nodes -> Times \cup {Unknown}],
          todo : SUBSET Nodes, heard : [Nodes -> Times \cup {Unknown}],
          late : SUBSET Nodes]

IInv ==
  /\ TypeOK
  /\ OneStalenessAlert
  /\ SeenIsHeard
  /\ UnknownIsQuiet
  /\ SweepReads

-----------------------------------------------------------------------------
(* The values of a clock, before and after the first sighting. *)
LEMMA Clock == /\ Unknown \in Int /\ Unknown \notin Times
               /\ Times \subseteq Nat /\ 0 \in Times
<1>1. Times = {x \in Nat : x <= MaxTime} /\ MaxTime \in Nat
  BY StalenessAssumption DEF Times
<1> QED BY <1>1 DEF Unknown

(* No sweep is under way. *)
LEMMA NoSweepFacts == NoSweep \in Sweep
BY DEF NoSweep, Sweep

(* What TypeOK says of each variable. *)
LEMMA Types ==
  ASSUME IInv
  PROVE  /\ now \in Times /\ lastSeen \in [Nodes -> Times \cup {Unknown}]
         /\ heard \in [Nodes -> Times \cup {Unknown}] /\ late \in SUBSET Nodes
         /\ backlog \in [Nodes -> SUBSET Times] /\ firing \in [Nodes -> Nat]
         /\ sweep \in Sweep /\ firstRunDone \in BOOLEAN
         /\ faults \in [sweeps : 0..MaxFailures, restarts : 0..MaxRestarts]
BY DEF IInv, TypeOK, Sweep

(* The initial state satisfies the inductive invariant. *)
LEMMA InitIInv == Init => IInv
<1> SUFFICES ASSUME Init PROVE IInv
  OBVIOUS
<1>1. TypeOK
  <2>1. 0 \in 0..MaxFailures /\ 0 \in 0..MaxRestarts
    BY StalenessAssumption
  <2> QED BY <2>1, Clock, NoSweepFacts DEF Init, TypeOK, Sweep
<1>2. OneStalenessAlert /\ SeenIsHeard /\ UnknownIsQuiet
  BY DEF Init, OneStalenessAlert, SeenIsHeard, UnknownIsQuiet
<1>3. SweepReads
  BY DEF Init, SweepReads
<1> QED BY <1>1, <1>2, <1>3 DEF IInv

(* A node is recorded as seen: now by what arrives as it is sent, at any    *)
(* time by a buffered payload.  A sweep under way keeps what it read.       *)
LEMMA RecordSeenKeeps ==
  ASSUME IInv, NEW n \in Nodes, NEW seenAt \in Times, RecordSeen(n, seenAt),
         late' \in SUBSET Nodes, \A m \in Nodes : m \notin late' => m \notin late \/ m = n,
         n \notin late' => seenAt = now,
         backlog' \in [Nodes -> SUBSET Times],
         UNCHANGED <<now, firing, sweep, firstRunDone, faults>>
  PROVE  IInv'
<1>0. /\ now \in Times /\ lastSeen \in [Nodes -> Times \cup {Unknown}]
      /\ heard \in [Nodes -> Times \cup {Unknown}]
  BY Types
<1>1. /\ lastSeen' = [lastSeen EXCEPT ![n] = seenAt] /\ heard' = [heard EXCEPT ![n] = now]
  BY DEF RecordSeen
<1>2. TypeOK'
  BY <1>0, <1>1 DEF IInv, TypeOK
<1>3. SeenIsHeard'
  BY <1>0, <1>1 DEF IInv, SeenIsHeard
<1>4. UnknownIsQuiet'
  BY <1>0, <1>1, Clock DEF IInv, UnknownIsQuiet
<1>5. OneStalenessAlert'
  BY DEF IInv, OneStalenessAlert
<1>6. SweepReads'
  BY <1>0, <1>1, Clock DEF IInv, SweepReads
<1> QED BY <1>2, <1>3, <1>4, <1>5, <1>6 DEF IInv

(* One node of a sweep: its alert opens, stays or is resolved. *)
LEMMA SweepNodeKeeps ==
  ASSUME IInv, NEW n \in Nodes, SweepNode(n)
  PROVE  IInv'
<1>0. /\ firing \in [Nodes -> Nat] /\ firing[n] <= 1 /\ sweep \in Sweep
      /\ lastSeen \in [Nodes -> Times \cup {Unknown}] /\ n \in sweep.todo
  BY Types DEF IInv, OneStalenessAlert, SweepNode
<1>1. /\ sweep'.at = sweep.at /\ sweep'.seen = sweep.seen
      /\ sweep'.heard = sweep.heard /\ sweep'.late = sweep.late
      /\ sweep'.todo = sweep.todo \ {n} /\ sweep' \in Sweep
      /\ UNCHANGED <<now, lastSeen, heard, late, backlog, firstRunDone, faults>>
  BY <1>0 DEF SweepNode, Sweep
<1>2. /\ firing' = [firing EXCEPT ![n] = firing'[n]]
      /\ firing'[n] \in {0, 1}
      /\ firing'[n] > 0 => Stale(sweep.seen[n], sweep.at)
  <2>1. firing[n] = 0 \/ firing[n] = 1
    BY <1>0
  <2> QED BY <1>0, <2>1 DEF SweepNode
<1>3. \A m \in Nodes : m # n => firing'[m] = firing[m]
  BY <1>0, <1>2
<1>4. TypeOK'
  BY <1>0, <1>1, <1>2 DEF IInv, TypeOK, Sweep
<1>5. OneStalenessAlert'
  BY <1>2, <1>3 DEF IInv, OneStalenessAlert
<1>6. sweep # NoSweep
  BY <1>0 DEF NoSweep
<1>7. SeenIsHeard'
  BY <1>1 DEF IInv, SeenIsHeard
<1>8. UnknownIsQuiet'
  BY <1>0, <1>1, <1>3, <1>6 DEF IInv, UnknownIsQuiet, SweepReads
<1>9. SweepReads'
  <2> SUFFICES ASSUME NEW m \in Nodes
               PROVE  /\ m \notin sweep'.late => sweep'.seen[m] = sweep'.heard[m]
                      /\ m \in sweep'.todo => lastSeen'[m] # Unknown
                      /\ m \notin sweep'.todo /\ firing'[m] > 0
                           => Stale(sweep'.seen[m], sweep'.at)
    BY DEF SweepReads
  <2> QED BY <1>0, <1>1, <1>2, <1>3, <1>6 DEF IInv, SweepReads
<1> QED BY <1>4, <1>5, <1>7, <1>8, <1>9 DEF IInv

(* Every step keeps the inductive invariant. *)
LEMMA NextIInv == IInv /\ [Next]_vars => IInv'
<1> SUFFICES ASSUME IInv, [Next]_vars PROVE IInv'
  OBVIOUS
<1>0. /\ TypeOK /\ now \in Times /\ lastSeen \in [Nodes -> Times \cup {Unknown}]
      /\ heard \in [Nodes -> Times \cup {Unknown}] /\ late \in SUBSET Nodes
      /\ backlog \in [Nodes -> SUBSET Times]
  BY Types DEF IInv
<1>1. CASE Tick
  <2>1. /\ now' \in Times
        /\ UNCHANGED <<lastSeen, heard, late, backlog, firing, sweep, firstRunDone, faults>>
    BY <1>0, <1>1, StalenessAssumption DEF Tick, Times
  <2> QED BY <1>0, <2>1
          DEF IInv, TypeOK, OneStalenessAlert, SeenIsHeard, UnknownIsQuiet, SweepReads
<1>2. ASSUME NEW n \in Nodes, Push(n) PROVE IInv'
  <2>1. /\ RecordSeen(n, now) /\ late' = late \ {n} /\ backlog' \in [Nodes -> SUBSET Times]
        /\ UNCHANGED <<now, firing, sweep, firstRunDone, faults>>
    BY <1>0, <1>2 DEF Push
  <2> QED BY <1>0, <2>1, RecordSeenKeeps
<1>3. ASSUME NEW n \in Nodes, BufferPayload(n) PROVE IInv'
  <2>1. /\ backlog' = [backlog EXCEPT ![n] = backlog[n] \cup {now}]
        /\ UNCHANGED <<now, lastSeen, heard, late, firing, sweep, firstRunDone, faults>>
    BY <1>3 DEF BufferPayload
  <2>2. TypeOK'
    BY <1>0, <2>1 DEF TypeOK
  <2> QED BY <2>1, <2>2
          DEF IInv, OneStalenessAlert, SeenIsHeard, UnknownIsQuiet, SweepReads
<1>4. ASSUME NEW n \in Nodes, NEW t \in Times, Redeliver(n, t) PROVE IInv'
  <2>1. /\ RecordSeen(n, t) /\ late' = late \cup {n} /\ backlog' \in [Nodes -> SUBSET Times]
        /\ UNCHANGED <<now, firing, sweep, firstRunDone, faults>>
    BY <1>0, <1>4 DEF Redeliver
  <2> QED BY <1>0, <2>1, RecordSeenKeeps
<1>5. CASE StartSweep
  <2>1. /\ sweep'.at = now /\ sweep'.seen = lastSeen
        /\ sweep'.heard = heard /\ sweep'.late = late
        /\ sweep'.todo = {n \in Nodes : lastSeen[n] # Unknown} /\ sweep' \in Sweep
        /\ UNCHANGED <<now, lastSeen, heard, late, backlog, firing, firstRunDone, faults>>
    BY <1>0, <1>5 DEF StartSweep, Sweep
  <2>2. TypeOK'
    BY <1>0, <2>1 DEF TypeOK, Sweep
  <2>3. SweepReads'
    BY <1>0, <2>1 DEF IInv, SeenIsHeard, UnknownIsQuiet, SweepReads
  <2> QED BY <2>1, <2>2, <2>3 DEF IInv, OneStalenessAlert, SeenIsHeard, UnknownIsQuiet
<1>6. ASSUME NEW n \in Nodes, SweepNode(n) PROVE IInv'
  BY <1>6, SweepNodeKeeps
<1>7. CASE EndSweep \/ FailSweep \/ Restart
  <2>1. /\ sweep' = NoSweep /\ UNCHANGED <<now, lastSeen, heard, late, backlog, firing>>
        /\ firstRunDone' \in BOOLEAN
    BY <1>0, <1>7 DEF EndSweep, FailSweep, Restart, TypeOK
  <2>2. faults' \in [sweeps : 0..MaxFailures, restarts : 0..MaxRestarts]
    BY <1>0, <1>7, StalenessAssumption DEF EndSweep, FailSweep, Restart, TypeOK
  <2>3. TypeOK'
    BY <1>0, <2>1, <2>2, NoSweepFacts DEF TypeOK, Sweep
  <2> QED BY <2>1, <2>3 DEF IInv, OneStalenessAlert, SeenIsHeard, UnknownIsQuiet, SweepReads
<1>8. CASE UNCHANGED vars
  BY <1>8
  DEF vars, IInv, TypeOK, OneStalenessAlert, SeenIsHeard, UnknownIsQuiet, SweepReads
<1> QED BY <1>1, <1>2, <1>3, <1>4, <1>5, <1>6, <1>7, <1>8 DEF Next

-----------------------------------------------------------------------------
(* The inductive invariant holds in every reachable state. *)
THEOREM Inductive == Spec => []IInv
<1>1. Init => IInv
  BY InitIInv
<1>2. IInv /\ [Next]_vars => IInv'
  BY NextIInv
<1> QED BY <1>1, <1>2, PTL DEF Spec

(* No node ever has two firing staleness alerts (StalenessJob.run with      *)
(* find_open_alert on one thread).                                          *)
THEOREM AtMostOneAlert == Spec => []OneStalenessAlert
<1>1. IInv => OneStalenessAlert
  BY DEF IInv
<1> QED BY <1>1, Inductive, PTL

(* No false alarm outlives a sweep: an alert that a sweep has passed and    *)
(* left firing means that the Collector had received nothing from the node  *)
(* for the whole window when the sweep read the registry, or a buffered     *)
(* payload last (upsert_seen takes a payload's collected_at).               *)
THEOREM AlertsHaveCause == Spec => []AlertHasCause
<1>1. IInv => AlertHasCause
  <2> SUFFICES ASSUME IInv, sweep # NoSweep, NEW n \in Nodes, n \notin sweep.todo,
                      firing[n] > 0, n \notin sweep.late
               PROVE  sweep.at - sweep.heard[n] >= StaleAfter
    BY DEF AlertHasCause
  <2>1. Stale(sweep.seen[n], sweep.at) /\ sweep.seen[n] = sweep.heard[n]
    BY DEF IInv, SweepReads
  <2> QED BY <2>1 DEF Stale
<1> QED BY <1>1, Inductive, PTL
=============================================================================
