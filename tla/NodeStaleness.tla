--------------------------- MODULE NodeStaleness ----------------------------
(***************************************************************************)
(* The dead-man switch: the node registry, which every push and heartbeat  *)
(* updates, and the StalenessJob, which sweeps it on the job scheduler's   *)
(* thread and opens or resolves one alert per node.                        *)
(*                                                                         *)
(* The sweep reads all nodes in one query and then works through them, so  *)
(* pushes land between the read and the alert it leads to.  A payload that *)
(* could not be delivered waits in its Agent's buffer with the time it was *)
(* collected at, and last_seen_at becomes that time when it arrives.       *)
(***************************************************************************)
EXTENDS Integers, FiniteSets

CONSTANTS
  Nodes,
  StaleAfter,       \* heartbeat_stale_after_seconds
  MaxTime,          \* bounds the clock
  MaxRestarts,      \* bounds the restarts of the Collector
  MaxFailures       \* bounds the sweeps that raise

ASSUME StalenessAssumption ==
  /\ StaleAfter \in Nat \ {0} /\ MaxTime \in Nat /\ MaxRestarts \in Nat
  /\ MaxFailures \in Nat

VARIABLES
  now,           \* one clock, the Collector's and the Agents'
  lastSeen,      \* nodes.last_seen_at, Unknown before the first sighting
  heard,         \* history: when the Collector last received anything from the node
  late,          \* history: the nodes it last received a buffered payload from
  backlog,       \* collected_at of the payloads in each Agent's buffer
  firing,        \* how many staleness alerts of the node are firing
  sweep,         \* the running sweep
  firstRunDone,  \* StalenessJob._first_run_done
  faults         \* how many sweeps failed, how many restarts there were

vars == <<now, lastSeen, heard, late, backlog, firing, sweep, firstRunDone, faults>>

Unknown == -1
Times == 0..MaxTime

(* heard and late are remembered with the sweep for AlertHasCause only.      *)
NoSweep == [at |-> Unknown, seen |-> [n \in Nodes |-> Unknown], todo |-> {},
            heard |-> [n \in Nodes |-> Unknown], late |-> {}]

Init ==
  /\ now = 0
  /\ lastSeen = [n \in Nodes |-> Unknown]
  /\ heard = [n \in Nodes |-> Unknown]
  /\ late = {}
  /\ backlog = [n \in Nodes |-> {}]
  /\ firing = [n \in Nodes |-> 0]
  /\ sweep = NoSweep
  /\ firstRunDone = FALSE
  /\ faults = [sweeps |-> 0, restarts |-> 0]

-----------------------------------------------------------------------------
Tick ==
  /\ now < MaxTime
  /\ now' = now + 1
  /\ UNCHANGED <<lastSeen, heard, late, backlog, firing, sweep, firstRunDone, faults>>

(* Mutant: a row that is there keeps its last_seen_at. *)
RecordFirstSeen(n, seenAt) ==
  /\ lastSeen' = [lastSeen EXCEPT ![n] = IF @ = Unknown THEN seenAt ELSE @]
  /\ heard' = [heard EXCEPT ![n] = now]

(* NodeRegistryService.record_seen; upsert_seen overwrites, it takes no     *)
(* maximum.                                                                 *)
RecordSeen(n, seenAt) ==
  /\ lastSeen' = [lastSeen EXCEPT ![n] = seenAt]
  /\ heard' = [heard EXCEPT ![n] = now]

(* A push or heartbeat that arrives when it is sent. *)
Push(n) ==
  /\ RecordSeen(n, now)
  /\ late' = late \ {n}
  /\ UNCHANGED <<now, backlog, firing, sweep, firstRunDone, faults>>

BufferPayload(n) ==
  /\ backlog' = [backlog EXCEPT ![n] = @ \cup {now}]
  /\ UNCHANGED <<now, lastSeen, heard, late, firing, sweep, firstRunDone, faults>>

Redeliver(n, t) ==
  /\ t \in backlog[n]
  /\ backlog' = [backlog EXCEPT ![n] = @ \ {t}]
  /\ RecordSeen(n, t)
  /\ late' = late \cup {n}
  /\ UNCHANGED <<now, firing, sweep, firstRunDone, faults>>

-----------------------------------------------------------------------------
(* StalenessJob.run *)

Stale(seenAt, at) == at - seenAt >= StaleAfter

StartSweep ==
  /\ sweep = NoSweep
  /\ sweep' = [at |-> now, seen |-> lastSeen,
               todo |-> {n \in Nodes : lastSeen[n] # Unknown},
               heard |-> heard, late |-> late]
  /\ UNCHANGED <<now, lastSeen, heard, late, backlog, firing, firstRunDone, faults>>

(* Mutant: an alert is opened at every stale sweep. *)
SweepReopens(n) ==
  /\ n \in sweep.todo
  /\ firing' = [firing EXCEPT ![n] =
       IF Stale(sweep.seen[n], sweep.at)
         THEN IF firstRunDone THEN @ + 1 ELSE @
         ELSE IF @ > 0 THEN @ - 1 ELSE @]
  /\ sweep' = [sweep EXCEPT !.todo = @ \ {n}]
  /\ UNCHANGED <<now, lastSeen, heard, late, backlog, firstRunDone, faults>>

(* Mutant: the recovery branch is missing. *)
SweepNeverResolves(n) ==
  /\ n \in sweep.todo
  /\ firing' = [firing EXCEPT ![n] =
       IF Stale(sweep.seen[n], sweep.at)
         THEN IF @ = 0 /\ firstRunDone THEN @ + 1 ELSE @
         ELSE @]
  /\ sweep' = [sweep EXCEPT !.todo = @ \ {n}]
  /\ UNCHANGED <<now, lastSeen, heard, late, backlog, firstRunDone, faults>>

(* One node of the sweep.  find_open_alert and the write are two            *)
(* transactions, but this thread alone writes alerts of this rule_key.      *)
SweepNode(n) ==
  /\ n \in sweep.todo
  /\ firing' = [firing EXCEPT ![n] =
       IF Stale(sweep.seen[n], sweep.at)
         THEN IF @ = 0 /\ firstRunDone THEN @ + 1 ELSE @
         ELSE IF @ > 0 THEN @ - 1 ELSE @]
  /\ sweep' = [sweep EXCEPT !.todo = @ \ {n}]
  /\ UNCHANGED <<now, lastSeen, heard, late, backlog, firstRunDone, faults>>

(* Mutant: the first run is never marked done. *)
EndSweepUnmarked ==
  /\ sweep # NoSweep /\ sweep.todo = {}
  /\ sweep' = NoSweep
  /\ UNCHANGED <<now, lastSeen, heard, late, backlog, firing, firstRunDone, faults>>

EndSweep ==
  /\ sweep # NoSweep /\ sweep.todo = {}
  /\ sweep' = NoSweep
  /\ firstRunDone' = TRUE
  /\ UNCHANGED <<now, lastSeen, heard, late, backlog, firing, faults>>

(* A repository call raises; _run_contained logs it and the next interval   *)
(* runs the job again.                                                      *)
FailSweep ==
  /\ sweep # NoSweep
  /\ faults.sweeps < MaxFailures
  /\ faults' = [faults EXCEPT !.sweeps = @ + 1]
  /\ sweep' = NoSweep
  /\ UNCHANGED <<now, lastSeen, heard, late, backlog, firing, firstRunDone>>

Restart ==
  /\ faults.restarts < MaxRestarts
  /\ faults' = [faults EXCEPT !.restarts = @ + 1]
  /\ sweep' = NoSweep
  /\ firstRunDone' = FALSE
  /\ UNCHANGED <<now, lastSeen, heard, late, backlog, firing>>

Next ==
  \/ Tick
  \/ \E n \in Nodes : Push(n) \/ BufferPayload(n)
  \/ \E n \in Nodes, t \in Times : Redeliver(n, t)
  \/ StartSweep \/ (\E n \in Nodes : SweepNode(n)) \/ EndSweep
  \/ FailSweep \/ Restart

Spec == Init /\ [][Next]_vars

(* Time passes and the job scheduler keeps running the job; after the last  *)
(* failure and the last restart its sweeps run to their end.                *)
FairSpec ==
  /\ Spec
  /\ WF_vars(Tick)
  /\ WF_vars(StartSweep \/ (\E n \in Nodes : SweepNode(n)) \/ EndSweep)

-----------------------------------------------------------------------------
(* Properties *)

(* The registry, the sweep and the counters keep their types. *)
TypeOK ==
  /\ now \in Times
  /\ lastSeen \in [Nodes -> Times \cup {Unknown}]
  /\ heard \in [Nodes -> Times \cup {Unknown}]
  /\ late \in SUBSET Nodes
  /\ backlog \in [Nodes -> SUBSET Times]
  /\ firing \in [Nodes -> Nat]
  /\ sweep \in [at : Times \cup {Unknown}, seen : [Nodes -> Times \cup {Unknown}],
                todo : SUBSET Nodes, heard : [Nodes -> Times \cup {Unknown}],
                late : SUBSET Nodes]
  /\ firstRunDone \in BOOLEAN
  /\ faults \in [sweeps : 0..MaxFailures, restarts : 0..MaxRestarts]

(* However often sweeps fail and the Collector restarts, a node never has   *)
(* two firing staleness alerts, so one recovery clears it.                  *)
OneStalenessAlert == \A n \in Nodes : firing[n] <= 1

Opens(n) == firing[n] = 0 /\ firing'[n] > 0

(* An alarm means silence: when an alert opens, the Collector had received  *)
(* nothing from the node for StaleAfter when the sweep began, or heard from *)
(* it only after that.  ADR 003: "last_seen_at is set from the Collector's  *)
(* own receipt time".                                                       *)
AlarmMeansSilence ==
  [][\A n \in Nodes : Opens(n) =>
       sweep.at - heard[n] >= StaleAfter \/ heard[n] >= sweep.at]_vars

(* No false alarm outlives a sweep.  Whatever an alert was opened on (a     *)
(* last_seen_at read before a push, or set back by a late payload), once a  *)
(* sweep has passed the node it still fires only if the Collector had       *)
(* received nothing from it for StaleAfter when that sweep read the         *)
(* registry, or had last received a buffered payload: one payload or        *)
(* heartbeat received as it was sent, and the next sweep, put it right.     *)
AlertHasCause ==
  sweep # NoSweep =>
    \A n \in Nodes \ sweep.todo :
      firing[n] > 0 => sweep.at - sweep.heard[n] >= StaleAfter \/ n \in sweep.late

(* A node that stays silent is eventually reported, across failing sweeps   *)
(* and restarts.                                                            *)
SilenceIsReported ==
  \A n \in Nodes :
    <>[](lastSeen[n] # Unknown /\ Stale(lastSeen[n], now)) => <>[](firing[n] = 1)

(* A node that is back and stays back has its alert resolved for good.      *)
RecoveryIsNoticed ==
  \A n \in Nodes : <>[](~Stale(lastSeen[n], now)) => <>[](firing[n] = 0)
=============================================================================
