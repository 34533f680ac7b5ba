--------------------------- MODULE AgentDelivery ----------------------------
(***************************************************************************)
(* The Agent's collection-and-delivery cycle: AgentScheduler.run_once over *)
(* the FileBuffer, with HttpTransport.send as one step whose outcome is    *)
(* what its retry policy ends in.                                          *)
(*                                                                         *)
(* A payload is its number in order of collection.  The buffer file is the *)
(* only state that survives the process; what was drained from it is held  *)
(* in memory until it is delivered or put back.                            *)
(***************************************************************************)
EXTENDS Integers, Sequences, SequencesExt

CONSTANTS
  MaxEntries,      \* buffer_max_entries
  DrainBatch,      \* DEFAULT_BUFFER_DRAIN_BATCH_SIZE
  MaxPayloads,     \* bounds how many payloads are collected
  Crashes,         \* TRUE: the process may be killed anywhere and is restarted
  MaxDiskFailures  \* bounds how often reading or writing the buffer file fails

ASSUME DeliveryAssumption ==
  /\ MaxEntries \in Nat \ {0} /\ DrainBatch \in Nat \ {0}
  /\ MaxPayloads \in Nat
  /\ Crashes \in BOOLEAN /\ MaxDiskFailures \in Nat

VARIABLES
  pc,          \* where run_once stands
  buffer,      \* the buffer file
  batch,       \* _drain_buffer's drained payloads not yet dealt with
  cur,         \* this cycle's payload, 0 if none
  collected,   \* how many payloads were collected
  received,    \* payloads the Collector has persisted
  dropped,     \* payloads dropped with a log line: answered 4xx, or evicted
  lost,        \* history: payloads in memory when the process ended
  diskFailures \* how often reading or writing the file has failed

vars == <<pc, buffer, batch, cur, collected, received, dropped, lost,
          diskFailures>>

Payloads == 1..MaxPayloads

Init ==
  /\ pc = "sleep"
  /\ buffer = << >> /\ batch = << >>
  /\ cur = 0 /\ collected = 0
  /\ received = {} /\ dropped = {}
  /\ lost = {} /\ diskFailures = 0

-----------------------------------------------------------------------------
(* FileBuffer *)

(* _read_all: an unreadable file reads as an empty one. *)
Reads == {buffer} \cup (IF diskFailures < MaxDiskFailures THEN {<< >>} ELSE {})

(* _write_all: renamed into place whole, or not at all. *)
WriteAll(read, entries) ==
  /\ \/ buffer' = entries
     \/ diskFailures < MaxDiskFailures /\ buffer' = buffer
  /\ diskFailures' = IF read = buffer /\ buffer' = entries
                       THEN diskFailures ELSE diskFailures + 1

Newest(entries, n) ==
  SubSeq(entries, Len(entries) - n + 1, Len(entries))

(* Mutants: the bound is off by one; a full buffer is emptied. *)
BoundedOffByOne(entries) ==
  IF Len(entries) > MaxEntries + 1 THEN Newest(entries, MaxEntries) ELSE entries

BoundedToLast(entries) ==
  IF Len(entries) > MaxEntries THEN Newest(entries, 1) ELSE entries

(* entries[dropped:] once the new entry is appended *)
Bounded(entries) ==
  IF Len(entries) > MaxEntries THEN Newest(entries, MaxEntries) ELSE entries

Enqueue(p) ==
  \E entries \in Reads :
    LET all == Append(entries, p) IN
      /\ WriteAll(entries, Bounded(all))
      /\ dropped' = IF buffer' = Bounded(all)
                      THEN dropped \cup (ToSet(all) \ ToSet(buffer')) ELSE dropped

Smaller(m, n) == IF m <= n THEN m ELSE n

-----------------------------------------------------------------------------
(* run_once *)

AfterBatch(rest) == IF rest = << >> THEN "collect" ELSE "redeliver"

(* Mutants: the last entry is never drained; the drained ones stay.         *)
DrainAllButOne ==
  /\ pc = "sleep"
  /\ \E entries \in Reads :
       LET n == Smaller(DrainBatch, IF entries = << >> THEN 0 ELSE Len(entries) - 1) IN
         /\ batch' = SubSeq(entries, 1, n)
         /\ WriteAll(entries, SubSeq(entries, n + 1, Len(entries)))
  /\ pc' = AfterBatch(batch')
  /\ UNCHANGED <<cur, collected, received, dropped, lost>>

DrainKeeping ==
  /\ pc = "sleep"
  /\ \E entries \in Reads :
       batch' = SubSeq(entries, 1, Smaller(DrainBatch, Len(entries)))
  /\ pc' = AfterBatch(batch')
  /\ UNCHANGED <<buffer, cur, collected, received, dropped,
                lost, diskFailures>>

Drain ==
  /\ pc = "sleep"
  /\ \E entries \in Reads :
       LET n == Smaller(DrainBatch, Len(entries)) IN
         /\ batch' = SubSeq(entries, 1, n)
         /\ WriteAll(entries, SubSeq(entries, n + 1, Len(entries)))
  /\ pc' = AfterBatch(batch')
  /\ UNCHANGED <<cur, collected, received, dropped, lost>>

(* A failed send says nothing of its earlier attempts: one that timed out   *)
(* may have reached the Collector all the same.                             *)
PerhapsReceived(p) == received' \in {received, received \cup {p}}

(* Each buffered payload in turn: accepted; rejected, so dropped; or failed *)
(* retryably, which ends the loop.                                          *)
RedeliverOk ==
  /\ pc = "redeliver"
  /\ received' = received \cup {Head(batch)}
  /\ batch' = Tail(batch)
  /\ pc' = AfterBatch(batch')
  /\ UNCHANGED <<buffer, cur, collected, dropped, lost, diskFailures>>

RedeliverFatal ==
  /\ pc = "redeliver"
  /\ dropped' = dropped \cup {Head(batch)}
  /\ PerhapsReceived(Head(batch))
  /\ batch' = Tail(batch)
  /\ pc' = AfterBatch(batch')
  /\ UNCHANGED <<buffer, cur, collected, lost, diskFailures>>

(* Mutant: only the payloads after the failed one are put back. *)
RedeliverFailedDropsOne ==
  /\ pc = "redeliver"
  /\ PerhapsReceived(Head(batch))
  /\ batch' = Tail(batch)
  /\ pc' = IF batch' = << >> THEN "collect" ELSE "requeue"
  /\ UNCHANGED <<buffer, cur, collected, dropped, lost, diskFailures>>

RedeliverFailed ==
  /\ pc = "redeliver"
  /\ PerhapsReceived(Head(batch))
  /\ pc' = "requeue"
  /\ UNCHANGED <<buffer, batch, cur, collected, dropped,
                lost, diskFailures>>

(* Mutant: the loop over the remaining payloads never advances. *)
RequeueStuck ==
  /\ pc = "requeue"
  /\ Enqueue(Head(batch))
  /\ UNCHANGED <<pc, batch, cur, collected, received, lost>>

(* The rest of the batch is enqueued again, one file rewrite per payload. *)
Requeue ==
  /\ pc = "requeue"
  /\ Enqueue(Head(batch))
  /\ batch' = Tail(batch)
  /\ pc' = IF batch' = << >> THEN "collect" ELSE "requeue"
  /\ UNCHANGED <<cur, collected, received, lost>>

Collect ==
  /\ pc = "collect"
  /\ IF collected < MaxPayloads
       THEN cur' = collected + 1 /\ collected' = collected + 1 /\ pc' = "deliver"
       ELSE pc' = "sleep" /\ UNCHANGED <<cur, collected, lost, diskFailures>>
  /\ UNCHANGED <<buffer, batch, received, dropped, lost, diskFailures>>

DeliverOk ==
  /\ pc = "deliver"
  /\ received' = received \cup {cur}
  /\ cur' = 0 /\ pc' = "sleep"
  /\ UNCHANGED <<buffer, batch, collected, dropped, lost, diskFailures>>

DeliverFatal ==
  /\ pc = "deliver"
  /\ dropped' = dropped \cup {cur}
  /\ PerhapsReceived(cur)
  /\ cur' = 0 /\ pc' = "sleep"
  /\ UNCHANGED <<buffer, batch, collected, lost, diskFailures>>

DeliverFailed ==
  /\ pc = "deliver"
  /\ PerhapsReceived(cur)
  /\ Enqueue(cur)
  /\ cur' = 0 /\ pc' = "sleep"
  /\ UNCHANGED <<batch, collected, lost>>

(* The process ends and systemd starts it again; memory is gone. *)
Restarted ==
  /\ pc' = "sleep" /\ batch' = << >> /\ cur' = 0
  /\ lost' = lost \cup ToSet(batch) \cup ({cur} \ {0})

(* _post classifies timeouts, connection errors and status codes.  Any      *)
(* other httpx error (ReadError, RemoteProtocolError) passes every except   *)
(* clause of the scheduler and ends the process.                            *)
Unclassified ==
  /\ \/ pc = "redeliver" /\ PerhapsReceived(Head(batch))
     \/ pc = "deliver" /\ PerhapsReceived(cur)
  /\ Restarted
  /\ UNCHANGED <<buffer, collected, dropped, diskFailures>>

Crash ==
  /\ Crashes
  /\ pc # "sleep"
  /\ Restarted
  /\ UNCHANGED <<buffer, collected, received, dropped, diskFailures>>

Next ==
  \/ Drain
  \/ RedeliverOk \/ RedeliverFatal \/ RedeliverFailed \/ Requeue
  \/ Collect
  \/ DeliverOk \/ DeliverFatal \/ DeliverFailed
  \/ Unclassified \/ Crash

Spec == Init /\ [][Next]_vars

(* run_forever keeps cycling, and the Collector is not out of reach for     *)
(* ever: a payload that is tried again and again is accepted some time.     *)
Fairness ==
  /\ WF_vars(Drain) /\ WF_vars(Requeue) /\ WF_vars(Collect)
  /\ WF_vars(RedeliverOk \/ RedeliverFatal \/ RedeliverFailed)
  /\ WF_vars(DeliverOk \/ DeliverFatal \/ DeliverFailed)
  /\ \A p \in Payloads : SF_vars(RedeliverOk /\ Head(batch) = p)

FairSpec == Spec /\ Fairness

-----------------------------------------------------------------------------
(* Properties *)

(* The cycle's state keeps its type, and the file never holds more entries  *)
(* than buffer_max_entries.                                                 *)
TypeOK ==
  /\ pc \in {"sleep", "redeliver", "requeue", "collect", "deliver"}
  /\ buffer \in Seq(Payloads) /\ Len(buffer) <= MaxEntries
  /\ batch \in Seq(Payloads) /\ Len(batch) <= DrainBatch
  /\ pc \in {"redeliver", "requeue"} <=> batch # << >>
  /\ cur \in 0..MaxPayloads /\ (cur # 0 <=> pc = "deliver")
  /\ collected \in 0..MaxPayloads
  /\ received \cup dropped \cup lost \subseteq Payloads
  /\ diskFailures \in 0..MaxDiskFailures

Held == ToSet(buffer) \cup ToSet(batch) \cup {cur}

(* Unless the disk fails, every payload that was collected has reached the  *)
(* Collector, is still held by the Agent, was dropped for a logged reason,  *)
(* or was in memory when the process ended.                                 *)
NoSilentLoss ==
  diskFailures = 0 =>
    \A p \in 1..collected : p \in received \cup Held \cup dropped \cup lost

(* "A single failure never silently drops the rest of the batch"            *)
(* (_drain_buffer): whatever step is taken, a drained payload is delivered, *)
(* still held, or dropped for a logged reason.                              *)
BatchKept ==
  [][\A p \in ToSet(batch) :
       p \in received' \cup Held' \cup dropped']_vars

(* A payload is held in one place only: a batch that is put back does not   *)
(* multiply, so the buffer cannot fill up with copies (unless the disk      *)
(* fails).                                                                  *)
HeldOnce ==
  LET all == buffer \o batch \o (IF cur = 0 THEN << >> ELSE <<cur>>) IN
    diskFailures = 0 => \A i, j \in 1..Len(all) : all[i] = all[j] => i = j

(* A payload leaves the buffer file only into the drained batch or by an    *)
(* eviction that a full buffer forces; killing the process loses none of it.*)
FileSurvives ==
  [][diskFailures' = 0 =>
       \A p \in ToSet(buffer) :
         \/ p \in ToSet(buffer') \cup ToSet(batch')
         \/ p \in dropped' /\ Len(buffer') = MaxEntries]_vars

(* Unless the disk fails, every buffered payload is eventually dealt with:  *)
(* it reaches the Collector, is dropped or lost with the process; it is     *)
(* never passed over for good when a batch is put back behind newer ones.   *)
BufferDrains ==
  \A p \in Payloads :
    (p \in ToSet(buffer)) ~>
      (diskFailures > 0 \/ p \in received \cup dropped \cup lost)

(* Whatever fails on the network, on the disk or in the process, the cycle  *)
(* comes to its end and the next one starts.                                *)
CycleCompletes == []<>(pc = "sleep")
=============================================================================
