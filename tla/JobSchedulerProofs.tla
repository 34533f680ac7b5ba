------------------------- MODULE JobSchedulerProofs -------------------------
(***************************************************************************)
(* Proofs about JobScheduler, for any jobs, intervals and number of        *)
(* start() and stop() calls.                                               *)
(*                                                                         *)
(* That two loops never run jobs at once does not follow from the loops    *)
(* alone: it needs the handle to name the only thread that may be alive,   *)
(* which stop() gives up when its join times out.                          *)
(***************************************************************************)
EXTENDS JobScheduler, FiniteSetTheorems, TLAPS

(* Unless stop() left a thread behind, a live thread is the handle's. *)
HandleKnows == ~orphaned => \A t \in Threads : Alive(t) => t = handle

(* Only a thread inside a tick runs a job or has some to run. *)
JobsInTick ==
  \A t \in Threads : thread[t].pc # "tick" => thread[t].job = None /\ thread[t].due = {}

IInv ==
  /\ TypeOK
  /\ HandleKnows
  /\ JobsInTick

-----------------------------------------------------------------------------
(* The type of one loop, with the bound on what is left of an interval. *)
LoopOK(q) == q \in Loop /\ \A j \in Jobs : q.left[j] <= Interval[j]

(* The threads are typed exactly if each loop is. *)
LEMMA ThreadType ==
  ASSUME NEW f
  PROVE  /\ f \in [Threads -> Loop]
         /\ \A t \in Threads, j \in Jobs : f[t].left[j] <= Interval[j]
         <=> f = [t \in Threads |-> f[t]] /\ \A t \in Threads : LoopOK(f[t])
BY DEF LoopOK

(* A loop that moves keeps its type. *)
LEMMA LoopMoves ==
  ASSUME NEW q, LoopOK(q)
  PROVE  /\ \A pc \in {"new", "waiting", "tick", "exited"}, due \in SUBSET Jobs,
               job \in Jobs \cup {None} :
              LoopOK([pc |-> pc, left |-> q.left, due |-> due, job |-> job])
         /\ \A j \in Jobs, pc \in {"waiting", "tick"} :
              LoopOK([pc |-> pc, left |-> [q.left EXCEPT ![j] = Interval[j]],
                      due |-> q.due, job |-> None])
         /\ LoopOK([pc |-> q.pc,
                    left |-> [j \in Jobs |-> IF q.left[j] > 0 THEN q.left[j] - 1 ELSE 0],
                    due |-> q.due, job |-> q.job])
         /\ q = [pc |-> q.pc, left |-> q.left, due |-> q.due, job |-> q.job]
<1>0. /\ q \in Loop /\ q.left \in [Jobs -> Nat] /\ Interval \in [Jobs -> Nat]
      /\ q.due \in SUBSET Jobs /\ q.job \in Jobs \cup {None}
      /\ q.pc \in {"new", "waiting", "tick", "exited"}
      /\ \A j \in Jobs : q.left[j] <= Interval[j]
  BY SchedulerAssumption DEF LoopOK, Loop
<1>1. \A pc \in {"new", "waiting", "tick", "exited"}, due \in SUBSET Jobs,
        job \in Jobs \cup {None} :
          LoopOK([pc |-> pc, left |-> q.left, due |-> due, job |-> job])
  BY <1>0 DEF LoopOK, Loop
<1>2. ASSUME NEW j \in Jobs, NEW pc \in {"waiting", "tick"}
      PROVE  LoopOK([pc |-> pc, left |-> [q.left EXCEPT ![j] = Interval[j]],
                     due |-> q.due, job |-> None])
  <2> DEFINE l == [q.left EXCEPT ![j] = Interval[j]]
  <2>1. l \in [Jobs -> Nat]
    BY <1>0
  <2>2. \A i \in Jobs : l[i] <= Interval[i]
    BY <1>0
  <2> HIDE DEF l
  <2> QED BY <1>0, <2>1, <2>2 DEF LoopOK, Loop
<1>3. LoopOK([pc |-> q.pc,
              left |-> [j \in Jobs |-> IF q.left[j] > 0 THEN q.left[j] - 1 ELSE 0],
              due |-> q.due, job |-> q.job])
  <2> DEFINE l == [j \in Jobs |-> IF q.left[j] > 0 THEN q.left[j] - 1 ELSE 0]
  <2>1. l \in [Jobs -> Nat]
    BY <1>0
  <2>2. \A i \in Jobs : l[i] <= Interval[i]
    BY <1>0
  <2> HIDE DEF l
  <2> QED BY <1>0, <2>1, <2>2 DEF LoopOK, Loop
<1>4. q = [pc |-> q.pc, left |-> q.left, due |-> q.due, job |-> q.job]
  BY <1>0 DEF Loop
<1> QED BY <1>1, <1>2, <1>3, <1>4

(* The loop that Wake(t) makes, as a record. *)
LEMMA WakeUpdate ==
  ASSUME NEW q \in Loop, NEW pc \in {"new", "waiting", "tick", "exited"},
         NEW due \in SUBSET Jobs
  PROVE  [q EXCEPT !.pc = pc, !.due = due]
           = [pc |-> pc, left |-> q.left, due |-> due, job |-> q.job]
<1> DEFINE e == [q EXCEPT !.pc = pc, !.due = due]
<1>1. e \in Loop
  BY DEF Loop
<1>2. e.pc = pc /\ e.left = q.left /\ e.due = due /\ e.job = q.job
  BY DEF Loop
<1> HIDE DEF e
<1>3. e = [pc |-> e.pc, left |-> e.left, due |-> e.due, job |-> e.job]
  BY <1>1 DEF Loop
<1> QED BY <1>2, <1>3 DEF e

(* The loop that EndJob(t) makes, as a record. *)
LEMMA EndUpdate ==
  ASSUME NEW q \in Loop, NEW pc \in {"new", "waiting", "tick", "exited"},
         NEW l \in [Jobs -> Nat]
  PROVE  [q EXCEPT !.job = None, !.left = l, !.pc = pc]
           = [pc |-> pc, left |-> l, due |-> q.due, job |-> None]
<1> DEFINE e == [q EXCEPT !.job = None, !.left = l, !.pc = pc]
<1>1. e \in Loop
  BY DEF Loop
<1>2. e.pc = pc /\ e.left = l /\ e.due = q.due /\ e.job = None
  BY DEF Loop
<1> HIDE DEF e
<1>3. e = [pc |-> e.pc, left |-> e.left, due |-> e.due, job |-> e.job]
  BY <1>1 DEF Loop
<1> QED BY <1>2, <1>3 DEF e

(* One thread moves from loop state thread[t] to q, the caller and the      *)
(* handle stay: the invariant needs q to be as alive as before.             *)
LEMMA OneLoopMoves ==
  ASSUME IInv, NEW t \in Threads, NEW q, LoopOK(q),
         q.pc # "tick" => q.job = None /\ q.due = {},
         q.pc \in {"waiting", "tick"} => Alive(t),
         thread' = [thread EXCEPT ![t] = q],
         UNCHANGED <<handle, stopEvent, caller, orphaned>>
  PROVE  IInv'
<1>0. thread = [u \in Threads |-> thread[u]] /\ \A u \in Threads : LoopOK(thread[u])
  BY ThreadType DEF IInv, TypeOK
<1>1. /\ thread' = [u \in Threads |-> thread'[u]] /\ thread'[t] = q
      /\ \A u \in Threads \ {t} : thread'[u] = thread[u]
  BY <1>0
<1>2. \A u \in Threads : LoopOK(thread'[u])
  BY <1>0, <1>1
<1>3. TypeOK'
  <2>1. /\ thread' \in [Threads -> Loop]
        /\ \A u \in Threads, j \in Jobs : thread'[u].left[j] <= Interval[j]
    BY <1>1, <1>2, ThreadType
  <2> QED BY <2>1 DEF IInv, TypeOK
<1>4. HandleKnows'
  BY <1>1 DEF IInv, HandleKnows, Alive
<1>5. JobsInTick'
  BY <1>1 DEF IInv, JobsInTick
<1> QED BY <1>3, <1>4, <1>5 DEF IInv

(* The initial state satisfies the inductive invariant. *)
LEMMA InitIInv == Init => IInv
<1> SUFFICES ASSUME Init PROVE IInv
  OBVIOUS
<1> USE SchedulerAssumption
<1>1. /\ Unborn \in Loop /\ Unborn.pc = "new" /\ Unborn.job = None /\ Unborn.due = {}
      /\ Unborn.left = Interval
  BY DEF Unborn, Loop
<1>2. \A j \in Jobs : Interval[j] <= Interval[j]
  OBVIOUS
<1>3. TypeOK
  BY <1>1, <1>2 DEF Init, TypeOK, Free
<1>4. HandleKnows /\ JobsInTick
  BY <1>1 DEF Init, HandleKnows, JobsInTick, Alive
<1> QED BY <1>3, <1>4 DEF IInv

(* Every step keeps the inductive invariant. *)
LEMMA NextIInv == IInv /\ [Next]_vars => IInv'
<1> SUFFICES ASSUME IInv, [Next]_vars PROVE IInv'
  OBVIOUS
<1> USE SchedulerAssumption
<1>t. TypeOK /\ thread \in [Threads -> Loop]
  BY DEF IInv, TypeOK
<1>0. thread = [u \in Threads |-> thread[u]] /\ \A u \in Threads : LoopOK(thread[u])
  BY <1>t, ThreadType DEF TypeOK
<1>1. CASE Tick
  <2>1. /\ thread' = [u \in Threads |-> thread'[u]]
        /\ UNCHANGED <<handle, stopEvent, caller, orphaned>>
    BY <1>1 DEF Tick
  <2>2. ASSUME NEW u \in Threads
        PROVE  /\ LoopOK(thread'[u]) /\ thread'[u].pc = thread[u].pc
               /\ thread'[u].job = thread[u].job /\ thread'[u].due = thread[u].due
    <3> DEFINE l == [j \in Jobs |-> IF thread[u].left[j] > 0 THEN thread[u].left[j] - 1 ELSE 0]
               q == [pc |-> thread[u].pc, left |-> l, due |-> thread[u].due, job |-> thread[u].job]
    <3>1. LoopOK(q)
      BY <1>0, LoopMoves
    <3>2. [thread[u] EXCEPT !.left = l] = q
      BY <1>t DEF Loop
    <3>3. q.pc = thread[u].pc /\ q.job = thread[u].job /\ q.due = thread[u].due
      OBVIOUS
    <3>4. thread'[u] = thread[u] \/ thread'[u] = [thread[u] EXCEPT !.left = l]
      BY <1>1 DEF Tick
    <3> HIDE DEF q
    <3> QED BY <1>0, <3>1, <3>2, <3>3, <3>4
  <2>3. TypeOK'
    <3>1. /\ thread' \in [Threads -> Loop]
          /\ \A u \in Threads, j \in Jobs : thread'[u].left[j] <= Interval[j]
      BY <2>1, <2>2, ThreadType
    <3> QED BY <2>1, <3>1 DEF IInv, TypeOK
  <2> QED BY <2>1, <2>2, <2>3 DEF IInv, HandleKnows, JobsInTick, Alive
<1>2. ASSUME NEW t \in Threads, Exit(t) PROVE IInv'
  <2> DEFINE q == [pc |-> "exited", left |-> thread[t].left, due |-> thread[t].due,
                   job |-> thread[t].job]
  <2>1. thread[t].pc = "waiting" /\ thread[t].job = None /\ thread[t].due = {}
    BY <1>2 DEF IInv, JobsInTick, Exit
  <2>2. LoopOK(q) /\ q.pc = "exited" /\ q.job = None /\ q.due = {}
    BY <1>0, <2>1, LoopMoves
  <2>3. thread' = [thread EXCEPT ![t] = q]
    <3>1. thread' = [thread EXCEPT ![t] = [thread[t] EXCEPT !.pc = "exited"]]
      BY <1>2 DEF Exit
    <3>2. [thread[t] EXCEPT !.pc = "exited"] = q
      BY <1>t DEF Loop
    <3> QED BY <3>1, <3>2
  <2> HIDE DEF q
  <2> QED BY <1>2, <2>2, <2>3, OneLoopMoves DEF Exit
<1>3. ASSUME NEW t \in Threads, Wake(t) PROVE IInv'
  <2> DEFINE d == {j \in Jobs : thread[t].left[j] = 0}
             q == [pc |-> "tick", left |-> thread[t].left, due |-> d, job |-> thread[t].job]
  <2>1. LoopOK(q) /\ q.pc = "tick"
    <3>1. d \in SUBSET Jobs /\ thread[t].job \in Jobs \cup {None}
      BY <1>t DEF Loop
    <3> HIDE DEF d
    <3> QED BY <1>0, <3>1, LoopMoves
  <2>2. thread' = [thread EXCEPT ![t] = q]
    <3>1. thread' = [thread EXCEPT ![t] = [thread[t] EXCEPT !.pc = "tick", !.due = d]]
      BY <1>3 DEF Wake
    <3>2. [thread[t] EXCEPT !.pc = "tick", !.due = d] = q
      <4>1. thread[t] \in Loop /\ d \in SUBSET Jobs
        BY <1>t
      <4> HIDE DEF d
      <4> QED BY <4>1, WakeUpdate
    <3> QED BY <3>1, <3>2
  <2>3. Alive(t)
    BY <1>3 DEF Wake, Alive
  <2> HIDE DEF q
  <2> QED BY <1>3, <2>1, <2>2, <2>3, OneLoopMoves DEF Wake
<1>4. ASSUME NEW t \in Threads, NEW j \in Jobs, BeginJob(t, j) PROVE IInv'
  <2> DEFINE q == [pc |-> "tick", left |-> thread[t].left, due |-> thread[t].due \ {j}, job |-> j]
  <2>1. LoopOK(q) /\ q.pc = "tick"
    <3>1. thread[t].due \ {j} \in SUBSET Jobs
      BY <1>t DEF Loop
    <3> QED BY <1>0, <3>1, LoopMoves
  <2>2. thread' = [thread EXCEPT ![t] = q]
    BY <1>4, <1>t DEF BeginJob, Loop
  <2>3. Alive(t)
    BY <1>4 DEF BeginJob, Alive
  <2> HIDE DEF q
  <2> QED BY <1>4, <2>1, <2>2, <2>3, OneLoopMoves DEF BeginJob
<1>5. ASSUME NEW t \in Threads, EndJob(t) PROVE IInv'
  <2> DEFINE j == thread[t].job
             pc == IF thread[t].due = {} THEN "waiting" ELSE "tick"
             q == [pc |-> pc, left |-> [thread[t].left EXCEPT ![j] = Interval[j]],
                   due |-> thread[t].due, job |-> None]
  <2>1. j \in Jobs /\ thread[t].pc = "tick"
    BY <1>5, <1>t DEF EndJob, Loop, IInv, JobsInTick
  <2>2. LoopOK(q) /\ q.job = None /\ q.due = thread[t].due /\ q.pc = pc
    <3>1. pc \in {"waiting", "tick"}
      OBVIOUS
    <3> HIDE DEF pc, j
    <3> QED BY <1>0, <2>1, <3>1, LoopMoves
  <2>3. thread' = [thread EXCEPT ![t] = q]
    <3> DEFINE l == [thread[t].left EXCEPT ![j] = Interval[j]]
    <3>1. thread' = [thread EXCEPT ![t] = [thread[t] EXCEPT !.job = None, !.left = l, !.pc = pc]]
      BY <1>5 DEF EndJob
    <3>2. [thread[t] EXCEPT !.job = None, !.left = l, !.pc = pc] = q
      <4>1. /\ thread[t] \in Loop /\ pc \in {"new", "waiting", "tick", "exited"}
            /\ l \in [Jobs -> Nat] /\ q = [pc |-> pc, left |-> l, due |-> thread[t].due, job |-> None]
        BY <1>t, <2>1 DEF Loop
      <4> HIDE DEF pc, j, l, q
      <4> QED BY <4>1, EndUpdate
    <3> QED BY <3>1, <3>2
  <2>4. Alive(t) /\ (q.pc # "tick" => q.due = {})
    BY <2>1, <2>2 DEF Alive
  <2> HIDE DEF q
  <2> QED BY <1>5, <2>2, <2>3, <2>4, OneLoopMoves DEF EndJob
<1>6. ASSUME NEW t \in Threads, Start(t) PROVE IInv'
  <2> DEFINE q == [pc |-> "waiting", left |-> thread[t].left, due |-> thread[t].due,
                   job |-> thread[t].job]
  <2>1. thread[t].pc = "new" /\ thread[t].job = None /\ thread[t].due = {}
    BY <1>6 DEF IInv, JobsInTick, Start
  <2>2. LoopOK(q) /\ q.pc = "waiting" /\ q.job = None /\ q.due = {}
    BY <1>0, <2>1, LoopMoves
  <2>3. thread' = [thread EXCEPT ![t] = q]
    <3>1. thread' = [thread EXCEPT ![t] = [thread[t] EXCEPT !.pc = "waiting"]]
      BY <1>6 DEF Start
    <3>2. [thread[t] EXCEPT !.pc = "waiting"] = q
      BY <1>t DEF Loop
    <3> QED BY <3>1, <3>2
  <2> HIDE DEF q
  <2>4. /\ thread' = [u \in Threads |-> thread'[u]] /\ thread'[t] = q
        /\ \A u \in Threads \ {t} : thread'[u] = thread[u]
        /\ handle' = t /\ stopEvent' = FALSE /\ UNCHANGED <<caller, orphaned>>
    BY <1>0, <1>6, <2>3 DEF Start
  <2>5. TypeOK'
    <3>1. \A u \in Threads : LoopOK(thread'[u])
      BY <1>0, <2>2, <2>4
    <3>2. /\ thread' \in [Threads -> Loop]
          /\ \A u \in Threads, j \in Jobs : thread'[u].left[j] <= Interval[j]
      BY <2>4, <3>1, ThreadType
    <3> QED BY <2>4, <3>2 DEF IInv, TypeOK
  <2>6. HandleKnows'
    <3>1. ASSUME ~orphaned, NEW u \in Threads PROVE ~Alive(u)
      BY <1>6, <3>1 DEF IInv, HandleKnows, Start, IsRunning, Alive
    <3> QED BY <2>4, <3>1 DEF HandleKnows, Alive
  <2>7. JobsInTick'
    BY <2>2, <2>4 DEF IInv, JobsInTick
  <2> QED BY <2>5, <2>6, <2>7 DEF IInv
<1>7. CASE StopEnd
  <2>1. /\ orphaned' = (orphaned \/ Alive(handle)) /\ handle' = None /\ caller' = Free
        /\ UNCHANGED <<stopEvent, thread>>
    BY <1>7 DEF StopEnd
  <2>2. Alive(handle) \in BOOLEAN
    BY DEF Alive
  <2>3. TypeOK'
    BY <1>t, <2>1, <2>2 DEF TypeOK, Free
  <2>4. HandleKnows'
    BY <2>1 DEF IInv, HandleKnows, Alive
  <2>5. JobsInTick'
    BY <2>1 DEF IInv, JobsInTick
  <2> QED BY <2>3, <2>4, <2>5 DEF IInv
<1>8. CASE \/ StopBegin \/ RunAllOnce \/ (\E j \in Jobs : ManualJob(j)) \/ ManualEnd
           \/ UNCHANGED vars
  <2>1. UNCHANGED <<handle, thread, orphaned>> /\ stopEvent' \in {stopEvent, TRUE}
    BY <1>8 DEF StopBegin, RunAllOnce, ManualJob, ManualEnd, vars
  <2>2. caller' \in [pc : {"free", "joining", "manual"}, todo : SUBSET Jobs,
                     job : Jobs \cup {None}]
    <3> DEFINE C == [pc : {"free", "joining", "manual"}, todo : SUBSET Jobs,
                     job : Jobs \cup {None}]
    <3>0. caller \in C
      BY <1>t DEF TypeOK
    <3>1. Free \in C
      BY DEF Free
    <3>2. CASE StopBegin
      BY <3>0, <3>2 DEF StopBegin
    <3>3. CASE RunAllOnce
      BY <3>0, <3>3 DEF RunAllOnce
    <3>4. ASSUME NEW j \in Jobs, ManualJob(j) PROVE caller' \in C
      BY <3>0, <3>4 DEF ManualJob
    <3>5. CASE ManualEnd
      <4>1. [caller EXCEPT !.job = None] \in C
        BY <3>0
      <4>2. caller' = Free \/ caller' = [caller EXCEPT !.job = None]
        BY <3>5 DEF ManualEnd
      <4> QED BY <3>1, <4>1, <4>2, Zenon
    <3>6. CASE UNCHANGED vars
      BY <3>0, <3>6 DEF vars
    <3> QED BY <1>8, <3>2, <3>3, <3>4, <3>5, <3>6
  <2>3. TypeOK'
    BY <1>t, <2>1, <2>2 DEF TypeOK
  <2>4. HandleKnows' /\ JobsInTick'
    BY <2>1 DEF IInv, HandleKnows, JobsInTick, Alive
  <2> QED BY <2>3, <2>4 DEF IInv
<1> QED
  BY <1>1, <1>2, <1>3, <1>4, <1>5, <1>6, <1>7, <1>8 DEF Next, LoopStep

-----------------------------------------------------------------------------
(* The inductive invariant holds in every reachable state. *)
THEOREM Inductive == Spec => []IInv
<1>1. Init => IInv
  BY InitIInv
<1>2. IInv /\ [Next]_vars => IInv'
  BY NextIInv
<1> QED BY <1>1, <1>2, PTL DEF Spec

(* Two loops never run jobs at the same time, however often start() and     *)
(* stop() are called, unless a join timed out on a live thread              *)
(* (PeriodicJobScheduler.start, stop).                                      *)
THEOREM NoOverlap == Spec => []LoopsExclusive
<1>1. IInv => LoopsExclusive
  <2> SUFFICES ASSUME IInv, ~orphaned PROVE Cardinality(Running) <= 1
    BY DEF LoopsExclusive
  <2>1. Running \subseteq {handle}
    BY DEF IInv, HandleKnows, JobsInTick, Running, Alive
  <2>2. IsFiniteSet({handle}) /\ Cardinality({handle}) = 1
    BY FS_Singleton
  <2> QED BY <2>1, <2>2, FS_Subset
<1> QED BY <1>1, Inductive, PTL

=============================================================================
