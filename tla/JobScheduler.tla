---------------------------- MODULE JobScheduler ----------------------------
(***************************************************************************)
(* PeriodicJobScheduler: the loop that runs every job on its own interval, *)
(* start() and stop() as the application's lifespan calls them, and        *)
(* run_all_once() on the caller's thread.                                  *)
(*                                                                         *)
(* Monotonic time appears only as what is left until each job is due, so   *)
(* the clock needs no bound: an entry with nothing left is due.            *)
(***************************************************************************)
EXTENDS Integers, FiniteSets

CONSTANTS
  Jobs, None,
  Interval,        \* Interval[j]: interval_seconds of job j
  Threads          \* bounds the calls of start() that create a thread

ASSUME SchedulerAssumption ==
  /\ Interval \in [Jobs -> Nat \ {0}]
  /\ None \notin Jobs \cup Threads

VARIABLES
  handle,      \* self._thread
  stopEvent,   \* self._stop_event
  thread,      \* the loop of each thread
  caller,      \* the thread that calls start(), stop(), run_all_once()
  orphaned     \* history: a join timed out and left its thread running

vars == <<handle, stopEvent, thread, caller, orphaned>>

(* left: time until each entry is due; due: the entries of this tick that   *)
(* are still to run; job: the one running.                                  *)
Loop ==
  [pc : {"new", "waiting", "tick", "exited"}, left : [Jobs -> Nat],
   due : SUBSET Jobs, job : Jobs \cup {None}]

Unborn == [pc |-> "new", left |-> Interval, due |-> {}, job |-> None]

Free == [pc |-> "free", todo |-> {}, job |-> None]

Init ==
  /\ handle = None
  /\ stopEvent = FALSE
  /\ thread = [t \in Threads |-> Unborn]
  /\ caller = Free
  /\ orphaned = FALSE

Alive(t) == thread[t].pc \in {"waiting", "tick"}

-----------------------------------------------------------------------------
(* Time *)

Tick ==
  /\ \E t \in Threads, j \in Jobs : Alive(t) /\ thread[t].left[j] > 0
  /\ thread' = [t \in Threads |->
       IF Alive(t)
         THEN [thread[t] EXCEPT !.left =
                 [j \in Jobs |-> IF @[j] > 0 THEN @[j] - 1 ELSE 0]]
         ELSE thread[t]]
  /\ UNCHANGED <<handle, stopEvent, caller, orphaned>>

-----------------------------------------------------------------------------
(* _run_loop *)

(* Event.wait returns True: the loop returns. *)
Exit(t) ==
  /\ thread[t].pc = "waiting"
  /\ stopEvent
  /\ thread' = [thread EXCEPT ![t].pc = "exited"]
  /\ UNCHANGED <<handle, stopEvent, caller, orphaned>>

(* Mutants: the stop event is ignored; only one due entry is run per tick.  *)
WakeAnyway(t) ==
  /\ thread[t].pc = "waiting"
  /\ \E j \in Jobs : thread[t].left[j] = 0
  /\ thread' = [thread EXCEPT ![t].pc = "tick",
                              ![t].due = {j \in Jobs : thread[t].left[j] = 0}]
  /\ UNCHANGED <<handle, stopEvent, caller, orphaned>>

WakeForOne(t) ==
  /\ thread[t].pc = "waiting"
  /\ ~stopEvent
  /\ \E j \in Jobs :
       /\ thread[t].left[j] = 0
       /\ thread' = [thread EXCEPT ![t].pc = "tick", ![t].due = {j}]
  /\ UNCHANGED <<handle, stopEvent, caller, orphaned>>

(* Event.wait times out: the soonest entry is due, and so may others be.    *)
(* They run in the order of registration; the model takes any order.        *)
Wake(t) ==
  /\ thread[t].pc = "waiting"
  /\ ~stopEvent
  /\ \E j \in Jobs : thread[t].left[j] = 0
  /\ thread' = [thread EXCEPT ![t].pc = "tick",
                              ![t].due = {j \in Jobs : thread[t].left[j] = 0}]
  /\ UNCHANGED <<handle, stopEvent, caller, orphaned>>

BeginJob(t, j) ==
  /\ thread[t].pc = "tick" /\ thread[t].job = None
  /\ j \in thread[t].due
  /\ thread' = [thread EXCEPT ![t].job = j, ![t].due = @ \ {j}]
  /\ UNCHANGED <<handle, stopEvent, caller, orphaned>>

(* The job returns or raises: _run_contained makes both the same, and only  *)
(* now is the next interval counted.                                        *)
EndJob(t) ==
  /\ thread[t].job # None
  /\ thread' = [thread EXCEPT ![t].job = None,
                              ![t].left[thread[t].job] = Interval[thread[t].job],
                              ![t].pc = IF thread[t].due = {} THEN "waiting" ELSE "tick"]
  /\ UNCHANGED <<handle, stopEvent, caller, orphaned>>

-----------------------------------------------------------------------------
(* start, stop, run_all_once *)

IsRunning == handle # None /\ thread[handle].pc \in {"waiting", "tick"}

Start(t) ==
  /\ caller = Free
  /\ ~IsRunning
  /\ thread[t].pc = "new"
  /\ stopEvent' = FALSE
  /\ handle' = t
  /\ thread' = [thread EXCEPT ![t].pc = "waiting"]
  /\ UNCHANGED <<caller, orphaned>>

StopBegin ==
  /\ caller = Free
  /\ handle # None
  /\ stopEvent' = TRUE
  /\ caller' = [caller EXCEPT !.pc = "joining"]
  /\ UNCHANGED <<handle, thread, orphaned>>

(* Mutant: stop() does not wait for the thread. *)
StopWithoutJoin ==
  /\ caller.pc = "joining"
  /\ handle' = None
  /\ caller' = Free
  /\ UNCHANGED <<stopEvent, thread, orphaned>>

(* join returns because the thread ended, or because its timeout expired    *)
(* with the thread still alive; both drop the handle.                       *)
StopEnd ==
  /\ caller.pc = "joining"
  /\ orphaned' = (orphaned \/ Alive(handle))
  /\ handle' = None
  /\ caller' = Free
  /\ UNCHANGED <<stopEvent, thread>>

RunAllOnce ==
  /\ caller = Free
  /\ caller' = [caller EXCEPT !.pc = "manual", !.todo = Jobs]
  /\ UNCHANGED <<handle, stopEvent, thread, orphaned>>

ManualJob(j) ==
  /\ caller.pc = "manual" /\ caller.job = None
  /\ j \in caller.todo
  /\ caller' = [caller EXCEPT !.job = j, !.todo = @ \ {j}]
  /\ UNCHANGED <<handle, stopEvent, thread, orphaned>>

ManualEnd ==
  /\ caller.job # None
  /\ caller' = IF caller.todo = {} THEN Free ELSE [caller EXCEPT !.job = None]
  /\ UNCHANGED <<handle, stopEvent, thread, orphaned>>

LoopStep(t) ==
  Exit(t) \/ Wake(t) \/ (\E j \in Jobs : BeginJob(t, j)) \/ EndJob(t)

Next ==
  \/ Tick
  \/ \E t \in Threads : LoopStep(t) \/ Start(t)
  \/ StopBegin \/ StopEnd
  \/ RunAllOnce \/ (\E j \in Jobs : ManualJob(j)) \/ ManualEnd

Spec == Init /\ [][Next]_vars

(* Time passes, the threads run, and job.run() returns. *)
FairSpec ==
  /\ Spec
  /\ WF_vars(Tick)
  /\ \A t \in Threads : WF_vars(LoopStep(t))

-----------------------------------------------------------------------------
(* Properties *)

(* The scheduler's state keeps its type, and no entry waits longer than its *)
(* interval.                                                                *)
TypeOK ==
  /\ handle \in Threads \cup {None}
  /\ stopEvent \in BOOLEAN /\ orphaned \in BOOLEAN
  /\ thread \in [Threads -> Loop]
  /\ \A t \in Threads, j \in Jobs : thread[t].left[j] <= Interval[j]
  /\ caller \in [pc : {"free", "joining", "manual"}, todo : SUBSET Jobs,
                 job : Jobs \cup {None}]

Running == {t \in Threads : thread[t].job # None}

(* "Overlapping runs are impossible by construction": across stop() and     *)
(* start(), two loops never run jobs at the same time, as long as no stop() *)
(* gave up on a thread that was still busy.                                 *)
LoopsExclusive == ~orphaned => Cardinality(Running) <= 1

(* Every job of a running scheduler runs again and again, whichever other   *)
(* jobs are due, slow or failing, until stop() is called.                   *)
NoStarvation ==
  \A t \in Threads, j \in Jobs :
    Alive(t) ~> (thread[t].job = j \/ stopEvent \/ thread[t].pc = "exited")

(* stop() takes effect: the thread ends, even when join timed out on it,    *)
(* unless a start() clears the event before the thread has seen it.         *)
StopTakesEffect ==
  \A t \in Threads :
    (Alive(t) /\ stopEvent) ~> (thread[t].pc = "exited" \/ ~stopEvent)
=============================================================================
