------------------------------ MODULE Scheduler ------------------------------
(***************************************************************************)
(* The task scheduler of a client (component/scheduler.cpp).  A pipeline   *)
(* owns two vectors: new_callbacks_, behind a mutex of its own, where any  *)
(* thread appends, and callbacks_, behind a recursive mutex that execute   *)
(* holds for a whole pass, handlers included.  A pass first moves the new  *)
(* tasks over and then walks the vector with an iterator.                  *)
(*                                                                         *)
(* A driver is a place that calls execute over and over: the loop of the   *)
(* async thread, or the stub of a hooked frame function of the game.       *)
(***************************************************************************)
EXTENDS Integers, Sequences, SequencesExt, FiniteSets

CONSTANTS
  Tasks,        (* the calls of schedule, loop and once, each made once      *)
  Pipelines,    (* enum class pipeline                                      *)
  Drivers,      (* the call sites of execute                                *)
  AsyncThread,  (* the driver that is the async thread                      *)
  Feeds,        (* driver -> the pipeline it executes                       *)
  PipelineOf,   (* task -> its pipeline                                     *)
  Verdicts,     (* task -> what its handler may return, TRUE is cond_end    *)
  Interval,     (* task -> its interval in clock ticks                      *)
  NoDriver,
  NoTask

ASSUME DriversAssumption ==
  /\ AsyncThread \in Drivers
  /\ Feeds \in [Drivers -> Pipelines]
  /\ NoDriver \notin Drivers

ASSUME TasksAssumption ==
  /\ PipelineOf \in [Tasks -> Pipelines]
  /\ Verdicts \in [Tasks -> {{TRUE}, {FALSE}, {TRUE, FALSE}}]
  /\ Interval \in [Tasks -> Nat]
  /\ NoTask \notin Tasks

VARIABLES
  newCallbacks, (* pipeline -> new_callbacks_                               *)
  callbacks,    (* pipeline -> callbacks_                                   *)
  elapsed,      (* task -> now - last_call, no finer than the test on it:   *)
                (* it counts up to the interval and stops there             *)
  owner,        (* pipeline -> the driver that holds callbacks_'s mutex     *)
  pc,           (* driver -> where it is in execute                         *)
  at,           (* driver -> the index its iterator points to               *)
  kill,         (* the volatile flag                                        *)
  phase,        (* which of post_load and pre_destroy have been made        *)
  scheduled,    (* history: the tasks that schedule was called for          *)
  ended         (* history: the tasks whose handler returned cond_end       *)

vars == <<newCallbacks, callbacks, elapsed, owner, pc, at, kill, phase,
          scheduled, ended>>

\* Of a pass: "idle" is outside execute, "merge" holds the mutex and has not
\* moved the new tasks, "scan" is at the top of the loop, "handler" is inside
\* the callback.  The async thread is "off" until post_load, "exited" after it
\* has seen kill.
Places == {"off", "idle", "merge", "scan", "handler", "exited"}
InPass == {"merge", "scan", "handler"}

Current(d) == callbacks[Feeds[d]][at[d]]
Due(t) == elapsed[t] >= Interval[t]

TypeOK ==
  /\ newCallbacks \in [Pipelines -> Seq(Tasks)]
  /\ callbacks \in [Pipelines -> Seq(Tasks)]
  /\ elapsed \in [Tasks -> Nat]
  /\ owner \in [Pipelines -> Drivers \cup {NoDriver}]
  /\ pc \in [Drivers -> Places]
  /\ at \in [Drivers -> Nat \ {0}]
  /\ kill \in BOOLEAN
  /\ phase \in {"loading", "loaded", "stopping", "stopped"}
  /\ scheduled \subseteq Tasks
  /\ ended \subseteq Tasks

Init ==
  /\ newCallbacks = [p \in Pipelines |-> <<>>]
  /\ callbacks = [p \in Pipelines |-> <<>>]
  /\ elapsed = Interval
  /\ owner = [p \in Pipelines |-> NoDriver]
  /\ pc = [d \in Drivers |-> "off"]
  /\ at = [d \in Drivers |-> 1]
  /\ kill = FALSE
  /\ phase = "loading"
  /\ scheduled = {}
  /\ ended = {}

------------------------------------------------------------------------------
(* schedule, loop and once.  Any thread may call them at any time, before   *)
(* post_load too, and from inside a handler: new_callbacks_ has its own     *)
(* mutex, so the caller never waits for a pass.                             *)

\* Mutant of Schedule: add appends to the vector that execute walks.
ScheduleIntoWalkedVector(t) ==
  /\ t \notin scheduled
  /\ scheduled' = scheduled \cup {t}
  /\ elapsed' = [elapsed EXCEPT ![t] = 0]
  /\ callbacks' = [callbacks EXCEPT ![PipelineOf[t]] = Append(@, t)]
  /\ UNCHANGED <<newCallbacks, owner, pc, at, kill, phase, ended>>

Schedule(t) ==
  /\ t \notin scheduled
  /\ scheduled' = scheduled \cup {t}
  /\ elapsed' = [elapsed EXCEPT ![t] = 0]
  /\ newCallbacks' = [newCallbacks EXCEPT ![PipelineOf[t]] = Append(@, t)]
  /\ UNCHANGED <<callbacks, owner, pc, at, kill, phase, ended>>

------------------------------------------------------------------------------
(* task_pipeline::execute, one action for each point where another thread   *)
(* can be seen.                                                             *)

\* Mutant of Acquire: the async thread does not test kill.
AcquireWithoutKillTest(d) ==
  /\ pc[d] = "idle"
  /\ owner[Feeds[d]] = NoDriver
  /\ owner' = [owner EXCEPT ![Feeds[d]] = d]
  /\ pc' = [pc EXCEPT ![d] = "merge"]
  /\ UNCHANGED <<newCallbacks, callbacks, elapsed, at, kill, phase, scheduled, ended>>

\* The async thread tests kill at the top of its loop, a frame stub does not.
Acquire(d) ==
  /\ pc[d] = "idle"
  /\ d = AsyncThread => ~kill
  /\ owner[Feeds[d]] = NoDriver
  /\ owner' = [owner EXCEPT ![Feeds[d]] = d]
  /\ pc' = [pc EXCEPT ![d] = "merge"]
  /\ UNCHANGED <<newCallbacks, callbacks, elapsed, at, kill, phase, scheduled, ended>>

\* Mutant of Merge: new_tasks is not emptied.
MergeWithoutClear(d) ==
  LET p == Feeds[d] IN
  /\ pc[d] = "merge"
  /\ callbacks' = [callbacks EXCEPT ![p] = @ \o newCallbacks[p]]
  /\ pc' = [pc EXCEPT ![d] = "scan"]
  /\ at' = [at EXCEPT ![d] = 1]
  /\ UNCHANGED <<newCallbacks, elapsed, owner, kill, phase, scheduled, ended>>

\* Mutant of Merge: inserts at begin() instead of end().
MergeInFront(d) ==
  LET p == Feeds[d] IN
  /\ pc[d] = "merge"
  /\ callbacks' = [callbacks EXCEPT ![p] = newCallbacks[p] \o @]
  /\ newCallbacks' = [newCallbacks EXCEPT ![p] = <<>>]
  /\ pc' = [pc EXCEPT ![d] = "scan"]
  /\ at' = [at EXCEPT ![d] = 1]
  /\ UNCHANGED <<elapsed, owner, kill, phase, scheduled, ended>>

Merge(d) ==
  LET p == Feeds[d] IN
  /\ pc[d] = "merge"
  /\ callbacks' = [callbacks EXCEPT ![p] = @ \o newCallbacks[p]]
  /\ newCallbacks' = [newCallbacks EXCEPT ![p] = <<>>]
  /\ pc' = [pc EXCEPT ![d] = "scan"]
  /\ at' = [at EXCEPT ![d] = 1]
  /\ UNCHANGED <<elapsed, owner, kill, phase, scheduled, ended>>

\* Mutant of SkipTask: last_call = now stands before the test of the interval.
SkipTaskStamps(d) ==
  /\ pc[d] = "scan"
  /\ at[d] <= Len(callbacks[Feeds[d]])
  /\ ~Due(Current(d))
  /\ elapsed' = [elapsed EXCEPT ![Current(d)] = 0]
  /\ at' = [at EXCEPT ![d] = @ + 1]
  /\ UNCHANGED <<newCallbacks, callbacks, owner, pc, kill, phase, scheduled, ended>>

\* diff < interval: ++i, continue.
SkipTask(d) ==
  /\ pc[d] = "scan"
  /\ at[d] <= Len(callbacks[Feeds[d]])
  /\ ~Due(Current(d))
  /\ at' = [at EXCEPT ![d] = @ + 1]
  /\ UNCHANGED <<newCallbacks, callbacks, elapsed, owner, pc, kill, phase, scheduled, ended>>

\* last_call = now, then the handler is entered.
CallHandler(d) ==
  /\ pc[d] = "scan"
  /\ at[d] <= Len(callbacks[Feeds[d]])
  /\ Due(Current(d))
  /\ elapsed' = [elapsed EXCEPT ![Current(d)] = 0]
  /\ pc' = [pc EXCEPT ![d] = "handler"]
  /\ UNCHANGED <<newCallbacks, callbacks, owner, at, kill, phase, scheduled, ended>>

\* res == cond_continue: ++i.
HandlerContinues(d) ==
  /\ pc[d] = "handler"
  /\ FALSE \in Verdicts[Current(d)]
  /\ pc' = [pc EXCEPT ![d] = "scan"]
  /\ at' = [at EXCEPT ![d] = @ + 1]
  /\ UNCHANGED <<newCallbacks, callbacks, elapsed, owner, kill, phase, scheduled, ended>>

\* res == cond_end: i = tasks.erase(i).
HandlerEnds(d) ==
  /\ pc[d] = "handler"
  /\ TRUE \in Verdicts[Current(d)]
  /\ pc' = [pc EXCEPT ![d] = "scan"]
  /\ callbacks' = [callbacks EXCEPT ![Feeds[d]] = RemoveAt(@, at[d])]
  /\ ended' = ended \cup {Current(d)}
  /\ UNCHANGED <<newCallbacks, elapsed, owner, at, kill, phase, scheduled>>

\* i == tasks.end(): the lock guard is destroyed.
Release(d) ==
  /\ pc[d] = "scan"
  /\ at[d] > Len(callbacks[Feeds[d]])
  /\ owner' = [owner EXCEPT ![Feeds[d]] = NoDriver]
  /\ pc' = [pc EXCEPT ![d] = "idle"]
  /\ at' = [at EXCEPT ![d] = 1]
  /\ UNCHANGED <<newCallbacks, callbacks, elapsed, kill, phase, scheduled, ended>>

Execute(d) ==
  \/ Acquire(d) \/ Merge(d)
  \/ SkipTask(d) \/ CallHandler(d) \/ HandlerContinues(d) \/ HandlerEnds(d)
  \/ Release(d)

------------------------------------------------------------------------------
(* The component: post_load starts the async thread and installs the hooks, *)
(* pre_destroy stops and joins the thread and leaves the hooks in place.    *)

PostLoad ==
  /\ phase = "loading"
  /\ phase' = "loaded"
  /\ pc' = [d \in Drivers |-> "idle"]
  /\ UNCHANGED <<newCallbacks, callbacks, elapsed, owner, at, kill, scheduled, ended>>

AsyncThreadEnds ==
  /\ pc[AsyncThread] = "idle"
  /\ kill
  /\ pc' = [pc EXCEPT ![AsyncThread] = "exited"]
  /\ UNCHANGED <<newCallbacks, callbacks, elapsed, owner, at, kill, phase, scheduled, ended>>

PreDestroy ==
  /\ phase \in {"loading", "loaded"}
  /\ phase' = "stopping"
  /\ kill' = TRUE
  /\ UNCHANGED <<newCallbacks, callbacks, elapsed, owner, pc, at, scheduled, ended>>

\* A thread that was never started is not joinable, and join is not called.
Join ==
  /\ phase = "stopping"
  /\ pc[AsyncThread] \in {"off", "exited"}
  /\ phase' = "stopped"
  /\ UNCHANGED <<newCallbacks, callbacks, elapsed, owner, pc, at, kill, scheduled, ended>>

------------------------------------------------------------------------------
(* The clock, external to the code. *)

Tick ==
  /\ \E t \in Tasks : ~Due(t)
  /\ elapsed' = [t \in Tasks |-> IF Due(t) THEN elapsed[t] ELSE elapsed[t] + 1]
  /\ UNCHANGED <<newCallbacks, callbacks, owner, pc, at, kill, phase, scheduled, ended>>

\* Unloaded without ever having been loaded: nobody executes anything.
NeverLoaded ==
  /\ phase = "stopped"
  /\ \A d \in Drivers : pc[d] = "off"
  /\ UNCHANGED vars

Next ==
  \/ \E t \in Tasks : Schedule(t)
  \/ \E d \in Drivers : Execute(d)
  \/ PostLoad \/ PreDestroy \/ AsyncThreadEnds \/ Join \/ Tick \/ NeverLoaded

Spec == Init /\ [][Next]_vars

\* The operating system runs every thread, the game keeps calling its frame
\* functions, handlers return, and time passes.  Nobody has to schedule, load
\* or unload anything.
Fairness ==
  /\ \A d \in Drivers : WF_vars(Execute(d))
  /\ WF_vars(AsyncThreadEnds)
  /\ WF_vars(Join)
  /\ WF_vars(Tick)

FairSpec == Spec /\ Fairness

------------------------------------------------------------------------------
(* Properties. *)

\* Every task that was scheduled and has not returned cond_end is in exactly
\* one of the two vectors of its pipeline, exactly once, whatever add,
\* merge_callbacks and erase do in whatever order: schedule never loses a
\* callback and never doubles it.
NothingLostOrDoubled ==
  \A p \in Pipelines :
    LET tasks == callbacks[p] \o newCallbacks[p] IN
    /\ IsInjective(tasks)
    /\ ToSet(tasks) = {t \in scheduled \ ended : PipelineOf[t] = p}

\* The iterator of execute stays inside the vector and only the holder of the
\* mutex has one: ++i and erase never step past end(), and two drivers of one
\* pipeline never walk it together.
IteratorValid ==
  \A d \in Drivers :
    /\ pc[d] \in InPass <=> owner[Feeds[d]] = d
    /\ pc[d] = "scan" => at[d] <= Len(callbacks[Feeds[d]]) + 1
    /\ pc[d] = "handler" => at[d] <= Len(callbacks[Feeds[d]])

\* While a pass walks callbacks_ the vector does not change under its iterator,
\* except by its own erase at the place of the handler that returned: what a
\* handler schedules is not called by the pass that called the handler.
PassWalksASnapshot ==
  [][\A d \in Drivers :
       LET tasks == callbacks[Feeds[d]] IN
       pc[d] \in {"scan", "handler"} =>
         \/ callbacks'[Feeds[d]] = tasks
         \/ /\ pc[d] = "handler" /\ pc'[d] = "scan"
            /\ callbacks'[Feeds[d]] = RemoveAt(tasks, at[d])]_vars

Running(t) == \E d \in Drivers : pc[d] = "handler" /\ Current(d) = t
Driven(t) ==
  \E d \in Drivers : Feeds[d] = PipelineOf[t] /\ pc[d] \notin {"off", "exited"}

\* A task whose pipeline somebody executes is called, and a loop is called
\* again and again: no pass, no skipped interval, no other task of the pipeline
\* and no task scheduled later can starve it.  Only the end of the async
\* thread takes the promise back.
EveryTaskIsCalled ==
  \A t \in Tasks :
    (t \in scheduled \ ended /\ Driven(t)) ~> (Running(t) \/ ~Driven(t))

\* pre_destroy returns: the async thread sees kill and join comes back.
UnloadFinishes == phase = "stopping" ~> phase = "stopped"

\* The two vectors are one queue, and the promise of TaskQueue is kept.
Promise == INSTANCE TaskQueue WITH
  queue <- [p \in Pipelines |-> callbacks[p] \o newCallbacks[p]],
  running <- [p \in Pipelines |->
                IF owner[p] # NoDriver /\ pc[owner[p]] = "handler"
                THEN Current(owner[p]) ELSE NoTask]

\* Merging, skipping, locking, loading and unloading are invisible to callers.
KeepsPromise == Promise!Spec

==============================================================================
