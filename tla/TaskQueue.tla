------------------------------ MODULE TaskQueue ------------------------------
(***************************************************************************)
(* What the scheduler promises its callers, without threads, locks, the    *)
(* two vectors of a task_pipeline or iterators: every pipeline is one      *)
(* queue in the order of the calls to schedule; a handler runs only while  *)
(* its task is in the queue, one handler of a pipeline at a time; a task   *)
(* leaves its queue only when its own handler has returned cond_end, and   *)
(* then it never runs again.                                               *)
(***************************************************************************)
EXTENDS Naturals, Sequences, SequencesExt

CONSTANTS
  Tasks,       (* the calls of schedule, loop and once                      *)
  Pipelines,   (* enum class pipeline                                       *)
  PipelineOf,  (* the pipeline a task is scheduled on                       *)
  Verdicts,    (* what its handler may return: TRUE is cond_end             *)
  NoTask

VARIABLES
  queue,       (* pipeline -> its tasks, oldest first                       *)
  running      (* pipeline -> the task whose handler runs, or NoTask        *)

vars == <<queue, running>>

Waiting == UNION { ToSet(queue[p]) : p \in Pipelines }

Init ==
  /\ queue = [p \in Pipelines |-> <<>>]
  /\ running = [p \in Pipelines |-> NoTask]

\* A task is queued behind everything scheduled on its pipeline before it.
Submit(t) ==
  /\ t \notin Waiting
  /\ queue' = [queue EXCEPT ![PipelineOf[t]] = Append(@, t)]
  /\ UNCHANGED running

Start(p) ==
  /\ running[p] = NoTask
  /\ \E t \in ToSet(queue[p]) : running' = [running EXCEPT ![p] = t]
  /\ UNCHANGED queue

\* cond_continue keeps the task at its place, cond_end removes it alone.
Return(p) ==
  /\ running[p] # NoTask
  /\ running' = [running EXCEPT ![p] = NoTask]
  /\ \/ /\ FALSE \in Verdicts[running[p]]
        /\ UNCHANGED queue
     \/ /\ TRUE \in Verdicts[running[p]]
        /\ queue' = [queue EXCEPT ![p] = RemoveFirst(@, running[p])]

Next ==
  \/ \E t \in Tasks : Submit(t)
  \/ \E p \in Pipelines : Start(p) \/ Return(p)

Spec == Init /\ [][Next]_vars
==============================================================================
