---------------------------- MODULE MCScheduler ----------------------------
(* Values for the constants of Scheduler: a loop with an interval, a once,   *)
(* a task that ends when it likes (clean_up_on_error), all on one pipeline   *)
(* with two drivers, and a delayed once on the async pipeline.               *)
EXTENDS Scheduler

CONSTANTS main, async, frame, frame2, thread, tOnce, tLoop, tUntil, tAsync

MCTasks == {tOnce, tLoop, tUntil, tAsync}
MCPipelines == {main, async}
MCDrivers == {frame, frame2, thread}
MCFeeds == [d \in MCDrivers |-> IF d = thread THEN async ELSE main]
MCPipelineOf == [t \in MCTasks |-> IF t = tAsync THEN async ELSE main]
MCVerdicts ==
  [t \in MCTasks |-> CASE t = tLoop -> {FALSE}
                       [] t = tUntil -> {TRUE, FALSE}
                       [] OTHER -> {TRUE}]
MCInterval == [t \in MCTasks |-> CASE t = tLoop -> 1 [] t = tAsync -> 2 [] OTHER -> 0]
=============================================================================
