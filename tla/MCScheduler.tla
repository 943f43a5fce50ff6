---------------------------- MODULE MCScheduler ----------------------------
(***************************************************************************)
(* Instances of Scheduler for TLC.                                         *)
(***************************************************************************)
EXTENDS Scheduler, TLC

Cfg(s, retry, dep, node, handler) ==
  [strategy |-> s, retry |-> retry, dep |-> dep, node |-> node, handler |-> handler]

RunSymmetry == Permutations(Runs)

Master(s, retry) == Cfg(s, retry, NoTask, "master", FALSE)

(* A task of this node under skip, with a retry; one of a node that is not *)
(* found, under no strategy; one of an edge node.  The result handler of   *)
(* the first two may panic.                                                *)
NodeConfigs ==
  {Cfg("skip", 1, NoTask, "master", TRUE), Cfg("parallel", 0, NoTask, "unknown", TRUE),
   Cfg("delay", 0, NoTask, "edge", FALSE)}
(* RetryTimes at the top of an int8.                                       *)
WrappingRetry == {Master("parallel", MaxInt8)}
DelayRetry == {Master("delay", 1)}
SkipOnly == {Master("skip", 0)}
(* A task of an edge node, and tasks of this node that depend on it.  An   *)
(* import gives each of these settings any dependency.                     *)
DependencyConfigs ==
  {Cfg("skip", 0, NoTask, "edge", FALSE),
   Cfg("skip", 0, CHOOSE t \in Tasks : TRUE, "master", FALSE)}

=============================================================================
