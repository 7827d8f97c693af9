------------------------------- MODULE AcTasks -------------------------------
(***************************************************************************)
(* The task graph of ac_schedule.c: which workers a schedule has, when a    *)
(* worker's dependencies count as complete, and which workers one call of   *)
(* mark_task_complete releases.  Everything here is a constant or a pure    *)
(* operator over C, the set of completed workers, and W, the set of workers *)
(* whose state link has waiting_on_others set.                              *)
(*                                                                          *)
(* A worker is a pair <<task, partition>>: one ac_task_state_link_t.        *)
(***************************************************************************)
EXTENDS Naturals, FiniteSets

CONSTANTS
  Tasks,                \* the tasks added with ac_schedule_task
  Partitioned,          \* those added with partitioned = true
  NumPartitions,        \* h->num_partitions
  Dependencies,         \* task -> the tasks on its dependencies list
  PartialDependencies,  \* task -> the tasks on its partial_dependencies list
  DoNothing             \* tasks marked with ac_task_do_nothing

ASSUME TasksAssumption ==
  /\ IsFiniteSet(Tasks)
  /\ Partitioned \subseteq Tasks
  /\ DoNothing \subseteq Tasks
  /\ NumPartitions \in Nat \ {0}
  /\ Dependencies \in [Tasks -> SUBSET Tasks]
  /\ PartialDependencies \in [Tasks -> SUBSET Tasks]

Partitions(task) ==
  0 .. ((IF task \in Partitioned THEN NumPartitions ELSE 1) - 1)

Worker == UNION {{<<task, p>> : p \in Partitions(task)} : task \in Tasks}

\* The workers of do_nothing tasks: they complete without ever being run.
Checkpoint == {w \in Worker : w[1] \in DoNothing}

-----------------------------------------------------------------------------
IsTaskComplete(task, C) == \A p \in Partitions(task) : <<task, p>> \in C

\* A partition the dependency does not have stands for its partition 0.
IsWorkerComplete(task, p, C) ==
  <<task, IF p \in Partitions(task) THEN p ELSE 0>> \in C

IsDependenciesComplete(w, C) ==
  /\ \A d \in Dependencies[w[1]] : IsTaskComplete(d, C)
  /\ \A d \in PartialDependencies[w[1]] : IsWorkerComplete(d, w[2], C)

-----------------------------------------------------------------------------
(***************************************************************************)
(* mark_task_complete and check_task call each other: a released checkpoint *)
(* is completed on the spot, which checks its own dependents, and so on.    *)
(* Every test is monotone in the completed set, so the recursion computes   *)
(* the least set of checkpoints closed under "checked, and its              *)
(* dependencies are complete"; the order of the links does not matter.      *)
(***************************************************************************)

\* Does completing x, when C is completed, call check_task on w?  All reverse
\* links of a finished task are checked in every partition; until then only
\* the reverse partial links are, in x's own partition.
Checks(x, w, C) ==
  IF IsTaskComplete(x[1], C)
  THEN x[1] \in Dependencies[w[1]] \cup PartialDependencies[w[1]]
  ELSE x[1] \in PartialDependencies[w[1]] /\ w[2] = x[2]

\* Fault: check_task releases w for any finished dependency.
ReadyOnAny(w, c, S, C) == \E x \in S \cup {c} : Checks(x, w, C \cup S \cup {c})

\* check_task's condition on a waiting w, once c and the checkpoints S are done.
Ready(w, c, S, C) ==
  /\ \E x \in S \cup {c} : Checks(x, w, C \cup S \cup {c})
  /\ IsDependenciesComplete(w, C \cup S \cup {c})

CascadeClosed(S, c, W, C) ==
  \A k \in W \cap Checkpoint : Ready(k, c, S, C) => k \in S

\* The waiting checkpoints that complete together with c.
Cascade(c, W, C) ==
  {k \in W \cap Checkpoint :
     \A S \in SUBSET (W \cap Checkpoint) : CascadeClosed(S, c, W, C) => k \in S}

\* Fault: check_task does not look at the dependencies.
ReleasedAll(c, W, C) == W \ Checkpoint

\* The waiting workers that completing c moves to the available lists.
Released(c, W, C) ==
  {w \in W \ Checkpoint : Ready(w, c, Cascade(c, W, C), C)}

-----------------------------------------------------------------------------
\* The checkpoints completed by schedule_setup before any thread exists: those
\* without dependencies, and those that depend on such checkpoints only.
SetupCompleted ==
  {k \in Checkpoint :
     \A S \in SUBSET Checkpoint :
        (\A x \in Checkpoint : IsDependenciesComplete(x, S) => x \in S)
           => k \in S}

\* ac_task_dependency makes every partition of a task with a dependency wait;
\* schedule_setup then releases those whose dependencies it completed.
SetupWaiting ==
  {w \in Worker \ SetupCompleted : ~IsDependenciesComplete(w, SetupCompleted)}

SetupAvailable == Worker \ (SetupCompleted \cup SetupWaiting)
==============================================================================
