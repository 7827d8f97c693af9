---------------------------- MODULE AcTasksLemmas ----------------------------
(***************************************************************************)
(* Facts about the task graph operators, for every graph: the recursion of  *)
(* mark_task_complete and check_task releases exactly the waiting workers    *)
(* whose last dependency it completed.                                      *)
(***************************************************************************)
EXTENDS AcTasks, FiniteSetTheorems, TLAPS

\* A worker is one of the task's partitions, and partition 0 always exists.
LEMMA WorkerPairs ==
  /\ \A w \in Worker : w[1] \in Tasks /\ w[2] \in Partitions(w[1])
                       /\ w = <<w[1], w[2]>> /\ w[2] \in 0 .. (NumPartitions - 1)
  /\ \A task \in Tasks : \A p \in Partitions(task) : <<task, p>> \in Worker
  /\ \A task \in Tasks : 0 \in Partitions(task)
<1>1. \A task \in Tasks : Partitions(task) \subseteq 0 .. (NumPartitions - 1)
                          /\ 0 \in Partitions(task)
  BY TasksAssumption DEF Partitions
<1>2. ASSUME NEW w \in Worker
      PROVE  w[1] \in Tasks /\ w[2] \in Partitions(w[1]) /\ w = <<w[1], w[2]>>
  <2>1. PICK task \in Tasks : w \in {<<task, p>> : p \in Partitions(task)}
    BY DEF Worker
  <2>2. PICK p \in Partitions(task) : w = <<task, p>>
    BY <2>1
  <2>3. w[1] = task /\ w[2] = p
    BY <2>2
  <2> QED
    BY <2>2, <2>3
<1>3. ASSUME NEW task \in Tasks, NEW p \in Partitions(task)
      PROVE  <<task, p>> \in Worker
  BY DEF Worker
<1> QED
  BY <1>1, <1>2, <1>3

\* The counters of ac_schedule_s count finite lists.
LEMMA WorkerFinite == IsFiniteSet(Worker)
<1>1. Worker \subseteq Tasks \X (0 .. (NumPartitions - 1))
  BY WorkerPairs
<1>2. IsFiniteSet(Tasks) /\ IsFiniteSet(0 .. (NumPartitions - 1))
  BY TasksAssumption, FS_Interval
<1>3. IsFiniteSet(Tasks \X (0 .. (NumPartitions - 1)))
  BY <1>2, FS_Product
<1> QED
  BY <1>1, <1>3, FS_Subset

\* Completing more workers never makes a complete dependency incomplete.
LEMMA CompleteMonotone ==
  ASSUME NEW C, NEW D, C \subseteq D
  PROVE  /\ \A task : IsTaskComplete(task, C) => IsTaskComplete(task, D)
         /\ \A w : IsDependenciesComplete(w, C) => IsDependenciesComplete(w, D)
         /\ \A x, w : Checks(x, w, C) => Checks(x, w, D)
BY DEF IsTaskComplete, IsWorkerComplete, IsDependenciesComplete, Checks

LEMMA ReadyMonotone ==
  ASSUME NEW c, NEW C, NEW S, NEW T, S \subseteq T, NEW w, Ready(w, c, S, C)
  PROVE  Ready(w, c, T, C)
<1>1. C \cup S \cup {c} \subseteq C \cup T \cup {c}
  OBVIOUS
<1> QED
  BY <1>1, CompleteMonotone DEF Ready

\* The cascade is closed: check_task misses no checkpoint.
LEMMA CascadeIsClosed ==
  ASSUME NEW c, NEW W, NEW C
  PROVE  /\ CascadeClosed(Cascade(c, W, C), c, W, C)
         /\ Cascade(c, W, C) \subseteq W \cap Checkpoint
<1>1. ASSUME NEW k \in W \cap Checkpoint, Ready(k, c, Cascade(c, W, C), C),
             NEW S \in SUBSET (W \cap Checkpoint), CascadeClosed(S, c, W, C)
      PROVE  k \in S
  <2>1. Cascade(c, W, C) \subseteq S
    BY <1>1 DEF Cascade
  <2>2. Ready(k, c, S, C)
    BY <1>1, <2>1, ReadyMonotone
  <2> QED
    BY <1>1, <2>2 DEF CascadeClosed
<1> QED
  BY <1>1 DEF CascadeClosed, Cascade

\* The cascade is the least such set: a checkpoint completes only when its
\* dependencies are complete.
LEMMA CascadeIsReady ==
  ASSUME NEW c, NEW W, NEW C, NEW k \in Cascade(c, W, C)
  PROVE  Ready(k, c, Cascade(c, W, C), C)
<1> DEFINE K == Cascade(c, W, C)
           T == {x \in K : Ready(x, c, K, C)}
<1>1. T \subseteq K /\ T \in SUBSET (W \cap Checkpoint)
  BY CascadeIsClosed
<1>2. CascadeClosed(T, c, W, C)
  <2> SUFFICES ASSUME NEW x \in W \cap Checkpoint, Ready(x, c, T, C)
               PROVE  x \in T
    BY DEF CascadeClosed
  <2>1. Ready(x, c, K, C)
    BY <1>1, ReadyMonotone
  <2>2. x \in K
    BY <2>1, CascadeIsClosed DEF CascadeClosed
  <2> QED
    BY <2>1, <2>2
<1>3. k \in T
  BY <1>1, <1>2 DEF Cascade
<1> QED
  BY <1>3
\* What one mark_task_complete completes or releases is waiting, and has all its
\* dependencies in the new completed set.
LEMMA ReleasedAreReady ==
  ASSUME NEW c, NEW W, NEW C,
         NEW w \in Cascade(c, W, C) \cup Released(c, W, C)
  PROVE  w \in W /\ IsDependenciesComplete(w, C \cup {c} \cup Cascade(c, W, C))
<1>1. C \cup Cascade(c, W, C) \cup {c} = C \cup {c} \cup Cascade(c, W, C)
  OBVIOUS
<1>2. w \in W /\ Ready(w, c, Cascade(c, W, C), C)
  BY CascadeIsReady, CascadeIsClosed DEF Released
<1> QED
  BY <1>1, <1>2 DEF Ready

\* A worker whose last dependency completes is checked: the completed worker's
\* reverse links lead to it.
LEMMA LastDependencyChecks ==
  ASSUME NEW w \in Worker, NEW C, NEW D, C \subseteq D,
         ~IsDependenciesComplete(w, C), IsDependenciesComplete(w, D)
  PROVE  \E x \in D \ C : Checks(x, w, D)
<1>1. ASSUME NEW d \in Dependencies[w[1]], ~IsTaskComplete(d, C)
      PROVE  \E x \in D \ C : Checks(x, w, D)
  <2>1. IsTaskComplete(d, D)
    BY DEF IsDependenciesComplete
  <2>2. PICK p \in Partitions(d) : <<d, p>> \notin C
    BY <1>1 DEF IsTaskComplete
  <2>3. <<d, p>> \in D \ C /\ <<d, p>>[1] = d
    BY <2>1, <2>2 DEF IsTaskComplete
  <2>4. Checks(<<d, p>>, w, D)
    BY <1>1, <2>1, <2>3 DEF Checks
  <2> QED
    BY <2>3, <2>4
<1>2. ASSUME NEW d \in PartialDependencies[w[1]], ~IsWorkerComplete(d, w[2], C)
      PROVE  \E x \in D \ C : Checks(x, w, D)
  <2> DEFINE p == IF w[2] \in Partitions(d) THEN w[2] ELSE 0
  <2>1. <<d, p>> \in D \ C /\ <<d, p>>[1] = d /\ <<d, p>>[2] = p
    BY <1>2 DEF IsDependenciesComplete, IsWorkerComplete
  <2>2. CASE w[2] \in Partitions(d)
    BY <1>2, <2>1, <2>2 DEF Checks
  <2>3. CASE w[2] \notin Partitions(d)
    \* Only an unpartitioned task lacks a partition that w has.
    <3>1. Partitions(d) = {0}
      BY <2>3, WorkerPairs, TasksAssumption DEF Partitions
    <3>2. IsTaskComplete(d, D)
      BY <2>1, <2>3, <3>1 DEF IsTaskComplete
    <3> QED
      BY <1>2, <2>1, <3>2 DEF Checks
  <2> QED
    BY <2>2, <2>3
<1> QED
  BY <1>1, <1>2 DEF IsDependenciesComplete

\* After mark_task_complete no waiting worker is ready: nothing is missed.
LEMMA NothingMissed ==
  ASSUME NEW c, NEW W, NEW C,
         NEW w \in (W \cap Worker) \ (Cascade(c, W, C) \cup Released(c, W, C)),
         ~IsDependenciesComplete(w, C)
  PROVE  ~IsDependenciesComplete(w, C \cup {c} \cup Cascade(c, W, C))
<1> DEFINE K == Cascade(c, W, C)
           D == C \cup {c} \cup K
<1>1. D = C \cup K \cup {c}
  OBVIOUS
<1> SUFFICES ASSUME IsDependenciesComplete(w, D) PROVE FALSE
  OBVIOUS
<1>2. PICK x \in D \ C : Checks(x, w, D)
  BY LastDependencyChecks
<1>3. Ready(w, c, K, C)
  BY <1>1, <1>2 DEF Ready
<1>4. CASE w \in Checkpoint
  BY <1>3, <1>4, CascadeIsClosed DEF CascadeClosed
<1>5. CASE w \notin Checkpoint
  BY <1>3, <1>5 DEF Released
<1> QED
  BY <1>4, <1>5

-----------------------------------------------------------------------------
\* What schedule_setup completes: checkpoints, each after all it depends on, and
\* every checkpoint that can be.
LEMMA SetupCompletedIsLeast ==
  /\ SetupCompleted \subseteq Checkpoint
  /\ \A k \in SetupCompleted : IsDependenciesComplete(k, SetupCompleted)
  /\ \A k \in Checkpoint : IsDependenciesComplete(k, SetupCompleted) => k \in SetupCompleted
<1> DEFINE Closed(S) == \A x \in Checkpoint : IsDependenciesComplete(x, S) => x \in S
           T == {x \in SetupCompleted : IsDependenciesComplete(x, SetupCompleted)}
<1>1. SetupCompleted \subseteq Checkpoint
  BY DEF SetupCompleted
<1>2. \A S \in SUBSET Checkpoint : Closed(S) => SetupCompleted \subseteq S
  BY DEF SetupCompleted
<1>3. Closed(SetupCompleted)
  <2> SUFFICES ASSUME NEW x \in Checkpoint, IsDependenciesComplete(x, SetupCompleted),
                      NEW S \in SUBSET Checkpoint, Closed(S)
               PROVE  x \in S
    BY DEF SetupCompleted
  <2>1. IsDependenciesComplete(x, S)
    BY <1>2, CompleteMonotone
  <2> QED
    BY <2>1
<1>4. Closed(T)
  <2> SUFFICES ASSUME NEW x \in Checkpoint, IsDependenciesComplete(x, T)
               PROVE  x \in T
    OBVIOUS
  <2>1. T \subseteq SetupCompleted
    OBVIOUS
  <2>2. IsDependenciesComplete(x, SetupCompleted)
    BY <2>1, CompleteMonotone
  <2> QED
    BY <1>3, <2>2
<1>5. T \in SUBSET Checkpoint
  BY <1>1
<1>6. SetupCompleted \subseteq T
  BY <1>2, <1>4, <1>5
<1> QED
  BY <1>1, <1>3, <1>6
==============================================================================
