-------------------------- MODULE AcScheduleProofs --------------------------
(***************************************************************************)
(* Theorems about AcSchedule for every task graph and any number of threads. *)
(***************************************************************************)
EXTENDS AcSchedule, AcTasksLemmas

\* No runner or on_complete returns false, and --task is not used.
AllRun == MayFail = {} /\ Selected = {}

\* The types of the variables when ac_schedule_run begins.
LEMMA InitTypes == Init => TypeOK
<1>1. Cardinality(SetupAvailable) \in Int /\ Cardinality(SetupWaiting) \in Int
      /\ Cardinality(Selected) \in Int /\ Cardinality(Threads) \in Int
  <2>1. IsFiniteSet(SetupAvailable) /\ IsFiniteSet(SetupWaiting) /\ IsFiniteSet(Selected)
    BY WorkerFinite, FS_Subset, ThreadsAssumption DEF SetupAvailable, SetupWaiting
  <2> QED
    BY <2>1, FS_CardinalityType, ThreadsAssumption
<1>2. SetupCompleted \in SUBSET Worker
  BY SetupCompletedIsLeast DEF Checkpoint
<1>3. SetupAvailable \in SUBSET Worker /\ SetupWaiting \in SUBSET Worker
  BY DEF SetupAvailable, SetupWaiting
<1> SUFFICES ASSUME Init PROVE TypeOK
  OBVIOUS
<1>4. /\ pc \in [Threads -> Labels]
      /\ worker \in [Threads -> Worker \cup {NoWorker}]
      /\ share \in [Threads -> Int] /\ saved \in [Threads -> Int]
  BY DEF Init, Labels
<1>5. \A t \in Threads : pc[t] = "next"
  BY DEF Init
<1> QED
  BY <1>1, <1>2, <1>3, <1>4, <1>5 DEF Init, TypeOK, cpus

\* The types of the variables are kept by every step of every run.
THEOREM TypeCorrect == Spec => []TypeOK
<1>1. Init => TypeOK
  BY InitTypes
<1>2. TypeOK /\ [Next]_vars => TypeOK'
  <2> SUFFICES ASSUME TypeOK, [Next]_vars PROVE TypeOK'
    OBVIOUS
  <2> USE DEF TypeOK, Labels, lists, At, Goto, Lock, Unlock, Broadcast
  <2>1. ASSUME NEW t \in Threads, NextFinished(t) PROVE TypeOK'
    BY <2>1 DEF NextFinished
  <2>2. ASSUME NEW t \in Threads, NextSearch(t) PROVE TypeOK'
    BY <2>2 DEF NextSearch
  <2>3. ASSUME NEW t \in Threads, TestLoop(t) PROVE TypeOK'
    BY <2>3 DEF TestLoop
  <2>4. ASSUME NEW t \in Threads, CondWait(t) PROVE TypeOK'
    BY <2>4 DEF CondWait
  <2>5. ASSUME NEW t \in Threads, Wakeup(t) PROVE TypeOK'
    BY <2>5 DEF Wakeup
  <2>6. ASSUME NEW t \in Threads, SpuriousWakeup(t) PROVE TypeOK'
    BY <2>6 DEF SpuriousWakeup
  <2>7. ASSUME NEW t \in Threads, FindWorker(t) PROVE TypeOK'
    BY <2>7 DEF FindWorker
  <2>8. ASSUME NEW t \in Threads, FindNothing(t) PROVE TypeOK'
    BY <2>8 DEF FindNothing
  <2>9. ASSUME NEW t \in Threads, UnlinkWorker(t) PROVE TypeOK'
    <3>1. cpus \in Int
      BY FS_CardinalityType, ThreadsAssumption DEF cpus
    <3>2. \A n \in Int : ShareOf(n) \in Int
      BY <3>1 DEF ShareOf
    <3>3. share' \in [Threads -> Int]
      BY <2>9, <3>2 DEF UnlinkWorker
    <3>4. available' \in SUBSET Worker
      BY <2>9 DEF UnlinkWorker, UnlinkFrom
    <3> QED
      BY <2>9, <3>3, <3>4 DEF UnlinkWorker
  <2>10. ASSUME NEW t \in Threads, RunWorker(t) PROVE TypeOK'
    BY <2>10 DEF RunWorker
  <2>11. ASSUME NEW t \in Threads, FailWorker(t) PROVE TypeOK'
    BY <2>11 DEF FailWorker
  <2>12. ASSUME NEW t \in Threads, LockComplete(t) PROVE TypeOK'
    BY <2>12 DEF LockComplete
  <2>13. ASSUME NEW t \in Threads, MarkComplete(t) PROVE TypeOK'
    <3> DEFINE K == Cascade(worker[t], waiting, completed)
               R == Released(worker[t], waiting, completed)
    <3>1. worker[t] \in Worker /\ pc' = [pc EXCEPT ![t] = "signal"] /\ worker' = worker
      BY <2>13 DEF MarkComplete
    <3>2. K \in SUBSET Worker /\ R \in SUBSET Worker /\ K \cup R \in SUBSET Worker
      BY DEF Cascade, Released
    <3>3. Cardinality(R) \in Int /\ Cardinality(K \cup R) \in Int
      BY <3>2, WorkerFinite, FS_Subset, FS_CardinalityType
    <3>4. /\ completed' \in SUBSET Worker /\ waiting' \in SUBSET Worker
          /\ available' \in SUBSET Worker
          /\ num_tasks_to_run' \in Int /\ num_available' \in Int
      BY <2>13, <3>1, <3>2, <3>3 DEF MarkComplete, CompleteWorker
    <3>5. num_selected' \in Int /\ done' \in BOOLEAN
      <4>1. SelectedComplete(worker[t])
        BY <2>13 DEF MarkComplete
      <4>2. CASE worker[t] \in Selected
        <5>1. done' = (done \/ num_selected = 1) /\ num_selected' = num_selected - 1
          BY <4>1, <4>2, Zenon DEF SelectedComplete
        <5>2. done' \in BOOLEAN
          BY <5>1, Zenon
        <5>3. num_selected' \in Int
          BY <5>1, SMT
        <5> QED
          BY <5>2, <5>3
      <4>3. CASE worker[t] \notin Selected
        BY <4>1, <4>3 DEF SelectedComplete
      <4> QED
        BY <4>2, <4>3
    <3>6. /\ saved' \in [Threads -> Int]
          /\ mutex' = mutex /\ num_running' = num_running /\ share' = share
      BY <2>13 DEF MarkComplete
    <3>7. pc' \in [Threads -> Labels] /\ pc[t] = "mark"
      BY <2>13, <3>1 DEF MarkComplete
    <3>8. \A u \in Threads : pc'[u] \in {"unlink", "run", "complete", "mark", "signal"}
                              => worker'[u] \in Worker
      BY <3>1, <3>7
    <3> QED
      BY <3>1, <3>4, <3>5, <3>6, <3>7, <3>8
  <2>14. ASSUME NEW t \in Threads, Signal(t) PROVE TypeOK'
    BY <2>14 DEF Signal
  <2>15. ASSUME NEW t \in Threads, StrayUnlock(t) PROVE TypeOK'
    BY <2>15 DEF StrayUnlock
  <2>16. ASSUME NEW t \in Threads, SetDone(t) PROVE TypeOK'
    BY <2>16 DEF SetDone
  <2>17. ASSUME NEW t \in Threads, BroadcastDone(t) PROVE TypeOK'
    BY <2>17 DEF BroadcastDone
  <2>18. ASSUME NEW t \in Threads, FinalUnlock(t) PROVE TypeOK'
    BY <2>18 DEF FinalUnlock
  <2>19. CASE UNCHANGED vars
    BY <2>19 DEF vars
  <2> QED
    BY <2>1, <2>2, <2>3, <2>4, <2>5, <2>6, <2>7, <2>8, <2>9, <2>10, <2>11, <2>12,
       <2>13, <2>14, <2>15, <2>16, <2>17, <2>18, <2>19 DEF Next, Step, Returned
<1> QED
  BY <1>1, <1>2, PTL DEF Spec
-----------------------------------------------------------------------------
(***************************************************************************)
(* The inductive invariant.  ListInv is about the lists and the graph, and   *)
(* only UnlinkWorker and MarkComplete touch it; ThreadInv says why those two *)
(* find the lists as the thread's earlier steps left them.                   *)
(***************************************************************************)

\* The lists schedule_setup leaves behind agree with the graph.
LEMMA ListInvInit == Init => ListInv
<1> SUFFICES ASSUME Init PROVE ListInv
  OBVIOUS
<1>1. /\ completed = SetupCompleted /\ waiting = SetupWaiting /\ available = SetupAvailable
      /\ num_available = Cardinality(available) /\ num_tasks_to_run = Cardinality(waiting)
  BY DEF Init
<1>2. ListsDisjoint
  <2>1. Checkpoint \subseteq waiting \cup completed
    BY <1>1, SetupCompletedIsLeast DEF SetupAvailable, SetupWaiting, Checkpoint
  <2> QED
    BY <1>1, <2>1 DEF ListsDisjoint, SetupAvailable, SetupWaiting
<1>3. DependenciesFirst
  BY <1>1, SetupCompletedIsLeast DEF DependenciesFirst, SetupWaiting
<1>4. NoMissedRelease
  BY <1>1 DEF NoMissedRelease, SetupWaiting
<1> QED
  BY <1>1, <1>2, <1>3, <1>4 DEF ListInv, CountersMatchLists

\* Steps that leave the lists alone keep ListInv.
LEMMA ListInvStutter ==
  ASSUME ListInv, UNCHANGED lists
  PROVE  ListInv'
BY DEF ListInv, lists, ListsDisjoint, CountersMatchLists, DependenciesFirst, NoMissedRelease

\* take_worker removes one available worker and counts it.
LEMMA ListInvUnlink ==
  ASSUME TypeOK, ListInv, NEW t \in Threads, UnlinkWorker(t), worker[t] \in available
  PROVE  ListInv' /\ available' = available \ {worker[t]}
<1>1. /\ available' = available \ {worker[t]}
      /\ num_available' = num_available - 1
      /\ waiting' = waiting /\ completed' = completed
      /\ num_tasks_to_run' = num_tasks_to_run
  BY DEF UnlinkWorker, UnlinkFrom
<1>2. ListsDisjoint' /\ DependenciesFirst' /\ NoMissedRelease'
  BY <1>1 DEF ListInv, ListsDisjoint, DependenciesFirst, NoMissedRelease
<1>3. CountersMatchLists'
  <2>1. IsFiniteSet(available)
    BY WorkerFinite, FS_Subset DEF TypeOK
  <2>2. Cardinality(available \ {worker[t]}) = Cardinality(available) - 1
    BY <2>1, FS_RemoveElement
  <2> QED
    BY <1>1, <2>2 DEF ListInv, CountersMatchLists
<1> QED
  BY <1>1, <1>2, <1>3 DEF ListInv

\* mark_task_complete with its cascade moves waiting workers only, counts them,
\* and leaves no worker waiting for nothing.
LEMMA ListInvComplete ==
  ASSUME TypeOK, ListInv, NEW c \in Taken, CompleteWorker(c)
  PROVE  /\ ListInv'
         /\ Taken' = Taken \ {c}
         /\ available \cup waiting = {} => available' \cup waiting' = {}
         /\ available \subseteq available'
<1> DEFINE K == Cascade(c, waiting, completed)
           R == Released(c, waiting, completed)
<1>1. /\ completed' = completed \cup {c} \cup K
      /\ waiting' = waiting \ (K \cup R)
      /\ available' = available \cup R
      /\ num_tasks_to_run' = num_tasks_to_run - Cardinality(K \cup R)
      /\ num_available' = num_available + Cardinality(R)
  BY DEF CompleteWorker
<1>2. K \subseteq waiting /\ R \subseteq waiting /\ R \cap Checkpoint = {} /\ K \subseteq Checkpoint
  BY DEF Cascade, Released
<1>3. /\ waiting \subseteq Worker /\ available \subseteq Worker
      /\ c \in Worker /\ c \notin available \cup waiting \cup completed
  BY DEF TypeOK, Taken
<1>4. ListsDisjoint'
  BY <1>1, <1>2, <1>3 DEF ListInv, ListsDisjoint
<1>5. CountersMatchLists'
  <2>1. IsFiniteSet(available) /\ IsFiniteSet(waiting) /\ IsFiniteSet(R) /\ IsFiniteSet(K \cup R)
    BY <1>2, <1>3, WorkerFinite, FS_Subset
  <2>2. Cardinality(available \cup R) = Cardinality(available) + Cardinality(R)
    <3>1. available \cap R = {}
      BY <1>2 DEF ListInv, ListsDisjoint
    <3>2. Cardinality(available \cap R) = 0
      BY <3>1, FS_EmptySet
    <3>3. Cardinality(available \cup R)
             = Cardinality(available) + Cardinality(R) - Cardinality(available \cap R)
      BY <2>1, FS_Union
    <3>4. Cardinality(available) \in Nat /\ Cardinality(R) \in Nat
      BY <2>1, FS_CardinalityType
    <3> QED
      BY <3>2, <3>3, <3>4
  <2>3. Cardinality(waiting \ (K \cup R)) = Cardinality(waiting) - Cardinality(K \cup R)
    <3>1. waiting \cap (K \cup R) = K \cup R
      BY <1>2
    <3> QED
      BY <2>1, <3>1, FS_Difference, ZenonT(60)
  <2> QED
    BY <1>1, <2>2, <2>3 DEF ListInv, CountersMatchLists
<1>6. DependenciesFirst'
  <2> SUFFICES ASSUME NEW w \in Worker \ waiting'
               PROVE  IsDependenciesComplete(w, completed')
    BY DEF DependenciesFirst
  <2>1. CASE w \in K \cup R
    BY <1>1, <2>1, ReleasedAreReady
  <2>2. CASE w \notin K \cup R
    <3>1. w \notin waiting
      BY <1>1, <2>2
    <3>2. IsDependenciesComplete(w, completed)
      BY <3>1 DEF ListInv, DependenciesFirst
    <3> QED
      BY <1>1, <3>2, CompleteMonotone
  <2> QED
    BY <2>1, <2>2
<1>7. NoMissedRelease'
  <2> SUFFICES ASSUME NEW w \in waiting'
               PROVE  ~IsDependenciesComplete(w, completed')
    BY DEF NoMissedRelease
  <2>1. w \in (waiting \cap Worker) \ (K \cup R) /\ ~IsDependenciesComplete(w, completed)
    BY <1>1, <1>3 DEF ListInv, NoMissedRelease
  <2> QED
    BY <1>1, <2>1, NothingMissed
<1>8. Taken' = Taken \ {c}
  BY <1>1, <1>2 DEF Taken
<1>9. available \cup waiting = {} => available' \cup waiting' = {}
  BY <1>1, <1>2
<1> QED
  BY <1>1, <1>4, <1>5, <1>6, <1>7, <1>8, <1>9 DEF ListInv

\* The tests of the counters against zero are tests of the lists.
LEMMA CountersTellEmpty ==
  ASSUME TypeOK, ListInv
  PROVE  /\ num_available = 0 <=> available = {}
         /\ num_tasks_to_run = 0 <=> waiting = {}
<1>1. IsFiniteSet(available) /\ IsFiniteSet(waiting)
  BY WorkerFinite, FS_Subset DEF TypeOK
<1> QED
  BY <1>1, FS_EmptySet DEF ListInv, CountersMatchLists

\* A thread that unlinks a worker or completes one finds the lists as it should.
LEMMA ListInvStep ==
  ASSUME TypeOK, IInv, NEW t \in Threads, Step(t) \/ SpuriousWakeup(t)
  PROVE  ListInv'
<1>1. CASE UnlinkWorker(t)
  BY <1>1, ListInvUnlink DEF IInv, ThreadInv, DecisionsHold, UnlinkWorker, At
<1>2. CASE MarkComplete(t)
  <2>1. Holding(t)
    BY <1>2 DEF MarkComplete, At, Holding
  <2>2. worker[t] \in Taken /\ CompleteWorker(worker[t])
    BY <1>2, <2>1 DEF IInv, ThreadInv, OneThreadPerWorker, MarkComplete
  <2> QED
    BY <2>2, ListInvComplete DEF IInv
<1>3. CASE ~UnlinkWorker(t) /\ ~MarkComplete(t)
  <2>1. UNCHANGED lists
    BY <1>3 DEF Step, NextFinished, NextSearch, TestLoop, CondWait, Wakeup, SpuriousWakeup,
       FindWorker, FindNothing, RunWorker, FailWorker, LockComplete, Signal,
       StrayUnlock, SetDone, BroadcastDone, FinalUnlock
  <2> QED
    BY <2>1, ListInvStutter DEF IInv
<1> QED
  BY <1>1, <1>2, <1>3

\* Each step of a thread keeps what the threads know about the lists.
LEMMA ThreadInvStep ==
  ASSUME IInv, AllRun, NEW t \in Threads, Step(t) \/ SpuriousWakeup(t)
  PROVE  ThreadInv'
<1> DEFINE Work == available \cup waiting # {}
<1> USE DEF At, Goto, Lock, Unlock, Broadcast
<1>0. /\ num_available = 0 <=> available = {}
      /\ num_tasks_to_run = 0 <=> waiting = {}
  BY CountersTellEmpty DEF IInv
<1>a. /\ pc \in [Threads -> Labels] /\ worker \in [Threads -> Worker \cup {NoWorker}]
      /\ NoThread \notin Threads
  BY ThreadsAssumption DEF IInv, TypeOK
<1>b. ASSUME UNCHANGED lists PROVE Taken' = Taken
  BY <1>b DEF lists, Taken
<1> USE <1>a DEF IInv, ThreadInv, OneThreadPerWorker, ExclusiveWhileWork, LeaveWhenDrained,
                 DecisionsHold, Holding, Critical, Leaving, Labels, lists
<1> HIDE DEF Taken
<1>1. CASE NextFinished(t)
  BY <1>1, <1>b DEF NextFinished
<1>2. CASE NextSearch(t)
  BY <1>2, <1>b DEF NextSearch
<1>3. CASE TestLoop(t)
  BY <1>3, <1>b, <1>0 DEF TestLoop, MustWait
<1>4. CASE CondWait(t)
  BY <1>4, <1>b DEF CondWait
<1>5. CASE Wakeup(t)
  BY <1>5, <1>b DEF Wakeup
<1>6. CASE SpuriousWakeup(t)
  BY <1>6, <1>b DEF SpuriousWakeup
<1>7. CASE FindWorker(t)
  BY <1>7, <1>b DEF FindWorker
<1>8. CASE FindNothing(t)
  BY <1>8, <1>b, <1>0 DEF FindNothing
<1>10. CASE RunWorker(t)
  BY <1>10, <1>b DEF RunWorker
<1>11. CASE FailWorker(t)
  BY <1>11 DEF FailWorker, AllRun
<1>12. CASE LockComplete(t)
  BY <1>12, <1>b DEF LockComplete
<1>14. CASE Signal(t)
  BY <1>14, <1>b DEF Signal
<1>15. CASE StrayUnlock(t)
  BY <1>15, <1>b DEF StrayUnlock
<1>16. CASE SetDone(t)
  BY <1>16, <1>b DEF SetDone
<1>17. CASE BroadcastDone(t)
  BY <1>17, <1>b DEF BroadcastDone
<1>18. CASE FinalUnlock(t)
  BY <1>18, <1>b DEF FinalUnlock
<1>9. CASE UnlinkWorker(t)
  <2>1. worker[t] \in available /\ available # {} /\ pc[t] = "unlink"
    BY <1>9 DEF UnlinkWorker
  <2>2. available' = available \ {worker[t]} /\ waiting' = waiting /\ completed' = completed
    BY <1>9, <2>1 DEF UnlinkWorker, UnlinkFrom
  <2>3. worker[t] \notin Taken /\ Taken' = Taken \cup {worker[t]}
    BY <2>1, <2>2 DEF Taken, ListInv, ListsDisjoint, TypeOK
  <2>4. /\ ~done
        /\ \A u \in Threads \ {t} : ~Critical(u)
        /\ \A u \in Threads : ~Leaving(u)
    BY <2>1
  <2>5. /\ pc' = [pc EXCEPT ![t] = "run"] /\ worker' = worker /\ done' = done
        /\ mutex' = NoThread
    BY <1>9 DEF UnlinkWorker
  <2> QED
    BY <2>1, <2>2, <2>3, <2>4, <2>5
<1>13. CASE MarkComplete(t)
  <2>1. worker[t] \in Taken /\ CompleteWorker(worker[t]) /\ pc[t] = "mark"
    BY <1>13 DEF MarkComplete
  <2>2. /\ Taken' = Taken \ {worker[t]}
        /\ available \cup waiting = {} => available' \cup waiting' = {}
        /\ available \subseteq available'
    BY <2>1, ListInvComplete
  <2>3. /\ pc' = [pc EXCEPT ![t] = "signal"] /\ worker' = worker /\ done' = done
        /\ mutex' = mutex
    BY <1>13 DEF MarkComplete, SelectedComplete, AllRun
  <2> QED
    BY <2>1, <2>2, <2>3
<1> QED
  BY <1>1, <1>2, <1>3, <1>4, <1>5, <1>6, <1>7, <1>8, <1>9, <1>10, <1>11, <1>12,
     <1>13, <1>14, <1>15, <1>16, <1>17, <1>18 DEF Step

\* Before the first step no thread has decided anything.
LEMMA ThreadInvInit == Init => ThreadInv
BY DEF Init, ThreadInv, OneThreadPerWorker, ExclusiveWhileWork, LeaveWhenDrained, DecisionsHold,
   At, Holding, Critical, Leaving

\* The inductive invariant holds throughout a run in which no runner fails and
\* no worker is selected, under every interleaving of any number of threads.
THEOREM InductiveInvariant == ASSUME AllRun PROVE Spec => []IInv
<1>1. Init => ListInv /\ ThreadInv
  BY ListInvInit, ThreadInvInit
<1>2. TypeOK /\ ListInv /\ ThreadInv /\ [Next]_vars => ListInv' /\ ThreadInv'
  <2> SUFFICES ASSUME IInv, [Next]_vars PROVE ListInv' /\ ThreadInv'
    BY DEF IInv
  <2>1. ASSUME NEW t \in Threads, Step(t) \/ SpuriousWakeup(t) PROVE ListInv' /\ ThreadInv'
    BY <2>1, ListInvStep, ThreadInvStep DEF IInv
  <2>2. CASE UNCHANGED vars
    <3>1. ListInv'
      BY <2>2, ListInvStutter DEF vars, IInv
    <3>2. ThreadInv'
      BY <2>2 DEF vars, lists, IInv, ThreadInv, OneThreadPerWorker, ExclusiveWhileWork,
         LeaveWhenDrained, DecisionsHold, At, Holding, Taken, Critical, Leaving
    <3> QED
      BY <3>1, <3>2
  <2> QED
    BY <2>1, <2>2 DEF Next, Returned
<1>3. Spec => []TypeOK
  BY TypeCorrect
<1>4. IInv <=> TypeOK /\ ListInv /\ ThreadInv
  BY DEF IInv
<1> QED
  BY <1>1, <1>2, <1>3, <1>4, PTL DEF Spec

\* A worker runs only after all the workers it depends on, and a checkpoint
\* completes only after all it depends on (check_task).
THEOREM DependenciesComeFirst == ASSUME AllRun PROVE Spec => []DependenciesFirst
<1>1. IInv => DependenciesFirst
  BY DEF IInv, ListInv
<1> QED
  BY <1>1, InductiveInvariant, PTL

\* No worker waits with all its dependencies complete (mark_task_complete checks
\* every dependent it has to).
THEOREM NothingWaitsReady == ASSUME AllRun PROVE Spec => []NoMissedRelease
<1>1. IInv => NoMissedRelease
  BY DEF IInv, ListInv
<1> QED
  BY <1>1, InductiveInvariant, PTL

\* No two threads ever run the same worker (take_worker), in spite of
\* mark_as_done's unlock of a mutex it does not hold.
THEOREM WorkersRunOnce == ASSUME AllRun PROVE Spec => []OneThreadPerWorker
<1>1. IInv => OneThreadPerWorker
  BY DEF IInv, ThreadInv
<1> QED
  BY <1>1, InductiveInvariant, PTL

\* While a list holds a worker, the critical sections of get_next_worker and
\* worker_complete exclude each other.
THEOREM MutualExclusionWhileWork == ASSUME AllRun PROVE Spec => []ExclusiveWhileWork
<1>1. IInv => ExclusiveWhileWork
  BY DEF IInv, ThreadInv
<1> QED
  BY <1>1, InductiveInvariant, PTL

\* No thread leaves schedule_thread's loop while a worker is available or waiting.
THEOREM ThreadsStay == ASSUME AllRun PROVE Spec => []LeaveWhenDrained
<1>1. IInv => LeaveWhenDrained
  BY DEF IInv, ThreadInv
<1> QED
  BY <1>1, InductiveInvariant, PTL

-----------------------------------------------------------------------------
(***************************************************************************)
(* num_running and the wakeups.                                             *)
(***************************************************************************)

\* The steps that change neither num_running nor which threads it counts.
LEMMA RunningKept ==
  ASSUME TypeOK, RunningInv, num_running' = num_running,
         Working' \subseteq Working, Looking' \subseteq Looking
  PROVE  RunningInv'
<1>1. IsFiniteSet(Working) /\ IsFiniteSet(Threads \ Looking')
  BY ThreadsAssumption, FS_Subset DEF Working
<1>2. Threads \ Looking \subseteq Threads \ Looking'
  OBVIOUS
<1>3. /\ Cardinality(Working') <= Cardinality(Working)
      /\ Cardinality(Threads \ Looking) <= Cardinality(Threads \ Looking')
  BY <1>1, <1>2, FS_Subset
<1>4. /\ Cardinality(Working) \in Nat /\ Cardinality(Working') \in Nat
      /\ Cardinality(Threads \ Looking) \in Nat /\ Cardinality(Threads \ Looking') \in Nat
  BY <1>1, <1>2, FS_Subset, FS_CardinalityType
<1> QED
  BY <1>3, <1>4 DEF RunningInv, TypeOK

\* get_next_worker counts a thread out before it looks for work, and take_worker
\* counts it in; no other step makes a thread look for work or run some.
LEMMA RunningStep ==
  ASSUME TypeOK, RunningInv, NEW t \in Threads, Step(t) \/ SpuriousWakeup(t)
  PROVE  RunningInv'
<1> USE DEF At, Goto
<1>0. pc \in [Threads -> Labels] /\ num_running \in Int
  BY DEF TypeOK
<1>f. /\ IsFiniteSet(Working) /\ IsFiniteSet(Threads \ Looking)
      /\ Cardinality(Working) \in Nat /\ Cardinality(Threads \ Looking) \in Nat
  BY ThreadsAssumption, FS_Subset, FS_CardinalityType DEF Working
<1>1. CASE NextSearch(t)
  <2>1. pc[t] = "next" /\ pc' = [pc EXCEPT ![t] = "test"] /\ num_running' = num_running - 1
    BY <1>1 DEF NextSearch
  <2>2. /\ t \in Working /\ Working' = Working \ {t}
        /\ t \in Threads \ Looking /\ (Threads \ Looking)' = (Threads \ Looking) \ {t}
    BY <2>1, <1>0 DEF Working, Looking
  <2>3. /\ Cardinality(Working') = Cardinality(Working) - 1
        /\ Cardinality((Threads \ Looking)') = Cardinality(Threads \ Looking) - 1
    BY <2>2, <1>f, FS_RemoveElement, ZenonT(60)
  <2> QED
    BY <2>1, <2>3, <1>f, <1>0 DEF RunningInv
<1>2. CASE UnlinkWorker(t)
  <2>1. pc[t] = "unlink" /\ pc' = [pc EXCEPT ![t] = "run"] /\ num_running' = num_running + 1
    BY <1>2 DEF UnlinkWorker
  <2>2. /\ t \notin Working /\ Working' = Working \cup {t}
        /\ t \notin Threads \ Looking /\ (Threads \ Looking)' = (Threads \ Looking) \cup {t}
    BY <2>1, <1>0 DEF Working, Looking
  <2>3. /\ Cardinality(Working') = Cardinality(Working) + 1
        /\ Cardinality((Threads \ Looking)') = Cardinality(Threads \ Looking) + 1
    BY <2>2, <1>f, FS_AddElement
  <2> QED
    BY <2>1, <2>3, <1>f, <1>0 DEF RunningInv
<1>3. CASE ~NextSearch(t) /\ ~UnlinkWorker(t)
  <2>1. num_running' = num_running
    BY <1>3 DEF Step, NextFinished, TestLoop, CondWait, Wakeup, SpuriousWakeup,
       FindWorker, FindNothing, RunWorker, FailWorker, LockComplete, MarkComplete, Signal,
       StrayUnlock, SetDone, BroadcastDone, FinalUnlock
  <2>2. Working' \subseteq Working /\ Looking' \subseteq Looking
    BY <1>3, <1>0 DEF Step, NextFinished, TestLoop, CondWait, Wakeup, SpuriousWakeup,
       FindWorker, FindNothing, RunWorker, FailWorker, LockComplete, MarkComplete, Signal,
       StrayUnlock, SetDone, BroadcastDone, FinalUnlock, Broadcast, Working, Looking
  <2> QED
    BY <2>1, <2>2, RunningKept
<1> QED
  BY <1>1, <1>2, <1>3

\* num_running lies between the threads that run a worker or are about to look for one
\* and those that do not look for one, in every run, failing ones included.
THEOREM RunningInvariant == Spec => []RunningInv
<1>1. Init => RunningInv
  <2> SUFFICES ASSUME Init PROVE RunningInv
    OBVIOUS
  <2>1. Working = Threads /\ Looking = {} /\ num_running = Cardinality(Threads)
    BY DEF Init, Working, Looking, cpus
  <2>2. Cardinality(Threads) \in Nat /\ Threads \ {} = Threads
    BY ThreadsAssumption, FS_CardinalityType
  <2> QED
    BY <2>1, <2>2 DEF RunningInv
<1>2. TypeOK /\ RunningInv /\ [Next]_vars => RunningInv'
  <2> SUFFICES ASSUME TypeOK, RunningInv, [Next]_vars PROVE RunningInv'
    OBVIOUS
  <2>1. CASE UNCHANGED vars
    BY <2>1 DEF vars, RunningInv, Working, Looking
  <2> QED
    BY <2>1, RunningStep DEF Next, Returned
<1> QED
  BY <1>1, <1>2, TypeCorrect, PTL DEF Spec

\* The size_t num_running never wraps below zero or exceeds the number of cpus, and
\* ac_worker_ram divides the ram by at least the number of threads that run a worker,
\* whatever fails or is selected.
THEOREM RamIsShared == Spec => []RunningCounted
<1>1. TypeOK /\ RunningInv => RunningCounted
  <2> SUFFICES ASSUME TypeOK, RunningInv PROVE RunningCounted
    OBVIOUS
  <2> DEFINE H == {t \in Threads : Holding(t)}
  <2>1. H \subseteq Working /\ Working \subseteq Threads
    BY DEF Working, Holding
  <2>2. /\ IsFiniteSet(Working)
        /\ Cardinality(Working) \in Nat /\ Cardinality(H) \in Nat
        /\ Cardinality(H) <= Cardinality(Working)
    BY <2>1, ThreadsAssumption, FS_Subset, FS_CardinalityType
  <2>3. /\ Cardinality(Threads \ Looking) <= cpus /\ cpus \in Nat
        /\ Cardinality(Threads \ Looking) \in Nat
    BY ThreadsAssumption, FS_Subset, FS_CardinalityType DEF cpus
  <2> QED
    BY <2>2, <2>3 DEF RunningInv, RunningCounted, TypeOK
<1> QED
  BY <1>1, TypeCorrect, RunningInvariant, PTL

\* A broadcast that is still to come is not forgotten by the steps of other threads.
LEMMA WakeupStep ==
  ASSUME IInv, NoLostWakeup, AllRun, NEW t \in Threads, Step(t) \/ SpuriousWakeup(t)
  PROVE  NoLostWakeup'
<1> DEFINE Pending == \E u \in Threads : At(u, "broadcast") \/ (At(u, "signal") /\ MustBroadcast(u))
<1> USE DEF At, Goto, Broadcast
<1>0. /\ pc \in [Threads -> Labels] /\ saved \in [Threads -> Int]
      /\ num_available \in Int /\ done \in BOOLEAN
      /\ num_available = 0 <=> available = {}
  BY CountersTellEmpty DEF IInv, TypeOK
<1>1. CASE Signal(t)
  BY <1>1, <1>0 DEF Signal, NoLostWakeup, MustBroadcast, lists
<1>2. CASE MarkComplete(t)
  <2>1. worker[t] \in Taken /\ CompleteWorker(worker[t]) /\ pc[t] = "mark"
    BY <1>2 DEF MarkComplete, IInv, ThreadInv, OneThreadPerWorker, Holding
  <2>2. ListInv' /\ available \subseteq available'
    BY <2>1, ListInvComplete DEF IInv
  <2>3. num_available' = 0 <=> available' = {}
    <3>1. available' \subseteq Worker
      BY <2>1 DEF CompleteWorker, Released, IInv, TypeOK
    <3>2. IsFiniteSet(available')
      BY <3>1, WorkerFinite, FS_Subset
    <3> QED
      BY <3>2, <2>2, FS_EmptySet DEF ListInv, CountersMatchLists
  <2>4. /\ pc' = [pc EXCEPT ![t] = "signal"] /\ saved' = [saved EXCEPT ![t] = num_available]
        /\ done' = done
    BY <1>2 DEF MarkComplete, SelectedComplete, AllRun
  <2> QED
    BY <2>1, <2>2, <2>3, <2>4, <1>0 DEF NoLostWakeup, MustBroadcast
<1>3. CASE UnlinkWorker(t)
  \* While there is work no other thread is in a critical section or leaving.
  <2>1. /\ worker[t] \in available /\ available # {} /\ ~done /\ mutex = t
        /\ \A u \in Threads \ {t} : ~Critical(u)
        /\ \A u \in Threads : ~Leaving(u)
    BY <1>3 DEF UnlinkWorker, IInv, ThreadInv, DecisionsHold, ExclusiveWhileWork,
       LeaveWhenDrained, Critical
  <2>2. \A u \in Threads : ~At(u, "asleep")
    BY <1>3, <2>1 DEF NoLostWakeup, Critical, Leaving, UnlinkWorker
  <2> QED
    BY <1>3, <2>2, <1>0 DEF UnlinkWorker, NoLostWakeup
<1>4. CASE CondWait(t)
  <2>1. available = {} /\ ~done
    BY <1>4 DEF CondWait, IInv, ThreadInv, DecisionsHold
  <2> QED
    BY <1>4, <2>1 DEF CondWait, NoLostWakeup, lists
<1>5. CASE SetDone(t)
  BY <1>5, <1>0 DEF SetDone, NoLostWakeup, MustBroadcast, lists
<1>6. CASE BroadcastDone(t)
  BY <1>6, <1>0 DEF BroadcastDone, NoLostWakeup, lists
<1>7. CASE ~Signal(t) /\ ~MarkComplete(t) /\ ~UnlinkWorker(t) /\ ~CondWait(t) /\ ~SetDone(t)
           /\ ~BroadcastDone(t)
  <2>1. UNCHANGED <<lists, done, saved>>
    BY <1>7 DEF Step, NextFinished, NextSearch, TestLoop, Wakeup, SpuriousWakeup,
       FindWorker, FindNothing, RunWorker, FailWorker, LockComplete, StrayUnlock, FinalUnlock
  <2>2. \E label \in Labels : /\ label # "asleep" /\ pc' = [pc EXCEPT ![t] = label]
                              /\ pc[t] \notin {"broadcast", "signal"}
    BY <1>7 DEF Step, NextFinished, NextSearch, TestLoop, Wakeup, SpuriousWakeup,
       FindWorker, FindNothing, RunWorker, FailWorker, LockComplete, StrayUnlock, FinalUnlock, Labels
  <2> QED
    BY <2>1, <2>2, <1>0 DEF NoLostWakeup, MustBroadcast, lists
<1> QED
  BY <1>1, <1>2, <1>3, <1>4, <1>5, <1>6, <1>7

\* No thread sleeps beside available work or after done unless a broadcast is on its way
\* (worker_complete's copy of num_available, mark_as_done).
THEOREM WakeupsArrive == ASSUME AllRun PROVE Spec => []NoLostWakeup
<1>1. Init => NoLostWakeup
  BY DEF Init, NoLostWakeup, At
<1>2. IInv /\ NoLostWakeup /\ [Next]_vars => NoLostWakeup'
  <2> SUFFICES ASSUME IInv, NoLostWakeup, [Next]_vars PROVE NoLostWakeup'
    OBVIOUS
  <2>1. CASE UNCHANGED vars
    BY <2>1 DEF vars, lists, NoLostWakeup, MustBroadcast, At
  <2> QED
    BY <2>1, WakeupStep DEF Next, Returned
<1> QED
  BY <1>1, <1>2, InductiveInvariant, PTL DEF Spec

-----------------------------------------------------------------------------
(***************************************************************************)
(* Two threads, with runners that fail and workers selected with --task.    *)
(***************************************************************************)

\* A schedule with one or two cpus.
TwoThreads == \E a, b : Threads = {a, b}

\* Before the first step nothing is selected complete and no thread decided anything.
LEMMA FailIInvInit == Init => FailIInv
<1> SUFFICES ASSUME Init PROVE FailIInv
  OBVIOUS
<1>1. TypeOK /\ ListInv
  BY InitTypes, ListInvInit
<1>2. \A t \in Threads : pc[t] = "next"
  BY DEF Init
<1>3. FailInv /\ OthersKeepOut /\ TakesWhatItFound
  BY <1>2 DEF FailInv, OneThreadPerWorker, LeaveForReason, OthersKeepOut, TakesWhatItFound,
     Holding, Leaving, Critical, At
<1>4. DoneForReason
  <2>1. Selected \ (completed \ Checkpoint) = Selected
    BY SetupCompletedIsLeast DEF Init
  <2> QED
    BY <2>1 DEF DoneForReason, Init
<1> QED
  BY <1>1, <1>3, <1>4 DEF FailIInv

\* A reason to end stays one: what is complete or failed remains so, and nothing new can
\* be taken once the lists are drained.
LEMMA ReasonsStay ==
  ASSUME TypeOK, ListInv, OneThreadPerWorker, TakesWhatItFound,
         NEW t \in Threads, Step(t) \/ SpuriousWakeup(t)
  PROVE  /\ Failed \subseteq Failed' /\ completed \subseteq completed'
         /\ available \cup waiting = {} => available' \cup waiting' = {}
         /\ EndReason => EndReason'
<1> USE DEF At, Goto, Broadcast
<1>0. pc \in [Threads -> Labels] /\ worker \in [Threads -> Worker \cup {NoWorker}]
  BY DEF TypeOK
<1>1. CASE UnlinkWorker(t)
  <2>1. worker[t] \in available /\ available' = available \ {worker[t]}
    BY <1>1, ListInvUnlink DEF TakesWhatItFound, UnlinkWorker
  <2>2. /\ waiting' = waiting /\ completed' = completed /\ worker' = worker
        /\ pc' = [pc EXCEPT ![t] = "run"]
    BY <1>1 DEF UnlinkWorker
  <2>3. Failed \subseteq Failed'
    BY <2>1, <2>2, <1>0 DEF Failed, Taken, Holding
  <2> QED
    BY <2>1, <2>2, <2>3 DEF EndReason
<1>2. CASE MarkComplete(t)
  <2>1. worker[t] \in Taken /\ CompleteWorker(worker[t]) /\ Holding(t)
    BY <1>2 DEF MarkComplete, OneThreadPerWorker, Holding
  <2>2. /\ Taken' = Taken \ {worker[t]} /\ completed \subseteq completed'
        /\ available \cup waiting = {} => available' \cup waiting' = {}
    BY <2>1, ListInvComplete DEF CompleteWorker
  <2>3. worker' = worker /\ pc' = [pc EXCEPT ![t] = "signal"]
    BY <1>2 DEF MarkComplete
  <2>4. Failed \subseteq Failed'
    BY <2>1, <2>2, <2>3, <1>0 DEF Failed, Holding
  <2> QED
    BY <2>2, <2>4 DEF EndReason
<1>3. CASE ~UnlinkWorker(t) /\ ~MarkComplete(t)
  <2>1. UNCHANGED lists
    BY <1>3 DEF Step, NextFinished, NextSearch, TestLoop, CondWait, Wakeup, SpuriousWakeup,
       FindWorker, FindNothing, RunWorker, FailWorker, LockComplete, Signal,
       StrayUnlock, SetDone, BroadcastDone, FinalUnlock
  <2>2. \A u \in Threads : Holding(u)' => Holding(u) /\ worker'[u] = worker[u]
    BY <1>3, <1>0 DEF Step, NextFinished, NextSearch, TestLoop, CondWait, Wakeup, SpuriousWakeup,
       FindWorker, FindNothing, RunWorker, FailWorker, LockComplete, Signal,
       StrayUnlock, SetDone, BroadcastDone, FinalUnlock, Holding
  <2>3. Failed \subseteq Failed'
    BY <2>1, <2>2 DEF Failed, Taken, lists
  <2> QED
    BY <2>1, <2>3 DEF lists, EndReason
<1> QED
  BY <1>1, <1>2, <1>3

\* worker_complete's count of the selected workers reaches zero with the last of them.
LEMMA SelectedCounted ==
  ASSUME FailIInv, NEW t \in Threads, MarkComplete(t)
  PROVE  DoneForReason'
<1> DEFINE c == worker[t]
           K == Cascade(c, waiting, completed)
           Left == Selected \ (completed \ Checkpoint)
<1>1. c \in Taken /\ CompleteWorker(c) /\ SelectedComplete(c)
  BY DEF MarkComplete, FailIInv, FailInv, OneThreadPerWorker, Holding, At
<1>2. completed' = completed \cup {c} \cup K /\ K \subseteq Checkpoint
  BY <1>1 DEF CompleteWorker, Cascade
<1>3. c \notin completed /\ c \notin Checkpoint
  BY <1>1 DEF Taken, FailIInv, ListInv, ListsDisjoint
<1>4. Left' = Left \ {c}
  BY <1>2, <1>3
<1>5. IsFiniteSet(Left) /\ Cardinality(Left) = num_selected
  BY WorkerFinite, ThreadsAssumption, FS_Subset DEF FailIInv, DoneForReason
<1>6. EndReason => EndReason'
  BY ReasonsStay DEF FailIInv, FailInv, Step
<1>7. CASE c \in Selected
  <2>1. num_selected' = num_selected - 1 /\ c \in Left
    BY <1>1, <1>3, <1>7 DEF SelectedComplete
  <2>2. num_selected' = Cardinality(Left')
    BY <1>4, <1>5, <2>1, FS_RemoveElement
  <2>3. ASSUME num_selected = 1 PROVE EndReason'
    <3>1. PICK x : Left = {x}
      BY <1>5, <2>3, FS_Singleton
    <3>2. Selected \subseteq completed'
      BY <2>1, <3>1, <1>2
    <3> QED
      BY <3>2, <1>7 DEF EndReason
  <2>4. done' = (done \/ num_selected = 1)
    BY <1>1, <1>7 DEF SelectedComplete
  <2>5. done' => EndReason'
    BY <2>3, <2>4, <1>6, Zenon DEF FailIInv, DoneForReason
  <2> QED
    BY <2>2, <2>5 DEF DoneForReason
<1>8. CASE c \notin Selected
  <2>1. num_selected' = num_selected /\ done' = done
    BY <1>1, <1>8 DEF SelectedComplete
  <2>2. Left' = Left
    BY <1>4, <1>8
  <2> QED
    BY <2>1, <2>2, <1>5, <1>6 DEF FailIInv, DoneForReason
<1> QED
  BY <1>7, <1>8

\* One thread of two keeps what both know, whatever it does.
LEMMA FailIInvStep ==
  ASSUME TwoThreads, FailIInv, TypeOK', NEW t \in Threads, Step(t) \/ SpuriousWakeup(t)
  PROVE  FailIInv'
<1> USE DEF At, Goto, Lock, Unlock, Broadcast
<1>a. /\ pc \in [Threads -> Labels] /\ worker \in [Threads -> Worker \cup {NoWorker}]
      /\ NoThread \notin Threads /\ NoWorker \notin Worker
  BY ThreadsAssumption DEF FailIInv, TypeOK
<1>b. \A u, v \in Threads : u # t /\ v # t => u = v
  BY DEF TwoThreads
<1>c. /\ num_available = 0 <=> available = {}
      /\ num_tasks_to_run = 0 <=> waiting = {}
  BY CountersTellEmpty DEF FailIInv
<1>r. /\ Failed \subseteq Failed' /\ completed \subseteq completed'
      /\ available \cup waiting = {} => available' \cup waiting' = {}
      /\ EndReason => EndReason'
  BY ReasonsStay DEF FailIInv, FailInv
<1>p. /\ \A u \in Threads \ {t} : Critical(u)' => Critical(u)
      /\ \A u \in Threads : Leaving(u) => Leaving(u)'
  BY <1>a DEF Step, NextFinished, NextSearch, TestLoop, CondWait, Wakeup, SpuriousWakeup,
     FindWorker, FindNothing, UnlinkWorker, RunWorker, FailWorker, LockComplete, MarkComplete,
     Signal, StrayUnlock, SetDone, BroadcastDone, FinalUnlock, Critical, Leaving
<1>1. ListInv'
  <2>1. CASE UnlinkWorker(t)
    BY <2>1, ListInvUnlink DEF FailIInv, TakesWhatItFound, UnlinkWorker
  <2>2. CASE MarkComplete(t)
    <3>1. worker[t] \in Taken /\ CompleteWorker(worker[t])
      BY <2>2 DEF MarkComplete, FailIInv, FailInv, OneThreadPerWorker, Holding
    <3> QED
      BY <3>1, ListInvComplete DEF FailIInv
  <2>3. CASE ~UnlinkWorker(t) /\ ~MarkComplete(t)
    <3>1. UNCHANGED lists
      BY <2>3 DEF Step, NextFinished, NextSearch, TestLoop, CondWait, Wakeup, SpuriousWakeup,
         FindWorker, FindNothing, RunWorker, FailWorker, LockComplete, Signal,
         StrayUnlock, SetDone, BroadcastDone, FinalUnlock
    <3> QED
      BY <3>1, ListInvStutter DEF FailIInv
  <2> QED
    BY <2>1, <2>2, <2>3
<1>2. OthersKeepOut'
  \* A thread enters a critical section with the mutex, or when the other has left.
  <2>1. CASE Critical(t)' /\ ~Critical(t)
    <3>1. mutex = NoThread /\ mutex' = t /\ ~Leaving(t)
      BY <2>1, <1>a DEF Step, NextFinished, NextSearch, TestLoop, CondWait, Wakeup, SpuriousWakeup,
         FindWorker, FindNothing, UnlinkWorker, RunWorker, FailWorker, LockComplete, MarkComplete,
         Signal, StrayUnlock, SetDone, BroadcastDone, FinalUnlock, Critical, Leaving
    <3>2. \A u \in Threads : ~Critical(u)
      <4> SUFFICES ASSUME NEW u \in Threads, Critical(u) PROVE FALSE
        OBVIOUS
      <4>1. u # t
        BY <2>1
      <4>2. \A v \in Threads : ~Leaving(v)
        BY <1>b, <3>1, <4>1 DEF Critical, Leaving
      <4> QED
        BY <4>2, <3>1, <1>a DEF FailIInv, OthersKeepOut
    <3> QED
      BY <3>1, <3>2, <1>p DEF OthersKeepOut
  <2>2. CASE Critical(t)' /\ Critical(t)
    <3>1. mutex' = mutex
      BY <2>2, <1>a DEF Step, NextFinished, NextSearch, TestLoop, CondWait, Wakeup, SpuriousWakeup,
         FindWorker, FindNothing, UnlinkWorker, RunWorker, FailWorker, LockComplete, MarkComplete,
         Signal, StrayUnlock, SetDone, BroadcastDone, FinalUnlock, Critical
    <3> QED
      BY <3>1, <2>2, <1>p DEF FailIInv, OthersKeepOut
  <2>3. CASE ~Critical(t)'
    <3>1. \A u, v \in Threads : Critical(u)' /\ Critical(v)' => u = v
      BY <2>3, <1>b
    <3>2. Critical(t) \/ mutex' = mutex \/ Leaving(t)'
      BY <2>3, <1>a DEF Step, NextFinished, NextSearch, TestLoop, CondWait, Wakeup, SpuriousWakeup,
         FindWorker, FindNothing, UnlinkWorker, RunWorker, FailWorker, LockComplete, MarkComplete,
         Signal, StrayUnlock, SetDone, BroadcastDone, FinalUnlock, Critical, Leaving
    <3>3. ASSUME \A u \in Threads : ~Leaving(u)', NEW u \in Threads, Critical(u)'
          PROVE  mutex' = u
      <4>1. u # t /\ Critical(u) /\ ~Critical(t)
        BY <2>3, <3>3, <1>p DEF FailIInv, OthersKeepOut
      <4> QED
        BY <4>1, <3>2, <3>3, <1>p DEF FailIInv, OthersKeepOut
    <3> QED
      BY <3>1, <3>3 DEF OthersKeepOut
  <2> QED
    BY <2>1, <2>2, <2>3
<1>3. DoneForReason'
  <2>1. CASE MarkComplete(t)
    BY <2>1, SelectedCounted
  <2>2. CASE SetDone(t)
    <3>1. EndReason
      BY <2>2 DEF SetDone, FailIInv, FailInv, LeaveForReason, Leaving
    <3> QED
      BY <2>2, <3>1, <1>r DEF SetDone, FailIInv, DoneForReason, lists
  <2>3. CASE ~MarkComplete(t) /\ ~SetDone(t)
    <3>1. UNCHANGED <<num_selected, completed, done>>
      BY <2>3 DEF Step, NextFinished, NextSearch, TestLoop, CondWait, Wakeup, SpuriousWakeup,
         FindWorker, FindNothing, UnlinkWorker, RunWorker, FailWorker, LockComplete, Signal,
         StrayUnlock, BroadcastDone, FinalUnlock, lists
    <3> QED
      BY <3>1, <1>r DEF FailIInv, DoneForReason
  <2> QED
    BY <2>1, <2>2, <2>3
<1>4. TakesWhatItFound'
  <2>1. CASE Critical(t)
    <3>1. \A u \in Threads \ {t} : ~Critical(u)'
      BY <2>1, <1>p DEF FailIInv, OthersKeepOut
    <3>2. (At(t, "unlink")' => worker'[t] \in available')
          /\ (At(t, "take")' /\ available' = {} => waiting' = {} \/ done')
      BY <2>1, <1>a, <1>c DEF Step, NextFinished, NextSearch, TestLoop, MustWait, CondWait, Wakeup,
         SpuriousWakeup, FindWorker, FindNothing, UnlinkWorker, RunWorker, FailWorker, LockComplete,
         MarkComplete, Signal, StrayUnlock, SetDone, BroadcastDone, FinalUnlock, Critical, lists,
         FailIInv, TakesWhatItFound
    <3> QED
      BY <3>1, <3>2 DEF TakesWhatItFound, Critical
  <2>2. CASE ~Critical(t)
    <3>1. UNCHANGED lists /\ (done => done')
      BY <2>2 DEF Step, NextFinished, NextSearch, TestLoop, CondWait, Wakeup, SpuriousWakeup,
         FindWorker, FindNothing, UnlinkWorker, RunWorker, FailWorker, LockComplete, MarkComplete,
         Signal, StrayUnlock, SetDone, BroadcastDone, FinalUnlock, Critical
    <3>2. \A u \in Threads : (At(u, "unlink")' => At(u, "unlink") /\ worker'[u] = worker[u])
                             /\ (At(u, "take")' => At(u, "take"))
      BY <2>2, <1>a DEF Step, NextFinished, NextSearch, TestLoop, CondWait, Wakeup, SpuriousWakeup,
         FindWorker, FindNothing, UnlinkWorker, RunWorker, FailWorker, LockComplete, MarkComplete,
         Signal, StrayUnlock, SetDone, BroadcastDone, FinalUnlock, Critical
    <3> QED
      BY <3>1, <3>2 DEF FailIInv, TakesWhatItFound, lists
  <2> QED
    BY <2>1, <2>2
<1>5. OneThreadPerWorker'
  <2>1. CASE UnlinkWorker(t)
    <3>1. worker[t] \in available /\ available' = available \ {worker[t]}
      BY <2>1, ListInvUnlink DEF FailIInv, TakesWhatItFound, UnlinkWorker
    <3>2. /\ waiting' = waiting /\ completed' = completed /\ worker' = worker
          /\ pc' = [pc EXCEPT ![t] = "run"]
      BY <2>1 DEF UnlinkWorker
    <3>3. worker[t] \notin Taken /\ Taken' = Taken \cup {worker[t]}
      BY <3>1, <3>2 DEF Taken, FailIInv, ListInv, ListsDisjoint, TypeOK
    <3> QED
      BY <3>2, <3>3, <1>a DEF FailIInv, FailInv, OneThreadPerWorker, Holding
  <2>2. CASE MarkComplete(t)
    <3>1. worker[t] \in Taken /\ CompleteWorker(worker[t]) /\ Holding(t)
      BY <2>2 DEF MarkComplete, FailIInv, FailInv, OneThreadPerWorker, Holding
    <3>2. Taken' = Taken \ {worker[t]} /\ worker' = worker /\ pc' = [pc EXCEPT ![t] = "signal"]
      BY <2>2, <3>1, ListInvComplete DEF MarkComplete, FailIInv
    <3> QED
      BY <3>1, <3>2, <1>a DEF FailIInv, FailInv, OneThreadPerWorker, Holding
  <2>3. CASE ~UnlinkWorker(t) /\ ~MarkComplete(t)
    <3>1. UNCHANGED lists /\ \A u \in Threads : Holding(u)' => Holding(u) /\ worker'[u] = worker[u]
      BY <2>3, <1>a DEF Step, NextFinished, NextSearch, TestLoop, CondWait, Wakeup, SpuriousWakeup,
         FindWorker, FindNothing, RunWorker, FailWorker, LockComplete, Signal,
         StrayUnlock, SetDone, BroadcastDone, FinalUnlock, Holding
    <3> QED
      BY <3>1 DEF lists, Taken, FailIInv, FailInv, OneThreadPerWorker
  <2> QED
    BY <2>1, <2>2, <2>3
<1>6. LeaveForReason'
  <2> SUFFICES ASSUME \E u \in Threads : Leaving(u)' PROVE EndReason'
    BY DEF LeaveForReason
  <2>1. CASE \E u \in Threads : Leaving(u)
    BY <2>1, <1>r DEF FailIInv, FailInv, LeaveForReason
  <2>2. CASE \A u \in Threads : ~Leaving(u)
    <3>1. NextFinished(t) \/ FindNothing(t) \/ FailWorker(t)
      BY <2>2, <1>a DEF Step, NextFinished, NextSearch, TestLoop, CondWait, Wakeup, SpuriousWakeup,
         FindWorker, FindNothing, UnlinkWorker, RunWorker, FailWorker, LockComplete, MarkComplete,
         Signal, StrayUnlock, SetDone, BroadcastDone, FinalUnlock, Leaving
    <3>2. CASE NextFinished(t)
      BY <3>2, <1>r DEF NextFinished, FailIInv, DoneForReason
    <3>3. CASE FindNothing(t)
      <4>1. EndReason
        BY <3>3, <1>c DEF FindNothing, FailIInv, TakesWhatItFound, DoneForReason, EndReason
      <4> QED
        BY <4>1, <1>r
    <3>4. CASE FailWorker(t)
      <4>1. worker[t] \in Taken /\ UNCHANGED lists
        BY <3>4 DEF FailWorker, FailIInv, FailInv, OneThreadPerWorker, Holding
      <4>2. \A u \in Threads : Holding(u)' => u # t /\ Holding(u) /\ worker'[u] = worker[u]
        BY <3>4, <1>a DEF FailWorker, Holding
      <4>3. \A u \in Threads : Holding(u)' => worker'[u] # worker[t]
        BY <3>4, <4>2 DEF FailWorker, FailIInv, FailInv, OneThreadPerWorker, Holding
      <4>4. worker[t] \in Failed'
        BY <4>1, <4>3 DEF Failed, Taken, lists
      <4> QED
        BY <4>4 DEF EndReason
    <3> QED
      BY <3>1, <3>2, <3>3, <3>4
  <2> QED
    BY <2>1, <2>2
<1> QED
  BY <1>1, <1>2, <1>3, <1>4, <1>5, <1>6 DEF FailIInv, FailInv

\* With one or two cpus the inductive invariant holds in every run, whatever fails and
\* whatever is selected.
THEOREM FailingInvariant == ASSUME TwoThreads PROVE Spec => []FailIInv
<1>1. TypeOK /\ TypeOK' /\ FailIInv /\ [Next]_vars => FailIInv'
  <2> SUFFICES ASSUME TypeOK', FailIInv, [Next]_vars PROVE FailIInv'
    OBVIOUS
  <2>1. CASE UNCHANGED vars
    <3>1. ListInv'
      BY <2>1, ListInvStutter DEF vars, FailIInv
    <3> QED
      BY <2>1, <3>1 DEF vars, lists, FailIInv, FailInv, OneThreadPerWorker, LeaveForReason,
         EndReason, Failed, Taken, OthersKeepOut, DoneForReason, TakesWhatItFound,
         Holding, Leaving, Critical, At
  <2> QED
    BY <2>1, FailIInvStep DEF Next, Returned
<1> QED
  BY <1>1, FailIInvInit, TypeCorrect, PTL DEF Spec

\* With one or two cpus no worker is run twice and no thread leaves without a reason, also
\* when runners return false and --task selects workers (take_worker, worker_complete,
\* mark_as_done and its unlock of a mutex it does not hold).
THEOREM FailingRuns == ASSUME TwoThreads PROVE Spec => []FailInv
<1>1. FailIInv => FailInv
  BY DEF FailIInv
<1> QED
  BY <1>1, FailingInvariant, PTL

-----------------------------------------------------------------------------
(***************************************************************************)
(* The threads implement the abstract task graph.                           *)
(***************************************************************************)

\* The abstract spec starts with no worker running.
LEMMA GraphInit == Init => Graph!Init
BY SetupCompletedIsLeast DEF Init, Graph!Init, Taken, SetupAvailable, SetupWaiting, Checkpoint

\* take_worker starts an available worker, mark_task_complete finishes a running
\* one with its checkpoints, and no other step is seen by the task graph.
LEMMA GraphStep ==
  ASSUME TypeOK, ListInv, OneThreadPerWorker,
         NEW t \in Threads, Step(t) \/ SpuriousWakeup(t),
         At(t, "unlink") => worker[t] \in available
  PROVE  [Graph!Next]_<<Taken, completed>>
<1> USE DEF Graph!Next, Graph!Start, Graph!Finish
<1>1. CASE UnlinkWorker(t)
  <2>1. worker[t] \in available /\ worker[t] \in Worker
    BY <1>1 DEF TypeOK, UnlinkWorker
  <2>2. /\ available' = available \ {worker[t]}
        /\ waiting' = waiting /\ completed' = completed
    BY <1>1, <2>1 DEF UnlinkWorker, UnlinkFrom
  <2>3. worker[t] \notin waiting \cup completed \cup Taken \cup Checkpoint
    BY <2>1 DEF ListInv, ListsDisjoint, Taken
  <2>4. Taken' = Taken \cup {worker[t]}
    BY <2>1, <2>2, <2>3 DEF Taken
  <2>5. IsDependenciesComplete(worker[t], completed)
    BY <2>1, <2>3 DEF ListInv, DependenciesFirst
  <2>6. Graph!Start(worker[t])
    BY <2>1, <2>2, <2>3, <2>4, <2>5
  <2> QED
    BY <2>1, <2>3, <2>6
<1>2. CASE MarkComplete(t)
  <2> DEFINE c == worker[t]
             K == Cascade(c, waiting, completed)
  <2>1. c \in Taken /\ CompleteWorker(c)
    BY <1>2 DEF OneThreadPerWorker, MarkComplete, At, Holding
  <2>2. Taken' = Taken \ {c} /\ completed' = (completed \cup {c}) \cup K
    BY <2>1, ListInvComplete DEF CompleteWorker
  <2>3. K \subseteq Checkpoint \ completed
    BY CascadeIsClosed DEF ListInv, ListsDisjoint
  <2>4. \A k \in K : IsDependenciesComplete(k, completed')
    BY <2>2, ReleasedAreReady
  <2>5. Graph!Finish(c)
    BY <2>1, <2>2, <2>3, <2>4
  <2>6. c \in Worker
    BY <2>1 DEF Taken
  <2> QED
    BY <2>5, <2>6
<1>3. CASE ~UnlinkWorker(t) /\ ~MarkComplete(t)
  <2>1. UNCHANGED lists
    BY <1>3 DEF Step, NextFinished, NextSearch, TestLoop, CondWait, Wakeup, SpuriousWakeup,
       FindWorker, FindNothing, RunWorker, FailWorker, LockComplete, Signal,
       StrayUnlock, SetDone, BroadcastDone, FinalUnlock
  <2> QED
    BY <2>1 DEF lists, Taken
<1> QED
  BY <1>1, <1>2, <1>3

\* Every run in which no runner fails and no worker is selected is a behaviour of
\* the abstract task graph; with one or two cpus every run is.
THEOREM Refinement == ASSUME AllRun \/ TwoThreads PROVE Spec => ImplementsTaskGraph
<1> DEFINE GraphInv == /\ TypeOK /\ ListInv /\ OneThreadPerWorker
                       /\ \A t \in Threads : At(t, "unlink") => worker[t] \in available
<1>1. GraphInv /\ [Next]_vars => [Graph!Next]_<<Taken, completed>>
  <2> SUFFICES ASSUME GraphInv, [Next]_vars PROVE [Graph!Next]_<<Taken, completed>>
    OBVIOUS
  <2>1. CASE UNCHANGED vars
    BY <2>1 DEF vars, lists, Taken
  <2> QED
    BY <2>1, GraphStep DEF Next, Returned
<1>2. CASE AllRun
  <2>1. IInv => GraphInv
    BY DEF IInv, ThreadInv, DecisionsHold
  <2>2. Spec => []IInv
    BY <1>2, InductiveInvariant
  <2> QED
    BY <1>1, <2>1, <2>2, GraphInit, PTL DEF Spec, ImplementsTaskGraph, Graph!Spec, Graph!vars
<1>3. CASE TwoThreads
  <2>1. FailIInv => GraphInv
    BY DEF FailIInv, FailInv, TakesWhatItFound
  <2>2. Spec => []FailIInv
    BY <1>3, FailingInvariant
  <2> QED
    BY <1>1, <2>1, <2>2, GraphInit, PTL DEF Spec, ImplementsTaskGraph, Graph!Spec, Graph!vars
<1> QED
  BY <1>2, <1>3
==============================================================================
