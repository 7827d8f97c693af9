----------------------------- MODULE AcSchedule -----------------------------
(***************************************************************************)
(* The threads of ac_schedule_run: schedule_thread with get_next_worker,    *)
(* worker_complete and mark_as_done over one mutex, one condition variable  *)
(* and the shared lists of workers.                                         *)
(*                                                                          *)
(* The three lists of a partition are sets of workers: the code takes the   *)
(* head of a list, and any member may be the head.  A worker in none of     *)
(* the sets is taken (take_worker has unlinked it).  size_t counters are    *)
(* integers: the code only tests them against zero, so that a counter that  *)
(* wraps below zero and a negative one take the same branches.              *)
(*                                                                          *)
(* mark_as_done begins with an unlock of a mutex the thread does not hold.  *)
(* For the default mutex of glibc that frees the mutex, whoever holds it,   *)
(* so Unlock never looks at the owner.                                      *)
(***************************************************************************)
EXTENDS AcTasks, Integers

CONSTANTS
  Threads,          \* one per cpu
  MayFail,          \* workers whose runner or on_complete may return false
  Selected,         \* workers selected with --task; {} selects all
  SpuriousWakeups,  \* may pthread_cond_wait return without a broadcast?
  NoThread, NoWorker

ASSUME ThreadsAssumption ==
  /\ IsFiniteSet(Threads)
  /\ Threads # {}
  /\ MayFail \subseteq Worker
  /\ Selected \subseteq Worker
  /\ SpuriousWakeups \in BOOLEAN
  /\ NoThread \notin Threads
  /\ NoWorker \notin Worker

VARIABLES
  \* shared, in ac_schedule_s
  mutex, done, available, waiting, completed,
  num_available, num_tasks_to_run, num_running, num_selected,
  \* per thread
  pc,
  worker,   \* the ac_worker_t the thread holds
  share,    \* its w->running: into how many parts ac_worker_ram cuts the ram
  saved     \* worker_complete's copy of num_available

lists == <<available, waiting, completed, num_available, num_tasks_to_run>>
vars == <<mutex, done, lists, num_running, num_selected, pc, worker, share, saved>>

cpus == Cardinality(Threads)

Init ==
  /\ mutex = NoThread
  /\ done = FALSE
  /\ completed = SetupCompleted
  /\ waiting = SetupWaiting
  /\ available = SetupAvailable
  /\ num_available = Cardinality(SetupAvailable)
  /\ num_tasks_to_run = Cardinality(SetupWaiting)
  /\ num_running = cpus
  /\ num_selected = Cardinality(Selected)
  /\ pc = [t \in Threads |-> "next"]
  /\ worker = [t \in Threads |-> NoWorker]
  /\ share = [t \in Threads |-> 0]
  /\ saved = [t \in Threads |-> 0]

At(t, label) == pc[t] = label
Goto(t, label) == pc' = [pc EXCEPT ![t] = label]

Lock(t) == mutex = NoThread /\ mutex' = t
Unlock == mutex' = NoThread

\* pthread_cond_broadcast: every sleeper now competes for the mutex.
Broadcast(t, label) ==
  pc' = [u \in Threads |-> IF u = t THEN label
                           ELSE IF At(u, "asleep") THEN "woken" ELSE pc[u]]

-----------------------------------------------------------------------------
(* get_next_worker *)

NextFinished(t) ==
  /\ At(t, "next")
  /\ mutex = NoThread
  /\ done
  /\ Goto(t, "exit")
  /\ UNCHANGED <<mutex, done, lists, num_running, num_selected, worker, share, saved>>

\* Fault: a thread that looks for work still counts as running.
NextSearchCounted(t) ==
  /\ At(t, "next")
  /\ Lock(t)
  /\ ~done
  /\ Goto(t, "test")
  /\ UNCHANGED <<done, lists, num_running, num_selected, worker, share, saved>>

NextSearch(t) ==
  /\ At(t, "next")
  /\ Lock(t)
  /\ ~done
  /\ num_running' = num_running - 1
  /\ Goto(t, "test")
  /\ UNCHANGED <<done, lists, num_selected, worker, share, saved>>

MustWait == ~done /\ num_available = 0 /\ num_tasks_to_run # 0

\* The test of the while loop; the mutex is held but the thread does not
\* sleep yet.
TestLoop(t) ==
  /\ At(t, "test")
  /\ Goto(t, IF MustWait THEN "wait" ELSE "take")
  /\ UNCHANGED <<mutex, done, lists, num_running, num_selected, worker, share, saved>>

CondWait(t) ==
  /\ At(t, "wait")
  /\ Unlock
  /\ Goto(t, "asleep")
  /\ UNCHANGED <<done, lists, num_running, num_selected, worker, share, saved>>

Wakeup(t) ==
  /\ At(t, "woken")
  /\ Lock(t)
  /\ Goto(t, "test")
  /\ UNCHANGED <<done, lists, num_running, num_selected, worker, share, saved>>

SpuriousWakeup(t) ==
  /\ SpuriousWakeups
  /\ At(t, "asleep")
  /\ Goto(t, "woken")
  /\ UNCHANGED <<mutex, done, lists, num_running, num_selected, worker, share, saved>>

\* take_worker reads the head of the first partition that has one ...
FindWorker(t) ==
  /\ At(t, "take")
  /\ num_available # 0
  /\ \E w \in available :
       /\ \A x \in available : w[2] <= x[2]
       /\ worker' = [worker EXCEPT ![t] = w]
  /\ Goto(t, "unlink")
  /\ UNCHANGED <<mutex, done, lists, num_running, num_selected, share, saved>>

FindNothing(t) ==
  /\ At(t, "take")
  /\ num_available = 0 \/ available = {}
  /\ Unlock
  /\ Goto(t, "exit")
  /\ UNCHANGED <<done, lists, num_running, num_selected, worker, share, saved>>

\* ... and unlinks it.  A link that another thread has unlinked in between has
\* neither previous nor next: unlinking it again empties the partition's list.
UnlinkFrom(w, list) ==
  IF w \in list THEN list \ {w} ELSE {x \in list : x[2] # w[2]}

ShareOf(n) == IF n \in 0 .. cpus THEN n ELSE cpus

UnlinkWorker(t) ==
  /\ At(t, "unlink")
  /\ available' = UnlinkFrom(worker[t], available)
  /\ num_available' = num_available - 1
  /\ num_running' = num_running + 1
  /\ share' = [share EXCEPT ![t] = ShareOf(num_running' + num_available')]
  /\ Unlock
  /\ Goto(t, "run")
  /\ UNCHANGED <<done, waiting, completed, num_tasks_to_run, num_selected, worker, saved>>

-----------------------------------------------------------------------------
(* schedule_thread between the two critical sections *)

\* The worker ran, or its ack file says that it does not need to.
RunWorker(t) ==
  /\ At(t, "run")
  /\ Goto(t, "complete")
  /\ UNCHANGED <<mutex, done, lists, num_running, num_selected, worker, share, saved>>

\* The runner or on_complete returned false: the thread leaves its loop and
\* the worker's link stays taken.
FailWorker(t) ==
  /\ At(t, "run")
  /\ worker[t] \in MayFail
  /\ worker' = [worker EXCEPT ![t] = NoWorker]
  /\ share' = [share EXCEPT ![t] = 0]
  /\ Goto(t, "exit")
  /\ UNCHANGED <<mutex, done, lists, num_running, num_selected, saved>>

-----------------------------------------------------------------------------
(* worker_complete *)

LockComplete(t) ==
  /\ At(t, "complete")
  /\ Lock(t)
  /\ Goto(t, "mark")
  /\ UNCHANGED <<done, lists, num_running, num_selected, worker, share, saved>>

\* Fault: every worker counts as selected.
SelectedCompleteAny(w) ==
  /\ num_selected' = num_selected - 1
  /\ done' = (done \/ num_selected' <= 0)

SelectedComplete(w) ==
  IF w \in Selected
  THEN /\ num_selected' = num_selected - 1
       /\ done' = (done \/ num_selected = 1)
  ELSE UNCHANGED <<num_selected, done>>

\* Fault: num_tasks_to_run does not count the checkpoints that complete.
CompleteWorkerMiscounted(c) ==
  LET K == Cascade(c, waiting, completed)
      R == Released(c, waiting, completed)
  IN  /\ completed' = completed \cup {c} \cup K
      /\ waiting' = waiting \ (K \cup R)
      /\ available' = available \cup R
      /\ num_tasks_to_run' = num_tasks_to_run - Cardinality(R)
      /\ num_available' = num_available + Cardinality(R)

\* The state of the lists after mark_task_complete(c).
CompleteWorker(c) ==
  LET K == Cascade(c, waiting, completed)
      R == Released(c, waiting, completed)
  IN  /\ completed' = completed \cup {c} \cup K
      /\ waiting' = waiting \ (K \cup R)
      /\ available' = available \cup R
      /\ num_tasks_to_run' = num_tasks_to_run - Cardinality(K \cup R)
      /\ num_available' = num_available + Cardinality(R)

\* Fault: num_available is copied after mark_task_complete.
MarkCompleteLateCopy(t) ==
  /\ At(t, "mark")
  /\ SelectedComplete(worker[t])
  /\ CompleteWorker(worker[t])
  /\ saved' = [saved EXCEPT ![t] = num_available']
  /\ Goto(t, "signal")
  /\ UNCHANGED <<mutex, num_running, worker, share>>

MarkComplete(t) ==
  /\ At(t, "mark")
  /\ saved' = [saved EXCEPT ![t] = num_available]
  /\ SelectedComplete(worker[t])
  /\ CompleteWorker(worker[t])
  /\ Goto(t, "signal")
  /\ UNCHANGED <<mutex, num_running, worker, share>>

MustBroadcast(t) == (saved[t] = 0 /\ num_available # 0) \/ done

Signal(t) ==
  /\ At(t, "signal")
  /\ IF MustBroadcast(t) THEN Broadcast(t, "next") ELSE Goto(t, "next")
  /\ Unlock
  /\ worker' = [worker EXCEPT ![t] = NoWorker]
  /\ share' = [share EXCEPT ![t] = 0]
  /\ saved' = [saved EXCEPT ![t] = 0]
  /\ UNCHANGED <<done, lists, num_running, num_selected>>

-----------------------------------------------------------------------------
(* mark_as_done, the last call of a thread *)

StrayUnlock(t) ==
  /\ At(t, "exit")
  /\ Unlock
  /\ Goto(t, "setdone")
  /\ UNCHANGED <<done, lists, num_running, num_selected, worker, share, saved>>

SetDone(t) ==
  /\ At(t, "setdone")
  /\ done' = TRUE
  /\ Goto(t, IF done THEN "unlock" ELSE "broadcast")
  /\ UNCHANGED <<mutex, lists, num_running, num_selected, worker, share, saved>>

BroadcastDone(t) ==
  /\ At(t, "broadcast")
  /\ Broadcast(t, "unlock")
  /\ UNCHANGED <<mutex, done, lists, num_running, num_selected, worker, share, saved>>

FinalUnlock(t) ==
  /\ At(t, "unlock")
  /\ Unlock
  /\ Goto(t, "gone")
  /\ UNCHANGED <<done, lists, num_running, num_selected, worker, share, saved>>

-----------------------------------------------------------------------------
Step(t) ==
  \/ NextFinished(t) \/ NextSearch(t) \/ TestLoop(t) \/ CondWait(t) \/ Wakeup(t)
  \/ FindWorker(t) \/ FindNothing(t) \/ UnlinkWorker(t)
  \/ RunWorker(t) \/ FailWorker(t)
  \/ LockComplete(t) \/ MarkComplete(t) \/ Signal(t)
  \/ StrayUnlock(t) \/ SetDone(t) \/ BroadcastDone(t) \/ FinalUnlock(t)

\* ac_schedule_run has joined every thread.
AllJoined == \A t \in Threads : At(t, "gone")

Returned == AllJoined /\ UNCHANGED vars

Next == (\E t \in Threads : Step(t) \/ SpuriousWakeup(t)) \/ Returned

\* The operating system runs every thread that is not blocked.
Fairness == \A t \in Threads : WF_vars(Step(t))

Spec == Init /\ [][Next]_vars /\ Fairness
-----------------------------------------------------------------------------
(* Properties *)

Labels == {"next", "test", "wait", "asleep", "woken", "take", "unlink", "run",
           "complete", "mark", "signal", "exit", "setdone", "broadcast",
           "unlock", "gone"}

\* Every variable stays in its range; a thread that holds a worker names one.
TypeOK ==
  /\ mutex \in Threads \cup {NoThread}
  /\ done \in BOOLEAN
  /\ available \in SUBSET Worker
  /\ waiting \in SUBSET Worker
  /\ completed \in SUBSET Worker
  /\ num_available \in Int
  /\ num_tasks_to_run \in Int
  /\ num_running \in Int
  /\ num_selected \in Int
  /\ pc \in [Threads -> Labels]
  /\ worker \in [Threads -> Worker \cup {NoWorker}]
  /\ share \in [Threads -> Int]
  /\ saved \in [Threads -> Int]
  /\ \A t \in Threads : pc[t] \in {"unlink", "run", "complete", "mark", "signal"}
                          => worker[t] \in Worker

Holding(t) == pc[t] \in {"run", "complete", "mark"}

\* Workers unlinked by take_worker and not complete yet.
Taken == Worker \ (available \cup waiting \cup completed)

\* The critical sections of get_next_worker and worker_complete.
Critical(t) == pc[t] \in {"test", "wait", "take", "unlink", "mark", "signal"}

\* The counters that decide whether a thread sleeps, searches or leaves agree
\* with the lists of get_next_worker, link_state and unlink_state.
CountersMatchLists ==
  /\ num_available = Cardinality(available)
  /\ num_tasks_to_run = Cardinality(waiting)

\* A worker can be taken, and can be complete, only once all the workers it
\* depends on are complete (is_dependencies_complete).
DependenciesFirst ==
  \A w \in Worker \ waiting : IsDependenciesComplete(w, completed)

\* check_task is called for every worker whose last dependency completes: no
\* worker is left on tasks_to_finish with nothing to wait for.
NoMissedRelease ==
  \A w \in waiting : ~IsDependenciesComplete(w, completed)

\* No two threads run the same worker, and a worker that a thread runs is on
\* none of the lists (take_worker under the scheduler's mutex).
OneThreadPerWorker ==
  \A t \in Threads : Holding(t) =>
     /\ worker[t] \in Taken
     /\ \A u \in Threads \ {t} : Holding(u) => worker[u] # worker[t]

\* The unlock that mark_as_done has no lock for does no harm while there is
\* work: until every list is drained at most one thread is in a critical
\* section, the one that owns the mutex.
ExclusiveWhileWork ==
  available \cup waiting # {} => \A t \in Threads : Critical(t) => mutex = t

Leaving(t) == pc[t] \in {"exit", "setdone", "broadcast", "unlock", "gone"}

\* A thread leaves its loop only when there is nothing left to take or to wait
\* for: no cpu is lost while workers remain.
LeaveWhenDrained ==
  (\E t \in Threads : Leaving(t)) => available \cup waiting = {}

\* A runner returned false: its worker is on no list and no thread has it.
Failed == {w \in Taken : \A t \in Threads : Holding(t) => worker[t] # w}

\* Why a run ends: no worker is left to take, every worker selected with --task is
\* complete (num_selected in worker_complete), or a runner returned false.
EndReason ==
  \/ available \cup waiting = {}
  \/ Selected # {} /\ Selected \subseteq completed
  \/ Failed # {}

\* No thread leaves its loop for another reason.
LeaveForReason == (\E t \in Threads : Leaving(t)) => EndReason

\* What is left of the guarantees beside a runner that returned false and a selection:
\* no worker is run twice (take_worker), and threads leave for a reason (mark_as_done).
FailInv == OneThreadPerWorker /\ LeaveForReason

\* worker_complete broadcasts when num_available leaves zero, mark_as_done when
\* it sets done: a thread sleeps beside available work or after done only while
\* that broadcast is still to come.
NoLostWakeup ==
  (\E t \in Threads : At(t, "asleep")) /\ (available # {} \/ done) =>
     \E u \in Threads : At(u, "broadcast") \/ (At(u, "signal") /\ MustBroadcast(u))

\* The three lists and the workers that threads hold never share a worker, and a
\* checkpoint is never on offer to a thread, nor taken by one.
ListsDisjoint ==
  /\ available \cap waiting = {}
  /\ available \cap completed = {}
  /\ waiting \cap completed = {}
  /\ Checkpoint \subseteq waiting \cup completed

\* What a thread has seen stays true while it acts on it, and done is set only
\* over drained lists.
DecisionsHold ==
  /\ done => available \cup waiting = {}
  /\ \A t \in Threads :
       /\ At(t, "wait") => available = {} /\ waiting # {} /\ ~done
       /\ At(t, "unlink") => worker[t] \in available
       /\ At(t, "take") /\ available = {} => waiting = {}

\* The inductive invariant of a run in which no runner fails and no worker is
\* selected: the lists agree with the graph, and mark_as_done's stray unlock
\* comes only after the lists are drained for good.
ListInv ==
  /\ ListsDisjoint
  /\ CountersMatchLists
  /\ DependenciesFirst
  /\ NoMissedRelease

ThreadInv ==
  /\ OneThreadPerWorker
  /\ ExclusiveWhileWork
  /\ LeaveWhenDrained
  /\ DecisionsHold

IInv == TypeOK /\ ListInv /\ ThreadInv

\* The number ac_worker_ram divides by counts every thread that runs a worker,
\* and the size_t num_running neither wraps nor exceeds the number of threads.
RunningCounted ==
  /\ num_running \in 0 .. cpus
  /\ Cardinality({t \in Threads : Holding(t)}) <= num_running

\* Once a thread has left, the stray unlock may free the mutex of any other: with two
\* threads that one is alone in its critical section all the same.
OthersKeepOut ==
  /\ \A t, u \in Threads : Critical(t) /\ Critical(u) => t = u
  /\ (\A u \in Threads : ~Leaving(u)) => \A t \in Threads : Critical(t) => mutex = t

\* num_selected counts down to the moment the last selected worker is complete (a
\* selected checkpoint never counts down), and done is set for a reason.
DoneForReason ==
  /\ num_selected = Cardinality(Selected \ (completed \ Checkpoint))
  /\ done => EndReason

\* take_worker unlinks the worker it has found, and gives up only when there is nothing.
TakesWhatItFound ==
  \A t \in Threads :
    /\ At(t, "unlink") => worker[t] \in available
    /\ At(t, "take") /\ available = {} => waiting = {} \/ done

\* The inductive invariant of two threads, beside failing runners and a selection.
FailIInv ==
  /\ TypeOK /\ ListInv /\ FailInv
  /\ OthersKeepOut /\ DoneForReason /\ TakesWhatItFound

\* The threads that certainly count as running, and those that may: a thread that
\* leaves was counted if it saw done at once, and was not if it found nothing to take.
Working == {t \in Threads : pc[t] \in {"next", "run", "complete", "mark", "signal"}}
Looking == {t \in Threads : pc[t] \in {"test", "wait", "asleep", "woken", "take", "unlink"}}

\* num_running, which get_next_worker and take_worker change in different critical
\* sections, lies between the two, also when the stray unlock has let two threads in.
RunningInv ==
  /\ Cardinality(Working) <= num_running
  /\ num_running <= Cardinality(Threads \ Looking)

\* The threads implement the abstract task graph: every worker is started at most
\* once and after its dependencies, and a checkpoint completes with the last of
\* them (take_worker, mark_task_complete and check_task under all interleavings).
Graph == INSTANCE TaskGraph WITH running <- Taken
ImplementsTaskGraph == Graph!Spec

\* ac_schedule_run returns, and then every worker is complete.
RunsAllTasks == <>(AllJoined /\ completed = Worker)
=============================================================================
