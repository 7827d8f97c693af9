---------------------------- MODULE AcScheduleAck ----------------------------
(***************************************************************************)
(* A schedule run again and again: the ack files that outlive the process,  *)
(* and worker_needs_to_run, which decides by their modification times       *)
(* which workers a later process may skip.                                  *)
(*                                                                          *)
(* The threads and the lock of AcSchedule are left out: any available       *)
(* worker may be taken, and worker_complete's critical section is one step. *)
(* A process may be killed between any two steps; a failing runner ends it  *)
(* in the same way.  The clock is time(NULL), in seconds, and also stamps   *)
(* the files.                                                               *)
(***************************************************************************)
EXTENDS AcTasks, Integers

CONSTANTS
  OutputLinks,   \* task -> the tasks that name it as a destination of ac_task_output
  Inputs,        \* workers of tasks with ac_task_input_files
  Everytime,     \* tasks marked with ac_task_run_everytime
  Requests,      \* what a command line asks for: [force, only : SUBSET Worker]
  MayCrash,      \* the requests whose process may be killed
  MinimumGap,    \* seconds between the last write of a process and the next start
  MaxClock       \* bound on the clock

ASSUME AckAssumption ==
  /\ OutputLinks \in [Tasks -> SUBSET Tasks]
  /\ \A task \in Tasks :
       OutputLinks[task] \subseteq Dependencies[task] \cup PartialDependencies[task]
  /\ Inputs \subseteq Worker
  /\ Everytime \subseteq Tasks
  /\ Requests \subseteq [force : SUBSET Worker, only : SUBSET Worker]
  /\ MayCrash \subseteq Requests
  /\ MinimumGap \in Nat
  /\ MaxClock \in Nat /\ MaxClock >= 2

VARIABLES
  \* what outlives a process
  now,       \* time(NULL)
  ack,       \* modification time of a worker's ack file, 0 without one
  modified,  \* last_modified of a worker's outside input files
  written,   \* last_modified of a worker's output files
  stale,     \* workers whose output is not made from their present inputs
  \* memory of the process
  up,
  request,
  loaded,    \* ack_time of the state links, read by schedule_setup
  completed, \* completed of the state links: 0, or the time passed on
  waiting,   \* waiting_on_others of the state links
  running,   \* workers between take_worker and the end of their runner
  finished   \* workers between time(NULL) and mark_task_complete: <<w, when, acked>>

disk == <<ack, modified, written, stale>>
memory == <<up, request, loaded, completed, waiting, running, finished>>
vars == <<now, disk, memory>>

Zero == [w \in Worker |-> 0]
AskNothing == [force |-> {}, only |-> {}]

Completed == {w \in Worker : completed[w] # 0}

Available ==
  Worker \ (waiting \cup Completed \cup running \cup {f[1] : f \in finished})

\* 1 is the time of a worker that never ran: no clock shows it any more.
Init ==
  /\ now = 2
  /\ ack = Zero
  /\ modified = [w \in Worker |-> IF w \in Inputs THEN 1 ELSE 0]
  /\ written = Zero
  /\ stale = Worker \ Checkpoint
  /\ up = FALSE
  /\ request = AskNothing
  /\ loaded = Zero
  /\ completed = Zero
  /\ waiting = {}
  /\ running = {}
  /\ finished = {}

-----------------------------------------------------------------------------
(* Whose output a worker reads, checkpoints being transparent. *)

DirectlyBefore(w) ==
  {d \in Worker : \/ d[1] \in Dependencies[w[1]]
                  \/ /\ d[1] \in PartialDependencies[w[1]]
                     /\ d[2] = IF w[2] \in Partitions(d[1]) THEN w[2] ELSE 0}

Upstream == [w \in Worker |->
  {d \in Worker \ Checkpoint :
     \A S \in SUBSET Worker :
        (\A x \in {w} \cup (S \cap Checkpoint) : DirectlyBefore(x) \subseteq S) => d \in S}]

Downstream(d) == {w \in Worker \ Checkpoint : d \in Upstream[w]}

-----------------------------------------------------------------------------
(* worker_needs_to_run *)

\* Fault: only the ack files of earlier processes count.
AckTimeLoaded(task, p) == IF p \notin Partitions(task) THEN 0 ELSE loaded[<<task, p>>]

AckTime(task, p) ==
  IF p \notin Partitions(task) THEN 0
  ELSE LET w == <<task, p>>
       IN  IF loaded[w] > completed[w] THEN loaded[w] ELSE completed[w]

\* The workers whose output files are among the inputs of w: a partition that
\* follows an unpartitioned task by AC_OUTPUT_PARTITION looks for a file of its
\* own number, which nobody writes.
InputFrom(w) ==
  {d \in DirectlyBefore(w) : /\ d[1] \in OutputLinks[w[1]]
                             /\ d[1] \in Dependencies[w[1]] \/ d[2] = w[2]}

\* Fault: >= in place of >.
NeedsToRunOnTie(w) ==
  \/ loaded[w] = 0
  \/ w[1] \in Everytime
  \/ w \in request.force
  \/ \E d \in Dependencies[w[1]] : \E p \in Partitions(d) : AckTime(d, p) >= loaded[w]
  \/ \E d \in PartialDependencies[w[1]] : AckTime(d, w[2]) >= loaded[w]
  \/ modified[w] >= loaded[w]
  \/ \E d \in InputFrom(w) : written[d] >= loaded[w]

NeedsToRun(w) ==
  \/ loaded[w] = 0
  \/ w[1] \in Everytime
  \/ w \in request.force
  \/ \E d \in Dependencies[w[1]] : \E p \in Partitions(d) : AckTime(d, p) > loaded[w]
  \/ \E d \in PartialDependencies[w[1]] : AckTime(d, w[2]) > loaded[w]
  \/ modified[w] > loaded[w]
  \/ \E d \in InputFrom(w) : written[d] > loaded[w]

RunPerArgs(w) == w \in request.only

\* mark_task_complete passes the time of w on to every checkpoint it completes.
MarkTaskComplete(w, when) ==
  LET K == Cascade(w, waiting, Completed)
      R == Released(w, waiting, Completed)
  IN  /\ completed' = [x \in Worker |-> IF x \in K \cup {w} THEN when ELSE completed[x]]
      /\ waiting' = waiting \ (K \cup R)

-----------------------------------------------------------------------------
(* Outside the process *)

Tick ==
  /\ now < MaxClock
  /\ now' = now + 1
  /\ UNCHANGED <<disk, memory>>

\* The last thing a process wrote is at least MinimumGap seconds old.
Rested == \A w \in Worker : ack[w] = 0 \/ now >= ack[w] + MinimumGap

\* An input file of w is replaced between two processes.
Modify(w) ==
  /\ ~up
  /\ Rested
  /\ modified' = [modified EXCEPT ![w] = now]
  /\ stale' = stale \cup ({w} \ Checkpoint)
  /\ UNCHANGED <<now, ack, written, memory>>

\* schedule_setup and parse_args: root checkpoints complete at the current time.
StartProcess ==
  /\ ~up
  /\ Rested
  /\ up' = TRUE
  /\ request' \in Requests
  /\ loaded' = ack
  /\ completed' = [w \in Worker |-> IF w \in SetupCompleted THEN now ELSE 0]
  /\ waiting' = SetupWaiting
  /\ running' = {}
  /\ finished' = {}
  /\ UNCHANGED <<now, disk>>

\* The process is gone, and with it all it remembers.
Forget ==
  /\ up' = FALSE
  /\ request' = AskNothing
  /\ loaded' = Zero
  /\ completed' = Zero
  /\ waiting' = {}
  /\ running' = {}
  /\ finished' = {}
  /\ UNCHANGED <<now, disk>>

Crash == up /\ request \in MayCrash /\ Forget

Exit == up /\ Completed = Worker /\ Forget

-----------------------------------------------------------------------------
(* schedule_thread *)

\* The output files are opened, and while the runner replaces them neither w nor
\* its readers are up to date.
StartWorker(w) ==
  /\ up
  /\ w \in Available
  /\ NeedsToRun(w)
  /\ RunPerArgs(w)
  /\ running' = running \cup {w}
  /\ stale' = stale \cup {w} \cup Downstream(w)
  /\ written' = [written EXCEPT ![w] = now]
  /\ UNCHANGED <<now, ack, modified, up, request, loaded, completed, waiting, finished>>

\* Fault: the ack file of a skipped worker is written again.
SkipWorkerAcked(w) ==
  /\ up
  /\ w \in Available
  /\ ~(NeedsToRun(w) /\ RunPerArgs(w))
  /\ MarkTaskComplete(w, IF loaded[w] # 0 THEN loaded[w] ELSE 1)
  /\ ack' = [ack EXCEPT ![w] = now]
  /\ UNCHANGED <<now, modified, written, stale, up, request, loaded, running, finished>>

\* A worker that need not run, or was not asked for, completes at the time of
\* its ack file; worker_complete does not write that file again.
SkipWorker(w) ==
  /\ up
  /\ w \in Available
  /\ ~(NeedsToRun(w) /\ RunPerArgs(w))
  /\ MarkTaskComplete(w, IF loaded[w] # 0 THEN loaded[w] ELSE 1)
  /\ UNCHANGED <<now, disk, up, request, loaded, running, finished>>

\* The runner returned true and time(NULL) was called.
FinishWorker(w) ==
  /\ w \in running
  /\ running' = running \ {w}
  /\ finished' = finished \cup {<<w, now, FALSE>>}
  /\ written' = [written EXCEPT ![w] = now]
  /\ UNCHANGED <<now, ack, modified, stale, up, request, loaded, completed, waiting>>

\* worker_complete writes the ack file before it takes the lock.
WriteAck(w) ==
  \E f \in finished :
    /\ f[1] = w
    /\ ~f[3]
    /\ ack' = IF f[2] > loaded[w] /\ f[2] > 1 THEN [ack EXCEPT ![w] = now] ELSE ack
    /\ stale' = stale \ {w}
    /\ finished' = (finished \ {f}) \cup {<<w, f[2], TRUE>>}
    /\ UNCHANGED <<now, modified, written, up, request, loaded, completed, waiting, running>>

MarkComplete(w) ==
  \E f \in finished :
    /\ f[1] = w
    /\ f[3]
    /\ finished' = finished \ {f}
    /\ MarkTaskComplete(w, f[2])
    /\ UNCHANGED <<now, disk, up, request, loaded, running>>

-----------------------------------------------------------------------------
Next ==
  \/ Tick \/ StartProcess \/ Crash \/ Exit
  \/ \E w \in Inputs : Modify(w)
  \/ \E w \in Worker : \/ StartWorker(w) \/ SkipWorker(w) \/ FinishWorker(w)
                       \/ WriteAck(w) \/ MarkComplete(w)

Spec == Init /\ [][Next]_vars
-----------------------------------------------------------------------------
(* Properties *)

TypeOK ==
  /\ now \in 2 .. MaxClock
  /\ ack \in [Worker -> 0 .. MaxClock]
  /\ modified \in [Worker -> 0 .. MaxClock]
  /\ written \in [Worker -> 0 .. MaxClock]
  /\ stale \in SUBSET (Worker \ Checkpoint)
  /\ up \in BOOLEAN
  /\ request \in [force : SUBSET Worker, only : SUBSET Worker]
  /\ loaded \in [Worker -> 0 .. MaxClock]
  /\ completed \in [Worker -> 0 .. MaxClock]
  /\ waiting \in SUBSET Worker
  /\ running \in SUBSET Worker
  /\ finished \in SUBSET (Worker \X (2 .. MaxClock) \X BOOLEAN)

\* When a process that was asked for everything has completed every worker, each
\* output is made from the present output of what it depends on, whatever was
\* killed, forced or left out before (worker_needs_to_run over ack files).
UpToDate ==
  up /\ Completed = Worker /\ request.only = Worker => stale = {}

\* A worker runs only for a reason: it was asked for, something it reads or its own last
\* run is not acknowledged, or it follows a root checkpoint, which every schedule_setup
\* completes at the current time (worker_needs_to_run is not merely TRUE).
NoNeedlessRun ==
  [][\A w \in Worker : w \in running' \ running =>
        \/ w \in stale \/ w[1] \in Everytime \/ w \in request.force
        \/ DirectlyBefore(w) \cap SetupCompleted # {}]_vars

\* An ack file is only ever newer than the ack files of what its worker read: a
\* killed process leaves no acknowledged output that looks newer than it is.
AcksFollowUpstream ==
  \A w \in Worker \ (stale \cup Checkpoint) : \A d \in Upstream[w] : ack[d] <= ack[w]

\* The two together: what the disk and the state links hold, in every step of every
\* process (write_ack, schedule_setup).
AckInv == TypeOK /\ AcksFollowUpstream
-----------------------------------------------------------------------------
(* The inductive invariants behind the properties *)

Ended == {f[1] : f \in finished}

Held == running \cup Ended

Acked == {f[1] : f \in {g \in finished : g[3]}}

\* Each worker is in one place, and waits exactly as long as a dependency is left.
LinksInv ==
  /\ ~up => Held = {}
  /\ Held \cap Completed = {}
  /\ running \cap Ended = {}
  /\ \A f, g \in finished : f[1] = g[1] => f = g
  /\ waiting \cap (Completed \cup Held) = {}
  /\ up => /\ Checkpoint \subseteq waiting \cup Completed
           /\ SetupCompleted \subseteq Completed
           /\ \A w \in Worker : w \in waiting <=> ~IsDependenciesComplete(w, Completed)

\* No time is ahead of the clock, and until its own ack file is written a worker has
\* the one that was loaded.
TimesInv ==
  /\ \A w \in Worker : ack[w] <= now /\ modified[w] <= now /\ written[w] <= now
  /\ \A k \in Checkpoint : ack[k] = 0 /\ written[k] = 0
  /\ up => \A w \in Worker : /\ loaded[w] <= ack[w]
                             /\ w \notin Completed \cup Acked => loaded[w] = ack[w]
  /\ \A f \in finished :
       /\ modified[f[1]] <= f[2]
       /\ \A d \in Upstream[f[1]] : ack[d] <= f[2] /\ written[d] <= f[2]

\* What is not stale was acknowledged after all it read, and whoever reads what a
\* thread is working on is stale.
CurrentInv ==
  /\ \A w \in Worker \ (stale \cup Checkpoint) :
       /\ ack[w] # 0
       /\ modified[w] <= ack[w]
       /\ \A d \in Upstream[w] : ack[d] <= ack[w] /\ written[d] <= ack[w]
  /\ \A d \in Held : Downstream(d) \subseteq stale

\* The times mark_task_complete passed on are those of workers, and none is newer than
\* a worker that is still to come and is not stale.
PassedInv ==
  up => /\ \A k \in (Checkpoint \cap Completed) \ SetupCompleted :
             \E d \in Upstream[k] \cap Completed : completed[k] = completed[d]
        /\ \A w \in Worker \ (stale \cup Checkpoint \cup Completed \cup Held) :
             \A d \in Upstream[w] \cap Completed : completed[d] <= ack[w]

AckIInv == TypeOK /\ LinksInv /\ TimesInv /\ CurrentInv /\ PassedInv

\* What a process finds on the disk that makes worker_needs_to_run ask for w, once the
\* workers before it are up to date.
Cause(w) ==
  \/ ack[w] = 0
  \/ w[1] \in Everytime
  \/ DirectlyBefore(w) \cap SetupCompleted # {}
  \/ modified[w] > ack[w]
  \/ \E d \in InputFrom(w) : written[d] > ack[w]
  \/ \E d \in Upstream[w] : d \in stale \/ ack[d] > ack[w]

\* Every stale worker has a cause to run, or runs in a process nobody kills.
CausesInv ==
  \A w \in stale : Cause(w) \/ (request \notin MayCrash /\ w \in Held \ Acked)

\* What this process did is newer than anything it loaded, and a checkpoint hides
\* nothing.
FreshInv ==
  up => /\ \A w \in Worker :
             /\ loaded[w] < now
             /\ \A f \in finished : loaded[w] < f[2]
             /\ \A k \in SetupCompleted : loaded[w] < completed[k]
        /\ \A f \in finished : f[2] <= now /\ (f[3] => f[2] <= ack[f[1]])
        /\ \A d \in Completed \ Checkpoint :
             /\ completed[d] = 1 \/ completed[d] <= ack[d]
             /\ \/ loaded[d] = ack[d] /\ loaded[d] <= completed[d]
                \/ \A w \in Worker : loaded[w] < completed[d]
        /\ \A k \in Checkpoint \cap Completed :
             \A d \in DirectlyBefore(k) : completed[k] = completed[d]

\* What is acknowledged is not stale, nor, where everything was asked for, is what is
\* complete.
DoneInv ==
  /\ Acked \cap stale = {}
  /\ up /\ request.only = Worker => Completed \cap stale = {}

UpToDateIInv == CausesInv /\ FreshInv /\ DoneInv
=============================================================================
