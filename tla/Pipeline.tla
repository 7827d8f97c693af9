------------------------------ MODULE Pipeline ------------------------------
(***************************************************************************)
(* Programs of tasks run from the command line, one process after another   *)
(* in the same directory: ac_schedule_run in each of its modes (run, list,  *)
(* dump, debug, help), the workers with the records they read and write,    *)
(* the ack files and the file of the custom arguments.                      *)
(*                                                                          *)
(* The threads are those of AcSchedule, whose critical sections are single  *)
(* steps here.  A process lives within one second and the next one starts   *)
(* in a later second; AcScheduleAck has the finer clock.                    *)
(***************************************************************************)
EXTENDS AcWorker

CONSTANTS
  Programs,       \* the programs, as AcTaskSetup has them
  NumPartitions,  \* of ac_schedule_init
  CustomArgsOf,   \* the programs that called ac_schedule_custom_args
  Lines,          \* the command lines
  Cpus,           \* of ac_schedule_init
  InputFilesAt(_),\* version -> the input files: name -> records
  MaxProcesses    \* bound on the processes

VARIABLES
  prog,       \* which program this is
  s,          \* its schedule at the end of schedule_setup, the same in every process
  \* the disk
  version,    \* of the input files
  fs,         \* all other files and the input files
  ack,        \* worker -> time of its ack file, 0 without one
  kept,       \* the custom arguments in the file
  \* the process
  count,      \* how many processes there were
  up,
  at,         \* parsed_args
  completed,  \* worker -> completed of its state link
  running,
  num_selected,
  done,
  printed,    \* what a list or a dump has shown
  \* ghosts
  leftover,   \* files their worker did not write when it ran last
  used,       \* the custom arguments that processes took since the last --new-args
  died        \* did a process of this history abort?

disk == <<version, fs, ack, kept>>
ghosts == <<leftover, used, died>>
program == <<prog, s>>
vars == <<program, disk, count, up, at, completed, running, num_selected, done, printed, ghosts>>

Worker == WorkersOf(s)

Graph == INSTANCE AcTasks WITH
  Tasks <- DOMAIN s.tasks,
  Partitioned <- {t \in DOMAIN s.tasks : s.tasks[t].num_partitions # 1},
  NumPartitions <- s.num_partitions,
  Dependencies <- [t \in DOMAIN s.tasks |-> s.tasks[t].dependencies],
  PartialDependencies <- [t \in DOMAIN s.tasks |-> s.tasks[t].partial],
  DoNothing <- {t \in DOMAIN s.tasks : s.tasks[t].do_nothing}

now == 2 * count
InputsAt(v, time) ==
  [n \in DOMAIN InputFilesAt(v) |-> [format |-> "text", recs |-> InputFilesAt(v)[n], time |-> time]]

Init ==
  /\ prog \in DOMAIN Programs
  /\ s = schedule_setup(Programs[prog], NumPartitions)
  /\ version = 1
  /\ fs = InputsAt(1, 1)
  /\ ack = [w \in Worker |-> 0]
  /\ kept = <<>>
  /\ count = 0
  /\ up = FALSE
  /\ at = NoArgs
  /\ completed = [w \in Worker |-> 0]
  /\ running = {}
  /\ num_selected = 0
  /\ done = FALSE
  /\ printed = {}
  /\ leftover = {}
  /\ used = {}
  /\ died = FALSE

Completed == {w \in Worker : completed[w] # 0}
Waiting == {w \in Worker \ Completed : ~Graph!IsDependenciesComplete(w, Completed)}
Available == Worker \ (Completed \cup Waiting \cup running)

Mode ==
  CASE at.debug_task # <<>> -> IF at.dump THEN "debugdump" ELSE "debug"
    [] at.help -> "help"
    [] at.dump -> "dump"
    [] at.list -> "list"
    [] OTHER -> "run"

cpus == IF at.dump \/ at.list THEN 1 ELSE IF at.cpus # 0 THEN at.cpus ELSE Cpus

-----------------------------------------------------------------------------
(* Between the processes *)

\* The input files are replaced.
Modify ==
  /\ ~up
  /\ version = 1
  /\ count > 0
  /\ version' = 2
  /\ fs' = InputsAt(2, now + 1) @@ fs
  /\ UNCHANGED <<program, ack, kept, count, up, at, completed, running, num_selected, done, printed,
                 ghosts>>

\* schedule_setup and parse_args.
StartProcess(line) ==
  LET parsed == parse_args(s, line, kept, prog \in CustomArgsOf)
  IN  /\ ~up
      /\ count < MaxProcesses
      /\ count' = count + 1
      /\ up' = ~s.dead
      /\ died' = (died \/ s.dead)
      /\ at' = IF s.dead THEN NoArgs ELSE parsed.at
      /\ kept' = IF s.dead THEN kept ELSE parsed.kept
      /\ completed' = [w \in Worker |->
                         IF ~s.dead /\ w \in Graph!SetupCompleted THEN 2 * (count + 1) ELSE 0]
      /\ running' = {}
      /\ num_selected' = IF s.dead THEN 0 ELSE parsed.at.num_selected
      /\ done' = FALSE
      /\ printed' = {}
      /\ used' = IF s.dead THEN used
                 ELSE (IF \E i \in DOMAIN line : line[i] = <<"--new-args">> THEN {} ELSE used)
                      \cup (IF parsed.custom = <<>> \/ parsed.at.help THEN {} ELSE {parsed.custom})
      /\ UNCHANGED <<program, version, fs, ack, leftover>>

\* The process is gone.
Gone ==
  /\ up' = FALSE
  /\ at' = NoArgs
  /\ completed' = [w \in Worker |-> 0]
  /\ running' = {}
  /\ num_selected' = 0
  /\ done' = FALSE
  /\ printed' = {}
  /\ UNCHANGED <<program, version, kept, count, used>>

\* The threads have left schedule_thread, or the one of a list or dump its loop.
Exit ==
  /\ up
  /\ Mode \in {"run", "list", "dump"}
  /\ running = {}
  /\ done \/ Available = {}
  /\ Gone
  /\ UNCHANGED <<fs, ack, leftover, died>>

Usage == up /\ Mode = "help" /\ Gone /\ UNCHANGED <<fs, ack, leftover, died>>

\* Killed while workers run: of some of them the files are open, and empty so far.
Kill ==
  /\ up
  /\ Mode = "run"
  /\ ~at.force
  /\ \E opened \in SUBSET running :
       LET cut == UNION {{n \in WritesOf(s, w, <<>>) : Holds(fs, n)} : w \in opened}
       IN  fs' = [n \in DOMAIN fs |-> IF n \in cut THEN [fs[n] EXCEPT !.recs = <<>>, !.time = now]
                                      ELSE fs[n]]
  /\ Gone
  /\ UNCHANGED <<ack, leftover, died>>

-----------------------------------------------------------------------------
(* Workers *)

AckTime(t, p) ==
  IF p >= s.tasks[t].num_partitions THEN 0
  ELSE IF ack[<<t, p>>] > completed[<<t, p>>] THEN ack[<<t, p>>] ELSE completed[<<t, p>>]

Asked(w) == at.select_all \/ w \in at.selected

worker_needs_to_run(w) ==
  \/ ack[w] = 0
  \/ TaskOf(s, w).everytime
  \/ at.force /\ Asked(w)
  \/ \E d \in TaskOf(s, w).dependencies :
       \E p \in 0 .. s.tasks[d].num_partitions - 1 : AckTime(d, p) > ack[w]
  \/ \E d \in TaskOf(s, w).partial : AckTime(d, w[2]) > ack[w]
  \/ \E n \in ReadsOf(s, w, fs) : Holds(fs, n) /\ fs[n].time > ack[w]

task_run_per_args(w) == IF at.only THEN Asked(w) ELSE at.select_all \/ num_selected # 0

\* mark_task_complete and the count of the selected workers.
Complete(w, when) ==
  LET K == Graph!Cascade(w, Waiting, Completed)
  IN  /\ completed' = [x \in Worker |-> IF x \in K \cup {w} THEN when ELSE completed[x]]
      /\ num_selected' = IF w \in at.selected THEN num_selected - 1 ELSE num_selected
      /\ done' = (done \/ (w \in at.selected /\ num_selected = 1))

\* Fault: a list or a dump acknowledges the workers it walks over.
WorkerCompleteAlways(w, when) ==
  /\ ack' = IF when > ack[w] /\ when > 1 THEN [ack EXCEPT ![w] = now] ELSE ack
  /\ Complete(w, when)

\* worker_complete with write_ack, which does nothing for a list or a dump.
worker_complete(w, when) ==
  /\ ack' = IF when > ack[w] /\ when > 1 /\ ~(at.dump \/ at.list \/ at.help)
            THEN [ack EXCEPT ![w] = now] ELSE ack
  /\ Complete(w, when)

\* get_next_worker: a worker of the first partition that has one.
CanTake(w) ==
  /\ up
  /\ ~done
  /\ w \in Available
  /\ \A x \in Available : w[2] <= x[2]
  /\ Cardinality(running) < cpus

MustRun(w) == worker_needs_to_run(w) /\ task_run_per_args(w)

StartWorker(w) ==
  /\ Mode = "run"
  /\ CanTake(w)
  /\ MustRun(w)
  /\ running' = running \cup {w}
  /\ UNCHANGED <<program, disk, count, up, at, completed, num_selected, done, printed, ghosts>>

SkipWorker(w) ==
  /\ Mode = "run"
  /\ CanTake(w)
  /\ ~MustRun(w)
  /\ worker_complete(w, IF ack[w] # 0 THEN ack[w] ELSE 1)
  /\ UNCHANGED <<program, version, fs, kept, count, up, at, running, printed, ghosts>>

FinishWorker(w) ==
  /\ w \in running
  /\ \E ran \in {run_worker(s, w, fs, <<>>, now)} :
       /\ ~ran.dead
       /\ fs' = ran.fs
       /\ leftover' = (leftover \ WritesOf(s, w, <<>>)) \cup
                      {n \in WritesOf(s, w, <<>>) : Holds(ran.fs, n) /\ ran.fs[n].time < now}
  /\ running' = running \ {w}
  /\ worker_complete(w, now)
  /\ UNCHANGED <<program, version, kept, count, up, at, printed, used, died>>

AbortWorker(w) ==
  /\ w \in running
  /\ run_worker(s, w, fs, <<>>, now).dead
  /\ Gone
  /\ died' = TRUE
  /\ UNCHANGED <<fs, ack, leftover>>

\* list_selected_tasks: a task shows with its last partition, or with each one and
\* its files.
ListWorker(w) ==
  /\ Mode = "list"
  /\ CanTake(w)
  /\ printed' = IF Asked(w) /\ (at.show_files \/ w[2] = TaskOf(s, w).num_partitions - 1)
                THEN printed \cup {<<w, IF at.show_files THEN ReadsOf(s, w, fs) ELSE {}>>}
                ELSE printed
  /\ worker_complete(w, now)
  /\ UNCHANGED <<program, version, fs, kept, count, up, at, running, ghosts>>

\* dump_selected_tasks: the files asked for that no worker before this one has shown.
Dumped(w) ==
  {dump_file(s, w, fs, f) : f \in Shown(s, w, fs, at.files \ {x[1] : x \in printed})}

DumpWorker(w) ==
  /\ Mode = "dump"
  /\ CanTake(w)
  /\ printed' = printed \cup Dumped(w)
  /\ worker_complete(w, now)
  /\ UNCHANGED <<program, version, fs, kept, count, up, at, running, ghosts>>

\* debug_task: one worker, alone, with its output in the directory of --debug.  For a
\* partition the task does not have it reads past the states of the workers.
DebugTask ==
  /\ up
  /\ Mode = "debug"
  /\ \/ \E ran \in {run_worker(s, at.debug_task, fs, at.debug_path, now)} :
          /\ fs' = IF ran.dead THEN fs ELSE ran.fs
          /\ died' = (died \/ ran.dead)
     \/ /\ at.debug_task \notin Worker
        /\ fs' = fs
        /\ died' = TRUE
  /\ Gone
  /\ UNCHANGED <<ack, leftover>>

DebugDump ==
  /\ up
  /\ Mode = "debugdump"
  /\ Gone
  /\ UNCHANGED <<fs, ack, leftover, died>>

Next ==
  \/ Modify
  \/ \E line \in Lines : StartProcess(line)
  \/ Exit \/ Usage \/ Kill \/ DebugTask \/ DebugDump
  \/ \E w \in Worker : StartWorker(w)
  \/ \E w \in Worker : SkipWorker(w)
  \/ \E w \in Worker : FinishWorker(w)
  \/ \E w \in Worker : AbortWorker(w)
  \/ \E w \in Worker : ListWorker(w)
  \/ \E w \in Worker : DumpWorker(w)

Spec == Init /\ [][Next]_vars
-----------------------------------------------------------------------------
(* What a program means: the records of every output, from the records of    *)
(* the input files, without files, names, options, acks or processes.  An    *)
(* output without flags is read by every partition of its destination from   *)
(* all of its partitions, as file_info_normal does; ac_schedule.h            *)
(* (145-148) has partition p read partition p only.                          *)

RECURSIVE Meaning(_, _, _)

\* The records that come to worker w by its input i.
Arriving(sc, w, i) ==
  LET link == sc.tasks[w[1]].inputs[i]
      n == sc.tasks[w[1]].num_partitions
      src == link.src[1]
      parts == 0 .. sc.tasks[src.task].num_partitions - 1
      from(p) == Meaning(sc, <<src.task, p>>, src.output)
      every == FoldLeft(LAMBDA acc, p : acc \o from(p - 1), <<>>,
                        [p \in 1 .. Cardinality(parts) |-> p])
      mine == {f \in DOMAIN InputFilesAt(version) :
                 f.extra # "hidden" /\ (link.name.stem = "*" => /\ HashOf(f) % n = w[2]
                                                               /\ IsPrefix(link.name.dir, f.dir))
                                    /\ (link.name.stem # "*" => f = link.name)}
      recs == CASE link.src = <<>> ->
                     FoldLeft(LAMBDA acc, f : acc \o InputFilesAt(version)[f], <<>>, SetToSeq(mine))
                [] link.file_info = "split" -> SelectSeq(every, LAMBDA r : r % n = w[2])
                [] link.file_info = "first" -> from(0)
                [] link.file_info = "partition" -> from(w[2])
                [] link.file_info = "normal" -> every
  IN  IF link.compare /\ link.reducer THEN KeepFirst(Ascending(recs))
      ELSE Ascending(Limited(recs, link.limit))

\* What the transforms up to the k-th make of it.
Transformed(sc, w, k) ==
  LET task == sc.tasks[w[1]]
      step[j \in 0 .. k] ==
        IF j = 0 THEN <<>>
        ELSE Callback(task.transforms[j].kind,
               Ascending(step[j - 1] \o
                 FoldLeft(LAMBDA acc, i : acc \o Arriving(sc, w, i), <<>>,
                          task.transforms[j].inputs)))
  IN  step[k]

Meaning(sc, w, o) ==
  LET task == sc.tasks[w[1]]
      k == CHOOSE j \in DOMAIN task.transforms : o \in Range(task.transforms[j].outputs)
      recs == IF task.runner = "count" THEN <<Len(Arriving(sc, w, 1))>> ELSE Transformed(sc, w, k)
  IN  IF task.outputs[o].ext.compare /\ task.outputs[o].ext.reducer
      THEN KeepFirst(Ascending(recs)) ELSE Ascending(recs)

\* What output o of w left on the disk, in all of its files.
Found(w, o) ==
  LET output == TaskOf(s, w).outputs[o]
  IN  FoldLeft(LAMBDA acc, n : acc \o Read(fs, n, output.options.format), <<>>,
               SetToSeq(OutputNames(_ac_worker_output_base(w, output, <<>>),
                                    OutputExt(s, output))))

\* The outputs that stay: those of the last transform.
Lasting(w) ==
  IF TaskOf(s, w).runner = "count" THEN {1}
  ELSE IF TaskOf(s, w).transforms = <<>> THEN {} ELSE Range(Last(TaskOf(s, w).transforms).outputs)

-----------------------------------------------------------------------------
(* Properties *)

\* When a process that was asked for everything has completed every worker, all outputs
\* hold what the program means for the present input files: whatever processes were
\* killed, asked for less or only looked before, whatever flags, formats and orders the
\* outputs have (ac_task_output, in_out_runner, ac_out_ext_init and the file names).
\* Files that an empty sorted output left as they were are the exception.  What a program
\* means is what the code makes of its flags: an output without flags is read in all
\* partitions, although ac_schedule.h:145-148 speaks of one to the same.  The outputs
\* that other tasks read stay, too: nothing removes them, against ac_schedule.h (see
\* IntermediateRemoved), and the next process reads them again.
OutputsExact ==
  up /\ Mode = "run" /\ Completed = Worker /\ at.select_all /\ leftover = {} =>
    \A w \in Worker : \A o \in Lasting(w) : Ascending(Found(w, o)) = Meaning(s, w, o)

\* "Once intermediate files are no longer required, they are removed unless
\* AC_OUTPUT_KEEP is defined." (ac_schedule.h:141; no program here defines it).  The code
\* removes none, so no run claims it.
IntermediateRemoved ==
  up /\ Mode = "run" /\ Completed = Worker =>
    \A w \in Worker : \A o \in Lasting(w) :
      TaskOf(s, w).outputs[o].destinations # <<>> =>
        \A n \in OutputNames(_ac_worker_output_base(w, TaskOf(s, w).outputs[o], <<>>),
                             OutputExt(s, TaskOf(s, w).outputs[o])) : ~Holds(fs, n)

\* No worker reads a file that another worker writes at the same time, and no two
\* workers write the same file: what ac_task_output derives from its flags, the
\* dependencies and the file names, fit together.
NoSharedFile ==
  \A v, w \in running : v # w =>
    WritesOf(s, v, <<>>) \cap (WritesOf(s, w, <<>>) \cup ReadsOf(s, w, fs)) = {}

\* A list, a dump, a debug run or the usage message changes no ack file and no file of
\* the tasks: the next process does what it would have done without it (write_ack,
\* _ac_worker_output_base).
LookingChangesNothing ==
  [][up /\ Mode # "run" =>
       /\ ack' = ack
       /\ \A n \in DOMAIN fs : n.dir[1] = "tasks" => Holds(fs', n) /\ fs'[n] = fs[n]]_vars

\* All processes that took custom arguments since the last --new-args took the same
\* ones, from the line or from the file: no two workers' outputs come from different
\* ones unnoticed (the custom_args file of parse_args).
SameArguments == Cardinality(used) <= 1
=============================================================================
