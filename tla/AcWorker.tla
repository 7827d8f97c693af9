------------------------------ MODULE AcWorker ------------------------------
(***************************************************************************)
(* One worker of a schedule s made by AcTaskSetup: the names of the files   *)
(* it reads and writes, ac_worker_in, ac_worker_out and ac_worker_read, and *)
(* in_out_runner, which takes the records through the task's transforms.    *)
(*                                                                          *)
(* A worker is a pair <<task, partition>>.  debug is <<>>, or the directory *)
(* of --debug.                                                              *)
(***************************************************************************)
EXTENDS AcTaskSetup

CONSTANT HashOf(_)   \* ac_lz4_hash64 of a file name

TaskOf(s, w) == s.tasks[w[1]]
WorkersOf(s) == UNION {{<<t, p>> : p \in 0 .. s.tasks[t].num_partitions - 1} : t \in DOMAIN s.tasks}

\* _ac_worker_output_base: in the directory of the worker, or in that of --debug.
_ac_worker_output_base(w, output, debug) ==
  [dir |-> IF debug # <<>> THEN debug ELSE <<"tasks", w[1], w[2]>>,
   stem |-> output.name.stem, ids |-> <<w[2]>>, extra |-> "", ext |-> output.name.ext]

\* Fault: the two numbers of the name are swapped.
InputNameSwapped(s, w, input, partition) ==
  LET src == input.src[1]
      ids == IF "split" \in s.tasks[src.task].outputs[src.output].flags
             THEN <<w[2], partition>> ELSE <<partition>>
  IN  [dir |-> <<"tasks", src.task, partition>>, stem |-> input.name.stem, ids |-> ids,
       extra |-> "", ext |-> input.name.ext]

ac_worker_input_name(s, w, input, partition) ==
  LET src == input.src[1]
      ids == IF "split" \in s.tasks[src.task].outputs[src.output].flags
             THEN <<partition, w[2]>> ELSE <<partition>>
  IN  [dir |-> <<"tasks", src.task, partition>>, stem |-> input.name.stem, ids |-> ids,
       extra |-> "", ext |-> input.name.ext]

-----------------------------------------------------------------------------
(* The directory of the input files *)

\* _ac_io_list: every file below the directory whose name, and whose directories'
\* names, do not begin with a dot.  readdir may have them in any order.
ac_io_list(fs, dir) ==
  SetToSeq({n \in DOMAIN fs : IsPrefix(dir, n.dir) /\ n.extra # "hidden"})

ac_io_select_file_info(files, partition, num_partitions) ==
  SelectSeq(files, LAMBDA n : HashOf(n) % num_partitions = partition)

\* The file_info callbacks: the names an input stands for.
InputFiles(s, w, input, fs) ==
  LET sources == 0 .. s.tasks[input.src[1].task].num_partitions - 1
      name(p) == ac_worker_input_name(s, w, input, p)
  IN  CASE input.file_info \in {"split", "normal"} ->
             [i \in 1 .. Cardinality(sources) |-> name(i - 1)]
        [] input.file_info = "first" -> <<name(0)>>
        [] input.file_info = "partition" -> <<name(w[2])>>
        [] input.file_info = "name" -> <<input.name>>
        [] input.file_info = "list" ->
             ac_io_select_file_info(ac_io_list(fs, input.name.dir), w[2],
                                    TaskOf(s, w).num_partitions)

\* clone_inputs_and_outputs with fill_inputs: every input with its files.
fill_inputs(s, w, fs) ==
  LET inputs == TaskOf(s, w).inputs
  IN  [i \in DOMAIN inputs |-> [link |-> inputs[i], files |-> InputFiles(s, w, inputs[i], fs)]]

\* The files a worker may read.
ReadsOf(s, w, fs) ==
  UNION {Range(fill_inputs(s, w, fs)[i].files) : i \in DOMAIN TaskOf(s, w).inputs}

-----------------------------------------------------------------------------
(* ac_worker_in.  Without files it is NULL, which reads like an empty input;  *)
(* a list of which nothing but empty files is left cannot be read (bad).      *)

Sizes(fs, files) == SelectSeq(files, LAMBDA n : Holds(fs, n) /\ fs[n].recs # <<>>)
Concat(fs, files, format) == FoldLeft(LAMBDA acc, n : acc \o Read(fs, n, format), <<>>, files)

Limited(recs, limit) ==
  IF limit = 0 \/ Len(recs) <= limit THEN recs ELSE SubSeq(recs, 1, limit)

ac_worker_in(fs, input) ==
  LET link == input.link
      all == Concat(fs, input.files, link.format)
      merged == IF link.reducer THEN KeepFirst(Ascending(all)) ELSE Ascending(all)
      several == Len(input.files) > 1
  IN  [in |-> Limited(IF several /\ link.compare THEN merged ELSE all, link.limit),
       bad |-> several /\ ~link.compare /\ Sizes(fs, input.files) = <<>>]

\* ac_worker_read: the number of records of the only file, and whether it is had at
\* all; the number of length-prefixed records is then divided by their format, zero.
ac_worker_read(fs, input) ==
  IF Len(input.files) # 1 THEN [num |-> 0, bad |-> FALSE]
  ELSE [num |-> Len(Read(fs, input.files[1], input.link.format)),
        bad |-> input.link.format = "prefix"]

\* ac_worker_out: <<>> if there is nothing to split by.
OutputExt(s, output) ==
  IF "split" \in output.flags
  THEN [output.ext EXCEPT !.num_partitions =
          IF output.destinations # <<>> THEN s.tasks[output.destinations[1]].num_partitions
          ELSE s.num_partitions]
  ELSE [output.ext EXCEPT !.partition = FALSE]

ac_worker_out(s, w, output, debug) ==
  IF "split" \in output.flags /\ ~output.ext.partition THEN <<>>
  ELSE <<ac_out_ext_init(_ac_worker_output_base(w, output, debug), output.options,
                         OutputExt(s, output))>>

\* The files that a worker makes: the files of the outputs of its transforms.
WritesOf(s, w, debug) ==
  LET task == TaskOf(s, w)
  IN  UNION {OutputNames(_ac_worker_output_base(w, task.outputs[o], debug),
                         OutputExt(s, task.outputs[o])) : o \in DOMAIN task.outputs}

-----------------------------------------------------------------------------
(* in_out_runner.  The callbacks of a transform: copy (none), odd (a runner   *)
(* that passes odd records on), first (a group runner that writes the first   *)
(* record of a group), io (an io_runner that copies every input) and sort (an *)
(* io_runner that copies what ac_in_transform makes of every input).          *)

\* Every output gets every record: the default, or the runner's callback.
CopyAll(outs, recs) == [i \in DOMAIN outs |-> WriteAll(outs[i], recs)]

Callback(kind, recs) ==
  CASE kind = "copy" -> recs
    [] kind = "odd" -> SelectSeq(recs, LAMBDA r : r % 2 = 1)
    [] kind = "first" -> KeepFirst(recs)
    [] kind = "io" -> recs
    [] kind = "sort" -> ac_in_transform(recs)[1]

\* ac_in_transform goes on to write to the NULL it gets for an empty input.
Bad(kind, recs) == kind = "sort" /\ ac_in_transform(recs) = <<>>

\* One input only, except for an io_runner.
Runs(kind, ins) == Len(ins) = 1 \/ kind \in {"io", "sort"}

\* The outputs of a transform once their records are written: the first one is read
\* back by the transform after this one, the others, or all of the last transform, are
\* destroyed.
CloseOutputs(fs, outs, all, now) ==
  LET kept == IF all THEN [in |-> <<>>, fs |-> fs] ELSE ac_out_in(fs, outs[1], now)
  IN  [fs |-> FoldLeft(LAMBDA acc, out : ac_out_destroy(acc, out, now), kept.fs,
                       IF all THEN outs ELSE Tail(outs)),
       in |-> kept.in, dead |-> FALSE]

\* A transform with its inputs and outputs open: given is what can be read.
TransformOpened(st, kind, opened, given, outs, last, now) ==
  IF \/ \E i \in DOMAIN opened : opened[i].bad
     \/ \E i \in DOMAIN outs : outs[i] = <<>>
     \/ \E i \in DOMAIN given : Bad(kind, given[i])
     \/ ~Runs(kind, given)
  THEN [st EXCEPT !.dead = TRUE]
  ELSE CloseOutputs(st.fs,
                    CopyAll([i \in DOMAIN outs |-> outs[i][1]],
                            FoldLeft(LAMBDA acc, x : acc \o Callback(kind, x), <<>>, given)),
                    last \/ outs = <<>>, now)

OpenInputs(fs, inputs, numbers) ==
  [i \in DOMAIN numbers |-> ac_worker_in(fs, inputs[numbers[i]])]

OpenOutputs(s, w, debug, numbers) ==
  [i \in DOMAIN numbers |-> ac_worker_out(s, w, TaskOf(s, w).outputs[numbers[i]], debug)]

\* st: the files, the input that the transform before this one left, and dead.
RunTransform(s, w, debug, now, last, st, tr) ==
  LET opened == OpenInputs(st.fs, fill_inputs(s, w, st.fs), tr.inputs)
  IN  IF st.dead THEN st
      ELSE TransformOpened(st, tr.kind, opened, st.in \o [i \in DOMAIN opened |-> opened[i].in],
                           OpenOutputs(s, w, debug, tr.outputs), last, now)

in_out_runner(s, w, fs, debug, now) ==
  LET transforms == TaskOf(s, w).transforms
  IN  FoldLeft(LAMBDA st, i : RunTransform(s, w, debug, now, i = Len(transforms), st,
                                           transforms[i]),
               [fs |-> fs, in |-> <<>>, dead |-> FALSE], [i \in DOMAIN transforms |-> i])

\* run_worker: inputs with an order are read through once, and must be in that order.
InputsInOrder(s, w, fs) ==
  \A input \in Range(fill_inputs(s, w, fs)) :
    input.link.compare => \A in \in {ac_worker_in(fs, input).in} : in = Ascending(in)

\* A runner of the program's own: it writes the number of records of its input.
CountRunner(s, w, fs, debug, now) ==
  LET task == TaskOf(s, w)
      read == ac_worker_read(fs, fill_inputs(s, w, fs)[1])
      out == ac_worker_out(s, w, task.outputs[1], debug)
  IN  IF read.bad \/ out = <<>> THEN [fs |-> fs, in |-> <<>>, dead |-> TRUE]
      ELSE [fs |-> ac_out_destroy(fs, WriteAll(out[1], <<read.num>>), now), in |-> <<>>,
            dead |-> FALSE]

run_worker(s, w, fs, debug, now) ==
  CASE ~InputsInOrder(s, w, fs) -> [fs |-> fs, in |-> <<>>, dead |-> TRUE]
    [] TaskOf(s, w).runner = "in_out" -> in_out_runner(s, w, fs, debug, now)
    [] TaskOf(s, w).runner = "count" -> CountRunner(s, w, fs, debug, now)
    [] OTHER -> [fs |-> fs, in |-> <<>>, dead |-> FALSE]

-----------------------------------------------------------------------------
(* --dump *)

\* match_filename: the name as it is, or its end; the names here are whole ones.
match_filename(a, b) == a = b

\* scan_output: the files of that list this worker knows how to show.
Shown(s, w, fs, files) ==
  LET task == TaskOf(s, w)
      inputs == fill_inputs(s, w, fs)
  IN  {f \in files :
         \/ \E i \in DOMAIN inputs : /\ inputs[i].link.dump
                                     /\ \E n \in Range(inputs[i].files) : match_filename(f, n)
         \/ \E o \in DOMAIN task.outputs :
              /\ task.outputs[o].dump
              /\ \E n \in OutputNames(_ac_worker_output_base(w, task.outputs[o], <<>>),
                                      OutputExt(s, task.outputs[o])) : match_filename(f, n)}

\* dump_file: the records of the file in the format of that input or output.
dump_file(s, w, fs, f) ==
  LET task == TaskOf(s, w)
      inputs == fill_inputs(s, w, fs)
      ins == {i \in DOMAIN inputs : inputs[i].link.dump /\ f \in Range(inputs[i].files)}
      outs == {o \in DOMAIN task.outputs : task.outputs[o].dump}
      format == IF ins # {} THEN inputs[CHOOSE i \in ins : \A j \in ins : i <= j].link.format
                ELSE task.outputs[CHOOSE o \in outs : f \in OutputNames(
                       _ac_worker_output_base(w, task.outputs[o], <<>>),
                       OutputExt(s, task.outputs[o]))].options.format
  IN  <<f, Read(fs, f, format)>>
=============================================================================
