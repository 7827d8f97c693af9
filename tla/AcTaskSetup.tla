----------------------------- MODULE AcTaskSetup -----------------------------
(***************************************************************************)
(* How a program describes its tasks to ac_schedule: ac_schedule_task, and  *)
(* the ac_task_... functions that the setup callback of a task calls, up to *)
(* the end of schedule_setup; and then parse_args, what a command line asks *)
(* of it.                                                                   *)
(*                                                                          *)
(* A program is a sequence of tasks, each with the calls of its setup       *)
(* callback.  s is the schedule: tasks is a function from the names of the  *)
(* tasks, order the list from h->head, dead says that the process has       *)
(* aborted or run into a NULL pointer.                                      *)
(***************************************************************************)
EXTENDS AcOutExt

ac_schedule_init(num_partitions) ==
  [tasks |-> <<>>, order |-> <<>>, num_partitions |-> num_partitions, dead |-> FALSE]

Abort(s) == [s EXCEPT !.dead = TRUE]

NewTask(num_partitions) ==
  [num_partitions |-> num_partitions, do_nothing |-> FALSE, everytime |-> FALSE,
   runner |-> "none", inputs |-> <<>>, outputs |-> <<>>, transforms |-> <<>>,
   current_input |-> {}, current_output |-> 0, dependencies |-> {}, partial |-> {}]

ac_schedule_task(s, name, partitioned) ==
  IF name \in DOMAIN s.tasks THEN s
  ELSE [s EXCEPT !.tasks = (name :> NewTask(IF partitioned THEN s.num_partitions ELSE 1)) @@ @,
                 !.order = Append(@, name)]

-----------------------------------------------------------------------------
(* Dependencies *)

\* A list with a vertical bar goes to ac_pool_split2 without a place for the number
\* of its parts, where that number is stored nevertheless.
_ac_task_dependency(s, t, names, partial) ==
  IF Len(names) > 1 THEN Abort(s)
  ELSE IF names[1] \notin DOMAIN s.tasks THEN s
  ELSE IF partial THEN [s EXCEPT !.tasks[t].partial = @ \cup {names[1]}]
  ELSE [s EXCEPT !.tasks[t].dependencies = @ \cup {names[1]}]

\* get_task_list: no name, one name, or a list that ends as above.
TaskListFound(s, names) == Len(names) <= 1 /\ \A i \in DOMAIN names : names[i] \in DOMAIN s.tasks

-----------------------------------------------------------------------------
(* Inputs and outputs *)

_ac_task_input(s, t, name, src, file_info) ==
  [s EXCEPT !.tasks[t].inputs = Append(@, [name |-> name, src |-> src, file_info |-> file_info,
                                           format |-> "prefix", compare |-> FALSE,
                                           reducer |-> FALSE, limit |-> 0, dump |-> FALSE])]

FileInfo(flags) ==
  CASE "split" \in flags -> "split"
    [] "first" \in flags -> "first"
    [] "partition" \in flags -> "partition"
    [] OTHER -> "normal"

\* Fault: the destination only waits for the partition of its own number.
DestinationPartial(s, t, d, name, flags) ==
  LET linked == _ac_task_dependency(s, d, <<t>>, TRUE)
      src == <<[task |-> t, output |-> Len(s.tasks[t].outputs)]>>
      given == _ac_task_input(linked, d, name, src, FileInfo(flags))
  IN  [given EXCEPT !.tasks[t].current_input = {<<d, Len(given.tasks[d].inputs)>>}]

\* The destination depends on the task and has one more input.
Destination(s, t, d, name, flags) ==
  LET linked == _ac_task_dependency(s, d, <<t>>, FileInfo(flags) = "partition")
      src == <<[task |-> t, output |-> Len(s.tasks[t].outputs)]>>
      given == _ac_task_input(linked, d, name, src, FileInfo(flags))
  IN  [given EXCEPT !.tasks[t].current_input = {<<d, Len(given.tasks[d].inputs)>>}]

ac_task_output(s, t, name, destinations, flags) ==
  LET output == [name |-> name, destinations |-> destinations, flags |-> flags,
                 options |-> ac_out_options_init, ext |-> ac_out_ext_options_init, dump |-> FALSE]
      made == [s EXCEPT !.tasks[t].outputs = Append(@, output),
                        !.tasks[t].current_output = Len(s.tasks[t].outputs) + 1,
                        !.tasks[t].current_input = {}]
  IN  IF ~TaskListFound(s, destinations) THEN Abort(s)
      ELSE IF destinations = <<>> THEN made
      ELSE Destination(made, t, destinations[1], name, flags)

ac_task_input_files(s, t, name, file_info) ==
  LET given == _ac_task_input(s, t, name, <<>>, file_info)
  IN  [given EXCEPT !.tasks[t].current_input = {<<t, Len(given.tasks[t].inputs)>>}]

-----------------------------------------------------------------------------
(* Options of the last ac_task_output or ac_task_input_files *)

SetInputs(s, t, field, value) ==
  LET cur == s.tasks[t].current_input
  IN  [s EXCEPT !.tasks =
         [d \in DOMAIN @ |->
            [@[d] EXCEPT !.inputs =
               [i \in DOMAIN @ |-> IF <<d, i>> \in cur THEN [@[i] EXCEPT ![field] = value]
                                   ELSE @[i]] \o <<>>]]]

\* ac_task_input_format, _dump, _compare, _keep_first, _reducer and _limit.
ac_task_input_option(s, t, field, value) == SetInputs(s, t, field, value)

\* ac_task_output_...: the order, the reducer and the format are those of the inputs
\* of the destinations, too; the callback for dumps is not.
ac_task_output_option(s, t, field, value) ==
  LET o == s.tasks[t].current_output
      set == IF field = "dump" THEN [s EXCEPT !.tasks[t].outputs[o].dump = value]
             ELSE IF field \in DOMAIN ac_out_options_init
             THEN [s EXCEPT !.tasks[t].outputs[o].options[field] = value]
             ELSE [s EXCEPT !.tasks[t].outputs[o].ext =
                     ac_out_ext_options(@, field, value)]
  IN  IF o = 0 THEN s
      ELSE IF field \in {"compare", "reducer", "format"}
      THEN ac_task_input_option(set, t, field, value) ELSE set

-----------------------------------------------------------------------------
(* Transforms *)

\* The first of that name: ac_task_find_input and ac_task_find_output.
Find(links, name) ==
  LET found == {i \in DOMAIN links : links[i].name = name}
  IN  IF found = {} THEN 0 ELSE CHOOSE i \in found : \A j \in found : i <= j

_ac_task_transform(s, t, ins, outs, kind) ==
  LET task == s.tasks[t]
      inputs == [i \in DOMAIN ins |-> Find(task.inputs, ins[i])]
      outputs == [i \in DOMAIN outs |-> Find(task.outputs, outs[i])]
  IN  IF 0 \in Range(inputs) \cup Range(outputs) THEN Abort(s)
      ELSE [s EXCEPT !.tasks[t].transforms =
              Append(@, [inputs |-> inputs, outputs |-> outputs, kind |-> kind])]

\* One call of a setup callback.
Call(s, t, c) ==
  CASE c.op = "dependency" -> _ac_task_dependency(s, t, c.names, FALSE)
    [] c.op = "partial_dependency" -> _ac_task_dependency(s, t, c.names, TRUE)
    [] c.op = "output" -> ac_task_output(s, t, c.name, c.to, c.flags)
    [] c.op = "input_files" -> ac_task_input_files(s, t, c.name, c.info)
    [] c.op = "out" -> ac_task_output_option(s, t, c.field, c.value)
    [] c.op = "in" -> ac_task_input_option(s, t, c.field, c.value)
    [] c.op = "transform" -> _ac_task_transform(s, t, c.ins, c.outs, c.kind)
    [] c.op = "runner" -> [s EXCEPT !.tasks[t].runner = c.kind]
    [] c.op = "do_nothing" -> [s EXCEPT !.tasks[t].do_nothing = TRUE]
    [] c.op = "run_everytime" -> [s EXCEPT !.tasks[t].everytime = TRUE]

-----------------------------------------------------------------------------
(* schedule_setup *)

Names(links) == [i \in DOMAIN links |-> links[i].name]

\* Without a transform the default runner copies all inputs a task has by now to all
\* of its outputs.
DefaultTransform(s, t) ==
  LET task == s.tasks[t]
  IN  IF task.runner = "in_out" /\ task.transforms = <<>>
      THEN _ac_task_transform(s, t, Names(task.inputs), Names(task.outputs), "copy") ELSE s

SetupTask(s, task) ==
  IF s.dead THEN s
  ELSE LET called == FoldLeft(LAMBDA acc, c : IF acc.dead THEN acc ELSE Call(acc, task.name, c),
                              s, task.setup)
       IN  IF called.dead THEN called ELSE DefaultTransform(called, task.name)

\* All tasks are added first; schedule_setup calls their setup callbacks in turn.
schedule_setup(program, num_partitions) ==
  LET added == FoldLeft(LAMBDA acc, task : ac_schedule_task(acc, task.name, task.partitioned),
                        ac_schedule_init(num_partitions), program)
  IN  FoldLeft(SetupTask, added, program)

-----------------------------------------------------------------------------
(***************************************************************************)
(* parse_args of ac_schedule.c: what a command line asks of a schedule s.   *)
(*                                                                          *)
(* An argument is a tuple whose first member is its kind: an option such as *)
(* <<"-f">>, a task with its partitions <<"task", name, parts>> (parts is a *)
(* sequence of ranges <<first, last>>, <<>> for all of them), a file        *)
(* <<"file", name>>, a number <<"number", n>>, or a custom argument         *)
(* <<"custom", value>>.  A range that ends before it begins, or beyond the  *)
(* partitions, is one that sscanf or the tests after it reject.             *)
(***************************************************************************)

Flags == {"-f", "-o", "-l", "-s", "-h", "-d", "-p", "-t", "-r", "-c", "--debug", "--new-args"}
IsFlag(arg) == arg[1] \in Flags

NoArgs ==
  [dump |-> FALSE, prefix |-> FALSE, list |-> FALSE, show_files |-> FALSE, help |-> FALSE,
   only |-> FALSE, force |-> FALSE, select_all |-> TRUE, cpus |-> 0, ram |-> 0,
   debug_task |-> <<>>, debug_path |-> <<>>, files |-> {}, selected |-> {}, num_selected |-> 0]

\* The state of the loop: what is left of the line and what was gathered.
Begin(line, callback) ==
  [rest |-> line, at |-> NoArgs, tasks |-> <<>>, debug |-> <<>>, custom |-> <<>>, read |-> TRUE,
   callback |-> callback]

Skip(st, n) == [st EXCEPT !.rest = SubSeq(@, n + 1, Len(@))]
Help(st) == [st EXCEPT !.at.help = TRUE]

\* Options that stand alone.
Switch(st, flag) ==
  CASE flag = "-f" -> [st EXCEPT !.at.force = TRUE]
    [] flag = "-o" -> [st EXCEPT !.at.only = TRUE]
    [] flag = "--new-args" -> [st EXCEPT !.read = FALSE]
    [] flag = "-l" -> [st EXCEPT !.at.list = TRUE, !.at.dump = FALSE, !.at.prefix = FALSE]
    [] flag = "-s" -> [st EXCEPT !.at.list = TRUE, !.at.show_files = TRUE, !.at.dump = FALSE,
                                 !.at.prefix = FALSE]
    [] flag = "-h" -> Help(st)

\* --debug takes two arguments or ends the line.
Debug(st) ==
  IF Len(st.rest) < 3 THEN [Help(st) EXCEPT !.rest = <<>>]
  ELSE Skip([st EXCEPT !.debug = st.rest[2], !.at.debug_path = st.rest[3][2]], 3)

\* The arguments up to the next option.
Operands(rest) ==
  LET stops == {i \in DOMAIN rest : IsFlag(rest[i])}
  IN  IF stops = {} THEN rest
      ELSE SubSeq(rest, 1, (CHOOSE i \in stops : \A j \in stops : i <= j) - 1)

Dump(st, flag) ==
  LET ops == Operands(Tail(st.rest))
      dumps == [st EXCEPT !.at.list = FALSE, !.at.show_files = FALSE, !.at.dump = TRUE,
                          !.at.prefix = @ \/ flag = "-p",
                          !.at.files = @ \cup {ops[i][2] : i \in DOMAIN ops}]
  IN  Skip(IF ops = <<>> THEN Help(dumps) ELSE dumps, 1 + Len(ops))

Task(st) ==
  LET ops == Operands(Tail(st.rest))
      named == [st EXCEPT !.tasks = @ \o ops]
  IN  Skip(IF ops = <<>> THEN Help(named) ELSE named, 1 + Len(ops))

Number(st, field) ==
  IF Len(st.rest) = 1 THEN Skip(Help(st), 1)
  ELSE Skip(IF st.rest[2][1] # "number" THEN Help(st)
            ELSE [st EXCEPT !.at[field] = st.rest[2][2]], 2)

\* The program's own callback, if it has one, takes one custom argument and refuses all
\* others.
Custom(st) ==
  IF ~st.callback \/ st.rest[1][1] # "custom" THEN [Help(st) EXCEPT !.rest = <<>>]
  ELSE Skip([st EXCEPT !.custom = Append(@, st.rest[1][2])], 1)

RECURSIVE Scan(_)
Scan(st) ==
  IF st.rest = <<>> THEN st
  ELSE LET flag == st.rest[1][1]
       IN  Scan(CASE flag \in {"-f", "-o", "--new-args", "-l", "-s", "-h"} -> Skip(Switch(st, flag), 1)
                  [] flag = "--debug" -> Debug(st)
                  [] flag \in {"-d", "-p"} -> Dump(st, flag)
                  [] flag = "-t" -> Task(st)
                  [] flag = "-r" -> Number(st, "ram")
                  [] flag = "-c" -> Number(st, "cpus")
                  [] OTHER -> Custom(st))

-----------------------------------------------------------------------------
(* The custom arguments are kept in a file of the task directory *)

\* Fault: the arguments of the line always win.
CustomArgsNew(st, kept) ==
  [st |-> st, kept |-> IF st.custom = <<>> THEN kept ELSE st.custom]

\* The arguments in the file, each with a newline behind it, are split at the newlines:
\* an empty one comes last.
OldArgs(kept) == IF kept = <<>> THEN <<>> ELSE Append(kept, "")

\* The file is only written if there was none, or if it was not read.  What it has
\* goes to the callback if the line has none, and must be what the line has otherwise.
CustomArgs(st, kept) ==
  LET old == IF st.read THEN OldArgs(kept) ELSE <<>>
      taken == \A i \in DOMAIN old : old[i] # ""
  IN  CASE old = <<>> -> [st |-> st, kept |-> IF st.custom = <<>> THEN kept ELSE st.custom]
        [] old # <<>> /\ st.custom = <<>> ->
             [st |-> IF taken THEN [st EXCEPT !.custom = old] ELSE Help(st), kept |-> kept]
        [] OTHER -> [st |-> IF st.custom = old THEN st ELSE Help(st), kept |-> kept]

-----------------------------------------------------------------------------
(* --task *)

InRange(s, name, range) == range[1] <= range[2] /\ range[2] < s.tasks[name].num_partitions

Valid(s, arg) ==
  /\ arg[1] = "task"
  /\ arg[2] \in DOMAIN s.tasks
  /\ \A i \in DOMAIN arg[3] : InRange(s, arg[2], arg[3][i])

PartsOf(s, arg) ==
  IF arg[3] = <<>> THEN 0 .. s.tasks[arg[2]].num_partitions - 1
  ELSE UNION {arg[3][i][1] .. arg[3][i][2] : i \in DOMAIN arg[3]}

\* The last mention of a task decides which partitions are selected, while those of
\* every mention are counted.
SelectTask(s, at, arg) ==
  [at EXCEPT !.selected = {w \in @ : w[1] # arg[2]} \cup {<<arg[2], p>> : p \in PartsOf(s, arg)},
             !.num_selected = @ + Cardinality(PartsOf(s, arg))]

Select(s, at, tasks) ==
  IF at.help \/ tasks = <<>> THEN at
  ELSE IF \E i \in DOMAIN tasks : ~Valid(s, tasks[i])
  THEN [at EXCEPT !.help = TRUE, !.select_all = FALSE]
  ELSE FoldLeft(LAMBDA acc, arg : SelectTask(s, acc, arg),
                [at EXCEPT !.select_all = FALSE], tasks)

\* One partition of one task.  A partition it does not have asks for help, too, which
\* ac_schedule_run does not look at before it has run debug_task.
SelectDebug(s, at, arg) ==
  IF at.help \/ arg = <<>> THEN at
  ELSE IF ~(arg[1] = "task" /\ arg[2] \in DOMAIN s.tasks /\ arg[3] # <<>>)
  THEN [at EXCEPT !.help = TRUE]
  ELSE [at EXCEPT !.debug_task = <<arg[2], arg[3][1][1]>>,
                  !.help = arg[3][1][1] >= s.tasks[arg[2]].num_partitions]

\* What is asked, the custom arguments in effect, and those in the file.  callback says
\* whether the program has a callback for custom arguments.
parse_args(s, line, kept, callback) ==
  LET st == Scan(Begin(line, callback))
      args == IF callback THEN CustomArgs(st, kept) ELSE [st |-> st, kept |-> kept]
  IN  [at |-> SelectDebug(s, Select(s, args.st.at, args.st.tasks), args.st.debug),
       custom |-> args.st.custom, kept |-> args.kept]
==============================================================================
