----------------------------- MODULE MCPipeline -----------------------------
(***************************************************************************)
(* Programs and command lines for model-checking Pipeline.                  *)
(***************************************************************************)
EXTENDS Pipeline

Name(stem, ext) == [dir |-> <<>>, stem |-> stem, ids |-> <<>>, extra |-> "", ext |-> ext]
InFile(dir, stem, extra) == [dir |-> dir, stem |-> stem, ids |-> <<>>, extra |-> extra, ext |-> ""]

\* Two input files, one of them in a directory of its own, and one with a dot.
FileA == InFile(<<"in">>, "a", "")
FileB == InFile(<<"in", "sub">>, "b", "")
FileC == InFile(<<"in">>, ".c", "hidden")
InputDirectory == InFile(<<"in">>, "*", "")
SubDirectory == InFile(<<"in", "sub">>, "*", "")

\* In the second version no record of the first file is odd.
MCInputFilesAt(v) ==
  FileA :> (IF v = 1 THEN <<3, 2>> ELSE <<2, 4>>)
  @@ FileB :> (IF v = 1 THEN <<2, 1>> ELSE <<6, 1>>)
  @@ FileC :> <<5>>

MCHashOf(f) == IF f = FileA THEN 2 ELSE 3

Output(name, to, flags) == [op |-> "output", name |-> name, to |-> to, flags |-> flags]
Out(field, value) == [op |-> "out", field |-> field, value |-> value]
In(field, value) == [op |-> "in", field |-> field, value |-> value]
Input(name, info) == [op |-> "input_files", name |-> name, info |-> info]
Transform(ins, outs, kind) == [op |-> "transform", ins |-> ins, outs |-> outs, kind |-> kind]
Runner(kind) == [op |-> "runner", kind |-> kind]
After(names) == [op |-> "dependency", names |-> names]
TaskIn(name, partitioned, setup) == [name |-> name, partitioned |-> partitioned, setup |-> setup]

Words == Name("words", "lz4")
Counts == Name("counts", "")
All == Name("all", "gz")
Raw == Name("raw", "")
Middle == Name("middle", "lz4")
Result == Name("result", "")

\* Files of a directory, shared between the partitions, are split by record, sorted
\* after that without duplicates, and merged into one file.
Sorting == <<
  TaskIn("split", TRUE,
    <<Runner("in_out"), Input(InputDirectory, "list"), In("format", "text"), In("dump", TRUE),
      Output(Words, <<"merge">>, {"split"}), Out("partition", TRUE), Out("compare", TRUE),
      Out("reducer", TRUE), Out("format", "text"), Out("dump", TRUE), Out("threads", 2)>>),
  TaskIn("merge", TRUE,
    <<Runner("in_out"), Output(Counts, <<"all">>, {}), Out("compare", TRUE)>>),
  TaskIn("all", FALSE,
    <<Runner("in_out"), Output(All, <<>>, {}), Out("ack", TRUE), Out("safe", TRUE),
      Transform(<<Counts>>, <<All>>, "io")>>) >>

\* One file is split while it is sorted, goes through two transforms partition by
\* partition, passes a checkpoint, and is read again by a task that runs every time.
Chain == <<
  TaskIn("one", FALSE,
    <<Runner("in_out"), Input(FileA, "name"), In("format", "text"),
      Output(Raw, <<"two">>, {"split"}), Out("partition", TRUE), Out("compare", TRUE),
      Out("while", TRUE), Out("format", "text")>>),
  TaskIn("two", TRUE,
    <<Runner("in_out"), Output(Middle, <<>>, {}), Output(Result, <<"four">>, {"partition"}),
      Transform(<<Raw>>, <<Middle>>, "odd"), Transform(<<>>, <<Result>>, "first")>>),
  TaskIn("gate", FALSE, <<[op |-> "do_nothing"], After(<<"two">>)>>),
  TaskIn("four", TRUE,
    <<Runner("in_out"), After(<<"gate">>), [op |-> "run_everytime"],
      Output(Counts, <<>>, {})>>) >>

\* Sorted, then parted, with no file for one of the partitions; two inputs for one task,
\* one of them the first partition only.
Joining == <<
  TaskIn("left", TRUE,
    <<Runner("in_out"), Input(SubDirectory, "list"), In("format", "text"),
      Output(Raw, <<"join">>, {"split"}), Out("partition", TRUE), Out("compare", TRUE),
      Out("before", TRUE)>>),
  TaskIn("right", FALSE,
    <<Runner("in_out"), Input(FileB, "name"), In("format", "text"), In("limit", 1),
      Output(Words, <<"join">>, {"first"}), Out("format", "text")>>),
  TaskIn("join", FALSE,
    <<Runner("in_out"), Output(Result, <<"count">>, {}), Out("format", "text"),
      Transform(<<Raw, Words>>, <<Result>>, "sort")>>),
  TaskIn("count", FALSE, <<Runner("count"), Output(All, <<>>, {})>>) >>

\* Two destinations in one list; a destination that is set up before its source.
TwoDestinations == <<
  TaskIn("one", FALSE, <<Runner("in_out"), Input(FileA, "name"),
                         Output(Raw, <<"two", "three">>, {})>>),
  TaskIn("two", FALSE, <<>>), TaskIn("three", FALSE, <<>>) >>
Backwards == <<
  TaskIn("two", FALSE, <<Runner("in_out"), Output(Result, <<>>, {})>>),
  TaskIn("one", FALSE, <<Runner("in_out"), Input(FileA, "name"), In("format", "text"),
                         Output(Raw, <<"two">>, {})>>) >>

MCPrograms == <<Sorting, Chain, Joining, TwoDestinations, Backwards>>

WordsFile == [dir |-> <<"tasks", "split", 0>>, stem |-> "words", ids |-> <<0, 1>>, extra |-> "",
              ext |-> "lz4"]

Ask(task, parts) == <<"task", task, parts>>
First == <<<<0, 0>>>>
MCLines == {
  <<>>,
  <<<<"-f">>, <<"-c">>, <<"number", 1>>>>,
  <<<<"-o">>, <<"-t">>, Ask("split", <<>>), Ask("one", <<>>), Ask("left", <<>>)>>,
  <<<<"-t">>, Ask("merge", First)>>,
  <<<<"-t">>, Ask("two", <<<<0, 1>>>>)>>,
  <<<<"-f">>, <<"-o">>, <<"-t">>, Ask("join", First)>>,
  <<<<"-t">>, Ask("all", <<<<0, 1>>>>)>>,
  <<<<"-s">>>>,
  <<<<"-l">>, <<"-t">>, Ask("merge", <<>>)>>,
  <<<<"-d">>, <<"file", WordsFile>>, <<"file", FileA>>>>,
  <<<<"-r">>>>,
  <<<<"--debug">>, Ask("merge", First), <<"path", <<"dbg">>>>>>,
  <<<<"--debug">>, Ask("all", <<<<1, 1>>>>), <<"path", <<"dbg">>>>>>,
  <<<<"--debug">>, Ask("split", First), <<"path", <<"dbg">>>>, <<"-d">>, <<"file", FileA>>>>,
  <<<<"custom", "x">>>>,
  <<<<"custom", "y">>>>,
  <<<<"--new-args">>, <<"custom", "y">>>> }
=============================================================================
