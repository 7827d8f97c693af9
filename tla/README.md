# A TLA+ verification of another-c-library

This directory holds TLA+ models of another-c-library: its scheduler, inputs and
outputs, server, threaded pipe, search index, JSON and memory, the TLC
configurations that model-check them, and proofs checked by TLAPS.  Source paths below are relative
to the repository (`src/src/...` here is the repository's own `src/...`).

    tlasany M.tla                        parse module M
    tlc -config X.cfg M                  model-check (module and cfg as listed below)
    tlapm M.tla                          check the proofs of module M (section 5)

## 1. Inventory

| Part | State it keeps | Operations | What is hard | What makes it correct |
|---|---|---|---|---|
| **Scheduler: task graph** (`ac-io/ac_schedule.c`) | tasks, partitions, dependency lists and their reverses, one state link per (task, partition) with `waiting_on_others` and `completed` | `ac_schedule_task`, `ac_task_dependency`, `ac_task_partial_dependency`, `ac_task_do_nothing`, `mark_task_complete`, `check_task` | mutual recursion through checkpoints; partial against full dependencies; partition numbers a dependency lacks | a worker is released exactly when its last dependency completes |
| **Scheduler: threads** | mutex, condition variable, `done`, lists `available`, `tasks_to_finish`, counters `num_available`, `num_tasks_to_run`, `num_running`, `num_selected` | `get_next_worker`/`take_worker`, `worker_complete`, `mark_as_done`, `ac_schedule_run` | lost wakeups, an unlock without a lock, threads that leave early, a failing runner | every worker runs once, after its dependencies; the run ends with all complete |
| **Scheduler: ack files** | modification times of ack, input and output files; `ack_time`, `completed` of the state links | `schedule_setup`, `worker_needs_to_run`, `write_ack`, `-f`, `-o` | a process killed between any two steps; whole-second times; times passed on through checkpoints | after a complete process every output is made from present inputs, and nothing runs needlessly |
| **Scheduler: setup, command line, transforms** | argument vectors, selections, input and output descriptions | `ac_schedule_init`, `parse_args`, `ac_task_input/output/transform`, `in_out_runner`, list, dump, debug | file names, flags and dependencies that must fit together; processes that only look | the outputs are what the program means for the present inputs; looking changes nothing |
| **ac_out** | partitioned writers, sort buffers, temporary files | `ac_out_write_record`, `ac_out_destroy`, sort threads, double buffer, `safe_mode` | shared partition index, buffer swapped under its writer thread, crash before rename | nothing lost, each partition sorted once, only whole files appear |
| **ac_in** | heap of open inputs, look-ahead record, limits | `advance`, `advance_unique`, `advance_group`, `reset`, `limit`, reducers | merging of equal keys, end of one of several inputs | the merge is the sorted union |
| **files and formats** (`ac_out`, `ac_in_base`, `ac_io`, `ac_lz4`) | buffers, compressed blocks with checksums, the file and its safe name | `ac_out_write_record`, `ac_out_destroy`, `ac_in_advance` for prefix, fixed, delimited and CSV records, plain, gz and lz4 | records across buffers and blocks, a full disk, a crash, a damaged block | what was written is read back; part of a file is read as a prefix |
| **ac_threaded_pipe** (`ac-exp`) | a pipe, a non-blocking exchange of arguments in shared words, an update thread and worker threads | `open`, `write`, `read`, `update_task`, `do_task`, `close` | no mutex; close against blocked readers; full pipe | each object is handled once, with one set of arguments; close returns |
| **ac_object_pipe** | a pipe of pointers | `open`, `read`, `write`, `close` | short writes, close object lost | objects come out in order, once |
| **ac_cache** | hash of items with reference counts, waiters, an expiry list | `get`, `release`, `expire` | two mutexes in two orders | a sketch; the file does not compile |
| **ac_serve, ac_http_parser** (`ac-connect`) | connections, parser, request, free list; body assembly | libuv callbacks: connect, read, write done, close; llhttp callbacks | data during an answer, EOF against last write, pieces of any size | a request is answered once and freed once |
| **ac_client, ac_cgi** | strings | request builders, escaping | little | formatting |
| **ac_file_sync** (`ac-utils`) | data files, `local`, `checkpoint` files, next id | `open`, `append`, `checkpoint` | a crash between three files | ids unique, nothing acknowledged is lost |
| **search cursors** (`ac-search`) | heaps of cursors over posting lists | `advance`, `advance_to` for and, or, not, range | skipping ahead over duplicates and ends | equal to set operations |
| **search index** (`ac_s`, `ac_search_builder`) | terms, groups of ids, blocks in size classes; images of postings | insert, erase, find; build, open, walk | entries that move between blocks, boundaries of encodings | what was inserted is found, every block has one owner |
| **search tokens** (`ac_token`) | trees of tokens | parse, dictionaries, attributes | relinking for OR and NOT | the tree means what the query says |
| **search helpers** | string tables, top-n heap, number ranges | sequential | boundaries | - |
| **ac_json** | lists with an index beside them | parse, print, look up, append, insert, erase | texts cut off at any byte, an index left behind | round trip; every lookup agrees with the list |
| **ac_pool, ac_buffer, ac_allocator, ac_timer, ac_conv** (`ac-core`) | arenas with checkpoints, the allocator's list of live blocks, growing buffers | `alloc`, `checkpoint`, `clear`, `reset` | growth at a boundary, nesting of checkpoints | memory handed out is disjoint |
| **lz4, md5, xxhash, llhttp** | - | - | vendored or generated | not part of the project's own logic |
| **examples** | - | two programs that read a file | nothing | - |

How the parts meet: an application builds a graph with the scheduler and runs it;
the scheduler's threads call runners, which read with `ac_in` and write with
`ac_out`; the scheduler remembers what was done only in ack files; outputs of one
task are found by the next through `ac_task_output`.  `ac_serve` drives
`ac_http_parser` from the libuv loop.  Pools and buffers are used by all of them,
each from one thread.

## 2. Modules

| Module | What it is |
|---|---|
| `AcTasks` | the task graph: constants with `TasksAssumption`, and pure operators over the completed and the waiting workers |
| `TaskGraph` | the abstract specification of a schedule, without threads, lists or locks |
| `AcSchedule` | the threads; one action per step between two points where another thread may act |
| `MCAcSchedule` | graphs for TLC |
| `AcScheduleAck` | the schedule run again and again over ack files, with crashes |
| `MCAcScheduleAck` | graphs and command lines for TLC |
| `AcThreadedPipe` | a pipe of objects, its threads and the thread that replaces their arguments without a mutex |
| `MCAcThreadedPipe` | the ways to open the pipe, for TLC |
| `AcOutSorted` | the sorted output: two buffers, a thread, temporary files, groups, the output file and its ack |
| `MCAcOutSorted` | records and options for TLC |
| `AcIn` | the cursors over lists of files and over merges of sorted files, as `ac_worker_in` makes them |
| `MCAcIn` | files and clients for TLC |
| `AcHttpParser` | the callbacks that put a request together from reads, as operators |
| `AcServe` | a thread of the server over `AcHttpParser`: libuv callbacks, structures and their free list, an application, clients |
| `MCAcServe` | requests and clients for TLC |
| `AcTaskSetup` | the functions a program describes its tasks with, up to the end of `schedule_setup`, and `parse_args` |
| `AcOutExt` | `ac_out_ext_init` and what its outputs leave on the disk: plain, sorted, partitioned |
| `AcWorker` | the files and records of one worker: `ac_worker_in`, `ac_worker_out`, `in_out_runner` |
| `Pipeline`, `MCPipeline` | programs over all of these, one process after another; programs and command lines for TLC |
| `AcInBase` | the frames, blocks and checksums of lz4 files; reading through a buffer, over a file, memory or decompressed blocks; one input file in every format |
| `AcOutFormat` | one output file in every format |
| `Stream`, `MCStream` | a file from its writer to a reader |
| `AcToken` | the parser of queries |
| `AcCursor` | postings, the bytes of a search image, the walk over them; bit sets; and, or, not, range, phrase and id cursors |
| `AcS` | the index in memory |
| `Search`, `MCSearch` | documents, queries and walks over the three modules before it |
| `AcJson`, `MCJson` | values, parser, writer, indexes, and a client of them |
| `AcPool` | the memory check with its thread, pools and the functions on texts; buffers |
| `Memory`, `MCMemory` | a client of `AcPool` |
| `AcTasksLemmas` | lemmas about the task graph |
| `AcScheduleProofs`, `AcScheduleAckProofs`, `AcThreadedPipeProofs`, `AcOutSortedProofs`, `AcInProofs`, `AcHttpParserProofs`, `AcServeProofs` | theorems about the modules they are named after |

Definitions with the comment *Fault:* are deliberate mistakes, one
per property of a run, each the plausible bug that the property is there to catch.  No
specification uses them.  Properties whose names end in `Inv` are conjunctions of
named parts, each with a comment of its own.

`Pipeline` composes `AcTasks` (through `INSTANCE`), `AcTaskSetup`, `AcOutExt`
and `AcWorker`; `Stream` stacks `AcInBase` and `AcOutFormat`; `Search` and `Memory` put
their parts under one client.  `Search`, `AcJson` and `Memory` use RECURSIVE operators
and are for TLC only.

### AcTasks and the code

A worker is a pair `<<task, partition>>`, standing for one
`ac_task_state_link_t`.  `IsTaskComplete`, `IsWorkerComplete` and
`IsDependenciesComplete` are the functions of those names.  The mutual recursion
of `mark_task_complete` and `check_task` is given as a least fixed point: `Cascade`
is the set of checkpoints that complete together with a worker, `Released` the set
of workers moved to the available lists.  That is exact because every test of the
recursion is monotone in the completed set; a link is checked again whenever one of
its dependencies completes.  `Checks` says which links a completion looks at: all
reverse links of a task whose last partition completed, and otherwise the
reverse partial links in the same partition.  `SetupCompleted`,
`SetupWaiting` and `SetupAvailable` are the lists that `schedule_setup` leaves to
the threads.

### AcSchedule and the code

| Code | Actions |
|---|---|
| `get_next_worker`, test of `done` under the lock | `NextFinished`, `NextSearch` |
| the `while` around `pthread_cond_wait` | `TestLoop`, `CondWait`, `Wakeup`, `SpuriousWakeup` |
| `take_worker`, `unlink_state`, the share of the ram | `FindWorker`, `UnlinkWorker`, `FindNothing` |
| `schedule_thread` around the runner | `RunWorker`, `FailWorker` |
| `worker_complete` | `LockComplete`, `MarkComplete`, `Signal` |
| `mark_as_done` | `StrayUnlock`, `SetDone`, `BroadcastDone`, `FinalUnlock` |
| the joins of `ac_schedule_run` | `AllJoined`, `Returned` |

`mark_as_done` begins with `pthread_mutex_unlock` where a lock is meant.  For the
default mutex of glibc an unlock by a thread that does not own the mutex frees it,
so `Unlock` never looks at the owner.  For the same reason the critical
sections are *not* single steps: the test of the loop, the sleep, reading the head
of a list and unlinking it, marking and signalling are separate actions, because
after a stray unlock two threads may be inside.  `UnlinkFrom` models what
`unlink_state` does to a link that is no longer on its list.

Abstractions:

- A list is the set of its workers and any member may be its head.  `take_worker`
  looks at the partitions in order, so a worker of the lowest partition is taken.
- The `size_t` counters are integers.  The code only tests them against zero, and a
  wrapped counter is non-zero and large where a negative one is non-zero too.  The
  one place where the value matters (`w->running`) clips it, in `ShareOf`.
- `mark_task_complete` is one step: it runs inside one critical section, and while
  two threads are inside there is no more work (`ExclusiveWhileWork`).
- A runner takes one step and may be delayed for ever long; it returns.  Whether
  it ran or was skipped makes no difference to the threads.
- `Selected` is the effect of `--task` on `num_selected`; the links of `Selected`
  are the ones `parse_args` marks.

### AcScheduleAck and the code

Here the threads and the lock are left out (any available worker may be taken,
the completion is one step) and time, files and restarts are added.  `now` is
`time(NULL)`.  `StartProcess` is `schedule_setup` with the ack files it reads and a
command line from `Requests`; `StartWorker`, `SkipWorker`, `FinishWorker`,
`WriteAck` and `MarkComplete` are the steps of `schedule_thread` and
`worker_complete` between which a process may be killed (`Crash`).  `NeedsToRun` is
`worker_needs_to_run` line by line: never acknowledged, `run_everytime`, forced,
a dependency's time, an input's time, the time of another task's output.  `stale`
is the ghost that the properties speak of: the workers whose output is not made
from their present inputs.

Assumptions, each of which is a hazard listed in `PROJECT.json`:

- `MinimumGap = 1`: inputs change, and a process starts, at least a second after
  the last ack.  Times are whole seconds compared with `>`, and with
  `MinimumGap = 0` `UpToDate` fails.
- Inputs change between processes only.
- A process that forces workers (`-f`) is not killed (`MayCrash`).  A forced worker keeps its
  old ack file while it runs; killed in the middle it looks up to date to the
  next process.
- A worker with a partial dependency has no more partitions than the dependency.  For
  a partition the dependency lacks, `get_ack_time_for_task_and_partition` answers 0
  where `is_worker_complete` takes partition 0, and the worker is not made again.
- `-o`, and the mode in which nothing but the given tasks run, are both the set
  `only` of workers that may run.

### AcThreadedPipe and the code

`ac_threaded_pipe_write` writes a record to a non-blocking pipe and ignores the
result; each thread (`do_task`) compares eight words that it shares with
`update_task`, takes new arguments over when they are all there, reads a record and
calls back.  `update_task` stores the words, waits until every thread has taken
them over, destroys the old arguments and goes on.  Every load and every store of a
shared word that another thread could tell apart is a step of its own.

| Code | Actions |
|---|---|
| `ac_threaded_pipe_write`, `ac_threaded_pipe_close` | `Write`, `WriteClose`, `SetDone`, `JoinUpdate`, `JoinThreads` |
| `update_task`: sleep, `create_global_arg` | `UpdateSleep`, `UpdateNothing`, `CreateGlobal` |
| its stores, its wait, the end of it | `StoreWord`, `Scan`, `ScanAgain`, `ReplaceGlobal` |
| `do_task`: the comparison and the exchange | `Compare`, `Take`, `StoreOwn`, `ClearArg` |
| `read`, the callback, the Close object | `EnterRead`, `Read`, `ReadNothing`, `Call`, `CloseEnds` |

The words are plain memory, so the order of the stores is the compiler's.
`StoreOrders` has the order of the source, as an unoptimised build keeps it, and the
one GCC 12 makes of it at `-O3`, which leaves out the store of word 0 (it has that value
already) and moves others; the stores of `update_task` keep the source's order in both.  Loads and stores
are sequentially consistent: on the machines the library is built for (x86) a
thread's stores arrive in order and no load here depends on an own, earlier store.
`Scan` looks at all the words of a thread in one step: while `update_task` waits,
words 2 to 6 only ever turn to NULL.  Once the threads are joined nothing is shared
any more, so `JoinThreads` is one step.  `create_global_arg` may return an address
that was freed before.

`Fairness` runs the threads that are not blocked and lets the application close the
pipe in the end; nothing makes the parent process end.

### AcOutSorted and the code

A record of a file is the set of the application's records that it was reduced from,
and a file or a buffer is the set of its records; sorting keeps the set, so what is
left to go wrong is which records are where.  Each record carries the number of the
process that wrote it.  A buffer holds `capacity` records, and the records of `Large`
fit into none.

| Code | Actions |
|---|---|
| `write_sorted_record` | `Store`, `Overflow`, `Retry` |
| `write_sorted`, `write_one_record`, `wait_on_thread` | `WriteSorted`, `WriteOne`, `OneWritten`, `Joined` |
| `write_sorted_thread`, `get_next_tmp`, `check_for_merge` | `ThreadSort`, `ThreadName`, `ThreadWrite`, `ThreadMerge` |
| `_ac_out_sorted_in` | `NoneWritten`, `InFromBuffer`, `InFromFiles`, `LastBuffer`, `LastWritten`, `MergeFiles` |
| `ac_out_sorted_destroy`, `ac_out_destroy` | `OpenOutput`, `WriteOutput`, `RenameOutput`, `WriteAck`, `FreeBuffers` |
| `ac_out_ext_remove_tmp_files` | `RemoveFile`, `EndRemove` |

Without an extra thread `write_sorted_thread` is a plain call: the same `Thread` actions
run and the application waits for their end.  With one, `ac_out_destroy` reads the numbers
of files while the thread may still be at work: `num_written` in `NoneWritten`,
`num_group_written` in the step after it (`ac_out.c:1291`).  If both are zero, it writes
the buffer it fills, frees the other and goes on, and the thread goes on, too, in memory
that is no longer the output's (`freed`): `ThreadWrite` then writes what the memory still
holds or nothing of it, and a thread that has not begun to read it crashes, so that it has no
step.  `left` is a history of the records that a cursor of `ac_out_destroy` passed by in this
way, or in the files of a group behind a large record (`ac_out.c:1306`); the properties speak
of all other records.

Temporary files are removed a name at a time, up to the fourth name that is free, and a process may
be killed between two of them.  `Restart` is a kill and a new process that writes the same
records over the files that are there.  The ack file is always asked for, writes do not
fail, and `config.reduce` stands for the reducer and the intermediate one.  `{}` stands for
an empty file and for none alike; `exist` says which names are there.

### AcIn and the code

`h` is the structure of the cursor with the places of the cursors under it; a file is
the sequence of the keys of its records, and a record is its file and its place there.

| Code | Definitions |
|---|---|
| `in_heap_push`, `in_heap_pop` | `Push`, `Pop`, `Smaller`, `Sift`, `Way` |
| `advance_file_list`, `_ac_in_empty` | `AdvanceFileList`, `Empty` |
| `move_active_to_heap`, `ac_in_ext_advance`, `ac_in_ext_advance_unique` | `MoveFirst`, `MoveActiveToHeap`, `Activate`, `ExtAdvance`, `PopEqual`, `PushBack`, `ExtAdvanceUnique` |
| `ac_in_ext_advance_reduce`, `count_and_advance` | `Drop`, `Counted`, `OverLimit` |
| `ac_in_reset` and the call after it | `Reset`, `PostReset` |
| `ac_worker_in`, `ac_in_ext_add`, `ac_in_limit` | `WorkerIn`, `ExtAdd`, `ExtAddAll` |
| `ac_in_init_from_cb`, `advance_cb` | `FromCb`, `AdvanceCb` |
| `ac_in_records_init` and its `advance` functions | `RecordsInit`, `RecordsAdvance`, `RecordsGroup` |
| the calls of the client | `Advance`, `AdvanceUnique`, `GroupFirst`, `GroupMore`, `GroupEnd`, `StepBack` |

The loops of the heap are given in closed form: the item that moves is compared only
with items that have not moved, so its way is found first, as a least set of places
(`Way`), and each place on it gets the item of the next one (`Sift`).  One call is one step, except that a group is read record by
record and that each group the reducer drops is a step.  A client uses one of
`ac_in_advance`, `ac_in_advance_unique` and `ac_in_advance_group` throughout, stops at the
first NULL, and adds all files before it reads, as all callers in the repository do.
The reducer acts like `ac_io_keep_first` and drops the keys of `Dropped`.  The reducer of
a single cursor (`advance_reduced`) is not modelled.

`IsConfiguration` says which cursors and files are meant, for TLC and for the proofs
(`ConfigurationsAssumption`).  Files that are merged, and arrays read by key, are sorted;
where records of equal keys are joined (`unique`, `reduce`) merged files have each key
once, as `ac_in.h` takes for granted.  Lists have no file without records:
`advance_file_list` returns NULL for one (`ac_in.c:659`) and its reader stops there, which
is listed as a hazard; the same holds of the cursors a callback returns after its
first.  Over several files `ac_in_advance_unique` goes past `count_and_advance`, so
that a limit means nothing to it, and none is set.  Nothing bounds the number of files,
their lengths, keys or the limit.

### AcHttpParser, AcServe and the code

Data is a sequence of cells, each of one part of a request (URL, key, value, what
stands between, end of headers, body).  A buffer points into the read buffer or has a
copy in the pool, as in the code, and a read overwrites the read buffer from its start;
what a pointer into it sees later is what is there then.  `Data` is one call of
`llhttp_execute`: the callbacks are called span by span, so how a request is cut into
reads decides which of them point and which copy.  Of llhttp only the order of the parts
is kept, that an error stays, and that a body is counted.

A request (`Request`) has a URL, keys and values of any length from 1 and a body of any
length; a malformed one breaks off before the end of its head, which is where llhttp finds
an error.  `Cells` is what the client sends of it, and `PlansAssumption` says that clients
send such requests and nothing else.  `cut` notes how a request came: in one read, cut in its
body, or cut in its head.

| Code | Definitions |
|---|---|
| `on_url`, `on_header_key`, `on_header_value`, `on_headers_complete`, `on_body`, `on_message_complete` | the operators of those names |
| `set_buf`, `copy_buf`, `save_current_header`, `ac_http_parser_clear` | `SetBuf`, `CopyBuf`, `SaveCurrentHeader`, `Clear` |
| `on_accept` with `ac_serve_request_init` | `OnAccept`, `Candidates` |
| `on_alloc` and `on_read` | `OnRead`, `OnReadNothing`, `OnReadEof`, `OnReadReset`, `OnReadError` |
| `handle_request_error`, `close_connection` | `HandleRequestError`, `CloseConnection` |
| `after_write`, `after_last_write`, `on_shutdown`, `on_close`, `timer_cb` | `AfterWrite`, `AfterLastWrite`, `OnShutdown`, `OnClose`, `Timer` |
| `ac_serve_http_200`, the chunk functions | `Answer`, `WriteChunk`, `FinishChunks` |

Threads of a server share nothing but the socket, so one is modelled.  libuv is
external: one callback at a time, writes end in order, `uv_close` cancels them and calls
back for each, and a stream that is shutting down is not writable (libuv 1.44).  A
write that ends calls back before the next read, so a client that waits for its answer
is heard only after `after_last_write`.  Assumptions: clients wait (a second request before
the first answer is a hazard); the application sets `on_request_complete` and stops
working for a request when it is called; requests are not chunked.  Whether the
application answers inside `on_url` or later is its choice in every step.  All answers
count as lying in the pool, as `ac_serve_http_200` puts them.

### AcTaskSetup, AcOutExt, AcWorker, Pipeline and the code

A program is a sequence of tasks, each with the calls its setup callback makes
(`ac_task_runner`, `ac_task_input_files`, `ac_task_output` and the options after it,
`ac_task_transform`, `ac_task_dependency`, `ac_task_do_nothing`, `ac_task_run_everytime`);
`schedule_setup` folds them into the schedule `s`.  A file name is a record (directory,
stem, numbers, extension), and `ac_worker_output_name`, `ac_worker_input_name` and their
helpers are the operators of those names: that the writer and the reader mean the same
file is a consequence, and not an assumption.  A file holds its records and its format.

| Code | Definitions |
|---|---|
| `ac_schedule_task`, the `ac_task_...` functions, `ac_task_output` with its destinations | `ac_schedule_task`, `Destination` and the operators of `AcTaskSetup` |
| `parse_args`, `get_task_list`, the custom_args file | the last part of `AcTaskSetup`: one operator per option, `CustomArgs` |
| `ac_out_ext_init`, partitioned and sorted outputs, `ac_out_in`, `ac_out_destroy` | `AcOutExt` |
| `ac_worker_in`, `ac_worker_out`, `ac_worker_read`, `in_out_runner`, transforms | `AcWorker` |
| `ac_schedule_run` as run, list, dump, debug and help; `schedule_thread`; a kill | the actions of `Pipeline` |

A worker runs in one step here: `AcSchedule` has the threads, `AcOutSorted` the buffers,
`AcScheduleAck` the clock.  Where the code aborts or runs into a NULL pointer the process
ends (`dead`, `died`): two destinations in one list (`ac_pool_split2` stores through the
NULL it is given), a debugged partition the task does not have, a transform whose input
was set up later than itself, an output of a chained transform without records.
`OutputsExact` leaves out histories in which a sorted output without records left the
file of an earlier process in place (`leftover`).  What a program means (`Meaning`) follows
the flags as the code reads them: an output without flags is read in all partitions.  Nothing removes the files that tasks write for one another, so they stay and
the next process meets them.

### AcInBase, AcOutFormat, Stream and the code

Here the bytes matter and are modelled: records are sequences of small numbers; a
buffer has the code's offsets `pos`, `used` and `size`, a cursor the code's `current`.
`ac_in_base_read`, `_readz`, `_read_delimited` and their lz4 twins of `ac_in.c` are the
same code over two kinds of source, and one set of operators with `r.kind`.  The sizes
of the code (256 bytes, 32 000, 64 KB blocks) are constants, a few bytes in the runs, so
that records lie across every boundary.  External: the lz4 algorithm and zlib (a block is
told from its bytes, zlib holds bytes back until it is flushed), the disk.

`Write`, `Close`, the steps of `ac_out_destroy`, `Crash` and the reader's calls are the
actions; a reader opens the file at any moment, also the safe name.  `cut`, `beyond` and
`freed` mark the three places where the code goes wrong (section 4), and the two
properties say what they leave out.

### AcToken, AcCursor, AcS, Search and the code

The operators have the names of the functions.  A query is a sequence of lexemes; the
nodes of `ac_token_t` are records of a sequence and pointers are indexes into it, because
the relinking of `fix_ors` and `fix_nots` is what is hard.  An image is the bytes that
`ac_search_builder_destroy` writes for each term; `image_advance` and `image_advance_to`
read them.  A cursor is a record that contains the cursors below it.  In `AcS` a term has
groups, a group an inline entry or a block from a size class, and `bad` is set where the code goes
on with a wrong pointer: `update_group_with_data` (swapped arguments, `ac_s.c:852`),
`remove_group`, an inline entry that hides a second one.  Sorting of the postings is
external to the builder and uses the sorted output above.

`Search` inserts documents in order (and `MaxEdits` times out of order, or erases), builds the
image, parses a query, opens it on both and walks each with any sequence of `advance` and
`advance_to`, whatever the query, `advance_to` as the first call included.  A cursor is opened reset, so that its
first `advance` returns the first id; it is not reset in the middle of a walk.  `run.asked` has the id
each walk was asked for last, and `Meaning` is the set of ids by definition.  `Answer` says what a
call may return: the first id from the one asked for on, or 0 if there is none.  Some calls may
return more:

- the id of before, if an `advance_to` asks for no more than it, and in the first `advance` of a
  walk that began with an `advance_to` (`run.again`);
- a query with an OR, a wildcard or a filter may answer `advance_to` with an id below the
  one asked for, which must still be one it is about and above the last (`short`); for a filter
  one of a document with the word, as its positions were seen in part;
- on an image, an OR may return an undefined value (`Undefined`), after which nothing is said.

Left out altogether are an OR below a NOT (in the index a wildcard and a filter are ORs, too), and on
an image the cursor of a single id behind another cursor or with `advance_to` (section 4).

### AcJson and the code

A text is a sequence of bytes.  `ac_json_parse` is the state machine of labels and gotos,
one operator per label; the writer and the decoding of strings are operators, too.  An
object or array keeps its nodes in order, and beside them the sorted array, the tree or
the table that the code builds on demand and changes with every call.  Integers have
`Bits` bits.  The client at the end of the module parses every prefix of the texts of some
documents and then reads, indexes, appends, inserts, sets and erases.

### AcPool, Memory and the code

Memory is one record: the blocks of malloc, the list of the memory check with its
totals, pools (blocks with offsets, `curp`, checkpoints, children) and buffers (their
bytes).  A pool is listed before its dump function is written, which is a step of its
own, so that the dump thread may come between; `save_old_log` and its renames are the
thread's steps.  The functions that split, tokenise, and encode and decode CSV rows take
their memory from a pool and are the last part of `AcPool`.  A copy of an array of strings
is told by where its strings and its pointers lie in its memory, so that strings which
overwrite pointers, or the end, can be seen.  A byte that nobody wrote is `Unset`, a counter
that `ac_pool_pool_init` leaves as it finds it `Unknown`.  `Memory` has four kinds of client (pools, buffers, logs, texts), one chosen
at `Init`, to keep the products apart.

## 3. Runs

| Run | Module | States | What it shows |
|---|---|---|---|
| `schedule_flow` | `MCAcSchedule` | 9 565 | all safety of the threads and `IInv`; the run ends with everything complete; the threads implement `TaskGraph` |
| `schedule_fail` | `MCAcSchedule` | 1 290 | what survives a runner that returns false beside a worker selected with `--task`; threads leave for no other reason |
| `ack_processes` | `MCAcScheduleAck` | 3 590 268 | kills at any step, changed inputs, `-f`, `-o`, `run_everytime`: a full process leaves all up to date |
| `pipeline` | `MCPipeline` | 58 427 | programs with sorted, partitioned and chained tasks, seventeen command lines, three processes: outputs are exact, no two workers share a file, looking changes nothing, custom arguments stay the same |
| `pipe_update` | `MCAcThreadedPipe` | 479 332 | the exchange is never seen half and never too late; each object is handled once; close destroys everything |
| `out_sorted` | `MCAcOutSorted` | 737 625 | a sorted output has all records but those `ac_out_destroy` is known to pass by, its buffers are never touched under the thread before that, no file of its own stays, and in safe mode a kill at any step leaves a whole file or none |
| `stream` | `MCStream` | 2 184 363 | a whole file is read back exactly, part of one as a prefix, in every format and compression and with every relation of buffer sizes |
| `in_merge` | `MCAcIn` | 37 421 | merges, lists, callbacks and arrays return every record once and in order, groups are whole, limits are kept |
| `serve` | `MCAcServe` | 451 989 | each request is handed over once all of it was sent, and as it was sent (see `AsSent`); no answer loses its memory or its connection, structures are used again once, every connection ends |
| `search` | `MCSearch` | 126 720 | the index and the image hold what they were given; queries walked with any calls of `advance` and `advance_to` lose no id and keep the order |
| `json` | `MCJson` | 107 558 | texts and their prefixes are parsed right, what is written is read back, every lookup agrees with the list |
| `memory` | `MCMemory` | 195 056 | no two allocations meet, nothing leaks, buffers hold their text, logs back off by two, pieces join to the text |

Every run passes.  Four formulas beside the properties have the words of a header or a comment
that the code does not keep, and no run claims them: with one of them in place of the invariants of
its run TLC finds the counterexample in seconds to minutes.

| Formula | Run | What is said, and what the code does |
|---|---|---|
| `AllTmpMerged` | `out_sorted` | "all of the tmp files are merged at the end" (`ac_out.h:140`): `ac_out_destroy` does not wait for the thread (`ac_out.c:1291`) |
| `IntermediateRemoved` | `pipeline` | "once intermediate files are no longer required, they are removed unless AC_OUTPUT_KEEP is defined" (`ac_schedule.h:141`): they stay |
| `LogsAsSaid` | `memory` | logs of 60, 240 and 240*4 seconds (`ac_allocator.c:111`): the factor is two |
| `TokensAsSaid` | `memory` | a split at "any character in delim array" (`ac_pool.h:123`): at others, too (`ac_pool.c:283`) |

Bounds.  The flow graph has a root checkpoint, a task of two partitions, a
partial dependency, a checkpoint after both partitions, a partitioned checkpoint
after that and a task after both of its partitions: each of the branches of
`mark_task_complete` and `check_task`, and a chain of two checkpoints, occurs.  With
three threads one can sleep, one signal and one take; the interesting races need
two, the third shows that a broadcast with two sleepers is enough.  The run
`schedule_fail` uses two threads, because with three the
stray unlock comes while work is left and two threads may take the same worker, as
`OneThreadPerWorker` then shows; the repository says nothing that this
contradicts, so it is listed as a hazard.  `schedule_fail` does not check
deadlock: after a failure the run may hang (section 4).

The clock of `ack_processes` goes to 6: a first process (2-3), a change or a kill (3-4),
a second process (4-5) and a third (5-6).  The chain graph has a checkpoint, a worker
behind it, a worker that is run every time and reads another's output, and two
workers with outside inputs.  Deadlock is not checked: at the end of the clock
nobody need start the schedule again.

`pipe_update` opens the pipe in one of three ways, chosen at `Init` (`config`): without
updates and with room for all objects and Close; with updates of the global argument
alone and a pipe of one record, so that objects and Close may be lost; with updates
of both arguments.  Two threads are the fewest of which one can be ahead and one
behind; two global arguments, one live and one in the making, are all that can be
live at once, and let addresses be used again.  Deadlock is not checked: after the
close nothing runs, and with an update thread close may hang (see the hazards).

`out_sorted` has three small records, two of one key, and two that fit into no buffer.  In buffers of
one, two are handed to the thread, a group of two is complete with the second, and the third
record is left for the end.  In buffers of two, with the large records, any record may be the last one
while a group is open.  In buffers of three no file is needed.  The thread may be as late as
it likes, also after the output was written.  Two processes, the first
killed at any step, suffice for files of a dead one to be in the way of a live one, and for gaps
between their names: a group of one leaves a file per record.  Deadlock is not checked: after
the close nothing runs.

`in_merge` merges every choice of three sorted files of up to two records over three
keys: files end before, with and after each other, and keys are equal within and
across files.  Five files of at most one record make a heap of three levels, in
which an item passes two others.  Limits of two are below and above what the files
hold.  Lists have two files, arrays up to four records.  There is nothing to be fair about: one client calls.
Deadlock is not checked, since the client stops.

`serve` has a request with a URL of two cells, a header and a body of three, cut in
all 1 024 ways; two requests on one connection; a malformed one after a header, which
is answered; three clients, one of them malformed, over two structures; and a client that may
leave before the body of its request, with the next one on its structure or beside it.  Two
structures let one be used again while the other is in use.  Fairness is that libuv calls back:
for a client that has gone, for what is pending on a stream, and for the timer.  No
fairness is asked of clients or of the application.  Deadlock is not checked: clients
may stay away.

`pipeline`: three processes are one that makes everything, one that is killed or asked
for less or only looks, and one that must repair; the input files change once, between
processes, and in the second version one partition gets no record.  The programs use
each kind of output (split while, before and after sorting, first, partition, normal),
a checkpoint, a task run every time, chained and joined transforms, and two that the
code does not survive.  Deadlock is not checked: nobody need start another process.

`stream`: at most three records in buffers of 3 and 8 bytes and lz4 blocks of 4 to 12,
records from empty to longer than any buffer; the disk has room for 18 bytes or for
everything.  `search`: three ids in two groups (1, 2, 4097), words of which one is a
prefix of another, a text with more positions than a short length holds, values in each
of the four widths, queries with each operator and with two of them, walks of both kinds of calls.  `json`: documents with every kind of value, escapes and characters
of two to four bytes, cut at every byte, five changes.  `memory`: a pool whose first
block holds three words, so that it grows at once; six calls on pools, five on
buffers, sixteen dumps, texts of up to four characters, the empty one included, rows of up to three fields.  None of these is asked to go on,
so deadlock is not checked, and there is nothing to be fair about.

Fairness of the scheduler is weak fairness of each thread's `Step`.  The operating system runs
every thread that is not blocked, a step is finite, and runners are assumed to
return.  Weak fairness of a lock is enough: every thread locks finitely often, as
there are finitely many workers, so the mutex is free for good eventually.
Spurious wakeups have no fairness and are left out of the liveness runs;
`schedule_fail` has them, and the proofs cover them.

## 4. Where the code does not keep its promises

Each of these was found with the models.  A property of a run that would fail for it
is stated, or its instance chosen, so that it leaves the case out, and says so; the case is
listed as a hazard, or in the note of one.  Where the code disagrees with a text of the
repository the line of the text is given, and section 3 has the formula that fails.

Scheduler

- `ac_schedule.c:1448`.  A runner returns false while the second thread is between the
  test of its loop and `pthread_cond_wait`.  `done` is set and broadcast without the
  mutex; the second thread falls asleep after that, and `ac_schedule_run` never returns
  (`<>AllJoined` fails in the graph of `schedule_fail`).
- `ac_schedule.c:2640`.  A checkpoint takes over the time of the dependency that completes
  *last*, not the latest time.  When that one was skipped, its old ack hides that the
  other was made again.  The checkpoints of `ack_processes` and `pipeline` have one worker before
  them; a chain of checkpoints is only in the graph of `schedule_flow`.
- `ac_schedule.c:1402`.  A worker forced with `-f` keeps its old ack file while it runs.  Killed
  in the middle, it looks up to date to the next process, and its output may be part of one.
  No forced process is killed in `ack_processes` (`MayCrash`).
- `ac_schedule.c:1414`.  Times are whole seconds and compared with `>`.  What changes in the second of the
  last ack, or while a process runs, is not seen: `ack_processes` starts processes and changes inputs at
  least a second later (`MinimumGap = 1`), and between processes only.
- `ac_schedule.c:1371`: for a partition that a partial dependency lacks its ack time is taken to be 0, where
  `is_worker_complete` takes partition 0, so that a worker is not made again.
- `ac_schedule.c:2249`.  The file of custom arguments ends with a newline and is split at
  newlines, which gives one more, empty argument: the same arguments again, or none, only show
  the usage until `--new-args`.
- `ac_pool.c:660` stores `*num_splits`; `ac_schedule.c:717` and `2584` pass NULL, so that
  a list with a vertical bar, which `ac_schedule.h:168` documents, crashes.
- `ac_schedule.c:2370`: a task named twice in `--task` is counted twice.
- `ac_out.c:1487`: a sorted output without records leaves the file of the last run there.
- `ac_schedule.c:892`.  Files that tasks write for one another are never removed, and
  `AC_OUTPUT_KEEP` is tested nowhere; `ac_schedule.h:141` says that they are removed without it (`IntermediateRemoved`).
- An output with `AC_OUTPUT_NORMAL` is read in all partitions, where `ac_schedule.h:145-148`
  speaks of partition to partition.

Pipe, files and inputs

- `ac_threaded_pipe.c:107`.  A thread that takes new arguments over leaves its old thread
  argument in word 1 and its new one in word 0; `update_task` waits until the two are
  equal.  Without thread arguments both are NULL and the wait ends
  (`GlobalExchangeEnds`); with them it never does, and close never returns.
- `ac_out.c:1291`.  `_ac_out_sorted_in` takes counters of zero to mean that everything is in
  the buffer.  They are also zero while the extra thread sorts the first full buffer: its records are
  missing from the output, and the memory it reads is freed (`AllTmpMerged`).
- `ac_out.c:1306`: an unfinished group is lost behind a record larger than the buffer.
- `ac_out.c:1438`: the loop that removes temporary files gives up at the fourth name that is
  free.  What a process killed in this loop leaves behind four free names stays for good, as
  `NoFilesLeft` says.
- `ac_out.c:767`: a file that could not be written whole is renamed and acknowledged.
- `ac_in.c:1063`: a record that begins before a bad lz4 block is joined with what stands
  behind it; `ac_in.c:1067`: one longer than the decompression buffer is lost;
  `ac_in.c:1037`: memory that was freed is not forgotten.
- `ac_in_base.c:249`: a CSV record with a quote at the end of the buffer is cut there.
- `ac_in.c:659`, `735`: a file or cursor without records ends a list for its reader.
- `ac_in.c:836`: `advance_reduced` steps back to a record the reducer overwrites.

Server

- `ac_http_parser.c:316`.  `ac_http_parser_clear` ("make the http parser reusable") clears
  everything but llhttp: after a connection that broke off in a request, the next one on
  the same structure has its first request refused or misread.  It may be handed over before
  all of it was read; then its rest clears the answer that is being written.  `AnswersLive`,
  `WholeHanded` and `HandedAsSent` are therefore about clients that find llhttp at a start (`fresh`).
- `ac_http_parser.c:84`: headers point into the read buffer and the next read begins at its
  start, so they are lost when they come in two reads, and also when only the body, or the
  rest of it, comes in a second one: `on_url` then sees the body's bytes under the names and values.
  Where a header was lost, `ac_http_parser.c:175` ends it with a zero that may
  fall into a body in the same buffer.  `AsSent` therefore asks for the URL always, for the body
  if the head came in one read, and for headers if everything did.  `ac_serve.c:389`: a second request before the first answer.

Search, JSON, memory

- `ac_s.c:852` and `remove_group`: an erasure or an insertion out of order may damage the
  index.
- `ac_s.c:1039`: `advance_to` of an OR moves its active cursors and not those in the heap, so that it
  may return an id below the one asked for.  An AND asks again; a NOT takes the answer for one that does not
  have the id; a filter sees only some of the positions.  `ac_cursor.c:153-172` has the same loop with two
  variables `p`: when no active cursor reaches the id, the outer one is returned as it was found.
- `ac_cursor.c:478`: the cursor of a single id answers every `advance_to` with 0, also for its own id.
- `ac_json.c:107`: null is written as nothing.  `ac_json.h:768`: a node appended behind an
  index is not found by it.
- `ac_buffer.c:40`: a buffer of size 0 that never grew is not destroyed but aborts.
  `ac_buffer.h:213`: `ac_buffer_setn` of no characters returns (147) before it writes the closing zero;
  `BufferExact` claims that zero after every other change.
- `ac_allocator.c:124`: the dump thread may call a dump function before it is there; nothing is
  said of what follows.  `ac_allocator.c:111`: logs are said to be 60, 240 and 240*4 seconds old, a factor of
  four between them; `save_old_log` has a factor of two (`LogsAsSaid`).
- `ac_pool.c:283`: delimiters are told apart by the low five bits of their codes and one bit more, so that other
  characters end tokens, too (`TokensAsSaid`).
- `ac_pool.c:204-222`: `count_bytes_in_array` never sets `*n`, so that the strings of `ac_pool_strdupa` begin at its
  first pointer and overwrite the pointers.  `ac_allocator.c:479`: `_ac_strdupan_d` counts `n` strings and
  copies all.  `ac_allocator.c:309-347`: `_ac_split_d` of the empty text counts no piece and writes two
  pointers.  `TextExact` says of each exactly when it stays in its memory.
- `ac_pool.c:61`: a pool of less than 96 bytes subtracts the sizes of its headers from its own, and
  the difference wraps around.  The pools of `memory` have at least 96.

## 5. Proofs

Eight modules hold theorems: `AcTasksLemmas` (lemmas about the task graph, used by two of
the others), `AcHttpParserProofs` (lemmas about what the parser makes of a read) and one module
of proofs for each of `AcSchedule`, `AcScheduleAck`, `AcThreadedPipe`, `AcOutSorted`, `AcIn`
and `AcServe`.  Each theorem holds for every value of
the constants that satisfies the `ASSUME` of its model, and, where one is named below,
under one more hypothesis.  TLC checked each inductive invariant on the instances of the
runs before it was proved; the runs keep what follows from it, and `IInv` of the scheduler.

| Module | Theorem | Statement | Hypothesis |
|---|---|---|---|
| `AcScheduleProofs` | `TypeCorrect` | `Spec => []TypeOK` | |
| | `RunningInvariant`, `RamIsShared` | `Spec => []RunningInv`, `[]RunningCounted` | |
| | `InductiveInvariant` | `Spec => []IInv` | `AllRun` |
| | `DependenciesComeFirst`, `NothingWaitsReady`, `WorkersRunOnce`, `MutualExclusionWhileWork`, `ThreadsStay` | the parts of `IInv` a reader asks for | `AllRun` |
| | `WakeupsArrive` | `Spec => []NoLostWakeup` | `AllRun` |
| | `FailingInvariant`, `FailingRuns` | `Spec => []FailIInv`, `[]FailInv` | `TwoThreads` |
| | `Refinement` | `Spec => ImplementsTaskGraph` | `AllRun \/ TwoThreads` |
| `AcScheduleAckProofs` | `AckInvariant`, `AcksInOrder` | `Spec => []AckIInv`, `[]AckInv` | |
| | `NothingNeedless` | `Spec => NoNeedlessRun` | |
| `AcThreadedPipeProofs` | `ExchangeInvariant` | `Spec => []IInv` | |
| | `ArgumentsSafe`, `EachHandledOnce` | `Spec => []ArgsInv`, `[]HandledOnce` | |
| `AcOutSortedProofs` | `SortedInvariant` | `Spec => []OutIInv` | |
| | `EverythingMerged`, `OutputsSound` | `Spec => []AllMerged`, `[]OutInv` | |
| `AcInProofs` | `ReadInvariant`, `EverythingReadInOrder` | `Spec => []ReadIInv`, `[]ReadInv` | |
| `AcServeProofs` | `StructuresOwned` | `Spec => []SlotsInv` | |
| | `AnswersStayLive`, `RequestsHandedAsSent` | `Spec => []AnswersLive`, `[]HandedAsSent` | |

Two theorems need a hypothesis, each for a case that section 4 or a hazard names:

- `AllRun`: no runner returns false and `--task` is not used.  Otherwise the stray unlock of
  `mark_as_done` comes while work is left.
- `TwoThreads`: the schedule has one or two threads; then failures and selections are
  allowed.  With three, two threads may take the same worker (`ac_schedule.c:1447`).
The other theorems hold for whatever the constants of their model allow.  What the models
themselves assume of the code's surroundings is said in section 2.

Graphs with a cycle are not excluded: the safety theorems hold for them too (the run
then merely never ends).

### The threads of the scheduler

`IInv` is `TypeOK /\ ListInv /\ ThreadInv`.  `ListInv` says that the
lists are disjoint, the counters count them, and the waiting list is exactly the
set of workers with an incomplete dependency; it is preserved by the two steps that
touch the lists, and the hard case is `MarkComplete`, for which `AcTasksLemmas`
shows that `Cascade` is the least closed set (`CascadeIsClosed`, `CascadeIsReady`),
that everything released is ready (`ReleasedAreReady`), and that whatever becomes
ready was checked (`LastDependencyChecks`, `NothingMissed`).  `ThreadInv` has the
mutual exclusion.  Since a thread that leaves unlocks a mutex it does not hold,
"a critical thread owns the mutex" is not an invariant.  What is inductive is: a
thread leaves, and `done` is set, only when both lists are empty
(`LeaveWhenDrained`, `DecisionsHold`); empty lists stay empty, because only a
worker on the waiting list can be released; so every stray unlock comes after the
lists are drained for good, and before that a critical thread owns the mutex
(`ExclusiveWhileWork`).  After it two threads may be in a critical section, but
there is nothing left for them to take.  `DecisionsHold` carries what a thread has
read from one of its steps to the next.

`WakeupsArrive` adds to `IInv` that a thread about to sleep has seen an empty list under
the mutex: the list leaves zero only in `MarkComplete`, whose thread then has the broadcast
before it.

With failures and selections `LeaveWhenDrained` is false.  Of two threads, however, the
one that leaves is never critical again, so the other is alone whoever owns the
mutex (`OthersKeepOut`), the worker it found is still on its list
(`TakesWhatItFound`), and `done` and every departure has one of three reasons
(`DoneForReason`, `LeaveForReason`), none of which goes away (`ReasonsStay`).

`RunningInv` needs none of this: `num_running` is changed once per search by each thread,
whichever others are inside, and lies between the threads that certainly count and those
that may.

`Refinement` maps `running` of `TaskGraph` to the workers on no list (`Taken`).
`UnlinkWorker` is `Start`, `MarkComplete` is `Finish`, every other step a stutter.

### Ack files and restarts

`AckIInv` has four parts beside the types: where each worker is (`LinksInv`), that no time is
ahead of the clock and each worker has the time that was loaded until its own ack
is written (`TimesInv`), that what is not stale was acknowledged after all it read
(`CurrentInv`), and that the times `mark_task_complete` passes on are those of workers
(`PassedInv`).  The hard lemmas are about `Upstream`, the least set that contains what a
worker reads directly or through checkpoints: it is closed (`UpstreamClosed`), complete when
the worker's dependencies are (`UpstreamComplete`), and contains what a cascade
completes (`CascadeUpstream`).  `NothingNeedless` follows: a worker for which
`worker_needs_to_run` finds a newer time would contradict `CurrentInv`, unless it is stale.

`UpToDate` needs the converse, that everything stale is seen.  It is model-checked, and not
listed as a theorem: the code takes schedules in which it fails (section 4).  The module has the lemmas
`CausesInvariant` and `ProcessBringsUpToDate` for those in which it holds, `KeepsTrack`: `MinimumGap` is at
least 1, processes that force a worker are not killed, a checkpoint has at most one worker directly before
it, and a partial dependency has the partition that asks for it.  `CausesInv` says that each stale
worker has a cause to run on the disk, where a stale worker upstream is a cause, too;
`FreshInv` that whatever this process did is newer than all it loaded, and that a checkpoint has
the time of the worker before it.  Hence a worker upstream that ran is newer than the ack of
the one downstream when that one is asked (`TimesReach`, `CauseRuns`), and when all are
complete nothing stale can be left.

### The exchange of arguments

Each of the eight words of a thread is a function of how far `update_task` has come with its
stores and its scan (`Stored`, `Scanned`) and how far the thread has come with its own
(`Cleared`); `WordsInv` says which.  The order of a thread's own stores is
only used through `OrderLemma`: words 2 to 6 are all stored, and word 6 last.  From the
words follow that a thread takes over only when all is stored (`ProgressInv`), that a scan
which found nothing pending has seen every thread with the new arguments (`NotPending`,
`ScanInv`), and so that exactly the arguments in use are live (`LiveInv`).  `DeliveryInv` is
separate: an entered object is in one place, and Close is the last object of the pipe.

### The sorted output

`PlacesInv` says that each record written so far is in one place: a buffer, the thread's
hands, a named temporary file, a named group, or the application's hands.  Most steps move the
content of some places to one other; the lemma `Moved` is stated once for such moves
and cited with the places of the step.  Which places are empty when (a buffer that is handed
over, files behind the counters) is in `ThreadInv`, `PhaseInv` and `GroupInv`, and `CountInv` bounds
the names of files by the number of records, so that names do not run out.

What a cursor of `ac_out_destroy` passes by is what lies in the places it does not look at.  That
this is nothing without an extra thread, and without large records in groups, is shown for the two
ways to make one (`InFromBufferSorted`, `MergeFilesSorted`, with what they share in `CursorMade`): `HoldInv` says that a thread at work holds records in its buffer, in hand or in a
file, and `PhaseInv` that the application reads the counters only with records in its own buffer
or a thread that has ended.  From then on `OutputInv` has what is on its way to the
output.  A thread that was passed by goes on beside it and may write any file while the output is
written and files are removed; the lemma `LateThread` takes its steps through all of the invariant.

Files of a killed process lie behind the counters and count as nothing.  That those of this
process are all removed rests on `FilesInv`: their names have no gap, in front of the loop or under
it, so that it never meets four free names before the last of them; and a file of a
killed process is left only where it met four.

### Merging

`ReadIInv` ties the ghosts to the cursor.  `Placed` (for a merge, `Merging`) says that each file
is in the heap or among the active ones until its last record was read, and that no item
of the heap has a key below its parent's; `CursorInv` that what was
returned is exactly what lies before the cursors (`ReadBy`); `CountInv` that `record_num` counts
the groups given out and that a cursor without `advance` was either stopped by the limit or
has read everything; `KeysInv` and `GroupInv` that nothing unread has a lesser key,
and, where a key is read at once, an equal one.  `ReadInv` alone is not inductive:
"in order" needs the heap, and "everything was read" needs to know where each file is.

The loops are inductions over data, and the library's induction theorems cannot be
used.  Two facts stand in for them, both proved from the theorem that strict inclusion
is well-founded on the subsets of a finite set: a predicate over a set that holds
somewhere below `n` has a least place where it holds, and a property that passes from
each set to one with another element holds of a finite set.  With these `WayLemma` describes
the way an item takes, from any place to the first where it stops; `PushHeap` and
`PopHeap` follow, that the items of a heap are only rearranged and that it stays one, and
`ExtAdvanceLemma` and `ExtAdvanceUniqueLemma`, which say what one round of `ac_in_ext_advance` and
of `ac_in_ext_advance_unique` takes out of a merge: the least key, and all records that have it.
Each call is then a step on the whole invariant (`OutcomeLemma` for the round that is common
to most, `CallStep`, `DropStep`, and one step for each kind of client).

### The structures of the server

`SlotsInv` says of each structure that, once its connection is closed, nothing of it is left in
libuv or with the application, that the free list has it at most once and only then, and
that `active` counts the others.  The proof goes action by action over what each does to one
structure (`SlotReplaced`, `SlotChanged`), with `OnCloseKeeps` for the step that returns it.

`on_alloc` clears the request of a structure when its flag says that it was answered, and with it
the memory of whatever is still being written.  `AnswersInv` adds to `SlotsInv` what keeps this
from hurting (`AnswerOk`): while a connection is read, a request that is flagged has no write
under way; while the application answers, the client waits, so that nothing is read; and
after the last write of an answer the application has no more for it.  The one step that depends
on the parser is a read that hands a request over; there `WholeHanded` says that the
client has nothing left to send.  `AnswersKept` is the induction step, under `WholeHanded'`,
and the proof about the requests supplies that.

### The requests of the server

`HandedInv` adds to `AnswersInv` how far each request has come (`Underway`): with `p` cells of
it read, llhttp is in the body just if the head was read, with as many bytes to come as were not sent
(`ReadTo`), the parser has the first cells of the URL (`UrlRead`) and, when the head came in one read, as much of
the body as was sent (`BodyRead`); and what waits in `on_url` is the request, `AsSent`.

`DataHanded` is the one fact about the parser: from what `HandedInv` says after `p` cells, a read of the
next `n` ends in an error or in what it says after `p + n`.  Under it lie four layers.
The callbacks: what each changes and leaves alone (`OnUrlLemma` to `OnMessageCompleteLemma`).
The text: which part each cell of a request belongs to and where each header lies
(`HeadLayout`, `CellPart`, `HeaderLayout`); `RunExists` and `RunEnd` say that a span of the
lexer is a run of such cells, however the request is cut.  The spans: what one does to the URL,
headers and body collected so far (`HeadStep`, `EndStep`, `BodyStep`).  The walk: `GoodStep`
for one span, `WalkGood` for all spans of a read.  `HeadersHanded` shows that headers of which the key
and value point into one buffer hold what was sent, terminating zeros included: each zero
falls on the separator behind a key or value and on nothing that is read.

The folds over cells and headers are inductions over naturals; as for the merges,
`LeastNatural` and `SetInduction`, from the theorem that strict inclusion is
well-founded, stand in for induction.

### Only model-checked

- Liveness: `RunsAllTasks`, `GlobalExchangeEnds`, `CloseReturns`, `ConnectionsEnd`.
- `LookingChangesNothing` and the invariants of `Pipeline`, and all of `Stream`, `Search`, `AcJson` and
  `Memory`: they compute over bytes, names and records with RECURSIVE operators,
  which is out of the prover's reach.
- `UpToDate`, but for the lemmas named above.

## 6. Plan

Done: the scheduler (`AcTasks`, `AcSchedule`, `TaskGraph`, `AcScheduleAck`), its setup,
command line and workers (`Pipeline`), the threaded pipe, the server and its parser, sorted
output, files and formats, merging, search, JSON and memory; the proofs of section 5.

Left: the sort threads of a partitioned output (`ac_out.c:923`) step by step; clients of the
server that do not wait; the reducer of a single cursor.

Not modelled, and why:

- `ac_cache.c` does not compile; `ac_object_pipe.c` wraps the pipe that `AcThreadedPipe` has.
- `ac_file_sync.c`: the label and the first id of a file disagree between its functions,
  so that ids repeat with the second append; there is no promise to check it against.
- `ac_client.c`, `ac_cgi.c`, `ac_timer.c`, `ac_conv.c`, the small helpers of `ac-search`
  (string tables and maps, top-n, ranges, tree nodes): text or arithmetic without state
  that others depend on.
- Vendored or generated code (llhttp, lz4, xxhash, md5), of which the models keep what the
  library relies on; printing, usage texts and logging.
