---------------------------- MODULE AcThreadedPipe ----------------------------
(***************************************************************************)
(* ac_threaded_pipe.c: an application writes objects to a pipe, threads     *)
(* read them and call back with their arguments, and an update thread       *)
(* replaces those arguments through eight shared words per thread, without  *)
(* a mutex.                                                                 *)
(*                                                                          *)
(* The words are plain memory, so that what another thread sees depends on  *)
(* the compiled order of the stores.  Everything here is one store or one   *)
(* load per step.  update_task stores the words in the order of the source; *)
(* do_task stores them in one of StoreOrders: as written (-O0), or as       *)
(* GCC 12 orders them (-O3).                                                *)
(*                                                                          *)
(* A record of the pipe is written and read whole: it is shorter than       *)
(* PIPE_BUF and the reads have its size.                                    *)
(***************************************************************************)
EXTENDS Integers, Sequences

CONSTANTS
  NumThreads,      \* h->num_threads
  Objects,         \* what an application may write, each once
  Globals,         \* what create_global_arg may return
  Configurations,  \* the ways in which the pipe is opened
  Null, Close      \* no argument; the object (void * )-1

\* thread_args: are there create_thread_arg and destroy_thread_arg?  updates: is
\* update_interval above 0?  objects: what this application writes.  capacity: how
\* many objects fit into the pipe.
Configuration ==
  [thread_args : BOOLEAN, updates : BOOLEAN, objects : SUBSET Objects, capacity : Nat \ {0}]

Thread == 1 .. NumThreads

\* What create_thread_arg returns is not what create_global_arg returns.
ASSUME PipeAssumption ==
  /\ NumThreads \in Nat \ {0}
  /\ Globals # {}
  /\ Globals \cap (Thread \X Globals) = {}
  /\ Configurations \subseteq Configuration
  /\ Null \notin Globals \cup (Thread \X Globals)
  /\ Close \notin Objects /\ Null \notin Objects

Args == Globals \cup ((Thread \X Globals) \cup {Null})

StoreOrders == {<<1, 0, 2, 3, 4, 5, 6>>, <<2, 3, 1, 4, 5, 6>>}

VARIABLES
  config,              \* what was set before ac_threaded_pipe_open
  \* the application
  app, todo, entered,  \* objects to write; objects that entered the pipe
  \* ac_threaded_pipe_s and the pipe
  done, orphan, pipe, read_open, write_open, gbl,
  \* the update thread
  upd, upd_thread, upd_word, found, new_gbl,
  \* the threads
  pc, word, thread_arg, global_arg, old_arg, next, object,
  order,    \* in which this build stores the words in do_task
  live,     \* arguments created and not destroyed
  handled   \* how often cb was called with an object

appVars == <<app, todo, entered>>
pipeVars == <<pipe, read_open, write_open>>
updVars == <<upd, upd_thread, upd_word, found, new_gbl>>
threadVars == <<pc, thread_arg, global_arg, old_arg, next, object>>
vars == <<appVars, pipeVars, updVars, threadVars,
          config, done, orphan, gbl, word, order, live, handled>>

\* What create_thread_arg(g) returns for thread t: a new argument.
ThreadArg(t, g) == IF config.thread_args THEN <<t, g>> ELSE Null

\* ac_threaded_pipe_open over a global argument g.
Open(g) ==
  /\ config \in Configurations
  /\ app = "open"
  /\ todo = config.objects
  /\ entered = {}
  /\ done = FALSE
  /\ orphan = FALSE
  /\ pipe = <<>>
  /\ read_open = TRUE
  /\ write_open = TRUE
  /\ gbl = g
  /\ upd = IF config.updates THEN "sleep" ELSE "gone"
  /\ upd_thread = 1
  /\ upd_word = 0
  /\ found = FALSE
  /\ new_gbl = Null
  /\ pc = [t \in Thread |-> "compare"]
  /\ word = [t \in Thread |-> [j \in 0 .. 7 |->
               CASE j < 2 -> ThreadArg(t, g) [] j = 7 -> g [] OTHER -> Null]]
  /\ thread_arg = [t \in Thread |-> ThreadArg(t, g)]
  /\ global_arg = [t \in Thread |-> g]
  /\ old_arg = [t \in Thread |-> Null]
  /\ next = [t \in Thread |-> 7]
  /\ object = [t \in Thread |-> Null]
  /\ order \in StoreOrders
  /\ live = {g} \cup ({ThreadArg(t, g) : t \in Thread} \ {Null})
  /\ handled = [o \in Objects |-> 0]

Init == \E g \in Globals : Open(g)

Goto(t, label) == pc' = [pc EXCEPT ![t] = label]

-----------------------------------------------------------------------------
(* The application: ac_threaded_pipe_write, then ac_threaded_pipe_close.    *)

\* write on the non-blocking end.  Its result is ignored.
WritePipe(o) ==
  pipe' = IF Len(pipe) < config.capacity THEN Append(pipe, o) ELSE pipe

Write(o) ==
  /\ app = "open"
  /\ write_open
  /\ WritePipe(o)
  /\ todo' = todo \ {o}
  /\ entered' = IF Len(pipe) < config.capacity THEN entered \cup {o} ELSE entered
  /\ UNCHANGED <<app, read_open, write_open, updVars, threadVars,
                 config, done, orphan, gbl, word, order, live, handled>>

WriteClose ==
  /\ app = "open"
  /\ write_open
  /\ WritePipe(Close)
  /\ app' = "set done"
  /\ UNCHANGED <<todo, entered, read_open, write_open, updVars, threadVars,
                 config, done, orphan, gbl, word, order, live, handled>>

SetDone ==
  /\ app = "set done"
  /\ done' = TRUE
  /\ app' = "join update"
  /\ UNCHANGED <<todo, entered, pipeVars, updVars, threadVars,
                 config, orphan, gbl, word, order, live, handled>>

JoinUpdate ==
  /\ app = "join update"
  /\ upd = "gone"
  /\ app' = "join threads"
  /\ UNCHANGED <<todo, entered, pipeVars, updVars, threadVars,
                 config, done, orphan, gbl, word, order, live, handled>>

\* Joins and destroys thread by thread, then destroys the global argument and
\* calls close_cb.  The threads share nothing with it any more.
JoinThreads ==
  /\ app = "join threads"
  /\ \A t \in Thread : pc[t] = "gone"
  /\ live' = live \ ({thread_arg[t] : t \in Thread} \cup {gbl})
  /\ app' = "closed"
  /\ UNCHANGED <<todo, entered, pipeVars, updVars, threadVars,
                 config, done, orphan, gbl, word, order, handled>>

App == (\E o \in todo : Write(o)) \/ WriteClose \/ SetDone \/ JoinUpdate \/ JoinThreads

\* The process that opened the pipe's process ends; getppid tells.
ParentEnds ==
  /\ ~orphan
  /\ orphan' = TRUE
  /\ UNCHANGED <<appVars, pipeVars, updVars, threadVars,
                 config, done, gbl, word, order, live, handled>>

-----------------------------------------------------------------------------
(* update_task *)

\* One of the tests around sleep(1).
UpdateSleep ==
  /\ upd = "sleep"
  /\ upd' = IF done \/ orphan THEN "gone" ELSE "create"
  /\ UNCHANGED <<appVars, pipeVars, upd_thread, upd_word, found, new_gbl, threadVars,
                 config, done, orphan, gbl, word, order, live, handled>>

\* create_global_arg has nothing new: it returns NULL or the same argument.
UpdateNothing ==
  /\ upd = "create"
  /\ upd' = "sleep"
  /\ UNCHANGED <<appVars, pipeVars, upd_thread, upd_word, found, new_gbl, threadVars,
                 config, done, orphan, gbl, word, order, live, handled>>

\* A new argument may have the address of one that was destroyed.
CreateGlobal(g) ==
  /\ upd = "create"
  /\ g \notin live
  /\ new_gbl' = g
  /\ live' = live \cup {g}
  /\ upd' = "store"
  /\ upd_thread' = 1
  /\ upd_word' = 0
  /\ UNCHANGED <<appVars, pipeVars, found, threadVars,
                 config, done, orphan, gbl, word, order, handled>>

NewWord(t, j) ==
  CASE j = 0 -> IF config.thread_args THEN ThreadArg(t, new_gbl) ELSE thread_arg[t]
    [] j = 1 -> Null
    [] OTHER -> new_gbl

StoreWord ==
  LET t == upd_thread
      j == upd_word
  IN  /\ upd = "store"
      /\ word' = [word EXCEPT ![t][j] = NewWord(t, j)]
      /\ live' = IF j = 0 THEN (live \cup {NewWord(t, j)}) \ {Null} ELSE live
      /\ upd_word' = (j + 1) % 8
      /\ upd_thread' = IF j < 7 THEN t ELSE (t % NumThreads) + 1
      /\ upd' = IF j = 7 /\ t = NumThreads THEN "scan" ELSE "store"
      /\ found' = FALSE
      /\ UNCHANGED <<appVars, pipeVars, new_gbl, threadVars,
                     config, done, orphan, gbl, order, handled>>

\* Has thread t not taken its new arguments over?
Pending(t) == (\E j \in 2 .. 6 : word[t][j] # Null) \/ word[t][0] # word[t][1]

\* Fault: the scan begins with the second thread.
ScanFromSecond ==
  LET t == upd_thread
      pending == t > 1 /\ Pending(t)
  IN  /\ upd = "scan"
      /\ word' = IF pending THEN word ELSE [word EXCEPT ![t][1] = Null]
      /\ live' = IF pending THEN live ELSE live \ {word[t][0]}
      /\ found' = (found \/ pending)
      /\ upd_thread' = (t % NumThreads) + 1
      /\ upd' = IF t = NumThreads THEN "scanned" ELSE "scan"
      /\ UNCHANGED <<appVars, pipeVars, upd_word, new_gbl, threadVars,
                     config, done, orphan, gbl, order, handled>>

\* A thread that is not pending has its argument destroyed.  While update_task
\* waits, words 2 to 6 only turn to NULL, so that the loads are one step.
Scan ==
  LET t == upd_thread
      pending == Pending(t)
  IN  /\ upd = "scan"
      /\ word' = IF pending THEN word ELSE [word EXCEPT ![t][1] = Null]
      /\ live' = IF pending THEN live ELSE live \ {word[t][0]}
      /\ found' = (found \/ pending)
      /\ upd_thread' = (t % NumThreads) + 1
      /\ upd' = IF t = NumThreads THEN "scanned" ELSE "scan"
      /\ UNCHANGED <<appVars, pipeVars, upd_word, new_gbl, threadVars,
                     config, done, orphan, gbl, order, handled>>

\* Neither done nor the parent is looked at while threads are pending.
ScanAgain ==
  /\ upd = "scanned"
  /\ found
  /\ found' = FALSE
  /\ upd' = "scan"
  /\ UNCHANGED <<appVars, pipeVars, upd_thread, upd_word, new_gbl, threadVars,
                 config, done, orphan, gbl, word, order, live, handled>>

ReplaceGlobal ==
  /\ upd = "scanned"
  /\ ~found
  /\ live' = live \ {gbl}
  /\ gbl' = new_gbl
  /\ new_gbl' = Null
  /\ upd' = "sleep"
  /\ UNCHANGED <<appVars, pipeVars, upd_thread, upd_word, found, threadVars,
                 config, done, orphan, word, order, handled>>

Update ==
  \/ UpdateSleep \/ UpdateNothing \/ (\E g \in Globals : CreateGlobal(g))
  \/ StoreWord \/ Scan \/ ScanAgain \/ ReplaceGlobal

-----------------------------------------------------------------------------
(* do_task *)

\* Loads word 7 and then words 2 to 6, and turns away at the first mismatch.
Compare(t) ==
  LET j == next[t]
      ok == IF j = 7 THEN word[t][7] # global_arg[t] ELSE word[t][j] = word[t][7]
  IN  /\ pc[t] = "compare"
      /\ Goto(t, IF ~ok THEN "clear" ELSE IF j = 6 THEN "take" ELSE "compare")
      /\ next' = [next EXCEPT ![t] = IF ok /\ j # 6 THEN IF j = 7 THEN 2 ELSE j + 1 ELSE 7]
      /\ UNCHANGED <<appVars, pipeVars, updVars, thread_arg, global_arg, old_arg, object,
                     config, done, orphan, gbl, word, order, live, handled>>

\* The thread's own copies; nobody else reads them before the next step.
Take(t) ==
  /\ pc[t] = "take"
  /\ old_arg' = [old_arg EXCEPT ![t] = thread_arg[t]]
  /\ thread_arg' = [thread_arg EXCEPT ![t] = word[t][0]]
  /\ global_arg' = [global_arg EXCEPT ![t] = word[t][2]]
  /\ next' = [next EXCEPT ![t] = 1]
  /\ Goto(t, "store")
  /\ UNCHANGED <<appVars, pipeVars, updVars, object,
                 config, done, orphan, gbl, word, order, live, handled>>

OwnWord(t, j) ==
  CASE j = 0 -> thread_arg[t] [] j = 1 -> old_arg[t] [] OTHER -> Null

\* Fault: word 6 keeps its value.
StoreOwnButSix(t) ==
  /\ pc[t] = "store"
  /\ word' = [word EXCEPT ![t][order[next[t]]] =
                IF order[next[t]] = 6 THEN @ ELSE OwnWord(t, order[next[t]])]
  /\ IF next[t] = Len(order)
     THEN Goto(t, "clear") /\ next' = [next EXCEPT ![t] = 7]
     ELSE UNCHANGED pc /\ next' = [next EXCEPT ![t] = next[t] + 1]
  /\ UNCHANGED <<appVars, pipeVars, updVars, thread_arg, global_arg, old_arg, object,
                 config, done, orphan, gbl, order, live, handled>>

StoreOwn(t) ==
  /\ pc[t] = "store"
  /\ word' = [word EXCEPT ![t][order[next[t]]] = OwnWord(t, order[next[t]])]
  /\ IF next[t] = Len(order)
     THEN Goto(t, "clear") /\ next' = [next EXCEPT ![t] = 7]
     ELSE UNCHANGED pc /\ next' = [next EXCEPT ![t] = next[t] + 1]
  /\ UNCHANGED <<appVars, pipeVars, updVars, thread_arg, global_arg, old_arg, object,
                 config, done, orphan, gbl, order, live, handled>>

ClearArg(t) ==
  /\ pc[t] = "clear"
  /\ Goto(t, "read")
  /\ UNCHANGED <<appVars, pipeVars, updVars, thread_arg, global_arg, old_arg, next, object,
                 config, done, orphan, gbl, word, order, live, handled>>

\* Fault: a thread leaves once done is set.
EnterReadUnlessDone(t) ==
  /\ pc[t] = "read"
  /\ Goto(t, IF read_open /\ ~done THEN "reading" ELSE "gone")
  /\ UNCHANGED <<appVars, pipeVars, updVars, thread_arg, global_arg, old_arg, next, object,
                 config, done, orphan, gbl, word, order, live, handled>>

\* read fails at once on the closed read end.
EnterRead(t) ==
  /\ pc[t] = "read"
  /\ Goto(t, IF read_open THEN "reading" ELSE "gone")
  /\ UNCHANGED <<appVars, pipeVars, updVars, thread_arg, global_arg, old_arg, next, object,
                 config, done, orphan, gbl, word, order, live, handled>>

Read(t) ==
  /\ pc[t] = "reading"
  /\ pipe # <<>>
  /\ pipe' = Tail(pipe)
  /\ object' = [object EXCEPT ![t] = Head(pipe)]
  /\ Goto(t, IF Head(pipe) = Close THEN "close" ELSE "call")
  /\ UNCHANGED <<appVars, read_open, write_open, updVars, thread_arg, global_arg, old_arg, next,
                 config, done, orphan, gbl, word, order, live, handled>>

\* A blocked read returns 0 when no write end is left.
ReadNothing(t) ==
  /\ pc[t] = "reading"
  /\ pipe = <<>>
  /\ ~write_open
  /\ Goto(t, "gone")
  /\ UNCHANGED <<appVars, pipeVars, updVars, thread_arg, global_arg, old_arg, next, object,
                 config, done, orphan, gbl, word, order, live, handled>>

Call(t) ==
  /\ pc[t] = "call"
  /\ handled' = [handled EXCEPT ![object[t]] = @ + 1]
  /\ object' = [object EXCEPT ![t] = Null]
  /\ Goto(t, "compare")
  /\ UNCHANGED <<appVars, pipeVars, updVars, thread_arg, global_arg, old_arg, next,
                 config, done, orphan, gbl, word, order, live>>

\* Fault: the write end stays open.
CloseReadEnd(t) ==
  /\ pc[t] = "close"
  /\ read_open' = FALSE
  /\ Goto(t, "gone")
  /\ UNCHANGED <<appVars, pipe, write_open, updVars, thread_arg, global_arg, old_arg, next, object,
                 config, done, orphan, gbl, word, order, live, handled>>

\* Closing the read end does not wake a thread that is blocked in read; closing
\* the write end, next, does.
CloseEnds(t) ==
  /\ pc[t] = "close"
  /\ read_open' = FALSE
  /\ write_open' = FALSE
  /\ Goto(t, "gone")
  /\ UNCHANGED <<appVars, pipe, updVars, thread_arg, global_arg, old_arg, next, object,
                 config, done, orphan, gbl, word, order, live, handled>>

Task(t) ==
  \/ Compare(t) \/ Take(t) \/ StoreOwn(t) \/ ClearArg(t)
  \/ EnterRead(t) \/ Read(t) \/ ReadNothing(t) \/ Call(t) \/ CloseEnds(t)

-----------------------------------------------------------------------------
Next == App \/ Update \/ ParentEnds \/ (\E t \in Thread : Task(t))

\* Threads that are not blocked run, and the application closes the pipe in the
\* end.  Nothing makes the parent process end.
Fairness == WF_vars(App) /\ WF_vars(Update) /\ \A t \in Thread : WF_vars(Task(t))

Spec == Init /\ [][Next]_vars /\ Fairness
-----------------------------------------------------------------------------
(* Properties *)

ApplicationTypes ==
  /\ config \in Configurations
  /\ app \in {"open", "set done", "join update", "join threads", "closed"}
  /\ todo \subseteq Objects /\ entered \subseteq Objects
  /\ done \in BOOLEAN /\ orphan \in BOOLEAN
  /\ pipe \in Seq(Objects \cup {Close}) /\ Len(pipe) <= config.capacity
  /\ read_open \in BOOLEAN /\ write_open \in BOOLEAN

Exchanging == upd \in {"store", "scan", "scanned"}

UpdateTypes ==
  /\ gbl \in Globals
  /\ upd \in {"sleep", "create", "store", "scan", "scanned", "gone"}
  /\ upd_thread \in Thread /\ upd_word \in 0 .. 7 /\ found \in BOOLEAN
  /\ new_gbl \in Globals \cup {Null} /\ (new_gbl = Null <=> ~Exchanging)
  /\ live \subseteq Args \ {Null}

ThreadTypes ==
  /\ pc \in [Thread -> {"compare", "take", "store", "clear", "read", "reading",
                       "call", "close", "gone"}]
  /\ thread_arg \in [Thread -> Args]
  /\ global_arg \in [Thread -> Globals]
  /\ old_arg \in [Thread -> Args]
  /\ next \in [Thread -> 1 .. 7]
  /\ object \in [Thread -> Objects \cup {Close, Null}]
  /\ order \in StoreOrders
  /\ handled \in [Objects -> Nat]

TypeOK ==
  /\ ApplicationTypes /\ UpdateTypes /\ ThreadTypes
  /\ word \in [Thread -> [0 .. 7 -> Args]]

\* Neither a callback nor the end of ac_threaded_pipe_close touches an argument
\* that update_task has destroyed (the exchange "to avoid a mutex").
NoUseAfterDestroy ==
  /\ \A t \in Thread : pc[t] \in {"clear", "call"} =>
        thread_arg[t] \in live \cup {Null} /\ global_arg[t] \in live
  /\ app = "join threads" /\ (\A t \in Thread : pc[t] = "gone") =>
        {thread_arg[t] : t \in Thread} \cup {gbl} \subseteq live \cup {Null}

\* A callback gets a thread argument together with the global argument it was
\* created from, never one half of an exchange (the words of new_args).
ArgsMatch ==
  config.thread_args => \A t \in Thread : pc[t] = "call" => thread_arg[t] = <<t, global_arg[t]>>

\* Each object that entered the pipe is handled once, and before
\* ac_threaded_pipe_close returns (the Close object comes last and ends the threads).
HandledOnce ==
  \A o \in Objects : /\ handled[o] <= 1
                     /\ handled[o] = 1 => o \in entered
                     /\ app = "closed" /\ o \in entered => handled[o] = 1

\* When ac_threaded_pipe_close returns every argument has been destroyed.
AllDestroyed == app = "closed" => live = {}

\* The arguments are exchanged safely without a mutex: none is used after it was
\* destroyed, none is seen half exchanged, and none is left over (update_task, do_task).
ArgsInv == TypeOK /\ NoUseAfterDestroy /\ ArgsMatch /\ AllDestroyed

-----------------------------------------------------------------------------
(* Why the exchange is safe: the inductive invariant.  Each word of each      *)
(* thread is determined by how far update_task and do_task have come.         *)

\* update_task has stored word j for thread t, and its scan has passed thread t.
Stored(t, j) ==
  \/ upd \in {"scan", "scanned"}
  \/ upd = "store" /\ (t < upd_thread \/ (t = upd_thread /\ j < upd_word))
Scanned(t) == upd = "scanned" \/ (upd = "scan" /\ t < upd_thread)

\* do_task has set word j back to NULL after it took the new arguments over.
Cleared(t, j) ==
  /\ global_arg[t] = new_gbl
  /\ pc[t] = "store" => \E i \in 1 .. next[t] - 1 : order[i] = j

\* A thread has the arguments of the present exchange, or those of the one before.
ArgumentsInv ==
  /\ new_gbl # gbl
  /\ \A t \in Thread :
       /\ global_arg[t] = gbl \/ (Stored(t, 7) /\ global_arg[t] = new_gbl)
       /\ thread_arg[t] = ThreadArg(t, global_arg[t])

WordsInv ==
  \A t \in Thread :
    /\ word[t][7] = IF Stored(t, 7) THEN new_gbl ELSE gbl
    /\ \A j \in 2 .. 6 : word[t][j] = IF Stored(t, j) /\ ~Cleared(t, j) THEN new_gbl ELSE Null
    /\ word[t][0] = ThreadArg(t, IF Stored(t, 0) THEN new_gbl ELSE gbl)
    /\ word[t][1] \in {Null, ThreadArg(t, gbl)}
    /\ ~Stored(t, 0) => word[t][1] = ThreadArg(t, gbl)

\* A thread that is past its first comparison has not taken over, one that stores has.
ProgressInv ==
  \A t \in Thread :
    /\ pc[t] = "compare" => next[t] \in 2 .. 7
    /\ pc[t] \notin {"compare", "store"} => next[t] = 7
    /\ pc[t] = "take" \/ (pc[t] = "compare" /\ next[t] # 7) => Stored(t, 7) /\ global_arg[t] = gbl
    /\ pc[t] = "store" => /\ global_arg[t] = new_gbl /\ old_arg[t] = ThreadArg(t, gbl)
                          /\ next[t] \in 1 .. Len(order)

\* A scan that found no thread pending may destroy the old argument.
ScanInv ==
  /\ upd = "scanned" => upd_thread = 1
  /\ \A t \in Thread : Scanned(t) /\ ~found =>
       ~config.thread_args /\ global_arg[t] = new_gbl /\ pc[t] # "store"

\* The arguments of the exchange before, and those of the present one so far.
CurrentArguments ==
  {a \in Args \ {Null} : \/ a = gbl \/ (Exchanging /\ a = new_gbl)
                         \/ \E t \in Thread : \/ a = ThreadArg(t, gbl)
                                              \/ Stored(t, 0) /\ a = ThreadArg(t, new_gbl)}

\* Exactly they are live, until ac_threaded_pipe_close.
LiveInv ==
  /\ live = IF app = "closed" THEN {} ELSE CurrentArguments
  /\ app \in {"join threads", "closed"} => upd = "gone"
  /\ app = "closed" => \A t \in Thread : pc[t] = "gone"

InPipe(o) == \E i \in 1 .. Len(pipe) : pipe[i] = o
Called(t, o) == pc[t] = "call" /\ object[t] = o

\* Close is the last object of the pipe, and once it has been read the pipe is empty.
CloseIsLast ==
  /\ \A i \in 1 .. Len(pipe) : pipe[i] = Close => i = Len(pipe) /\ app # "open"
  /\ ~read_open \/ ~write_open \/ (\E t \in Thread : pc[t] \in {"close", "gone"}) =>
       pipe = <<>> /\ app # "open"

\* An object that entered is in one place: the pipe, a callback, or handled.
InOnePlace ==
  /\ todo \cap entered = {}
  /\ \A i, j \in 1 .. Len(pipe) : pipe[i] = pipe[j] => i = j
  /\ \A t, u \in Thread : \A o \in Objects : Called(t, o) /\ Called(u, o) => t = u
  /\ \A t \in Thread : pc[t] = "call" => object[t] \in Objects
  /\ \A o \in Objects :
       /\ handled[o] \in {0, 1}
       /\ InPipe(o) => handled[o] = 0 /\ \A t \in Thread : ~Called(t, o)
       /\ \A t \in Thread : Called(t, o) => handled[o] = 0
       /\ o \in entered <=> handled[o] = 1 \/ InPipe(o) \/ \E t \in Thread : Called(t, o)

ExchangeInv == ArgumentsInv /\ WordsInv /\ ProgressInv /\ ScanInv /\ LiveInv
DeliveryInv == CloseIsLast /\ InOnePlace

IInv == TypeOK /\ ExchangeInv /\ DeliveryInv

-----------------------------------------------------------------------------
\* Without thread arguments, once every thread has taken the new global argument
\* over, update_task stops waiting and destroys the old one.  (With thread arguments
\* it never does: it waits for new_args[0] = new_args[1], which differ from then on.)
TakenOver == \A t \in Thread : global_arg[t] = new_gbl /\ pc[t] # "store"
GlobalExchangeEnds ==
  ~config.thread_args /\ upd \in {"scan", "scanned"} /\ TakenOver ~> upd = "sleep"

\* Without an update thread, and with room for it in the pipe, one Close object ends
\* all the threads and ac_threaded_pipe_close returns.
CloseReturns == ~config.updates => <>(app = "closed")
=============================================================================
