------------------------ MODULE AcThreadedPipeProofs ------------------------
(***************************************************************************)
(* Theorems about AcThreadedPipe for any number of threads and objects, and *)
(* any ways of opening the pipe.                                            *)
(***************************************************************************)
EXTENDS AcThreadedPipe, SequenceTheorems, TLAPS

\* A thread's own argument, or none, is an argument.
LEMMA ThreadArgType ==
  ASSUME NEW t \in Thread, NEW g \in Globals
  PROVE  ThreadArg(t, g) \in (Thread \X Globals) \cup {Null}
BY DEF ThreadArg

\* Every variable stays in its range: the arguments in the words are arguments, and what
\* is read from the pipe was written to it.
LEMMA InitTypes == Init => TypeOK
<1> SUFFICES ASSUME NEW g \in Globals, Open(g) PROVE TypeOK
  BY DEF Init
<1>1. config \in Configuration /\ NumThreads \in Nat \ {0} /\ Null \notin Globals
  BY PipeAssumption DEF Open
<1>2. \A t \in Thread : ThreadArg(t, g) \in Args
  BY ThreadArgType DEF Args
<1>3. word \in [Thread -> [0 .. 7 -> Args]]
  BY <1>2 DEF Args, Open
<1>4. live \subseteq Args \ {Null}
  BY <1>1, <1>2 DEF Args, Open
<1>5. pipe \in Seq(Objects \cup {Close}) /\ Len(pipe) <= config.capacity
  BY <1>1 DEF Configuration, Open
<1>6. upd_thread \in Thread /\ todo \subseteq Objects /\ config \in Configurations
  BY <1>1 DEF Thread, Configuration, Open
<1>7. /\ thread_arg \in [Thread -> Args] /\ global_arg \in [Thread -> Globals]
      /\ old_arg \in [Thread -> Args] /\ next \in [Thread -> 1 .. 7]
      /\ object \in [Thread -> Objects \cup {Close, Null}] /\ handled \in [Objects -> Nat]
  BY <1>2 DEF Args, Open
<1>8. pc \in [Thread -> {"compare", "take", "store", "clear", "read", "reading",
                        "call", "close", "gone"}]
  BY DEF Open
<1>9. /\ app = "open" /\ entered = {} /\ done = FALSE /\ orphan = FALSE
      /\ read_open = TRUE /\ write_open = TRUE /\ gbl = g /\ upd \in {"sleep", "gone"}
      /\ upd_word = 0 /\ found = FALSE /\ new_gbl = Null /\ order \in StoreOrders
  BY DEF Open
<1>10. ApplicationTypes
  <2>1. done \in BOOLEAN /\ orphan \in BOOLEAN /\ read_open \in BOOLEAN /\ write_open \in BOOLEAN
    BY <1>9
  <2> QED
    BY <1>5, <1>6, <1>9, <2>1, Zenon DEF ApplicationTypes
<1>11. UpdateTypes
  <2>1. /\ upd_word \in 0 .. 7 /\ new_gbl \in Globals \cup {Null}
        /\ upd \in {"sleep", "create", "store", "scan", "scanned", "gone"}
        /\ ~Exchanging
    BY <1>9 DEF Exchanging
  <2> QED
    BY <1>4, <1>6, <1>9, <2>1, Zenon DEF UpdateTypes
<1>12. ThreadTypes
  BY <1>7, <1>8, <1>9 DEF ThreadTypes
<1> QED
  BY <1>3, <1>10, <1>11, <1>12 DEF TypeOK

\* do_task's orders of its stores: each stores a word of the eight, words 2 to 6 among them,
\* and word 6 last.
LEMMA OrderLemma ==
  ASSUME NEW o \in StoreOrders
  PROVE  /\ Len(o) \in 6 .. 7
         /\ \A i \in 1 .. Len(o) : o[i] \in 0 .. 6 /\ (o[i] = 6 => i = Len(o))
         /\ \A j \in 2 .. 6 : \E i \in 1 .. Len(o) : o[i] = j
<1>1. CASE o = <<1, 0, 2, 3, 4, 5, 6>>
  <2>1. /\ Len(o) = 7 /\ o[1] = 1 /\ o[2] = 0 /\ o[3] = 2 /\ o[4] = 3 /\ o[5] = 4
        /\ o[6] = 5 /\ o[7] = 6
    BY <1>1
  <2>2. 1 .. Len(o) = {1, 2, 3, 4, 5, 6, 7} /\ 2 .. 6 = {2, 3, 4, 5, 6}
    BY <2>1
  <2> QED
    BY <2>1, <2>2
<1>2. CASE o = <<2, 3, 1, 4, 5, 6>>
  <2>1. /\ Len(o) = 6 /\ o[1] = 2 /\ o[2] = 3 /\ o[3] = 1 /\ o[4] = 4 /\ o[5] = 5 /\ o[6] = 6
    BY <1>2
  <2>2. 1 .. Len(o) = {1, 2, 3, 4, 5, 6} /\ 2 .. 6 = {2, 3, 4, 5, 6}
    BY <2>1
  <2> QED
    BY <2>1, <2>2
<1> QED
  BY <1>1, <1>2 DEF StoreOrders

\* What write leaves in the pipe, and what read takes from it.
LEMMA PipeLemma ==
  ASSUME ApplicationTypes
  PROVE  /\ config \in Configuration /\ Len(pipe) \in Nat
         /\ \A i \in 1 .. Len(pipe) : pipe[i] \in Objects \cup {Close}
         /\ \A o \in Objects \cup {Close} : WritePipe(o) =>
              /\ pipe' \in Seq(Objects \cup {Close}) /\ Len(pipe') <= config.capacity
              /\ IF Len(pipe) < config.capacity
                 THEN /\ Len(pipe') = Len(pipe) + 1
                      /\ \A i \in 1 .. Len(pipe) : pipe'[i] = pipe[i]
                      /\ pipe'[Len(pipe) + 1] = o
                 ELSE pipe' = pipe
         /\ pipe = <<>> <=> Len(pipe) = 0
         /\ pipe # <<>> => /\ Head(pipe) = pipe[1]
                           /\ Tail(pipe) \in Seq(Objects \cup {Close})
                           /\ Len(Tail(pipe)) = Len(pipe) - 1
                           /\ \A i \in 1 .. Len(pipe) - 1 : Tail(pipe)[i] = pipe[i + 1]
<1>1. config \in Configuration
  BY PipeAssumption DEF ApplicationTypes
<1>2. config.capacity \in Nat /\ pipe \in Seq(Objects \cup {Close}) /\ Len(pipe) \in Nat
  BY <1>1, LenProperties DEF ApplicationTypes, Configuration
<1>3. ASSUME NEW o \in Objects \cup {Close}, WritePipe(o)
      PROVE  /\ pipe' \in Seq(Objects \cup {Close}) /\ Len(pipe') <= config.capacity
             /\ IF Len(pipe) < config.capacity
                THEN /\ Len(pipe') = Len(pipe) + 1
                     /\ \A i \in 1 .. Len(pipe) : pipe'[i] = pipe[i]
                     /\ pipe'[Len(pipe) + 1] = o
                ELSE pipe' = pipe
  <2>1. CASE Len(pipe) < config.capacity
    <3>1. pipe' = Append(pipe, o)
      BY <1>3, <2>1 DEF WritePipe
    <3>2. /\ pipe' \in Seq(Objects \cup {Close}) /\ Len(pipe') = Len(pipe) + 1
          /\ \A i \in 1 .. Len(pipe) : pipe'[i] = pipe[i]
          /\ pipe'[Len(pipe) + 1] = o
      BY <1>2, <3>1, AppendProperties
    <3> QED
      BY <1>2, <2>1, <3>2
  <2>2. CASE ~(Len(pipe) < config.capacity)
    BY <1>2, <1>3, <2>2 DEF WritePipe, ApplicationTypes
  <2> QED
    BY <2>1, <2>2
<1>4. pipe = <<>> <=> Len(pipe) = 0
  BY <1>2, EmptySeq
<1>5. ASSUME pipe # <<>>
      PROVE  /\ Head(pipe) = pipe[1]
             /\ Tail(pipe) \in Seq(Objects \cup {Close})
             /\ Len(Tail(pipe)) = Len(pipe) - 1
             /\ \A i \in 1 .. Len(pipe) - 1 : Tail(pipe)[i] = pipe[i + 1]
  BY <1>2, <1>5, HeadTailProperties
<1>6. \A i \in 1 .. Len(pipe) : pipe[i] \in Objects \cup {Close}
  BY <1>2, ElementOfSeq
<1> QED
  BY <1>1, <1>2, <1>3, <1>4, <1>5, <1>6

\* What the application, the update thread and the threads leave in the pipe's variables.
LEMMA ApplicationTypesStep == TypeOK /\ [Next]_vars => ApplicationTypes'
<1> SUFFICES ASSUME TypeOK, [Next]_vars PROVE ApplicationTypes'
  OBVIOUS
<1> USE DEF appVars, pipeVars
<1>1. ApplicationTypes
  BY DEF TypeOK
<1>2. CASE App
  <2>1. ASSUME NEW o \in todo, Write(o) PROVE ApplicationTypes'
    <3>1. /\ o \in Objects
          /\ pipe' \in Seq(Objects \cup {Close}) /\ Len(pipe') <= config.capacity
      BY <1>1, <2>1, PipeLemma DEF ApplicationTypes, Write
    <3>2. todo' \subseteq Objects /\ entered' \subseteq Objects
      BY <1>1, <2>1, <3>1 DEF ApplicationTypes, Write
    <3> QED
      BY <1>1, <2>1, <3>1, <3>2 DEF ApplicationTypes, Write
  <2>2. CASE WriteClose
    <3>1. pipe' \in Seq(Objects \cup {Close}) /\ Len(pipe') <= config.capacity
      BY <1>1, <2>2, PipeLemma DEF WriteClose
    <3> QED
      BY <1>1, <2>2, <3>1 DEF ApplicationTypes, WriteClose
  <2>3. CASE SetDone \/ JoinUpdate \/ JoinThreads
    BY <1>1, <2>3 DEF ApplicationTypes, SetDone, JoinUpdate, JoinThreads
  <2> QED
    BY <1>2, <2>1, <2>2, <2>3 DEF App
<1>3. CASE ParentEnds
  BY <1>1, <1>3 DEF ApplicationTypes, ParentEnds
<1>4. CASE Update
  BY <1>1, <1>4, ZenonT(60) DEF ApplicationTypes, Update, UpdateSleep, UpdateNothing, CreateGlobal, StoreWord,
     Scan, ScanAgain, ReplaceGlobal
<1>5. ASSUME NEW t \in Thread, Task(t) PROVE ApplicationTypes'
  <2>1. CASE Read(t)
    <3>1. pipe' \in Seq(Objects \cup {Close}) /\ Len(pipe') <= config.capacity
      <4>1. pipe' \in Seq(Objects \cup {Close}) /\ Len(pipe') = Len(pipe) - 1
        BY <1>1, <2>1, PipeLemma DEF Read
      <4>2. Len(pipe) \in Nat /\ Len(pipe) <= config.capacity /\ config.capacity \in Nat
            /\ config' = config
        BY <1>1, <2>1, PipeLemma DEF ApplicationTypes, Configuration, Read
      <4> QED
        BY <4>1, <4>2
    <3> QED
      BY <1>1, <2>1, <3>1 DEF ApplicationTypes, Read
  <2>2. CASE ~Read(t)
    BY <1>1, <1>5, <2>2 DEF ApplicationTypes, Task, Compare, Take, StoreOwn, ClearArg, EnterRead,
       ReadNothing, Call, CloseEnds
  <2> QED
    BY <2>1, <2>2
<1>6. CASE UNCHANGED vars
  BY <1>1, <1>6 DEF ApplicationTypes, vars
<1> QED
  BY <1>2, <1>3, <1>4, <1>5, <1>6 DEF Next

LEMMA UpdateTypesStep == TypeOK /\ [Next]_vars => UpdateTypes'
<1> SUFFICES ASSUME TypeOK, [Next]_vars PROVE UpdateTypes'
  OBVIOUS
<1> USE DEF appVars, pipeVars, updVars, Exchanging
<1>1. /\ NumThreads \in Nat \ {0} /\ Null \notin Globals /\ UpdateTypes
      /\ Globals \subseteq Args \ {Null} /\ thread_arg \in [Thread -> Args]
  BY PipeAssumption DEF TypeOK, Args, ThreadTypes
<1>2. CASE App
  BY <1>1, <1>2 DEF UpdateTypes, App, Write, WriteClose, SetDone, JoinUpdate, JoinThreads
<1>3. CASE ParentEnds
  BY <1>1, <1>3 DEF UpdateTypes, ParentEnds
<1>4. CASE UpdateSleep \/ UpdateNothing \/ ScanAgain
  BY <1>1, <1>4 DEF UpdateTypes, UpdateSleep, UpdateNothing, ScanAgain
<1>5. CASE ReplaceGlobal
  BY <1>1, <1>5 DEF UpdateTypes, ReplaceGlobal
<1>6. ASSUME NEW g \in Globals, CreateGlobal(g) PROVE UpdateTypes'
  <2>1. live' \subseteq Args \ {Null} /\ 1 \in Thread
    BY <1>1, <1>6 DEF UpdateTypes, CreateGlobal, Thread
  <2> QED
    BY <1>1, <1>6, <2>1 DEF UpdateTypes, CreateGlobal
<1>7. CASE StoreWord
  <2>1. new_gbl \in Globals /\ upd_thread \in Thread /\ upd_word \in 0 .. 7
    BY <1>1, <1>7 DEF UpdateTypes, StoreWord
  <2>2. NewWord(upd_thread, 0) \in Args
    BY <1>1, <2>1, ThreadArgType DEF NewWord, Args
  <2>3. live' \subseteq Args \ {Null}
    BY <1>1, <1>7, <2>2 DEF UpdateTypes, StoreWord
  <2>4. upd_thread' \in Thread /\ upd_word' \in 0 .. 7
    BY <1>1, <1>7, <2>1 DEF StoreWord, Thread
  <2>5. /\ upd \in {"store"} /\ upd' \in {"store", "scan"} /\ found' = FALSE
        /\ new_gbl' = new_gbl /\ gbl' = gbl
    BY <1>7 DEF StoreWord
  <2>6. found' \in BOOLEAN /\ Exchanging /\ Exchanging'
    BY <2>5
  <2> QED
    BY <1>1, <2>3, <2>4, <2>5, <2>6 DEF UpdateTypes
<1>8. CASE Scan
  <2>1. live' \subseteq Args \ {Null} /\ upd_thread' \in Thread
    BY <1>1, <1>8 DEF UpdateTypes, Scan, Thread
  <2>2. found' \in BOOLEAN
    BY <1>8 DEF Scan, Pending
  <2>3. /\ upd' \in {"scan", "scanned"} /\ Exchanging /\ Exchanging'
        /\ new_gbl' = new_gbl /\ gbl' = gbl /\ upd_word' = upd_word
    BY <1>8 DEF Scan
  <2> QED
    BY <1>1, <2>1, <2>2, <2>3 DEF UpdateTypes
<1>9. ASSUME NEW t \in Thread, Task(t) PROVE UpdateTypes'
  BY <1>1, <1>9 DEF UpdateTypes, Task, Compare, Take, StoreOwn, ClearArg, EnterRead, Read,
     ReadNothing, Call, CloseEnds
<1>10. CASE UNCHANGED vars
  BY <1>1, <1>10 DEF UpdateTypes, vars
<1> QED
  BY <1>2, <1>3, <1>4, <1>5, <1>6, <1>7, <1>8, <1>9, <1>10 DEF Next, Update

\* update_task stores a thread's words in their order.
LEMMA StoredInOrder ==
  ASSUME TypeOK, NEW t \in Thread, NEW j \in 0 .. 7, NEW i \in 0 .. j, Stored(t, j)
  PROVE  Stored(t, i)
<1>1. upd_word \in Int /\ i <= j /\ i \in Int /\ j \in Int
  BY DEF TypeOK, UpdateTypes
<1> QED
  BY <1>1 DEF Stored

\* A thread that takes its new arguments over finds both of them, stored by one exchange.
LEMMA TakeFacts ==
  ASSUME TypeOK, ExchangeInv, NEW t \in Thread, pc[t] = "take"
  PROVE  /\ new_gbl \in Globals /\ Stored(t, 7) /\ global_arg[t] = gbl /\ global_arg[t] # new_gbl
         /\ word[t][0] = ThreadArg(t, new_gbl) /\ word[t][2] = new_gbl
         /\ thread_arg[t] = ThreadArg(t, gbl)
<1>1. Stored(t, 7) /\ global_arg[t] = gbl
  BY DEF ExchangeInv, ProgressInv
<1>2. Stored(t, 2) /\ Stored(t, 0)
  BY <1>1, StoredInOrder
<1>3. global_arg[t] # new_gbl /\ thread_arg[t] = ThreadArg(t, gbl)
  BY <1>1 DEF ExchangeInv, ArgumentsInv
<1>4. ~Cleared(t, 2)
  BY <1>3 DEF Cleared
<1>5. word[t][0] = ThreadArg(t, new_gbl) /\ word[t][2] = new_gbl
  BY <1>2, <1>4 DEF ExchangeInv, WordsInv
<1>6. new_gbl \in Globals
  BY <1>1 DEF TypeOK, UpdateTypes, Stored, Exchanging
<1> QED
  BY <1>1, <1>3, <1>5, <1>6

LEMMA ThreadTypesStep == IInv /\ [Next]_vars => ThreadTypes'
<1> SUFFICES ASSUME IInv, [Next]_vars PROVE ThreadTypes'
  OBVIOUS
<1> USE DEF Goto, appVars, pipeVars, updVars, threadVars
<1>1. TypeOK /\ ThreadTypes /\ ExchangeInv /\ DeliveryInv
  BY DEF IInv, TypeOK
<1>2. CASE App \/ ParentEnds
  BY <1>1, <1>2 DEF ThreadTypes, App, Write, WriteClose, SetDone, JoinUpdate, JoinThreads,
     ParentEnds
<1>3. CASE Update
  BY <1>1, <1>3 DEF ThreadTypes, Update, UpdateSleep, UpdateNothing, CreateGlobal, StoreWord, Scan,
     ScanAgain, ReplaceGlobal
<1>4. ASSUME NEW t \in Thread, Task(t) PROVE ThreadTypes'
  <2>1. CASE Compare(t)
    <3>1. next[t] \in 1 .. 7
      BY <1>1 DEF ThreadTypes
    <3>2. CASE next[t] = 7 \/ next[t] = 6
      BY <1>1, <2>1, <3>2 DEF ThreadTypes, Compare
    <3>3. CASE next[t] \in 1 .. 5
      BY <1>1, <2>1, <3>3 DEF ThreadTypes, Compare
    <3> QED
      BY <3>1, <3>2, <3>3
  <2>2. CASE Take(t)
    <3>1. word[t][2] \in Globals /\ word[t][0] \in Args /\ thread_arg[t] \in Args
      BY <1>1, <2>2, TakeFacts, ThreadArgType DEF Take, Args, ThreadTypes
    <3> QED
      BY <1>1, <2>2, <3>1 DEF ThreadTypes, Take
  <2>3. CASE StoreOwn(t)
    <3>1. next[t] \in 1 .. Len(order) /\ order \in StoreOrders /\ next[t] \in 1 .. 7
      BY <1>1, <2>3 DEF ThreadTypes, ExchangeInv, ProgressInv, StoreOwn
    <3>2. Len(order) \in 6 .. 7
      BY <3>1, OrderLemma
    <3>3. next' \in [Thread -> 1 .. 7]
      <4>1. next' = [next EXCEPT ![t] = IF next[t] = Len(order) THEN 7 ELSE next[t] + 1]
        BY <2>3 DEF StoreOwn
      <4>2. (IF next[t] = Len(order) THEN 7 ELSE next[t] + 1) \in 1 .. 7
        <5>1. \A l \in 6 .. 7 : \A n \in 1 .. l : (IF n = l THEN 7 ELSE n + 1) \in 1 .. 7
          OBVIOUS
        <5> QED
          BY <3>1, <3>2, <5>1
      <4>3. next \in [Thread -> 1 .. 7]
        BY <1>1 DEF ThreadTypes
      <4> QED
        BY <4>1, <4>2, <4>3
    <3>4. pc' = pc \/ pc' = [pc EXCEPT ![t] = "clear"]
      BY <2>3 DEF StoreOwn
    <3>5. /\ thread_arg' = thread_arg /\ global_arg' = global_arg /\ old_arg' = old_arg
          /\ object' = object /\ order' = order /\ handled' = handled
      BY <2>3 DEF StoreOwn
    <3> QED
      BY <1>1, <3>3, <3>4, <3>5 DEF ThreadTypes
  <2>4. CASE ClearArg(t) \/ EnterRead(t) \/ ReadNothing(t) \/ CloseEnds(t)
    BY <1>1, <2>4, ZenonT(60) DEF ThreadTypes, ClearArg, EnterRead, ReadNothing, CloseEnds
  <2>5. CASE Read(t)
    <3>1. Head(pipe) \in Objects \cup {Close}
      <4>1. Len(pipe) \in Nat /\ Len(pipe) # 0 /\ Head(pipe) = pipe[1]
        BY <1>1, <2>5, PipeLemma DEF TypeOK, Read
      <4>2. 1 \in 1 .. Len(pipe)
        BY <4>1
      <4> QED
        BY <1>1, <4>1, <4>2, PipeLemma DEF TypeOK
    <3> QED
      BY <1>1, <2>5, <3>1 DEF ThreadTypes, Read
  <2>6. CASE Call(t)
    <3>1. object[t] \in Objects
      BY <1>1, <2>6 DEF DeliveryInv, InOnePlace, Call
    <3> QED
      BY <1>1, <2>6, <3>1 DEF ThreadTypes, Call
  <2> QED
    BY <1>4, <2>1, <2>2, <2>3, <2>4, <2>5, <2>6 DEF Task
<1>5. CASE UNCHANGED vars
  BY <1>1, <1>5 DEF ThreadTypes, vars
<1> QED
  BY <1>2, <1>3, <1>4, <1>5 DEF Next

LEMMA WordTypesStep == IInv /\ [Next]_vars => word' \in [Thread -> [0 .. 7 -> Args]]
<1> SUFFICES ASSUME IInv, [Next]_vars PROVE word' \in [Thread -> [0 .. 7 -> Args]]
  OBVIOUS
<1>1. /\ TypeOK /\ ThreadTypes /\ ExchangeInv /\ UpdateTypes
      /\ word \in [Thread -> [0 .. 7 -> Args]]
  BY DEF IInv, TypeOK
<1>2. Null \in Args
  BY DEF Args
<1>3. ASSUME NEW t \in Thread, NEW j \in 0 .. 7, NEW a \in Args,
             word' = [word EXCEPT ![t][j] = a]
      PROVE  word' \in [Thread -> [0 .. 7 -> Args]]
  BY <1>1, <1>3
<1>4. CASE StoreWord
  <2>1. new_gbl \in Globals /\ upd_thread \in Thread /\ upd_word \in 0 .. 7
    BY <1>1, <1>4 DEF UpdateTypes, StoreWord, Exchanging
  <2>2. NewWord(upd_thread, upd_word) \in Args
    BY <1>1, <2>1, ThreadArgType DEF NewWord, Args, ThreadTypes
  <2> QED
    BY <1>3, <1>4, <2>1, <2>2 DEF StoreWord
<1>5. CASE Scan
  <2>1. upd_thread \in Thread /\ 1 \in 0 .. 7
    BY <1>1 DEF UpdateTypes
  <2> QED
    BY <1>1, <1>2, <1>3, <1>5, <2>1 DEF Scan
<1>6. ASSUME NEW t \in Thread, StoreOwn(t) PROVE word' \in [Thread -> [0 .. 7 -> Args]]
  <2>1. next[t] \in 1 .. Len(order) /\ order \in StoreOrders
    BY <1>1, <1>6 DEF ThreadTypes, ExchangeInv, ProgressInv, StoreOwn
  <2>2. order[next[t]] \in 0 .. 7
    BY <2>1, OrderLemma
  <2>3. OwnWord(t, order[next[t]]) \in Args
    BY <1>1, <1>2 DEF OwnWord, ThreadTypes
  <2> QED
    BY <1>3, <1>6, <2>2, <2>3 DEF StoreOwn
<1>7. CASE word' = word
  BY <1>1, <1>7
<1> QED
  BY <1>4, <1>5, <1>6, <1>7 DEF Next, Update, App, Task, Write, WriteClose, SetDone, JoinUpdate,
     JoinThreads, ParentEnds, UpdateSleep, UpdateNothing, CreateGlobal, ScanAgain, ReplaceGlobal,
     Compare, Take, ClearArg, EnterRead, Read, ReadNothing, Call, CloseEnds, vars

LEMMA TypeStep == IInv /\ [Next]_vars => TypeOK'
BY ApplicationTypesStep, UpdateTypesStep, ThreadTypesStep, WordTypesStep DEF IInv, TypeOK

\* The thread after t, as update_task counts them.
LEMMA NextThread ==
  ASSUME NEW n \in Nat \ {0}, NEW t \in 1 .. n
  PROVE  (t % n) + 1 = IF t = n THEN 1 ELSE t + 1
OBVIOUS

\* A step that touches no argument and no word, and leaves the threads that are storing
\* alone, keeps what is said of the arguments and the words.
LEMMA SameExchange ==
  ASSUME ExchangeInv,
         UNCHANGED <<config, gbl, updVars, word, thread_arg, global_arg, order>>,
         \A t \in Thread : /\ pc'[t] = "store" <=> pc[t] = "store"
                           /\ pc[t] = "store" => next'[t] = next[t]
  PROVE  /\ ArgumentsInv' /\ WordsInv' /\ ScanInv'
         /\ \A t \in Thread : \A j \in 0 .. 7 : Stored(t, j)' <=> Stored(t, j)
<1> USE DEF updVars
<1>1. \A t \in Thread : \A j \in 0 .. 7 : Stored(t, j)' <=> Stored(t, j)
  BY DEF Stored
<1>2. \A t \in Thread : \A j \in 0 .. 7 : Cleared(t, j)' <=> Cleared(t, j)
  BY DEF Cleared
<1>3. \A t \in Thread : Scanned(t)' <=> Scanned(t)
  BY DEF Scanned
<1>4. ArgumentsInv'
  BY <1>1 DEF ExchangeInv, ArgumentsInv, ThreadArg
<1>5. WordsInv'
  <2>1. WordsInv
    BY DEF ExchangeInv
  <2> QED
    BY <1>1, <1>2, <2>1 DEF WordsInv, ThreadArg
<1>6. ScanInv'
  BY <1>3 DEF ExchangeInv, ScanInv
<1> QED
  BY <1>1, <1>4, <1>5, <1>6

\* What is live changes with the exchange and with the end of ac_threaded_pipe_close.
LEMMA SameLive ==
  ASSUME LiveInv, UNCHANGED <<config, gbl, updVars, live>>,
         app' = "closed" <=> app = "closed",
         app' \in {"join threads", "closed"} => upd = "gone",
         app' = "closed" => \A t \in Thread : pc'[t] = "gone"
  PROVE  LiveInv'
<1>1. \A t \in Thread : Stored(t, 0)' <=> Stored(t, 0)
  BY DEF Stored, updVars
<1> QED
  BY <1>1 DEF LiveInv, CurrentArguments, ThreadArg, Exchanging, updVars

\* A thread that has seen a new word 7 goes on comparing; while its arguments are those
\* of the exchange before, the others are stored already or still NULL.
LEMMA QuietTaskStep ==
  ASSUME IInv, NEW t \in Thread,
         \/ Compare(t) \/ ClearArg(t) \/ EnterRead(t) \/ Read(t) \/ ReadNothing(t) \/ Call(t)
         \/ CloseEnds(t)
  PROVE  ExchangeInv'
<1> USE DEF Goto, appVars, pipeVars, threadVars
<1>1. /\ ExchangeInv /\ next \in [Thread -> 1 .. 7]
      /\ pc \in [Thread -> {"compare", "take", "store", "clear", "read", "reading",
                           "call", "close", "gone"}]
      /\ word \in [Thread -> [0 .. 7 -> Args]]
  BY DEF IInv, TypeOK, ThreadTypes
<1>2. /\ UNCHANGED <<config, gbl, updVars, word, thread_arg, global_arg, old_arg, order, live, app>>
      /\ pc[t] \notin {"store", "take", "gone"} /\ pc'[t] # "store"
      /\ \A u \in Thread \ {t} : pc'[u] = pc[u] /\ next'[u] = next[u]
  <2>1. /\ UNCHANGED <<config, gbl, updVars, word, thread_arg, global_arg, old_arg, order, live, app>>
        /\ pc[t] \notin {"store", "take", "gone"}
    BY DEF Compare, ClearArg, EnterRead, Read, ReadNothing, Call, CloseEnds
  <2>2. \E l \in {"compare", "take", "clear", "read", "reading", "call", "close", "gone"} :
          pc' = [pc EXCEPT ![t] = l]
    <3>1. CASE Compare(t)
      BY <3>1 DEF Compare
    <3>2. CASE Read(t)
      BY <3>2 DEF Read
    <3>3. CASE ClearArg(t) \/ EnterRead(t) \/ ReadNothing(t) \/ Call(t) \/ CloseEnds(t)
      BY <3>3 DEF ClearArg, EnterRead, ReadNothing, Call, CloseEnds
    <3> QED
      BY <3>1, <3>2, <3>3
  <2>3. next' = [next EXCEPT ![t] = next'[t]]
    <3>1. CASE Compare(t)
      BY <1>1, <3>1 DEF Compare
    <3>2. CASE next' = next
      BY <1>1, <3>2
    <3> QED
      BY <3>1, <3>2 DEF ClearArg, EnterRead, Read, ReadNothing, Call, CloseEnds
  <2> QED
    BY <1>1, <2>1, <2>2, <2>3
<1>3. /\ ArgumentsInv' /\ WordsInv' /\ ScanInv'
      /\ \A u \in Thread : \A j \in 0 .. 7 : Stored(u, j)' <=> Stored(u, j)
  <2>1. \A u \in Thread : /\ pc'[u] = "store" <=> pc[u] = "store"
                          /\ pc[u] = "store" => next'[u] = next[u]
    BY <1>2
  <2>2. UNCHANGED <<config, gbl, updVars, word, thread_arg, global_arg, order>>
    BY <1>2
  <2> QED
    BY <1>1, <2>1, <2>2, SameExchange
<1>4. LiveInv'
  <2>1. app # "closed" /\ app' = app /\ LiveInv
    BY <1>1, <1>2 DEF ExchangeInv, LiveInv
  <2> QED
    BY <1>2, <2>1, SameLive DEF LiveInv
<1>5. ProgressInv'
  <2>1. ProgressInv /\ ArgumentsInv
    BY <1>1 DEF ExchangeInv
  <2>2. /\ pc'[t] = "compare" => next'[t] \in 2 .. 7
        /\ pc'[t] # "compare" => next'[t] = 7
        /\ pc'[t] = "take" \/ (pc'[t] = "compare" /\ next'[t] # 7) =>
              Stored(t, 7) /\ global_arg[t] = gbl
    <3>1. CASE Compare(t)
      <4>1. next[t] \in 2 .. 7
        BY <2>1, <3>1 DEF ProgressInv, Compare
      <4>2. CASE next[t] = 7
        <5>1. word[t][7] # global_arg[t] => Stored(t, 7) /\ global_arg[t] = gbl
          BY <1>1, <2>1 DEF ExchangeInv, WordsInv, ArgumentsInv
        <5> QED
          BY <1>1, <3>1, <4>2, <5>1 DEF Compare
      <4>3. CASE next[t] \in 2 .. 6
        <5>1. Stored(t, 7) /\ global_arg[t] = gbl
          BY <2>1, <3>1, <4>3 DEF ProgressInv, Compare
        <5>2. CASE next[t] = 6 \/ word[t][next[t]] # word[t][7]
          BY <1>1, <3>1, <4>3, <5>1, <5>2 DEF Compare
        <5>3. CASE next[t] # 6 /\ word[t][next[t]] = word[t][7]
          BY <1>1, <3>1, <4>3, <5>1, <5>3 DEF Compare
        <5> QED
          BY <5>2, <5>3
      <4> QED
        BY <4>1, <4>2, <4>3
    <3>2. CASE ~Compare(t)
      <4>1. next'[t] = next[t] /\ next[t] = 7 /\ pc'[t] # "take"
        BY <1>1, <2>1, <3>2 DEF ProgressInv, ClearArg, EnterRead, Read, ReadNothing, Call, CloseEnds
      <4> QED
        BY <4>1
    <3> QED
      BY <3>1, <3>2
  <2>3. /\ \A u \in Thread : Stored(u, 7)' <=> Stored(u, 7)
        /\ gbl' = gbl /\ new_gbl' = new_gbl /\ global_arg' = global_arg /\ old_arg' = old_arg
        /\ order' = order /\ config' = config
    BY <1>2, <1>3 DEF updVars
  <2> QED
    BY <1>2, <2>1, <2>2, <2>3 DEF ProgressInv, ThreadArg
<1> QED
  BY <1>3, <1>4, <1>5 DEF ExchangeInv

\* The step in which a thread takes its new arguments over.
LEMMA TakeStep ==
  ASSUME IInv, NEW t \in Thread, Take(t)
  PROVE  ExchangeInv'
<1> USE DEF Goto, appVars, pipeVars, updVars
<1>1. /\ TypeOK /\ ThreadTypes /\ ArgumentsInv /\ WordsInv /\ ProgressInv /\ ScanInv /\ LiveInv
      /\ ExchangeInv
  BY DEF IInv, TypeOK, ExchangeInv
<1>2. /\ new_gbl \in Globals /\ Stored(t, 7) /\ global_arg[t] = gbl /\ gbl # new_gbl
      /\ word[t][0] = ThreadArg(t, new_gbl) /\ word[t][2] = new_gbl
      /\ thread_arg[t] = ThreadArg(t, gbl)
  BY <1>1, TakeFacts DEF Take
<1>3. /\ pc' = [pc EXCEPT ![t] = "store"] /\ next' = [next EXCEPT ![t] = 1]
      /\ old_arg' = [old_arg EXCEPT ![t] = ThreadArg(t, gbl)]
      /\ thread_arg' = [thread_arg EXCEPT ![t] = ThreadArg(t, new_gbl)]
      /\ global_arg' = [global_arg EXCEPT ![t] = new_gbl]
      /\ UNCHANGED <<config, gbl, updVars, word, order, live, app>>
  BY <1>1, <1>2 DEF Take
<1>4. \A u \in Thread : \A j \in 0 .. 7 : Stored(u, j)' <=> Stored(u, j)
  BY <1>3 DEF Stored
<1>5. \A u \in Thread : \A j \in 0 .. 7 : Cleared(u, j)' <=> Cleared(u, j)
  <2>1. \A u \in Thread \ {t} : \A j \in 0 .. 7 : Cleared(u, j)' <=> Cleared(u, j)
    BY <1>1, <1>3 DEF Cleared, ThreadTypes
  <2>2. \A j \in 0 .. 7 : ~Cleared(t, j)
    BY <1>2 DEF Cleared
  <2>3. pc'[t] = "store" /\ next'[t] = 1
    BY <1>1, <1>3 DEF ThreadTypes
  <2>4. \A j \in 0 .. 7 : ~Cleared(t, j)'
    BY <2>3 DEF Cleared
  <2> QED
    BY <2>1, <2>2, <2>4
<1>6. ArgumentsInv'
  <2>1. /\ global_arg'[t] = new_gbl /\ thread_arg'[t] = ThreadArg(t, new_gbl)
        /\ \A u \in Thread \ {t} : global_arg'[u] = global_arg[u] /\ thread_arg'[u] = thread_arg[u]
    BY <1>1, <1>3 DEF ThreadTypes
  <2>2. gbl' = gbl /\ new_gbl' = new_gbl /\ config' = config
    BY <1>3
  <2>3. \A u \in Thread : Stored(u, 7)' <=> Stored(u, 7)
    BY <1>4
  <2>4. \A u \in Thread : ThreadArg(u, global_arg[u])' = ThreadArg(u, global_arg'[u])
    BY <2>2 DEF ThreadArg
  <2> SUFFICES ASSUME NEW u \in Thread
               PROVE  /\ new_gbl' # gbl'
                      /\ global_arg'[u] = gbl' \/ (Stored(u, 7)' /\ global_arg'[u] = new_gbl')
                      /\ thread_arg'[u] = ThreadArg(u, global_arg[u])'
    BY <1>2, <2>2, Zenon DEF ArgumentsInv
  <2>5. CASE u = t
    BY <1>2, <2>1, <2>2, <2>3, <2>4, <2>5
  <2>6. CASE u # t
    <3>1. /\ global_arg[u] = gbl \/ (Stored(u, 7) /\ global_arg[u] = new_gbl)
          /\ thread_arg[u] = ThreadArg(u, global_arg[u])
      BY <1>1 DEF ArgumentsInv
    <3> QED
      BY <1>2, <2>1, <2>2, <2>3, <2>4, <2>6, <3>1
  <2> QED
    BY <2>5, <2>6
<1>7. WordsInv'
  BY <1>1, <1>3, <1>4, <1>5 DEF WordsInv, ThreadArg
<1>8. ProgressInv'
  <2>1. 1 \in 1 .. Len(order)
    BY <1>1, OrderLemma DEF ThreadTypes
  <2> QED
    BY <1>1, <1>2, <1>3, <1>4, <2>1 DEF ProgressInv, ThreadArg, ThreadTypes
<1>9. ScanInv'
  <2>1. \A u \in Thread : Scanned(u)' <=> Scanned(u)
    BY <1>3 DEF Scanned
  <2> QED
    BY <1>1, <1>2, <1>3, <2>1 DEF ScanInv, ThreadTypes
<1>10. LiveInv'
  <2>1. app # "closed"
    BY <1>1 DEF LiveInv, Take
  <2>2. UNCHANGED <<config, gbl, updVars, live>> /\ app' = app
    BY <1>3
  <2> QED
    BY <1>1, <2>1, <2>2, SameLive DEF LiveInv
<1> QED
  BY <1>6, <1>7, <1>8, <1>9, <1>10 DEF ExchangeInv

\* A thread sets its words back, word 6 last: those of words 2 to 6 that it has passed
\* are NULL.
LEMMA StoreOwnStep ==
  ASSUME IInv, NEW t \in Thread, StoreOwn(t)
  PROVE  ExchangeInv'
<1> USE DEF Goto, appVars, pipeVars, updVars
<1>1. /\ ThreadTypes /\ ArgumentsInv /\ WordsInv /\ ProgressInv /\ ScanInv /\ LiveInv
      /\ word \in [Thread -> [0 .. 7 -> Args]] /\ TypeOK
  BY DEF IInv, TypeOK, ExchangeInv
<1> DEFINE k == order[next[t]]
<1>2. /\ order \in StoreOrders /\ next[t] \in 1 .. Len(order) /\ Len(order) \in 6 .. 7
      /\ k \in 0 .. 6 /\ pc[t] = "store"
      /\ global_arg[t] = new_gbl /\ old_arg[t] = ThreadArg(t, gbl)
  BY <1>1, OrderLemma DEF ProgressInv, ThreadTypes, StoreOwn
<1>3. /\ Stored(t, 7) /\ thread_arg[t] = ThreadArg(t, new_gbl)
  BY <1>1, <1>2 DEF ArgumentsInv
<1>4. \A j \in 0 .. 7 : Stored(t, j)
  BY <1>1, <1>3, StoredInOrder
<1>5. /\ UNCHANGED <<config, gbl, updVars, thread_arg, global_arg, old_arg, order, live, app>>
      /\ word' = [word EXCEPT ![t][k] = OwnWord(t, k)]
      /\ \A u \in Thread \ {t} : pc'[u] = pc[u] /\ next'[u] = next[u]
      /\ IF next[t] = Len(order) THEN pc'[t] = "clear" /\ next'[t] = 7
                                 ELSE pc'[t] = "store" /\ next'[t] = next[t] + 1
  BY <1>1 DEF StoreOwn, ThreadTypes
<1> HIDE DEF k
<1>6. \A u \in Thread : \A j \in 0 .. 7 : Stored(u, j)' <=> Stored(u, j)
  BY <1>5 DEF Stored
<1>7. \A u \in Thread \ {t} : \A j \in 0 .. 7 : Cleared(u, j)' <=> Cleared(u, j)
  BY <1>5 DEF Cleared
<1>8. \A j \in 2 .. 6 : Cleared(t, j)' <=> Cleared(t, j) \/ j = k
  <2>1. ASSUME NEW j \in 2 .. 6 PROVE Cleared(t, j) <=> \E i \in 1 .. next[t] - 1 : order[i] = j
    BY <1>2 DEF Cleared
  <2>2. CASE next[t] = Len(order)
    <3>1. ASSUME NEW j \in 2 .. 6 PROVE Cleared(t, j)'
      BY <1>2, <1>5, <2>2 DEF Cleared
    <3>2. ASSUME NEW j \in 2 .. 6, j # k PROVE Cleared(t, j)
      <4>1. PICK i \in 1 .. Len(order) : order[i] = j
        BY <1>2, OrderLemma
      <4>2. i # next[t]
        BY <3>2, <4>1 DEF k
      <4>3. i \in 1 .. next[t] - 1
        BY <1>2, <2>2, <4>2
      <4> QED
        BY <2>1, <4>1, <4>3
    <3> QED
      BY <3>1, <3>2
  <2>3. CASE next[t] # Len(order)
    <3>1. ASSUME NEW j \in 2 .. 6 PROVE Cleared(t, j)' <=> \E i \in 1 .. next[t] : order[i] = j
      <4>1. next'[t] - 1 = next[t]
        BY <1>2, <1>5, <2>3
      <4>2. pc'[t] = "store" /\ global_arg'[t] = new_gbl' /\ order' = order
        BY <1>2, <1>5, <2>3
      <4> QED
        BY <4>1, <4>2 DEF Cleared
    <3>2. ASSUME NEW i \in 1 .. next[t] PROVE i = next[t] \/ i \in 1 .. next[t] - 1
      BY <1>2
    <3>3. next[t] \in 1 .. next[t] /\ (1 .. next[t] - 1) \subseteq 1 .. next[t]
      BY <1>2
    <3> QED
      BY <2>1, <3>1, <3>2, <3>3 DEF k
  <2> QED
    BY <2>2, <2>3
<1>9. ArgumentsInv'
  BY <1>1, <1>5, <1>6 DEF ArgumentsInv, ThreadArg
<1>10. WordsInv'
  <2>1. \A u \in Thread \ {t} : word'[u] = word[u]
    BY <1>1, <1>5
  <2>2. \A j \in 0 .. 7 : word'[t][j] = IF j = k THEN OwnWord(t, k) ELSE word[t][j]
    BY <1>1, <1>2, <1>5
  <2>3. word'[t][7] = word[t][7]
    BY <1>2, <2>2
  <2>4. word'[t][0] = ThreadArg(t, new_gbl)
    BY <1>1, <1>2, <1>3, <1>4, <2>2 DEF OwnWord, WordsInv
  <2>5. word'[t][1] \in {Null, ThreadArg(t, gbl)}
    BY <1>1, <1>2, <1>3, <1>4, <2>2 DEF OwnWord, WordsInv
  <2>6. ASSUME NEW j \in 2 .. 6
        PROVE  word'[t][j] = IF Stored(t, j)' /\ ~Cleared(t, j)' THEN new_gbl ELSE Null
    <3>1. CASE j = k
      <4>1. word'[t][j] = Null /\ Cleared(t, j)'
        BY <1>8, <2>2, <3>1 DEF OwnWord
      <4> QED
        BY <4>1
    <3>2. CASE j # k
      <4>1. word'[t][j] = word[t][j] /\ (Cleared(t, j)' <=> Cleared(t, j))
            /\ (Stored(t, j)' <=> Stored(t, j))
        BY <1>6, <1>8, <2>2, <3>2
      <4> QED
        BY <1>1, <4>1 DEF WordsInv
    <3> QED
      BY <3>1, <3>2
  <2>7. ASSUME NEW u \in Thread
        PROVE  /\ word'[u][7] = IF Stored(u, 7)' THEN new_gbl ELSE gbl
               /\ \A j \in 2 .. 6 : word'[u][j] = IF Stored(u, j)' /\ ~Cleared(u, j)' THEN new_gbl ELSE Null
               /\ word'[u][0] = ThreadArg(u, IF Stored(u, 0)' THEN new_gbl ELSE gbl)
               /\ word'[u][1] \in {Null, ThreadArg(u, gbl)}
               /\ ~Stored(u, 0)' => word'[u][1] = ThreadArg(u, gbl)
    <3>1. CASE u = t
      BY <1>1, <1>4, <1>6, <2>3, <2>4, <2>5, <2>6, <3>1 DEF WordsInv
    <3>2. CASE u # t
      BY <1>1, <1>6, <1>7, <2>1, <3>2 DEF WordsInv
    <3> QED
      BY <3>1, <3>2
  <2> QED
    BY <1>5, <2>7 DEF WordsInv, ThreadArg
<1>11. ProgressInv'
  <2>1. next[t] # Len(order) => next[t] + 1 \in 1 .. Len(order)
    BY <1>2
  <2> QED
    BY <1>1, <1>2, <1>5, <1>6, <2>1, SMTT(30) DEF ProgressInv, ThreadArg
<1>12. ScanInv'
  <2>1. \A u \in Thread : Scanned(u)' <=> Scanned(u)
    BY <1>5 DEF Scanned
  <2> QED
    BY <1>1, <1>2, <1>5, <2>1 DEF ScanInv
<1>13. LiveInv'
  <2>1. app # "closed"
    BY <1>1, <1>2 DEF LiveInv
  <2>2. UNCHANGED <<config, gbl, updVars, live>> /\ app' = app
    BY <1>5
  <2> QED
    BY <1>1, <2>1, <2>2, SameLive DEF LiveInv
<1> QED
  BY <1>9, <1>10, <1>11, <1>12, <1>13 DEF ExchangeInv

\* The application, up to and including the end of ac_threaded_pipe_close, which destroys
\* every argument that is left.
LEMMA AppStep ==
  ASSUME IInv, App \/ ParentEnds \/ UpdateSleep \/ UpdateNothing \/ ScanAgain \/ UNCHANGED vars
  PROVE  ExchangeInv'
<1> USE DEF appVars, pipeVars, updVars, threadVars
<1>1. /\ UpdateTypes /\ ThreadTypes /\ ExchangeInv
      /\ ArgumentsInv /\ WordsInv /\ ProgressInv /\ ScanInv /\ LiveInv
  BY DEF IInv, TypeOK, ExchangeInv
<1>2. CASE JoinThreads
  <2>1. UNCHANGED <<config, gbl, updVars, word, thread_arg, global_arg, old_arg, order, pc, next>>
    BY <1>2 DEF JoinThreads
  <2>2. /\ ArgumentsInv' /\ WordsInv' /\ ScanInv'
        /\ \A t \in Thread : \A j \in 0 .. 7 : Stored(t, j)' <=> Stored(t, j)
    BY <1>1, <2>1, SameExchange
  <2>3. ProgressInv'
    BY <1>1, <2>1, <2>2 DEF ProgressInv, ThreadArg
  <2>4. app = "join threads" /\ upd = "gone" /\ app' = "closed" /\ \A t \in Thread : pc[t] = "gone"
    BY <1>1, <1>2 DEF JoinThreads, LiveInv
  <2>5. ~Exchanging /\ \A t \in Thread : ~Stored(t, 0) /\ ~Stored(t, 7)
    BY <2>4 DEF Exchanging, Stored
  <2>6. \A t \in Thread : thread_arg[t] = ThreadArg(t, gbl)
    BY <1>1, <2>5 DEF ArgumentsInv
  <2>7. live = {a \in Args \ {Null} : a = gbl \/ \E t \in Thread : a = ThreadArg(t, gbl)}
    BY <1>1, <2>4, <2>5 DEF LiveInv, CurrentArguments
  <2>8. live' = live \ ({thread_arg[t] : t \in Thread} \cup {gbl})
    BY <1>2 DEF JoinThreads
  <2>9. live' = {}
    BY <2>6, <2>7, <2>8
  <2>10. LiveInv'
    BY <2>1, <2>4, <2>9 DEF LiveInv
  <2> QED
    BY <2>2, <2>3, <2>10 DEF ExchangeInv
<1>3. CASE UpdateSleep \/ UpdateNothing
  <2>1. /\ UNCHANGED <<config, gbl, upd_thread, upd_word, found, new_gbl, word, thread_arg,
                       global_arg, old_arg, order, pc, next, live, app>>
        /\ upd \in {"sleep", "create"} /\ upd' \in {"sleep", "create", "gone"}
    BY <1>3 DEF UpdateSleep, UpdateNothing
  <2>2. /\ \A t \in Thread : \A j \in 0 .. 7 : ~Stored(t, j)' /\ ~Stored(t, j)
        /\ \A t \in Thread : \A j \in 0 .. 7 : Cleared(t, j)' <=> Cleared(t, j)
        /\ (\A t \in Thread : ~Scanned(t)') /\ ~Exchanging /\ ~Exchanging'
    BY <2>1 DEF Stored, Cleared, Scanned, Exchanging
  <2>3. ArgumentsInv'
    BY <1>1, <2>1, <2>2 DEF ArgumentsInv, ThreadArg
  <2>4. WordsInv'
    BY <1>1, <2>1, <2>2 DEF WordsInv, ThreadArg
  <2>5. ProgressInv'
    BY <1>1, <2>1, <2>2 DEF ProgressInv, ThreadArg
  <2>6. ScanInv'
    BY <2>1, <2>2 DEF ScanInv
  <2>7. app \notin {"join threads", "closed"}
    BY <1>1, <2>1 DEF LiveInv
  <2>8. LiveInv'
    <3>0. \A t \in Thread : Stored(t, 0)' <=> Stored(t, 0)
      BY <2>2
    <3>1. Exchanging' <=> Exchanging
      BY <2>1 DEF Exchanging
    <3>2. CurrentArguments' = CurrentArguments
      BY <2>1, <3>0, <3>1 DEF CurrentArguments, ThreadArg
    <3> QED
      BY <1>1, <2>1, <2>7, <3>2 DEF LiveInv
  <2> QED
    BY <2>3, <2>4, <2>5, <2>6, <2>8 DEF ExchangeInv
<1>4. CASE ScanAgain
  <2>1. /\ UNCHANGED <<config, gbl, upd_thread, upd_word, new_gbl, word, thread_arg,
                       global_arg, old_arg, order, pc, next, live, app>>
        /\ upd = "scanned" /\ upd' = "scan" /\ upd_thread = 1
    BY <1>1, <1>4 DEF ScanAgain, ScanInv
  <2>2. /\ \A t \in Thread : \A j \in 0 .. 7 : Stored(t, j)' /\ Stored(t, j)
        /\ \A t \in Thread : \A j \in 0 .. 7 : Cleared(t, j)' <=> Cleared(t, j)
        /\ Exchanging /\ Exchanging'
    BY <2>1 DEF Stored, Cleared, Exchanging
  <2>3. \A t \in Thread : ~Scanned(t)'
    BY <2>1 DEF Scanned, Thread
  <2>4. ArgumentsInv'
    BY <1>1, <2>1, <2>2 DEF ArgumentsInv, ThreadArg
  <2>5. WordsInv'
    BY <1>1, <2>1, <2>2 DEF WordsInv, ThreadArg
  <2>6. ProgressInv'
    BY <1>1, <2>1, <2>2 DEF ProgressInv, ThreadArg
  <2>7. ScanInv'
    BY <2>1, <2>3 DEF ScanInv
  <2>8. app \notin {"join threads", "closed"}
    BY <1>1, <2>1 DEF LiveInv
  <2>9. LiveInv'
    <3>0. \A t \in Thread : Stored(t, 0)' <=> Stored(t, 0)
      BY <2>2
    <3>1. Exchanging' <=> Exchanging
      BY <2>1 DEF Exchanging
    <3>2. CurrentArguments' = CurrentArguments
      BY <2>1, <3>0, <3>1 DEF CurrentArguments, ThreadArg
    <3> QED
      BY <1>1, <2>1, <2>8, <3>2 DEF LiveInv
  <2> QED
    BY <2>4, <2>5, <2>6, <2>7, <2>9 DEF ExchangeInv
<1>5. CASE (\E o \in todo : Write(o)) \/ WriteClose \/ SetDone \/ JoinUpdate \/ ParentEnds
           \/ UNCHANGED vars
  <2>1. /\ UNCHANGED <<config, gbl, updVars, word, thread_arg, global_arg, old_arg, order, pc, next,
                       live>>
        /\ app' = "closed" <=> app = "closed"
        /\ app' \in {"join threads", "closed"} => upd = "gone" \/ app' = app
    BY <1>5 DEF Write, WriteClose, SetDone, JoinUpdate, ParentEnds, vars
  <2>2. /\ ArgumentsInv' /\ WordsInv' /\ ScanInv'
        /\ \A t \in Thread : \A j \in 0 .. 7 : Stored(t, j)' <=> Stored(t, j)
    BY <1>1, <2>1, SameExchange
  <2>3. ProgressInv'
    <3>1. UNCHANGED <<config, gbl, new_gbl, global_arg, old_arg, order, pc, next>>
      BY <2>1
    <3>2. \A t \in Thread : Stored(t, 7)' <=> Stored(t, 7)
      BY <2>2
    <3> QED
      BY <1>1, <3>1, <3>2 DEF ProgressInv, ThreadArg
  <2>4. /\ app' \in {"join threads", "closed"} => upd = "gone"
        /\ app' = "closed" => \A t \in Thread : pc'[t] = "gone"
    BY <1>1, <2>1 DEF LiveInv
  <2>5. LiveInv'
    BY <1>1, <2>1, <2>4, SameLive
  <2> QED
    BY <2>2, <2>3, <2>5 DEF ExchangeInv
<1> QED
  BY <1>2, <1>3, <1>4, <1>5 DEF App

\* A new global argument begins an exchange in which nothing is stored yet.
LEMMA CreateGlobalStep ==
  ASSUME IInv, NEW g \in Globals, CreateGlobal(g)
  PROVE  ExchangeInv'
<1> USE DEF appVars, pipeVars, threadVars
<1>1. /\ UpdateTypes /\ ThreadTypes
      /\ ArgumentsInv /\ WordsInv /\ ProgressInv /\ ScanInv /\ LiveInv
  BY DEF IInv, TypeOK, ExchangeInv
<1>2. /\ UNCHANGED <<config, gbl, found, word, thread_arg, global_arg, old_arg, order, pc, next, app>>
      /\ upd = "create" /\ upd' = "store" /\ upd_thread' = 1 /\ upd_word' = 0
      /\ new_gbl' = g /\ live' = live \cup {g} /\ g \notin live
  BY <1>1 DEF CreateGlobal
<1>3. /\ \A t \in Thread : \A j \in 0 .. 7 : ~Stored(t, j)' /\ ~Stored(t, j)
      /\ (\A t \in Thread : ~Scanned(t)') /\ ~Exchanging /\ Exchanging'
  BY <1>2 DEF Stored, Scanned, Exchanging, Thread
<1>4. app \notin {"join threads", "closed"}
  BY <1>1, <1>2 DEF LiveInv
<1>5. Null \notin Globals /\ Globals \subseteq Args \ {Null}
  BY PipeAssumption DEF Args
<1>6. gbl \in live /\ g # gbl
  BY <1>1, <1>2, <1>4, <1>5 DEF LiveInv, CurrentArguments, UpdateTypes
<1>7. \A t \in Thread : global_arg[t] = gbl
  BY <1>1, <1>3 DEF ArgumentsInv
<1>8. \A t \in Thread : pc[t] # "store"
  BY <1>1, <1>7 DEF ArgumentsInv, ProgressInv
<1>9. ArgumentsInv'
  BY <1>1, <1>2, <1>6, <1>7 DEF ArgumentsInv, ThreadArg
<1>10. WordsInv'
  BY <1>1, <1>2, <1>3 DEF WordsInv, ThreadArg
<1>11. ProgressInv'
  BY <1>1, <1>2, <1>3, <1>8 DEF ProgressInv, ThreadArg
<1>12. ScanInv'
  BY <1>2, <1>3 DEF ScanInv
<1>13. LiveInv'
  <2>1. ~Exchanging /\ \A t \in Thread : ~Stored(t, 0)
    BY <1>3
  <2>2. CurrentArguments = {b \in Args \ {Null} : b = gbl \/ \E t \in Thread : b = ThreadArg(t, gbl)}
    BY <2>1 DEF CurrentArguments
  <2>3. Exchanging' /\ \A t \in Thread : ~Stored(t, 0)'
    BY <1>3
  <2>4. CurrentArguments' = {b \in Args \ {Null} : \/ b = gbl \/ b = g
                                                  \/ \E t \in Thread : b = ThreadArg(t, gbl)}
    BY <1>2, <2>3 DEF CurrentArguments, ThreadArg
  <2>5. CurrentArguments \subseteq Args \ {Null} /\ CurrentArguments' \subseteq Args \ {Null}
    BY DEF CurrentArguments
  <2>6. CurrentArguments' = CurrentArguments \cup {g}
    BY <1>5, <2>2, <2>4, <2>5
  <2> QED
    BY <1>1, <1>2, <1>4, <2>6 DEF LiveInv
<1> QED
  BY <1>9, <1>10, <1>11, <1>12, <1>13 DEF ExchangeInv

\* update_task stores one more word of one thread, which is not in the exchange yet.
LEMMA StoreWordStep ==
  ASSUME IInv, StoreWord
  PROVE  ExchangeInv'
<1> USE DEF appVars, pipeVars, threadVars
<1>1. /\ UpdateTypes /\ ThreadTypes /\ TypeOK /\ word \in [Thread -> [0 .. 7 -> Args]]
      /\ ArgumentsInv /\ WordsInv /\ ProgressInv /\ ScanInv /\ LiveInv
  BY DEF IInv, TypeOK, ExchangeInv
<1>2. PICK t \in Thread, j \in 0 .. 7 : t = upd_thread /\ j = upd_word
  BY <1>1 DEF UpdateTypes
<1>3. /\ UNCHANGED <<config, gbl, new_gbl, thread_arg, global_arg, old_arg, order, pc, next, app>>
      /\ upd = "store" /\ upd' = (IF j = 7 /\ t = NumThreads THEN "scan" ELSE "store")
      /\ word' = [word EXCEPT ![t][j] = NewWord(t, j)]
      /\ live' = IF j = 0 THEN (live \cup {NewWord(t, j)}) \ {Null} ELSE live
  BY <1>2 DEF StoreWord
<1>4. NumThreads \in Nat \ {0} /\ new_gbl \in Globals
  BY <1>1, <1>3, PipeAssumption DEF UpdateTypes, Exchanging
<1>5. /\ upd_word' = IF j = 7 THEN 0 ELSE j + 1
      /\ upd_thread' = IF j < 7 THEN t ELSE IF t = NumThreads THEN 1 ELSE t + 1
  BY <1>2, <1>4, NextThread DEF StoreWord, Thread
<1>6. ~Stored(t, j) /\ ~Stored(t, 7)
  BY <1>2, <1>3, <1>4 DEF Stored, Thread
<1>7. ASSUME NEW u \in Thread, NEW k \in 0 .. 7
      PROVE  Stored(u, k)' <=> Stored(u, k) \/ (u = t /\ k = j)
  <2>1. Stored(u, k) <=> u < t \/ (u = t /\ k < j)
    BY <1>2, <1>3 DEF Stored
  <2>2. CASE j # 7
    <3>1. Stored(u, k)' <=> u < t \/ (u = t /\ k < j + 1)
      BY <1>3, <1>4, <1>5, <2>2 DEF Stored
    <3> QED
      BY <1>4, <2>1, <3>1 DEF Thread
  <2>3. CASE j = 7 /\ t # NumThreads
    <3>1. Stored(u, k)' <=> u < t + 1
      BY <1>3, <1>4, <1>5, <2>3 DEF Stored
    <3> QED
      BY <1>4, <2>1, <2>3, <3>1 DEF Thread
  <2>4. CASE j = 7 /\ t = NumThreads
    <3>1. Stored(u, k)'
      BY <1>3, <2>4 DEF Stored
    <3> QED
      BY <1>4, <2>1, <2>4, <3>1 DEF Thread
  <2> QED
    BY <2>2, <2>3, <2>4
<1>8. global_arg[t] = gbl /\ global_arg[t] # new_gbl /\ thread_arg[t] = ThreadArg(t, gbl)
  BY <1>1, <1>4, <1>6 DEF ArgumentsInv
<1>9. \A u \in Thread : \A k \in 0 .. 7 : Cleared(u, k)' <=> Cleared(u, k)
  BY <1>3 DEF Cleared
<1>10. ArgumentsInv'
  <2>1. \A u \in Thread : Stored(u, 7) => Stored(u, 7)'
    BY <1>7
  <2> QED
    BY <1>1, <1>3, <2>1 DEF ArgumentsInv, ThreadArg
<1>11. WordsInv'
  <2>1. \A u \in Thread \ {t} : word'[u] = word[u]
    BY <1>1, <1>3
  <2>2. \A k \in 0 .. 7 : word'[t][k] = IF k = j THEN NewWord(t, j) ELSE word[t][k]
    BY <1>1, <1>3, <1>4
  <2>3. ASSUME NEW u \in Thread
        PROVE  /\ word'[u][7] = IF Stored(u, 7)' THEN new_gbl ELSE gbl
               /\ \A k \in 2 .. 6 : word'[u][k] = IF Stored(u, k)' /\ ~Cleared(u, k)' THEN new_gbl ELSE Null
               /\ word'[u][0] = ThreadArg(u, IF Stored(u, 0)' THEN new_gbl ELSE gbl)
               /\ word'[u][1] \in {Null, ThreadArg(u, gbl)}
               /\ ~Stored(u, 0)' => word'[u][1] = ThreadArg(u, gbl)
    <3>1. CASE u # t
      <4>1. \A k \in 0 .. 7 : Stored(u, k)' <=> Stored(u, k)
        BY <1>7, <3>1
      <4> QED
        BY <1>1, <1>9, <2>1, <3>1, <4>1 DEF WordsInv
    <3>2. CASE u = t
      <4>1. \A k \in 0 .. 7 : Stored(t, k)' <=> Stored(t, k) \/ k = j
        BY <1>4, <1>7
      <4>2. \A k \in 0 .. 7 : ~Cleared(t, k)'
        BY <1>8, <1>9, <1>4 DEF Cleared
      <4>3. word'[t][7] = IF Stored(t, 7)' THEN new_gbl ELSE gbl
        BY <1>1, <1>4, <1>6, <2>2, <4>1 DEF WordsInv, NewWord
      <4>4. ASSUME NEW k \in 2 .. 6
            PROVE  word'[t][k] = IF Stored(t, k)' /\ ~Cleared(t, k)' THEN new_gbl ELSE Null
        <5>1. ~Cleared(t, k)' /\ ~Cleared(t, k) /\ (Stored(t, k)' <=> Stored(t, k) \/ k = j)
          BY <1>4, <1>9, <4>1, <4>2
        <5>2. CASE k = j
          BY <2>2, <5>1, <5>2 DEF NewWord
        <5>3. CASE k # j
          BY <1>1, <1>4, <2>2, <5>1, <5>3 DEF WordsInv
        <5> QED
          BY <5>2, <5>3
      <4>5. word'[t][0] = ThreadArg(t, IF Stored(t, 0)' THEN new_gbl ELSE gbl)
        <5>1. CASE j = 0
          <6>1. Stored(t, 0)' /\ word'[t][0] = NewWord(t, 0)
            BY <1>4, <2>2, <4>1, <5>1
          <6>2. NewWord(t, 0) = ThreadArg(t, new_gbl)
            BY <1>8 DEF NewWord, ThreadArg
          <6> QED
            BY <6>1, <6>2
        <5>2. CASE j # 0
          <6>1. (Stored(t, 0)' <=> Stored(t, 0)) /\ word'[t][0] = word[t][0]
            BY <1>4, <2>2, <4>1, <5>2
          <6> QED
            BY <1>1, <1>4, <6>1 DEF WordsInv
        <5> QED
          BY <5>1, <5>2
      <4>6. word'[t][1] \in {Null, ThreadArg(t, gbl)}
        BY <1>1, <1>4, <2>2 DEF WordsInv, NewWord
      <4>7. Stored(t, 0)'
        <5>1. j = 0 \/ Stored(t, 0)
          BY <1>2, <1>3, <1>4 DEF Stored
        <5> QED
          BY <4>1, <5>1
      <4> QED
        BY <3>2, <4>3, <4>4, <4>5, <4>6, <4>7
    <3> QED
      BY <3>1, <3>2
  <2> QED
    BY <1>3, <2>3 DEF WordsInv, ThreadArg
<1>12. ProgressInv'
  <2>1. \A u \in Thread : Stored(u, 7) => Stored(u, 7)'
    BY <1>7
  <2> QED
    BY <1>1, <1>3, <2>1 DEF ProgressInv, ThreadArg
<1>13. ScanInv'
  <2>1. \A u \in Thread : ~Scanned(u)'
    BY <1>3, <1>4, <1>5 DEF Scanned, Thread
  <2> QED
    BY <1>3, <2>1 DEF ScanInv
<1>14. LiveInv'
  <2>1. app \notin {"join threads", "closed"} /\ app' = app /\ live = CurrentArguments
    BY <1>1, <1>3 DEF LiveInv
  <2>2. Exchanging /\ Exchanging'
    BY <1>3 DEF Exchanging
  <2>3. \A u \in Thread : Stored(u, 0)' <=> Stored(u, 0) \/ (u = t /\ j = 0)
    BY <1>7
  <2>4. CASE j = 0
    <3>1. NewWord(t, j) = ThreadArg(t, new_gbl)
      BY <1>8, <2>4 DEF NewWord, ThreadArg
    <3>2. ThreadArg(t, new_gbl) \in Args
      BY <1>4, ThreadArgType DEF Args
    <3>3. CurrentArguments' = {b \in Args \ {Null} : \/ b \in CurrentArguments
                                                    \/ b = ThreadArg(t, new_gbl)}
      BY <1>3, <1>4, <2>2, <2>3, <2>4 DEF CurrentArguments, ThreadArg
    <3>4. CurrentArguments \subseteq Args \ {Null}
      BY DEF CurrentArguments
    <3>5. live' = CurrentArguments'
      BY <1>3, <2>1, <2>4, <3>1, <3>2, <3>3, <3>4
    <3> QED
      BY <2>1, <3>5 DEF LiveInv
  <2>5. CASE j # 0
    <3>1. \A u \in Thread : Stored(u, 0)' <=> Stored(u, 0)
      BY <2>3, <2>5
    <3>2. CurrentArguments' = CurrentArguments
      BY <1>3, <2>2, <3>1 DEF CurrentArguments, ThreadArg
    <3> QED
      BY <1>3, <2>1, <2>5, <3>2 DEF LiveInv
  <2> QED
    BY <2>4, <2>5
<1> QED
  BY <1>10, <1>11, <1>12, <1>13, <1>14 DEF ExchangeInv

\* A thread that is not pending: it has no argument of its own, it has the new global
\* argument, and it has set all its words back.
LEMMA NotPending ==
  ASSUME IInv, NEW t \in Thread, upd = "scan", ~Pending(t)
  PROVE  /\ ~config.thread_args /\ global_arg[t] = new_gbl /\ pc[t] # "store"
         /\ word[t][0] = Null /\ word[t][1] = Null
<1>1. /\ UpdateTypes /\ ThreadTypes /\ ProgressInv /\ WordsInv /\ ArgumentsInv
  BY DEF IInv, TypeOK, ExchangeInv
<1>2. /\ \A j \in 2 .. 6 : word[t][j] = Null
      /\ word[t][0] = word[t][1]
  BY DEF Pending
<1>3. \A j \in 0 .. 7 : Stored(t, j)
  BY DEF Stored
<1>4. new_gbl \in Globals /\ new_gbl # gbl /\ Null \notin Globals \cup (Thread \X Globals)
  BY <1>1, PipeAssumption DEF UpdateTypes, ArgumentsInv, Exchanging
<1>5. Cleared(t, 6)
  BY <1>1, <1>2, <1>3, <1>4 DEF WordsInv
<1>6. global_arg[t] = new_gbl /\ pc[t] # "store"
  <2>1. global_arg[t] = new_gbl
    BY <1>5 DEF Cleared
  <2>2. ASSUME pc[t] = "store" PROVE FALSE
    <3>1. PICK i \in 1 .. next[t] - 1 : order[i] = 6
      BY <1>5, <2>2 DEF Cleared
    <3>2. next[t] \in 1 .. Len(order) /\ order \in StoreOrders
      BY <1>1, <2>2 DEF ProgressInv, ThreadTypes
    <3>3. Len(order) \in 6 .. 7
      BY <3>2, OrderLemma
    <3>4. i \in 1 .. Len(order) /\ i # Len(order)
      BY <3>2, <3>3
    <3> QED
      BY <3>1, <3>2, <3>4, OrderLemma
  <2> QED
    BY <2>1, <2>2
<1>7. word[t][0] = ThreadArg(t, new_gbl) /\ word[t][1] \in {Null, ThreadArg(t, gbl)}
  BY <1>1, <1>3 DEF WordsInv
<1>8. ~config.thread_args
  <2>1. ASSUME config.thread_args PROVE FALSE
    <3>1. word[t][0] = <<t, new_gbl>> /\ word[t][1] \in {Null, <<t, gbl>>}
      BY <1>7, <2>1 DEF ThreadArg
    <3>2. <<t, new_gbl>> \in Thread \X Globals
      BY <1>4
    <3>3. <<t, new_gbl>> # Null /\ <<t, new_gbl>> # <<t, gbl>>
      BY <1>4, <3>2
    <3> QED
      BY <1>2, <3>1, <3>3
  <2> QED
    BY <2>1
<1>9. word[t][0] = Null /\ word[t][1] = Null
  BY <1>2, <1>7, <1>8 DEF ThreadArg
<1> QED
  BY <1>6, <1>8, <1>9

LEMMA ScanStep ==
  ASSUME IInv, Scan
  PROVE  ExchangeInv'
<1> USE DEF appVars, pipeVars, threadVars
<1>1. /\ UpdateTypes /\ ThreadTypes /\ word \in [Thread -> [0 .. 7 -> Args]]
      /\ ArgumentsInv /\ WordsInv /\ ProgressInv /\ ScanInv /\ LiveInv
  BY DEF IInv, TypeOK, ExchangeInv
<1>2. PICK t \in Thread : t = upd_thread
  BY <1>1 DEF UpdateTypes
<1>3. /\ UNCHANGED <<config, gbl, new_gbl, thread_arg, global_arg, old_arg, order, pc, next, app>>
      /\ upd = "scan" /\ upd' = (IF t = NumThreads THEN "scanned" ELSE "scan")
      /\ upd_thread' = (t % NumThreads) + 1
      /\ found' = (found \/ Pending(t))
  BY <1>2 DEF Scan
<1>4. NumThreads \in Nat \ {0} /\ Null \notin Args \ {Null}
  BY PipeAssumption
<1>5. upd_thread' = IF t = NumThreads THEN 1 ELSE t + 1
  BY <1>3, <1>4, NextThread DEF Thread
<1>6. word' = word /\ live' = live
  <2>1. CASE Pending(t)
    BY <1>2, <2>1 DEF Scan
  <2>2. CASE ~Pending(t)
    <3>1. word[t][0] = Null /\ word[t][1] = Null
      BY <1>3, <2>2, NotPending
    <3>2. word' = [word EXCEPT ![t][1] = Null] /\ live' = live \ {Null}
      BY <1>2, <2>2, <3>1 DEF Scan
    <3> QED
      BY <1>1, <3>1, <3>2 DEF UpdateTypes
  <2> QED
    BY <2>1, <2>2
<1>7. /\ Exchanging /\ Exchanging'
      /\ \A u \in Thread : \A j \in 0 .. 7 : Stored(u, j) /\ Stored(u, j)'
      /\ \A u \in Thread : \A j \in 0 .. 7 : Cleared(u, j)' <=> Cleared(u, j)
  BY <1>3 DEF Stored, Cleared, Exchanging
<1>8. ArgumentsInv'
  BY <1>1, <1>3, <1>7 DEF ArgumentsInv, ThreadArg
<1>9. WordsInv'
  BY <1>1, <1>3, <1>6, <1>7 DEF WordsInv, ThreadArg
<1>10. ProgressInv'
  BY <1>1, <1>3, <1>7 DEF ProgressInv, ThreadArg
<1>11. ScanInv'
  <2>1. ASSUME NEW u \in Thread, Scanned(u)' PROVE Scanned(u) \/ u = t
    BY <1>2, <1>3, <1>4, <1>5, <2>1 DEF Scanned, Thread
  <2>2. ASSUME NEW u \in Thread, Scanned(u)', ~found'
        PROVE  ~config.thread_args /\ global_arg[u] = new_gbl /\ pc[u] # "store"
    <3>1. ~found /\ ~Pending(t)
      BY <1>3, <2>2
    <3>2. CASE Scanned(u)
      BY <1>1, <3>1, <3>2 DEF ScanInv
    <3>3. CASE u = t
      BY <1>3, <3>1, <3>3, NotPending
    <3> QED
      BY <2>1, <2>2, <3>2, <3>3
  <2>3. upd' = "scanned" => upd_thread' = 1
    BY <1>3, <1>5
  <2> QED
    BY <1>3, <2>2, <2>3 DEF ScanInv
<1>12. LiveInv'
  <2>1. app \notin {"join threads", "closed"} /\ live = CurrentArguments
    BY <1>1, <1>3 DEF LiveInv
  <2>2. \A u \in Thread : Stored(u, 0)' <=> Stored(u, 0)
    BY <1>7
  <2>3. Exchanging' <=> Exchanging
    BY <1>7
  <2>4. CurrentArguments' = CurrentArguments
    BY <1>3, <2>2, <2>3 DEF CurrentArguments, ThreadArg
  <2> QED
    BY <1>3, <1>6, <2>1, <2>4 DEF LiveInv
<1> QED
  BY <1>8, <1>9, <1>10, <1>11, <1>12 DEF ExchangeInv

\* Every thread has taken the new global argument over when the old one is destroyed.
LEMMA ReplaceGlobalStep ==
  ASSUME IInv, ReplaceGlobal
  PROVE  ExchangeInv'
<1> USE DEF appVars, pipeVars, threadVars
<1>1. /\ UpdateTypes /\ ThreadTypes
      /\ ArgumentsInv /\ WordsInv /\ ProgressInv /\ ScanInv /\ LiveInv
  BY DEF IInv, TypeOK, ExchangeInv
<1>2. /\ UNCHANGED <<config, word, thread_arg, global_arg, old_arg, order, pc, next, app>>
      /\ upd = "scanned" /\ ~found /\ upd' = "sleep" /\ upd_thread' = upd_thread
      /\ gbl' = new_gbl /\ new_gbl' = Null /\ live' = live \ {gbl}
  BY DEF ReplaceGlobal
<1>3. \A t \in Thread : ~config.thread_args /\ global_arg[t] = new_gbl /\ pc[t] # "store"
  BY <1>1, <1>2 DEF ScanInv, Scanned
<1>4. new_gbl \in Globals /\ gbl # new_gbl /\ Null \notin Globals /\ Globals \subseteq Args \ {Null}
  BY <1>1, <1>2, PipeAssumption DEF UpdateTypes, ArgumentsInv, Exchanging, Args
<1>5. \A t \in Thread : \A j \in 0 .. 7 : Stored(t, j) /\ ~Stored(t, j)' /\ Cleared(t, j)
  BY <1>2, <1>3 DEF Stored, Cleared
<1>6. (\A t \in Thread : ~Scanned(t)') /\ Exchanging /\ ~Exchanging'
  BY <1>2 DEF Scanned, Exchanging
<1>7. \A t \in Thread : \A g \in Globals : ThreadArg(t, g) = Null /\ ThreadArg(t, g)' = Null
  BY <1>2, <1>3 DEF ThreadArg
<1>8. \A t \in Thread : thread_arg[t] = Null
  BY <1>1, <1>3, <1>4, <1>7 DEF ArgumentsInv
<1>9. ArgumentsInv'
  <2>1. \A t \in Thread : ThreadArg(t, global_arg[t])' = Null
    BY <1>2, <1>3 DEF ThreadArg
  <2> QED
    BY <1>2, <1>3, <1>4, <1>8, <2>1 DEF ArgumentsInv
<1>10. WordsInv'
  <2>1. ASSUME NEW t \in Thread
        PROVE  /\ word[t][7] = new_gbl /\ \A j \in 2 .. 6 : word[t][j] = Null
               /\ word[t][0] = Null /\ word[t][1] = Null
    <3>1. gbl \in Globals
      BY <1>1 DEF UpdateTypes
    <3> QED
      BY <1>1, <1>4, <1>5, <1>7, <3>1 DEF WordsInv
  <2>2. ASSUME NEW t \in Thread
        PROVE  /\ word'[t][7] = IF Stored(t, 7)' THEN new_gbl' ELSE gbl'
               /\ \A j \in 2 .. 6 : word'[t][j] = IF Stored(t, j)' /\ ~Cleared(t, j)' THEN new_gbl' ELSE Null
               /\ word'[t][0] = Null /\ word'[t][1] = Null
               /\ ThreadArg(t, gbl)' = Null /\ ThreadArg(t, IF Stored(t, 0) THEN new_gbl ELSE gbl)' = Null
    BY <1>2, <1>3, <1>5, <2>1 DEF ThreadArg
  <2> QED
    BY <2>2 DEF WordsInv
<1>11. ProgressInv'
  <2>1. \A t \in Thread : global_arg[t] # gbl /\ pc[t] # "store"
    BY <1>3, <1>4
  <2>2. \A t \in Thread : pc[t] # "take" /\ (pc[t] = "compare" => next[t] = 7)
    BY <1>1, <2>1 DEF ProgressInv, ThreadTypes
  <2> QED
    BY <1>1, <1>2, <2>1, <2>2 DEF ProgressInv
<1>12. ScanInv'
  BY <1>2, <1>6 DEF ScanInv
<1>13. LiveInv'
  <2>1. app \notin {"join threads", "closed"} /\ live = CurrentArguments
    BY <1>1, <1>2 DEF LiveInv
  <2>2. gbl \in Globals /\ \A t \in Thread : ThreadArg(t, gbl) = Null /\ ThreadArg(t, new_gbl) = Null
    BY <1>1, <1>4, <1>7 DEF UpdateTypes
  <2>3. CurrentArguments = {gbl, new_gbl}
    BY <1>4, <1>6, <2>2 DEF CurrentArguments
  <2>4. \A t \in Thread : ThreadArg(t, gbl)' = Null /\ ~Stored(t, 0)'
    BY <1>2, <1>3, <1>5 DEF ThreadArg
  <2>5. CurrentArguments' = {new_gbl}
    BY <1>2, <1>4, <1>6, <2>4 DEF CurrentArguments
  <2>6. live' = CurrentArguments'
    BY <1>2, <1>4, <2>1, <2>3, <2>5
  <2> QED
    BY <1>2, <2>1, <2>6 DEF LiveInv
<1> QED
  BY <1>9, <1>10, <1>11, <1>12, <1>13 DEF ExchangeInv

LEMMA ExchangeStep == IInv /\ [Next]_vars => ExchangeInv'
<1> SUFFICES ASSUME IInv, [Next]_vars PROVE ExchangeInv'
  OBVIOUS
<1>1. CASE App \/ ParentEnds \/ UpdateSleep \/ UpdateNothing \/ ScanAgain \/ UNCHANGED vars
  BY <1>1, AppStep
<1>2. CASE \E g \in Globals : CreateGlobal(g)
  BY <1>2, CreateGlobalStep
<1>3. CASE StoreWord \/ Scan \/ ReplaceGlobal
  BY <1>3, StoreWordStep, ScanStep, ReplaceGlobalStep
<1>4. ASSUME NEW t \in Thread, Task(t) PROVE ExchangeInv'
  BY <1>4, TakeStep, StoreOwnStep, QuietTaskStep DEF Task
<1> QED
  BY <1>1, <1>2, <1>3, <1>4 DEF Next, Update

\* The steps that neither move an object nor close an end of the pipe.
LEMMA SameDelivery ==
  ASSUME DeliveryInv, UNCHANGED <<pipe, todo, entered, handled, object, read_open, write_open>>,
         \A t \in Thread : /\ pc'[t] = "call" <=> pc[t] = "call"
                           /\ pc'[t] \in {"close", "gone"} => pc[t] \in {"close", "gone"},
         app' = "open" => app = "open"
  PROVE  DeliveryInv'
<1>1. CloseIsLast'
  BY DEF DeliveryInv, CloseIsLast
<1>2. \A t \in Thread : \A o \in Objects : Called(t, o)' <=> Called(t, o)
  BY DEF Called
<1>3. \A o \in Objects : InPipe(o)' <=> InPipe(o)
  BY DEF InPipe
<1>4. InOnePlace'
  BY <1>2, <1>3 DEF DeliveryInv, InOnePlace
<1> QED
  BY <1>1, <1>4 DEF DeliveryInv

LEMMA WriteDelivery ==
  ASSUME IInv, NEW o \in todo, Write(o)
  PROVE  DeliveryInv'
<1> USE DEF appVars, pipeVars, updVars, threadVars
<1>1. /\ ApplicationTypes /\ ThreadTypes /\ CloseIsLast /\ InOnePlace
  BY DEF IInv, TypeOK, DeliveryInv
<1>2. /\ UNCHANGED <<app, read_open, write_open, handled, object, pc>> /\ app = "open"
      /\ WritePipe(o) /\ todo' = todo \ {o}
      /\ entered' = IF Len(pipe) < config.capacity THEN entered \cup {o} ELSE entered
  BY DEF Write
<1>3. o \in Objects /\ o # Close /\ o \notin entered /\ Len(pipe) \in Nat
  <2>1. Len(pipe) \in Nat
    BY <1>1, PipeLemma, Zenon
  <2>2. todo \subseteq Objects /\ todo \cap entered = {} /\ Close \notin Objects
    BY <1>1, PipeAssumption, Zenon DEF ApplicationTypes, InOnePlace
  <2> QED
    BY <2>1, <2>2
<1>4. CASE ~(Len(pipe) < config.capacity)
  <2>1. pipe' = pipe /\ entered' = entered
    BY <1>2, <1>4 DEF WritePipe
  <2>2. CloseIsLast'
    BY <1>1, <1>2, <2>1 DEF CloseIsLast
  <2>3. /\ \A t \in Thread : \A b \in Objects : Called(t, b)' <=> Called(t, b)
        /\ \A b \in Objects : InPipe(b)' <=> InPipe(b)
    BY <1>2, <2>1 DEF Called, InPipe
  <2>4. InOnePlace'
    BY <1>1, <1>2, <2>1, <2>3 DEF InOnePlace
  <2> QED
    BY <2>2, <2>4 DEF DeliveryInv
<1>5. CASE Len(pipe) < config.capacity
  <2>1. /\ Len(pipe') = Len(pipe) + 1 /\ entered' = entered \cup {o}
        /\ \A i \in 1 .. Len(pipe) : pipe'[i] = pipe[i]
        /\ pipe'[Len(pipe) + 1] = o
    BY <1>1, <1>2, <1>3, <1>5, PipeLemma
  <2>2. \A i \in 1 .. Len(pipe) + 1 : i \in 1 .. Len(pipe) \/ i = Len(pipe) + 1
    BY <1>3
  <2>3. CloseIsLast'
    <3>1. /\ \A i \in 1 .. Len(pipe) : pipe[i] # Close
          /\ read_open /\ write_open /\ \A t \in Thread : pc[t] \notin {"close", "gone"}
      BY <1>1, <1>2 DEF CloseIsLast
    <3>2. \A i \in 1 .. Len(pipe') : pipe'[i] # Close
      BY <1>3, <2>1, <2>2, <3>1
    <3> QED
      BY <1>2, <3>1, <3>2 DEF CloseIsLast
  <2>4. \A t \in Thread : \A b \in Objects : Called(t, b)' <=> Called(t, b)
    BY <1>2 DEF Called
  <2>5. ASSUME NEW b \in Objects PROVE InPipe(b)' <=> InPipe(b) \/ b = o
    <3>1. 1 .. Len(pipe') = (1 .. Len(pipe)) \cup {Len(pipe) + 1}
      BY <1>3, <2>1
    <3> QED
      BY <2>1, <3>1 DEF InPipe
  <2>6. handled[o] # 1 /\ ~InPipe(o) /\ \A t \in Thread : ~Called(t, o)
    BY <1>1, <1>3 DEF InOnePlace
  <2>7. \A i, k \in 1 .. Len(pipe') : pipe'[i] = pipe'[k] => i = k
    <3>1. \A i \in 1 .. Len(pipe) : pipe[i] # o
      BY <2>6 DEF InPipe
    <3> QED
      BY <1>1, <1>3, <2>1, <2>2, <3>1 DEF InOnePlace
  <2>8. todo' \cap entered' = {}
    BY <1>1, <1>2, <2>1 DEF InOnePlace
  <2>9. InOnePlace'
    BY <1>1, <1>2, <1>3, <2>1, <2>4, <2>5, <2>6, <2>7, <2>8 DEF InOnePlace
  <2> QED
    BY <2>3, <2>9 DEF DeliveryInv
<1> QED
  BY <1>4, <1>5

LEMMA WriteCloseDelivery ==
  ASSUME IInv, WriteClose
  PROVE  DeliveryInv'
<1> USE DEF appVars, pipeVars, updVars, threadVars
<1>1. /\ ApplicationTypes /\ ThreadTypes /\ CloseIsLast /\ InOnePlace
  BY DEF IInv, TypeOK, DeliveryInv
<1>2. /\ UNCHANGED <<todo, entered, read_open, write_open, handled, object, pc>>
      /\ WritePipe(Close) /\ app = "open" /\ app' = "set done"
  BY DEF WriteClose
<1>3. /\ \A i \in 1 .. Len(pipe) : pipe[i] # Close
      /\ read_open /\ write_open /\ \A t \in Thread : pc[t] \notin {"close", "gone"}
  BY <1>1, <1>2 DEF CloseIsLast
<1>4. Len(pipe) \in Nat /\ Close \notin Objects
  BY <1>1, PipeAssumption, PipeLemma
<1>5. /\ \A i \in 1 .. Len(pipe') : pipe'[i] = Close => i = Len(pipe')
      /\ \A i, k \in 1 .. Len(pipe') : pipe'[i] = pipe'[k] => i = k
      /\ \A o \in Objects : InPipe(o)' <=> InPipe(o)
  <2>1. CASE ~(Len(pipe) < config.capacity)
    <3>1. pipe' = pipe
      BY <1>2, <2>1 DEF WritePipe
    <3> QED
      BY <1>1, <1>3, <3>1 DEF InOnePlace, InPipe
  <2>2. CASE Len(pipe) < config.capacity
    <3>1. /\ Len(pipe') = Len(pipe) + 1
          /\ \A i \in 1 .. Len(pipe) : pipe'[i] = pipe[i]
          /\ pipe'[Len(pipe) + 1] = Close
      BY <1>1, <1>2, <2>2, PipeLemma
    <3>2. 1 .. Len(pipe') = (1 .. Len(pipe)) \cup {Len(pipe) + 1}
      BY <1>4, <3>1
    <3>3. \A i \in 1 .. Len(pipe') : pipe'[i] = Close => i = Len(pipe')
      BY <1>3, <3>1, <3>2
    <3>4. \A i, k \in 1 .. Len(pipe') : pipe'[i] = pipe'[k] => i = k
      BY <1>1, <1>3, <3>1, <3>2 DEF InOnePlace
    <3>5. \A o \in Objects : InPipe(o)' <=> InPipe(o)
      BY <1>4, <3>1, <3>2 DEF InPipe
    <3> QED
      BY <3>3, <3>4, <3>5
  <2> QED
    BY <2>1, <2>2
<1>6. \A t \in Thread : \A o \in Objects : Called(t, o)' <=> Called(t, o)
  BY <1>2 DEF Called
<1>7. CloseIsLast'
  BY <1>2, <1>3, <1>5 DEF CloseIsLast
<1>8. InOnePlace'
  BY <1>1, <1>2, <1>5, <1>6 DEF InOnePlace
<1> QED
  BY <1>7, <1>8 DEF DeliveryInv

\* An object goes from the pipe to one thread.
LEMMA ReadDelivery ==
  ASSUME IInv, NEW t \in Thread, Read(t)
  PROVE  DeliveryInv'
<1> USE DEF Goto, appVars, pipeVars, updVars, threadVars
<1>1. /\ ApplicationTypes /\ ThreadTypes /\ CloseIsLast /\ InOnePlace
  BY DEF IInv, TypeOK, DeliveryInv
<1> DEFINE l == IF Head(pipe) = Close THEN "close" ELSE "call"
<1>2. /\ UNCHANGED <<app, todo, entered, read_open, write_open, handled>>
      /\ pipe # <<>> /\ pipe' = Tail(pipe) /\ pc[t] = "reading"
      /\ object' = [object EXCEPT ![t] = Head(pipe)] /\ pc' = [pc EXCEPT ![t] = l]
  BY DEF Read
<1>3. /\ Len(pipe) \in Nat \ {0} /\ Head(pipe) = pipe[1] /\ pipe[1] \in Objects \cup {Close}
      /\ Len(pipe') = Len(pipe) - 1
      /\ \A i \in 1 .. Len(pipe) - 1 : pipe'[i] = pipe[i + 1]
      /\ pipe' \in Seq(Objects \cup {Close}) /\ Close \notin Objects
  <2>1. /\ Len(pipe) \in Nat /\ Len(pipe) # 0 /\ Head(pipe) = pipe[1] /\ Close \notin Objects
        /\ Len(pipe') = Len(pipe) - 1 /\ pipe' \in Seq(Objects \cup {Close})
        /\ \A i \in 1 .. Len(pipe) - 1 : pipe'[i] = pipe[i + 1]
    BY <1>1, <1>2, PipeAssumption, PipeLemma
  <2>2. 1 \in 1 .. Len(pipe)
    BY <2>1
  <2> QED
    BY <1>1, <2>1, <2>2, PipeLemma
<1>4. /\ \A u \in Thread \ {t} : pc'[u] = pc[u] /\ object'[u] = object[u]
      /\ object'[t] = pipe[1] /\ pc'[t] = IF pipe[1] = Close THEN "close" ELSE "call"
  BY <1>1, <1>2, <1>3 DEF ThreadTypes
<1>5. \A i \in 1 .. Len(pipe') : i + 1 \in 2 .. Len(pipe) /\ pipe'[i] = pipe[i + 1]
  BY <1>3
<1>6. \A i \in 2 .. Len(pipe) : i - 1 \in 1 .. Len(pipe') /\ pipe'[i - 1] = pipe[i]
  BY <1>3
<1>7. CloseIsLast'
  <2>1. /\ read_open /\ write_open /\ \A u \in Thread : pc[u] \notin {"close", "gone"}
    BY <1>1, <1>2 DEF CloseIsLast
  <2>2. ASSUME NEW i \in 1 .. Len(pipe'), pipe'[i] = Close
        PROVE  i = Len(pipe') /\ app # "open"
    <3>1. i + 1 \in 1 .. Len(pipe) /\ pipe[i + 1] = Close
      BY <1>3, <1>5, <2>2
    <3> QED
      BY <1>1, <1>3, <3>1 DEF CloseIsLast
  <2>3. ASSUME \E u \in Thread : pc'[u] \in {"close", "gone"}
        PROVE  pipe' = <<>> /\ app # "open"
    <3>1. pipe[1] = Close
      BY <1>4, <2>1, <2>3
    <3>2. 1 = Len(pipe) /\ app # "open"
      BY <1>1, <1>3, <3>1 DEF CloseIsLast
    <3>3. Len(pipe') = 0
      <4>1. Len(pipe) = 1 /\ Len(pipe') = Len(pipe) - 1
        BY <1>3, <3>2
      <4> QED
        BY <4>1
    <3>4. pipe' \in Seq(Objects \cup {Close})
      BY <1>3
    <3> QED
      BY <3>2, <3>3, <3>4, EmptySeq
  <2> QED
    BY <1>2, <2>1, <2>2, <2>3 DEF CloseIsLast
<1>8. InOnePlace'
  <2>1. ASSUME NEW o \in Objects PROVE InPipe(o) <=> InPipe(o)' \/ o = pipe[1]
    <3>1. ASSUME InPipe(o)' PROVE InPipe(o)
      <4>1. PICK i \in 1 .. Len(pipe') : pipe'[i] = o
        BY <3>1 DEF InPipe
      <4>2. i + 1 \in 1 .. Len(pipe) /\ pipe[i + 1] = o
        BY <1>3, <1>5, <4>1
      <4> QED
        BY <4>2 DEF InPipe
    <3>2. ASSUME InPipe(o), o # pipe[1] PROVE InPipe(o)'
      <4>1. PICK i \in 1 .. Len(pipe) : pipe[i] = o
        BY <3>2 DEF InPipe
      <4>2. i \in 2 .. Len(pipe)
        BY <1>3, <3>2, <4>1
      <4> QED
        BY <1>6, <4>1, <4>2 DEF InPipe
    <3>3. o = pipe[1] => InPipe(o)
      BY <1>3 DEF InPipe
    <3> QED
      BY <3>1, <3>2, <3>3
  <2>2. ASSUME NEW o \in Objects, o = pipe[1] PROVE ~InPipe(o)'
    <3>1. ASSUME NEW i \in 1 .. Len(pipe') PROVE pipe'[i] # pipe[1]
      <4>1. i + 1 \in 1 .. Len(pipe) /\ 1 \in 1 .. Len(pipe) /\ i + 1 # 1 /\ pipe'[i] = pipe[i + 1]
        BY <1>3, <1>5
      <4> QED
        BY <1>1, <4>1 DEF InOnePlace
    <3> QED
      BY <2>2, <3>1 DEF InPipe
  <2>3. \A i, k \in 1 .. Len(pipe') : pipe'[i] = pipe'[k] => i = k
    <3>1. ASSUME NEW i \in 1 .. Len(pipe'), NEW k \in 1 .. Len(pipe'), pipe'[i] = pipe'[k]
          PROVE  i = k
      <4>1. /\ i + 1 \in 1 .. Len(pipe) /\ k + 1 \in 1 .. Len(pipe)
            /\ pipe[i + 1] = pipe[k + 1]
        BY <1>3, <1>5, <3>1
      <4>2. i + 1 = k + 1
        BY <1>1, <4>1 DEF InOnePlace
      <4> QED
        BY <1>3, <4>2
    <3> QED
      BY <3>1
  <2>4. \A u \in Thread : \A o \in Objects :
          Called(u, o)' <=> Called(u, o) \/ (u = t /\ o = pipe[1])
    BY <1>2, <1>3, <1>4 DEF Called
  <2>5. \A u \in Thread : pc'[u] = "call" => object'[u] \in Objects
    BY <1>1, <1>3, <1>4 DEF InOnePlace
  <2>6. ASSUME NEW o \in Objects
        PROVE  /\ handled[o] \in {0, 1}
               /\ InPipe(o)' => handled[o] = 0 /\ \A u \in Thread : ~Called(u, o)'
               /\ \A u \in Thread : Called(u, o)' => handled[o] = 0
               /\ o \in entered <=> handled[o] = 1 \/ InPipe(o)' \/ \E u \in Thread : Called(u, o)'
               /\ \A u, v \in Thread : Called(u, o)' /\ Called(v, o)' => u = v
    <3>1. CASE o = pipe[1]
      BY <1>1, <2>1, <2>2, <2>4, <3>1 DEF InOnePlace
    <3>2. CASE o # pipe[1]
      BY <1>1, <2>1, <2>4, <3>2 DEF InOnePlace
    <3> QED
      BY <3>1, <3>2
  <2> QED
    BY <1>1, <1>2, <2>3, <2>5, <2>6 DEF InOnePlace
<1> QED
  BY <1>7, <1>8 DEF DeliveryInv

LEMMA CallDelivery ==
  ASSUME IInv, NEW t \in Thread, Call(t)
  PROVE  DeliveryInv'
<1> USE DEF Goto, appVars, pipeVars, updVars
<1>1. /\ ThreadTypes /\ CloseIsLast /\ InOnePlace
  BY DEF IInv, TypeOK, DeliveryInv
<1>2. /\ UNCHANGED <<app, todo, entered, pipe, read_open, write_open>>
      /\ pc[t] = "call" /\ object[t] \in Objects
      /\ handled' = [handled EXCEPT ![object[t]] = handled[object[t]] + 1]
      /\ \A u \in Thread \ {t} : pc'[u] = pc[u] /\ object'[u] = object[u]
      /\ pc'[t] = "compare"
  BY <1>1 DEF Call, ThreadTypes, InOnePlace
<1>3. CloseIsLast'
  BY <1>1, <1>2 DEF CloseIsLast
<1>4. InOnePlace'
  <2>1. Called(t, object[t]) /\ handled[object[t]] = 0 /\ ~InPipe(object[t])
    BY <1>1, <1>2 DEF Called, InOnePlace
  <2>2. handled'[object[t]] = 1 /\ \A o \in Objects \ {object[t]} : handled'[o] = handled[o]
    BY <1>1, <1>2, <2>1 DEF ThreadTypes
  <2>3. \A o \in Objects : InPipe(o)' <=> InPipe(o)
    BY <1>2 DEF InPipe
  <2>4. \A u \in Thread : \A o \in Objects : Called(u, o)' <=> Called(u, o) /\ u # t
    BY <1>2 DEF Called
  <2>5. ASSUME NEW o \in Objects
        PROVE  /\ handled'[o] \in {0, 1}
               /\ InPipe(o)' => handled'[o] = 0 /\ \A u \in Thread : ~Called(u, o)'
               /\ \A u \in Thread : Called(u, o)' => handled'[o] = 0
               /\ o \in entered <=> handled'[o] = 1 \/ InPipe(o)' \/ \E u \in Thread : Called(u, o)'
               /\ \A u, v \in Thread : Called(u, o)' /\ Called(v, o)' => u = v
    <3>1. CASE o = object[t]
      <4>1. /\ ~InPipe(o)' /\ handled'[o] = 1
            /\ \A u \in Thread : u = t \/ ~Called(u, o)
        BY <1>1, <1>2, <2>1, <2>2, <2>3, <3>1 DEF InOnePlace
      <4>2. \A u \in Thread : ~Called(u, o)'
        BY <2>4, <4>1
      <4>3. o \in entered
        BY <1>1, <2>1, <3>1 DEF InOnePlace
      <4> QED
        BY <4>1, <4>2, <4>3
    <3>2. CASE o # object[t]
      <4>1. \A u \in Thread : Called(u, o)' <=> Called(u, o)
        BY <2>4, <3>2 DEF Called
      <4> QED
        BY <1>1, <2>2, <2>3, <3>2, <4>1 DEF InOnePlace
    <3> QED
      BY <3>1, <3>2
  <2> QED
    BY <1>1, <1>2, <2>5 DEF InOnePlace
<1> QED
  BY <1>3, <1>4 DEF DeliveryInv

LEMMA DeliveryStep == IInv /\ [Next]_vars => DeliveryInv'
<1> SUFFICES ASSUME IInv, [Next]_vars PROVE DeliveryInv'
  OBVIOUS
<1> USE DEF Goto, appVars, pipeVars, updVars, threadVars
<1>1. /\ ThreadTypes /\ DeliveryInv /\ CloseIsLast /\ ProgressInv
  BY DEF IInv, TypeOK, DeliveryInv, ExchangeInv
<1>2. CASE (\E o \in todo : Write(o)) \/ WriteClose
  BY <1>2, WriteDelivery, WriteCloseDelivery
<1>3. CASE SetDone \/ JoinUpdate \/ JoinThreads \/ ParentEnds \/ Update \/ UNCHANGED vars
  <2>1. /\ UNCHANGED <<pipe, todo, entered, handled, object, read_open, write_open, pc>>
        /\ app' = "open" => app = "open"
    BY <1>3 DEF SetDone, JoinUpdate, JoinThreads, ParentEnds, Update, UpdateSleep, UpdateNothing,
       CreateGlobal, StoreWord, Scan, ScanAgain, ReplaceGlobal, vars
  <2> QED
    BY <1>1, <2>1, SameDelivery
<1>4. ASSUME NEW t \in Thread, Task(t) PROVE DeliveryInv'
  <2>1. CASE Read(t) \/ Call(t)
    BY <2>1, ReadDelivery, CallDelivery
  <2>2. CASE Compare(t) \/ Take(t) \/ StoreOwn(t) \/ ClearArg(t)
    <3>1. /\ UNCHANGED <<pipe, todo, entered, handled, object, read_open, write_open, app>>
          /\ pc[t] \in {"compare", "take", "store", "clear"}
      BY <2>2 DEF Compare, Take, StoreOwn, ClearArg
    <3>2. \E l \in {"compare", "take", "store", "clear", "read"} : pc' = [pc EXCEPT ![t] = l]
      <4>1. CASE Compare(t)
        BY <4>1 DEF Compare
      <4>2. CASE StoreOwn(t)
        BY <1>1, <4>2 DEF StoreOwn, ThreadTypes
      <4>3. CASE Take(t) \/ ClearArg(t)
        BY <4>3 DEF Take, ClearArg
      <4> QED
        BY <2>2, <4>1, <4>2, <4>3
    <3>3. \A u \in Thread : /\ pc'[u] = "call" <=> pc[u] = "call"
                            /\ pc'[u] \in {"close", "gone"} => pc[u] \in {"close", "gone"}
      BY <1>1, <3>1, <3>2 DEF ThreadTypes
    <3> QED
      BY <1>1, <3>1, <3>3, SameDelivery
  <2>3. CASE EnterRead(t) \/ ReadNothing(t) \/ CloseEnds(t)
    <3>1. /\ UNCHANGED <<pipe, todo, entered, handled, object, app>>
          /\ pc[t] \in {"read", "reading", "close"} /\ pc' = [pc EXCEPT ![t] = pc'[t]]
          /\ pc'[t] \in {"reading", "gone"}
      BY <1>1, <2>3 DEF EnterRead, ReadNothing, CloseEnds, ThreadTypes
    <3>2. /\ pc'[t] = "gone" => pipe = <<>> /\ app # "open"
          /\ ~read_open' \/ ~write_open' => pipe = <<>> /\ app # "open"
      BY <1>1, <2>3 DEF EnterRead, ReadNothing, CloseEnds, CloseIsLast, ThreadTypes
    <3>3. CloseIsLast'
      BY <1>1, <3>1, <3>2 DEF CloseIsLast, ThreadTypes
    <3>4. /\ \A u \in Thread : \A o \in Objects : Called(u, o)' <=> Called(u, o)
          /\ \A u \in Thread : pc'[u] = "call" => pc[u] = "call"
          /\ \A o \in Objects : InPipe(o)' <=> InPipe(o)
      BY <1>1, <3>1 DEF Called, InPipe, ThreadTypes
    <3>5. InOnePlace'
      BY <1>1, <3>1, <3>4 DEF DeliveryInv, InOnePlace
    <3> QED
      BY <3>3, <3>5 DEF DeliveryInv
  <2> QED
    BY <1>4, <2>1, <2>2, <2>3 DEF Task
<1> QED
  BY <1>2, <1>3, <1>4 DEF Next, App

\* ac_threaded_pipe_open: the threads have the first arguments and nothing is exchanged.
LEMMA InitInv == Init => IInv
<1> SUFFICES ASSUME NEW g \in Globals, Open(g) PROVE IInv
  BY DEF Init
<1>1. TypeOK
  BY InitTypes DEF Init
<1>2. Globals \subseteq Args \ {Null} /\ Null \notin Globals
  BY PipeAssumption DEF Args
<1>3. /\ \A t \in Thread : \A j \in 0 .. 7 : ~Stored(t, j)
      /\ (\A t \in Thread : ~Scanned(t)) /\ ~Exchanging
  BY DEF Open, Stored, Scanned, Exchanging
<1>4. ArgumentsInv
  BY <1>2 DEF Open, ArgumentsInv
<1>5. WordsInv
  <2>1. ASSUME NEW t \in Thread
        PROVE  /\ word[t][7] = gbl /\ word[t][0] = ThreadArg(t, gbl) /\ word[t][1] = ThreadArg(t, gbl)
               /\ \A j \in 2 .. 6 : word[t][j] = Null
    BY DEF Open
  <2> QED
    BY <1>3, <2>1 DEF WordsInv
<1>6. ProgressInv
  BY <1>3 DEF Open, ProgressInv
<1>7. ScanInv
  BY <1>3 DEF Open, ScanInv
<1>8. LiveInv
  <2>1. \A t \in Thread : ThreadArg(t, g) \in Args
    BY ThreadArgType DEF Args
  <2>2. CurrentArguments = {a \in Args \ {Null} : a = g \/ \E t \in Thread : a = ThreadArg(t, g)}
    BY <1>3 DEF CurrentArguments, Open
  <2>3. live = CurrentArguments
    BY <1>2, <2>1, <2>2 DEF Open
  <2> QED
    BY <2>3 DEF LiveInv, Open
<1>9. DeliveryInv
  <2>1. pipe = <<>> /\ Len(pipe) = 0
    BY DEF Open
  <2>2. CloseIsLast
    BY <2>1 DEF CloseIsLast, Open
  <2>3. InOnePlace
    BY <2>1 DEF InOnePlace, InPipe, Called, Open
  <2> QED
    BY <2>2, <2>3 DEF DeliveryInv
<1> QED
  BY <1>1, <1>4, <1>5, <1>6, <1>7, <1>8, <1>9 DEF IInv, ExchangeInv

\* Each word of each thread, and what is live, is determined by how far update_task and
\* do_task have come, and each object is in one place.
THEOREM ExchangeInvariant == Spec => []IInv
<1>1. IInv /\ [Next]_vars => IInv'
  BY TypeStep, ExchangeStep, DeliveryStep DEF IInv
<1> QED
  BY <1>1, InitInv, PTL DEF Spec

\* The exchange of arguments of update_task and do_task is safe without a mutex, however
\* their stores and loads interleave and in either order of do_task's stores.
THEOREM ArgumentsSafe == Spec => []ArgsInv
<1>1. IInv => ArgsInv
  <2> SUFFICES ASSUME IInv PROVE ArgsInv
    OBVIOUS
  <2>1. /\ TypeOK /\ UpdateTypes /\ ThreadTypes
        /\ ArgumentsInv /\ WordsInv /\ ProgressInv /\ ScanInv /\ LiveInv
    BY DEF IInv, TypeOK, ExchangeInv
  <2>2. /\ Null \notin Globals /\ Globals \subseteq Args \ {Null}
        /\ \A t \in Thread : \A g \in Globals : ThreadArg(t, g) \in Args
    BY PipeAssumption, ThreadArgType DEF Args
  <2>3. ASSUME NEW t \in Thread, app # "closed"
        PROVE  global_arg[t] \in live /\ thread_arg[t] \in live \cup {Null}
    <3>1. live = CurrentArguments
      BY <2>1, <2>3 DEF LiveInv
    <3>2. CASE global_arg[t] = gbl
      <4>1. gbl \in Globals /\ thread_arg[t] = ThreadArg(t, gbl)
        BY <2>1, <3>2 DEF UpdateTypes, ArgumentsInv
      <4> QED
        BY <2>2, <3>1, <3>2, <4>1 DEF CurrentArguments
    <3>3. CASE Stored(t, 7) /\ global_arg[t] = new_gbl
      <4>1. Stored(t, 0) /\ Exchanging
        BY <2>1, <3>3, StoredInOrder DEF Stored, Exchanging
      <4>2. new_gbl \in Globals /\ thread_arg[t] = ThreadArg(t, new_gbl)
        BY <2>1, <3>3, <4>1 DEF UpdateTypes, ArgumentsInv
      <4> QED
        BY <2>2, <3>1, <3>3, <4>1, <4>2 DEF CurrentArguments
    <3> QED
      BY <2>1, <3>2, <3>3 DEF ArgumentsInv
  <2>4. NoUseAfterDestroy
    <3>1. ASSUME NEW t \in Thread, pc[t] \in {"clear", "call"} PROVE app # "closed"
      BY <2>1, <3>1 DEF LiveInv
    <3>2. app = "join threads" => gbl \in live
      <4>1. gbl \in CurrentArguments
        BY <2>1, <2>2 DEF CurrentArguments, UpdateTypes
      <4> QED
        BY <2>1, <4>1 DEF LiveInv
    <3> QED
      BY <2>3, <3>1, <3>2 DEF NoUseAfterDestroy
  <2>5. ArgsMatch
    BY <2>1 DEF ArgsMatch, ArgumentsInv, ThreadArg
  <2>6. AllDestroyed
    BY <2>1 DEF AllDestroyed, LiveInv
  <2> QED
    BY <2>1, <2>4, <2>5, <2>6 DEF ArgsInv
<1> QED
  BY <1>1, ExchangeInvariant, PTL

\* No object is handled twice, and ac_threaded_pipe_close returns only when all that
\* entered the pipe were handled, with any number of threads reading it.
THEOREM EachHandledOnce == Spec => []HandledOnce
<1>1. IInv => HandledOnce
  <2> SUFFICES ASSUME IInv PROVE HandledOnce
    OBVIOUS
  <2>1. InOnePlace /\ CloseIsLast /\ LiveInv /\ NumThreads \in Nat \ {0}
    BY PipeAssumption DEF IInv, DeliveryInv, ExchangeInv
  <2>2. ASSUME NEW o \in Objects, app = "closed", o \in entered PROVE handled[o] = 1
    <3>1. \A t \in Thread : pc[t] = "gone" /\ ~Called(t, o)
      BY <2>1, <2>2 DEF LiveInv, Called
    <3>2. pipe = <<>>
      <4>1. 1 \in Thread
        BY <2>1 DEF Thread
      <4> QED
        BY <2>1, <3>1, <4>1 DEF CloseIsLast
    <3>3. ~InPipe(o)
      BY <3>2 DEF InPipe
    <3> QED
      BY <2>1, <2>2, <3>1, <3>3 DEF InOnePlace
  <2> QED
    BY <2>1, <2>2 DEF HandledOnce, InOnePlace
<1> QED
  BY <1>1, ExchangeInvariant, PTL

=============================================================================
