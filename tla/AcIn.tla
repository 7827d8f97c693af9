-------------------------------- MODULE AcIn --------------------------------
(***************************************************************************)
(* The cursors of ac_in.c: a list that reads one file after the other, the  *)
(* cursors of a callback in the same way, an array of records, and          *)
(* ac_in_ext, which merges sorted files with a heap; the last two with or   *)
(* without a reducer, all with or without a limit.  A client reads to the   *)
(* end with ac_in_advance, ac_in_advance_unique or ac_in_advance_group and  *)
(* may step back with ac_in_reset.                                          *)
(*                                                                          *)
(* A file is the sequence of the keys of its records; a record is a pair of *)
(* the number of its file and its place in it.  The variable h is the       *)
(* structure of the cursor, with the places of the cursors under it.        *)
(***************************************************************************)
EXTENDS Naturals, Sequences, SequencesExt, FiniteSets

CONSTANTS
  Configurations,  \* how the cursor is made and used
  Dropped          \* the keys for which the reducer returns false

VARIABLES
  config,
  h,
  call,     \* the call of the client that is under way
  looping,  \* has ac_in_ext_advance_reduce dropped a group in this call?
  group,    \* what ac_in_advance_group has copied so far
  result,   \* what the last call returned
  \* ghosts: the records that were returned or reduced, and how many times
  \* ac_in_advance returned something new
  got, given

vars == <<config, h, call, looping, group, result, got, given>>

\* Merged files are sorted, and arrays that are read by key; where records of one key are
\* joined a merged file has each key once.  A list has no file without records.  Over
\* several files ac_in_advance_unique does not ask for a limit.
Ascends(f) == \A p, q \in DOMAIN f : p < q => f[p] <= f[q]
StrictlyAscends(f) == \A p, q \in DOMAIN f : p < q => f[p] < f[q]
IsConfiguration(c) ==
  /\ c \in [kind : {"ext", "list", "cb", "records"}, files : Seq(Seq(Nat)),
            style : {"advance", "unique", "group"}, reduce : BOOLEAN, limit : Nat]
  /\ c.kind = "ext" =>
       /\ \A i \in DOMAIN c.files : Ascends(c.files[i])
       /\ c.reduce \/ c.style = "unique" => \A i \in DOMAIN c.files : StrictlyAscends(c.files[i])
       /\ c.style = "unique" => c.limit = 0
  /\ c.kind \in {"list", "cb"} =>
       /\ c.files # <<>> /\ \A i \in DOMAIN c.files : i > 1 \/ c.kind = "list" => c.files[i] # <<>>
       /\ ~c.reduce
  /\ c.kind = "records" =>
       /\ Len(c.files) = 1 /\ Ascends(c.files[1])
       /\ c.style = "unique" => c.reduce

ASSUME ConfigurationsAssumption == \A c \in Configurations : IsConfiguration(c)

files == config.files
File == DOMAIN files
KeyOf(r) == files[r[1]][r[2]]
All == UNION {{<<i, p>> : p \in DOMAIN files[i]} : i \in File}

\* The record that the cursor of file i is at.
CurrentOf(s, i) == <<i, s.pos[i]>>
KeyAt(s, i) == KeyOf(CurrentOf(s, i))

-----------------------------------------------------------------------------
(* in_heap: heap[1] has the least key.  An item that moves is compared with  *)
(* items that have not moved, so the way it takes is found first, and then   *)
(* each place on it gets the item of the next one.                           *)

\* The places on the way from a place, where onward[i] is the next one after i: the least
\* set that contains it and what follows.
Way(places, from, onward) ==
  {i \in places : \A S \in SUBSET places :
     from \in S /\ (\A j \in S : j \in DOMAIN onward => onward[j] \in S) => i \in S}

\* x moves to the end of its way in the first n places of a heap.
Sift(heap, n, x, from, onward) ==
  LET way == Way(1 .. n, from, onward)
  IN  [i \in 1 .. n |-> IF i \notin way THEN heap[i]
                        ELSE IF i \in DOMAIN onward THEN heap[onward[i]] ELSE x]

\* Fault: a new item stays at the end.
PushLast(s, x) == [s EXCEPT !.heap = Append(@, x)]

\* A new item moves up from the end.
Push(s, x) ==
  LET n == Len(s.heap) + 1
      rises == {i \in 2 .. n : KeyAt(s, x) < KeyAt(s, s.heap[i \div 2])}
  IN  [s EXCEPT !.heap = Sift(s.heap, n, x, n, [i \in rises |-> i \div 2])]

Smaller(s, i, num) ==
  IF 2 * i + 1 <= num /\ KeyAt(s, s.heap[2 * i + 1]) < KeyAt(s, s.heap[2 * i])
  THEN 2 * i + 1 ELSE 2 * i

\* Without the first item; the last one moves down from its place.
Pop(s) ==
  LET num == Len(s.heap) - 1
      x == Last(s.heap)
      sinks == {i \in 1 .. num : 2 * i <= num /\ KeyAt(s, s.heap[Smaller(s, i, num)]) < KeyAt(s, x)}
  IN  [s EXCEPT !.heap = Sift(s.heap, num, x, 1, [i \in sinks |-> Smaller(s, i, num)])]

-----------------------------------------------------------------------------
(* The functions that h->advance may point to *)

\* _ac_in_empty
Empty(s) ==
  [s EXCEPT !.current = <<>>, !.num_current = 0, !.current_tmp = <<>>, !.num_current_tmp = 0,
            !.advance = "empty", !.counted = FALSE, !.again = FALSE]

\* advance_file_list: a file that has nothing is not the end of the list, and yet
\* nothing is returned.
AdvanceFileList(s) ==
  IF s.pos[s.file] < Len(files[s.file])
  THEN [s EXCEPT !.pos[s.file] = @ + 1, !.current = <<<<s.file, s.pos[s.file] + 1>>>>,
                 !.num_current = 1]
  ELSE IF s.file = Len(files) THEN Empty(s)
  ELSE IF files[s.file + 1] = <<>>
       THEN [s EXCEPT !.file = @ + 1, !.current = <<>>, !.num_current = 1]
       ELSE [s EXCEPT !.file = @ + 1, !.pos[s.file + 1] = 1,
                      !.current = <<<<s.file + 1, 1>>>>, !.num_current = 1]

\* advance_cb: the same, with the cursors that the callback makes.
AdvanceCb(s) == AdvanceFileList(s)

\* ac_in_records_advance: the array is the only file.
RecordsAdvance(s) ==
  IF s.pos[1] < Len(files[1])
  THEN [s EXCEPT !.pos[1] = @ + 1, !.current = <<<<1, s.pos[1] + 1>>>>, !.num_current = 1]
  ELSE Empty(s)

\* The places in the array, from that one, that have its key.
SameKey(from) ==
  {q \in from .. Len(files[1]) : \A k \in from .. q : files[1][k] = files[1][from]}

\* The group that ac_in_records_advance_and_reduce gives to the reducer.
RecordsGroup(s) ==
  LET from == s.pos[1] + 1
      num == Cardinality(SameKey(from))
  IN  IF num = 0 THEN Empty(s)
      ELSE [s EXCEPT !.pos[1] = @ + num, !.current = [k \in 1 .. num |-> <<1, from + k - 1>>]]

\* The first active cursor goes on; at its end it is destroyed.
MoveFirst(s) ==
  LET i == Head(s.active)
      rest == [s EXCEPT !.active = Tail(@)]
  IN  IF s.pos[i] < Len(files[i]) THEN Push([rest EXCEPT !.pos[i] = @ + 1], i) ELSE rest

MoveActiveToHeap(s) ==
  LET moved[k \in 0 .. Len(s.active)] == IF k = 0 THEN s ELSE MoveFirst(moved[k - 1])
  IN  moved[Len(s.active)]

\* One more cursor leaves the heap and is active.
Activate(s) ==
  [Pop(s) EXCEPT !.active = Append(@, Head(s.heap)),
                 !.current = Append(@, CurrentOf(s, Head(s.heap)))]

\* num_current is left as it is.
ExtAdvance(s) ==
  LET m == MoveActiveToHeap(s)
  IN  IF m.heap = <<>> THEN Empty(m) ELSE Activate([m EXCEPT !.current = <<>>])

\* One more cursor with the key of the first.
PopEqual(s) ==
  IF s.heap # <<>> /\ KeyAt(s, Head(s.heap)) = KeyOf(s.current[1]) THEN Activate(s) ELSE s

\* The first cursor with another key was popped, too, and is pushed back.
PushBack(s) == IF s.heap = <<>> THEN s ELSE Push(Pop(s), Head(s.heap))

ExtAdvanceUnique(s) ==
  LET a == ExtAdvance(s)
      popped[k \in 0 .. Len(a.heap)] == IF k = 0 THEN a ELSE PopEqual(popped[k - 1])
      u == PushBack(popped[Len(a.heap)])
  IN  IF a.current = <<>> THEN a ELSE [u EXCEPT !.num_current = Len(u.active)]

PostReset(s) ==
  [s EXCEPT !.current = s.current_tmp, !.num_current = s.num_current_tmp,
            !.current_tmp = <<>>, !.num_current_tmp = 0, !.again = FALSE]

\* ac_in_reset
Reset(s) ==
  IF s.current = <<>> THEN s
  ELSE [s EXCEPT !.again = TRUE, !.current_tmp = s.current, !.current = <<>>,
                 !.num_current_tmp = s.num_current, !.num_current = 0]

-----------------------------------------------------------------------------
(* How the cursors are made *)

NewCursor ==
  [heap |-> <<>>, active |-> <<>>, pos |-> [i \in File |-> 0], file |-> 1,
   advance |-> "empty", counted |-> FALSE, again |-> FALSE,
   current |-> <<>>, num_current |-> 0, current_tmp |-> <<>>, num_current_tmp |-> 0,
   record_num |-> 0]

\* ac_in_ext_add: the cursor of a file is advanced to its first record.
ExtAdd(s, i) ==
  IF files[i] = <<>> THEN s
  ELSE [Push([s EXCEPT !.pos[i] = 1], i) EXCEPT
          !.advance = IF config.reduce THEN "reduce" ELSE "plain"]

ExtAddAll ==
  LET added[k \in 0 .. Len(files)] == IF k = 0 THEN NewCursor ELSE ExtAdd(added[k - 1], k)
  IN  added[Len(files)]

\* ac_in_init_from_list, ac_in_init_from_cb and ac_in_records_init.
FromList == [NewCursor EXCEPT !.advance = "list"]
FromCb == [NewCursor EXCEPT !.advance = "cb"]
RecordsInit == [NewCursor EXCEPT !.advance = IF config.reduce THEN "records_reduce" ELSE "records"]

\* ac_in_limit comes last.
WorkerIn ==
  LET opened == CASE config.kind = "list" -> FromList
                  [] config.kind = "cb" -> FromCb
                  [] config.kind = "records" -> RecordsInit
                  [] config.kind = "ext" -> ExtAddAll
  IN  [opened EXCEPT !.counted = config.limit > 0]

Init ==
  /\ config \in Configurations
  /\ h = WorkerIn
  /\ call = "idle"
  /\ looping = FALSE
  /\ group = <<>>
  /\ result = <<>>
  /\ got = {}
  /\ given = 0

-----------------------------------------------------------------------------
(* The calls *)

\* count_and_advance, unless the call is in the loop of ac_in_ext_advance_reduce.
Counted(s) == IF s.counted /\ ~looping THEN [s EXCEPT !.record_num = @ + 1] ELSE s

OverLimit(s) == s.counted /\ s.record_num > config.limit

\* One round of h->advance, before the reducer is called.
Round ==
  LET s == Counted(h)
  IN  IF h.again THEN PostReset(h)
      ELSE IF OverLimit(s) THEN Empty(s)
      ELSE CASE s.advance = "empty" -> s
             [] s.advance = "list" -> AdvanceFileList(s)
             [] s.advance = "cb" -> AdvanceCb(s)
             [] s.advance = "records" -> RecordsAdvance(s)
             [] s.advance = "records_reduce" -> RecordsGroup(s)
             [] s.advance = "plain" -> ExtAdvance(s)
             [] s.advance = "reduce" -> ExtAdvanceUnique(s)

\* Does the reducer run in this round, and does it return false?
Reduces == h.advance \in {"reduce", "records_reduce"} /\ ~h.again /\ Round.current # <<>>
Drops == Reduces /\ KeyOf(Round.current[1]) \in Dropped

\* The cursor when h->advance returns: the reducer, like ac_io_keep_first, makes the
\* first record of the group the current one.
Returned ==
  IF Reduces THEN [Round EXCEPT !.current = <<Head(@)>>, !.num_current = 1] ELSE Round

\* The ghosts in every call: after ac_in_reset nothing new is returned.
Count(s) ==
  /\ got' = IF h.again THEN got ELSE got \cup Range(s.current)
  /\ given' = IF h.again \/ s.current = <<>> THEN given ELSE given + 1

\* ac_in_ext_advance_reduce and ac_in_records_advance_and_reduce go on with the next
\* group.
Drop ==
  /\ call # "ended"
  /\ config.style # "unique" \/ config.kind = "records"
  /\ Drops
  /\ h' = Round
  /\ looping' = TRUE
  /\ got' = got \cup Range(Round.current)
  /\ UNCHANGED <<config, call, group, result, given>>

\* A client that gets nothing stops.
Advance ==
  /\ call = "idle"
  /\ config.style = "advance"
  /\ ~Drops
  /\ h' = Returned
  /\ looping' = FALSE
  /\ result' = h'.current
  /\ call' = IF h'.current = <<>> THEN "ended" ELSE "idle"
  /\ Count(Round)
  /\ UNCHANGED <<config, group>>

\* Over several files ac_in_advance_unique asks neither reducer nor limit; for the
\* other cursors it is ac_in_advance.
AdvanceUnique ==
  LET several == h.advance \in {"plain", "reduce"} /\ ~h.again
      s == IF several THEN ExtAdvanceUnique(h) ELSE Round
  IN  /\ call = "idle"
      /\ config.style = "unique"
      /\ several \/ ~Drops
      /\ h' = IF several THEN s ELSE Returned
      /\ looping' = FALSE
      /\ result' = h'.current
      /\ call' = IF h'.current = <<>> THEN "ended" ELSE "idle"
      /\ Count(s)
      /\ UNCHANGED <<config, group>>

\* ac_in_advance_group copies records while their keys are equal ...
GroupFirst ==
  /\ call = "idle"
  /\ config.style = "group"
  /\ ~Drops
  /\ h' = Returned
  /\ looping' = FALSE
  /\ group' = h'.current
  /\ result' = <<>>
  /\ call' = IF h'.current = <<>> THEN "ended" ELSE "more"
  /\ Count(Round)
  /\ UNCHANGED config

SameGroup(s) == s.current # <<>> /\ KeyOf(Head(s.current)) = KeyOf(Head(group))

GroupMore ==
  /\ call = "more"
  /\ ~Drops
  /\ SameGroup(Returned)
  /\ h' = Returned
  /\ looping' = FALSE
  /\ group' = Append(group, Head(h'.current))
  /\ Count(Round)
  /\ UNCHANGED <<config, call, result>>

\* ... and steps back from the first that has another key.
GroupEnd ==
  /\ call = "more"
  /\ ~Drops
  /\ ~SameGroup(Returned)
  /\ h' = Reset(Returned)
  /\ looping' = FALSE
  /\ result' = group
  /\ group' = <<>>
  /\ call' = "idle"
  /\ Count(Round)
  /\ UNCHANGED config

\* The client wants the same record again.
StepBack ==
  /\ call = "idle"
  /\ ~looping
  /\ config.style # "group"
  /\ h.current # <<>>
  /\ h' = Reset(h)
  /\ UNCHANGED <<config, call, looping, group, result, got, given>>

Next ==
  \/ Drop \/ Advance \/ AdvanceUnique
  \/ GroupFirst \/ GroupMore \/ GroupEnd \/ StepBack

Spec == Init /\ [][Next]_vars
-----------------------------------------------------------------------------
(* Properties *)

\* Every file of a merge is in one place, the heap or the active ones, until its last
\* record was read, and the heap is one: no item has a key below the one above it
\* (in_heap_push, in_heap_pop, move_active_to_heap).
HeapOrdered ==
  config.kind = "ext" /\ h.advance # "empty" =>
    /\ \A i \in 2 .. Len(h.heap) : KeyAt(h, h.heap[i \div 2]) <= KeyAt(h, h.heap[i])
    /\ IsInjective(h.heap \o h.active)
    /\ \A i \in File : h.pos[i] < Len(files[i]) => i \in Range(h.heap \o h.active)

\* Nothing that is still to come belongs before something that was returned.
Before(r, q) ==
  IF config.kind # "ext" THEN r[1] < q[1] \/ (r[1] = q[1] /\ r[2] < q[2])
                         ELSE KeyOf(r) <= KeyOf(q)
InOrder == \A r \in got, q \in All \ got : Before(r, q)

\* When ac_in_advance, ac_in_advance_unique or ac_in_advance_group returns nothing, every
\* record of every file was returned or reduced, or as many as ac_in_limit allows.
AllRead ==
  call = "ended" => IF config.limit > 0 THEN given = config.limit \/ (given < config.limit /\ got = All)
                    ELSE got = All

\* The record that ac_in_advance_group has stepped back from.
Ahead == IF config.style = "group" THEN Range(h.current_tmp) ELSE {}

\* ac_in_advance_unique and ac_in_advance_group return all the records of a key at
\* once, a reducer makes one of them, and num_r is their number.
GroupsWhole ==
  config.kind \in {"ext", "records"} /\ call # "more" /\ config.limit = 0 =>
    /\ config.style # "advance" \/ config.reduce =>
         \A r \in got \ Ahead, q \in All \ got : KeyOf(r) # KeyOf(q)
    /\ config.style = "unique" /\ ~h.again /\ ~looping => h.num_current = Len(h.current)
    /\ config.style = "group" /\ ~config.reduce /\ result # <<>> =>
         Range(result) = {r \in All : KeyOf(r) = KeyOf(Head(result))}

\* Every record comes out, once, and in order, from the heap (in_heap_push, in_heap_pop)
\* and from lists, until the end or the limit, and groups are whole.
ReadInv == HeapOrdered /\ InOrder /\ AllRead /\ GroupsWhole
-----------------------------------------------------------------------------
(* What makes ReadInv inductive *)

Record == [heap : Seq(File), active : Seq(File), pos : [File -> Nat], file : Nat,
           advance : {"empty", "list", "cb", "records", "records_reduce", "plain", "reduce"},
           counted : BOOLEAN, again : BOOLEAN, current : Seq(All), num_current : Nat,
           current_tmp : Seq(All), num_current_tmp : Nat, record_num : Nat]

\* The records that were read by a cursor: those of the heap are still to come.
ReadBy(s) ==
  {r \in All : \/ r[2] < s.pos[r[1]]
               \/ r[2] = s.pos[r[1]] /\ r[1] \notin Range(s.heap)}

\* The first n files of a merge: each is in one place until its last record was read.
Merging(s, n) ==
  /\ IsInjective(s.heap) /\ IsInjective(s.active) /\ Range(s.heap) \cap Range(s.active) = {}
  /\ Range(s.heap) \cup Range(s.active) \subseteq 1 .. n
  /\ \A i \in 1 .. n : IF i \in Range(s.heap) \cup Range(s.active)
                       THEN s.pos[i] \in 1 .. Len(files[i]) ELSE s.pos[i] = Len(files[i])
  /\ \A i \in 2 .. Len(s.heap) : KeyAt(s, s.heap[i \div 2]) <= KeyAt(s, s.heap[i])

Placed(s) ==
  IF config.kind = "ext" THEN Merging(s, Len(files))
  ELSE /\ s.heap = <<>> /\ s.active = <<>> /\ s.file \in File
       /\ \A i \in File : /\ s.pos[i] <= Len(files[i])
                          /\ i < s.file => s.pos[i] = Len(files[i])
                          /\ i > s.file => s.pos[i] = 0

Advances ==
  CASE config.kind = "ext" -> {"plain", "reduce"}
    [] config.kind = "records" -> {"records", "records_reduce"}
    [] OTHER -> {config.kind}

CursorInv ==
  /\ h \in Record
  /\ Placed(h)
  /\ got = ReadBy(h)
  /\ h.advance = "empty" =>
       h.current = <<>> /\ ~h.again /\ h.num_current = 0
  /\ h.advance # "empty" =>
       h.advance \in Advances /\ (h.advance \in {"reduce", "records_reduce"} <=> config.reduce)
  /\ h.again <=> h.current_tmp # <<>>
  /\ h.again => h.current = <<>> /\ ~looping
  /\ looping => config.reduce

\* The limit, and the end.
CountInv ==
  /\ given \in Nat
  /\ h.counted => config.limit > 0
  /\ h.advance # "empty" /\ config.limit > 0 =>
       /\ h.counted /\ h.record_num <= config.limit
       /\ h.record_num = given + (IF looping THEN 1 ELSE 0)
  /\ h.advance = "empty" =>
       \/ config.limit > 0 /\ given = config.limit
       \/ got = All /\ (config.limit > 0 => given < config.limit)
  /\ call = "ended" => h.advance = "empty"

\* Keys come in order, and those that are joined at once.
Keyed == config.kind \in {"ext", "records"}
KeysInv ==
  /\ Keyed => \A r \in got, q \in All \ got : KeyOf(r) <= KeyOf(q)
  /\ config.reduce \/ (config.kind = "ext" /\ config.style = "unique") =>
       \A r \in got, q \in All \ got : KeyOf(r) # KeyOf(q)
  /\ Keyed /\ config.style = "unique" =>
       /\ h.again => h.num_current_tmp = Len(h.current_tmp)
       /\ ~h.again /\ ~looping => h.num_current = Len(h.current)

GroupInv ==
  /\ call \in {"idle", "more", "ended"} /\ looping \in BOOLEAN
  /\ group \in Seq(All) /\ result \in Seq(All)
  /\ call = "more" => config.style = "group" /\ ~h.again /\ group # <<>>
  /\ Keyed /\ config.style = "group" /\ ~config.reduce =>
       /\ call = "more" =>
            /\ Range(group) = {r \in got : KeyOf(r) = KeyOf(Head(group))}
            /\ \A r \in got : KeyOf(r) <= KeyOf(Head(group))
       /\ call # "more" /\ h.again =>
            /\ Range(h.current_tmp) \subseteq got
            /\ \A r \in got \ Range(h.current_tmp), q \in (All \ got) \cup Range(h.current_tmp) :
                 KeyOf(r) < KeyOf(q)
            /\ Len(h.current_tmp) = 1
       /\ call # "more" /\ ~h.again => got = {} \/ h.advance = "empty"
       /\ result # <<>> /\ config.limit = 0 =>
            Range(result) = {r \in All : KeyOf(r) = KeyOf(Head(result))}

ReadIInv ==
  /\ IsConfiguration(config)
  /\ CursorInv /\ CountInv /\ KeysInv /\ GroupInv
=============================================================================
