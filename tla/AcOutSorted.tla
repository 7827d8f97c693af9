----------------------------- MODULE AcOutSorted -----------------------------
(***************************************************************************)
(* The sorted output of ac_out.c: records gather in a buffer, a full buffer *)
(* is sorted into a temporary file, by a thread of its own with             *)
(* use_extra_thread, temporary files are merged in groups, and              *)
(* ac_out_destroy merges what there is into the output file.                *)
(*                                                                          *)
(* A record of a file is the set of the application's records that the      *)
(* reducer made it from; a file or a buffer is the set of its records, its  *)
(* order being that of the keys.  The application's records carry the       *)
(* number of the process that wrote them: a process may be killed at any    *)
(* step and started again over the files it left.                           *)
(***************************************************************************)
EXTENDS Naturals, FiniteSets, FiniteSetsExt

CONSTANTS
  Records,         \* what an application writes, in any order
  Key(_),          \* of a record
  Large,           \* the records that do not fit into an empty buffer
  Configurations,  \* the options the output is opened with
  MaxProcesses,    \* bound on the processes, one after another
  NoRecord

\* extra: use_extra_thread.  group: num_per_group.  reduce: is there a reducer?
\* safe: safe_mode.  capacity: how many records a buffer holds.  large: does this
\* application write records of Large, too?
Configuration ==
  [extra : BOOLEAN, group : Nat, reduce : BOOLEAN, safe : BOOLEAN,
   capacity : Nat \ {0}, large : BOOLEAN]

ASSUME SortedAssumption ==
  /\ IsFiniteSet(Records)
  /\ Large \subseteq Records
  /\ Configurations \subseteq Configuration
  /\ MaxProcesses \in Nat \ {0}
  /\ NoRecord \notin Records

Process == 1 .. MaxProcesses
Item == Process \X Records
Files == 0 .. Cardinality(Records)
None == <<0, NoRecord>>

\* Temporary files, and the output file.
Name == {"tmp", "gtmp"} \X Files
Final == <<"final", 0>>

VARIABLES
  config, process,
  \* the application
  app, todo, pending,
  \* ac_out_sorted_s
  buffer, b, freed, num_written, num_group_written, group,
  \* write_sorted_thread, whoever runs it
  thread,    \* "none" until it is started for the first time
  taken,     \* the records it sorted, in the memory of buffer source
  source, name,
  \* ac_out_destroy
  result,    \* what the cursor of _ac_out_sorted_in yields
  left,      \* a history: the records of any process that this cursor passed by
  at, skipped,
  \* on disk
  tmp, gtmp, exist, safe, final, ack

bufferVars == <<buffer, b, freed>>
countVars == <<num_written, num_group_written, group>>
threadVars == <<thread, taken, source, name>>
destroyVars == <<result, left, at, skipped>>
fileVars == <<tmp, gtmp, exist>>
outVars == <<safe, final, ack>>
vars == <<config, process, app, todo, pending, bufferVars, countVars, threadVars,
          destroyVars, fileVars, outVars>>

Other(i) == 3 - i
KeyOf(x) == Key((CHOOSE i \in x : TRUE)[2])

\* The reducer, the intermediate one included, makes one record of those with the
\* same key: of a buffer (ac_in_records_advance_and_reduce) and of files, each of
\* which has a key once by then (ac_in_ext_advance_reduce).
ReduceRecords(S) ==
  IF config.reduce THEN {UNION {y \in S : KeyOf(y) = KeyOf(x)} : x \in S} ELSE S

ToWrite == IF config.large THEN Records ELSE Records \ Large

\* The memory of a process that has just called ac_out_sorted_init.
InitMemory ==
  /\ app = "open"
  /\ todo = ToWrite
  /\ pending = None
  /\ buffer = [i \in 1 .. 2 |-> {}]
  /\ b = 1
  /\ freed = {}
  /\ num_written = 0
  /\ num_group_written = 0
  /\ group = config.group
  /\ thread = "none"
  /\ taken = {}
  /\ source = 1
  /\ name = <<"tmp", 0>>
  /\ result = {}
  /\ at = <<"tmp", 0>>
  /\ skipped = 0

Init ==
  /\ config \in Configurations
  /\ process = 1
  /\ InitMemory
  /\ tmp = [i \in Files |-> {}]
  /\ gtmp = [i \in Files |-> {}]
  /\ exist = {}
  /\ left = {}
  /\ safe = {}
  /\ final = {}
  /\ ack = FALSE

\* The process is killed and started again.
Restart ==
  /\ process < MaxProcesses
  /\ app # "closed"
  /\ process' = process + 1
  /\ app' = "open"
  /\ todo' = ToWrite
  /\ pending' = None
  /\ buffer' = [i \in 1 .. 2 |-> {}]
  /\ b' = 1
  /\ freed' = {}
  /\ num_written' = 0
  /\ num_group_written' = 0
  /\ group' = config.group
  /\ thread' = "none"
  /\ taken' = {}
  /\ source' = 1
  /\ name' = <<"tmp", 0>>
  /\ result' = {}
  /\ at' = <<"tmp", 0>>
  /\ skipped' = 0
  /\ UNCHANGED <<config, left, fileVars, outVars>>

-----------------------------------------------------------------------------
(* write_sorted_record *)

Fits(i) == i[2] \notin Large /\ Cardinality(buffer[b]) < config.capacity

\* Without an extra thread write_sorted_thread is a call, and its return is awaited;
\* with one, wait_on_thread joins it.
Joined == thread \in {"none", "ended"}

Put(i) == buffer' = [buffer EXCEPT ![b] = @ \cup {{i}}]

Store(r) ==
  /\ app = "open"
  /\ r \in todo
  /\ Fits(<<process, r>>)
  /\ Put(<<process, r>>)
  /\ todo' = todo \ {r}
  /\ UNCHANGED <<config, process, app, pending, b, freed, countVars, threadVars,
                 destroyVars, fileVars, outVars>>

\* write_sorted does nothing to an empty buffer.
Overflow(r) ==
  /\ app = "open"
  /\ r \in todo
  /\ ~Fits(<<process, r>>)
  /\ pending' = <<process, r>>
  /\ todo' = todo \ {r}
  /\ app' = IF buffer[b] = {} THEN "one" ELSE "flush"
  /\ UNCHANGED <<config, process, bufferVars, countVars, threadVars,
                 destroyVars, fileVars, outVars>>

\* The buffers change places and the full one is handed to the thread.
Hand ==
  /\ b' = IF config.extra THEN Other(b) ELSE b
  /\ source' = b
  /\ thread' = "sort"
  /\ UNCHANGED <<buffer, freed, taken, name>>

WriteSorted ==
  /\ app = "flush"
  /\ Joined
  /\ Hand
  /\ app' = "retry"
  /\ UNCHANGED <<config, process, todo, pending, countVars, destroyVars,
                 fileVars, outVars>>

Retry ==
  /\ app = "retry"
  /\ config.extra \/ Joined
  /\ IF Fits(pending)
     THEN Put(pending) /\ pending' = None /\ app' = "open"
     ELSE app' = "one" /\ UNCHANGED <<buffer, pending>>
  /\ UNCHANGED <<config, process, todo, b, freed, countVars, threadVars,
                 destroyVars, fileVars, outVars>>

\* get_next_tmp: the name of the next temporary file, or of the next of the group.
NextName(tmp_only) ==
  IF ~tmp_only /\ group > 0 THEN <<"gtmp", num_group_written>> ELSE <<"tmp", num_written>>

CountName(tmp_only) ==
  IF ~tmp_only /\ group > 0
  THEN num_group_written' = num_group_written + 1 /\ UNCHANGED num_written
  ELSE num_written' = num_written + 1 /\ UNCHANGED num_group_written

\* The file with that name is written over.
WriteFile(n, S) ==
  /\ exist' = exist \cup {n}
  /\ IF n[1] = "tmp" THEN tmp' = [tmp EXCEPT ![n[2]] = S] /\ UNCHANGED gtmp
                     ELSE gtmp' = [gtmp EXCEPT ![n[2]] = S] /\ UNCHANGED tmp

\* write_one_record: a record too large for the buffer makes a file of its own.
WriteOne ==
  /\ app = "one"
  /\ Joined
  /\ WriteFile(NextName(FALSE), {{pending}})
  /\ CountName(FALSE)
  /\ pending' = None
  /\ thread' = "merge"
  /\ app' = "one written"
  /\ UNCHANGED <<config, process, todo, bufferVars, group, taken, source, name, destroyVars,
                 outVars>>

OneWritten ==
  /\ app = "one written"
  /\ Joined
  /\ app' = "open"
  /\ UNCHANGED <<config, process, todo, pending, bufferVars, countVars, threadVars,
                 destroyVars, fileVars, outVars>>

-----------------------------------------------------------------------------
(* write_sorted_thread.  After ac_out_destroy has passed it by it goes on, until the     *)
(* process ends, in memory that is no longer the output's.                               *)

\* _in_from_buffer: the buffer counts as empty, but its memory is still read.  The
\* memory of a freed one is not there any more, and the process crashes.
ThreadSort ==
  /\ thread = "sort"
  /\ source \notin freed
  /\ taken' = ReduceRecords(buffer[source])
  /\ buffer' = [buffer EXCEPT ![source] = {}]
  /\ thread' = "name"
  /\ UNCHANGED <<config, process, app, todo, pending, b, freed, countVars, source, name,
                 destroyVars, fileVars, outVars>>

ThreadName ==
  /\ thread = "name"
  /\ name' = NextName(FALSE)
  /\ WriteFile(name', {})
  /\ CountName(FALSE)
  /\ thread' = "write"
  /\ UNCHANGED <<config, process, app, todo, pending, bufferVars, group, taken, source,
                 destroyVars, outVars>>

\* What the memory of a freed buffer still holds is written, or nothing of it.
ThreadWrite ==
  /\ thread = "write"
  /\ \E S \in {taken} \cup (IF source \in freed THEN {{}} ELSE {}) : WriteFile(name, S)
  /\ taken' = {}
  /\ thread' = "merge"
  /\ UNCHANGED <<config, process, app, todo, pending, bufferVars, countVars, source, name,
                 destroyVars, outVars>>

\* check_for_merge: a whole group becomes one temporary file.
ThreadMerge ==
  /\ thread = "merge"
  /\ thread' = "ended"
  /\ IF group > 0 /\ num_group_written >= group
     THEN /\ WriteFile(NextName(TRUE),
                       ReduceRecords(UNION {gtmp[i] : i \in 0 .. num_group_written - 1}))
          /\ num_written' = num_written + 1
          /\ num_group_written' = 0
     ELSE UNCHANGED <<num_written, num_group_written, fileVars>>
  /\ UNCHANGED <<config, process, app, todo, pending, bufferVars, group, taken, source, name,
                 destroyVars, outVars>>

Thread == ThreadSort \/ ThreadName \/ ThreadWrite \/ ThreadMerge

-----------------------------------------------------------------------------
(* Where the records that were written may be, until the output is opened; a temporary  *)
(* file counts once it is named, and what a killed process left in others does not.     *)

Place == {<<"buffer", 1>>, <<"buffer", 2>>, <<"taken", 0>>, <<"pending", 0>>} \cup Name

Content(p) ==
  CASE p[1] = "buffer" -> buffer[p[2]]
    [] p[1] = "taken" -> taken
    [] p[1] = "pending" -> IF pending = None THEN {} ELSE {{pending}}
    [] p[1] = "tmp" -> IF p[2] < num_written THEN tmp[p[2]] ELSE {}
    [] p[1] = "gtmp" -> IF p[2] < num_group_written THEN gtmp[p[2]] ELSE {}

\* The records at the places Q.
RecordsAt(Q) == UNION {UNION Content(p) : p \in Q}

-----------------------------------------------------------------------------
(* ac_out_destroy: _ac_out_sorted_in, the output file, the temporary files.  Nobody     *)
(* waits for the thread before the numbers of files are read.                           *)

NothingNamed == num_written = 0 /\ num_group_written = 0

\* num_written is read, and num_group_written after it.
NoneWritten ==
  /\ app = "open"
  /\ todo = {}
  /\ num_written = 0
  /\ app' = "none written"
  /\ UNCHANGED <<config, process, todo, pending, bufferVars, countVars, threadVars,
                 destroyVars, fileVars, outVars>>

\* Everything fits into one buffer, or so the numbers say: the other buffer is freed,
\* whoever reads it.
InFromBuffer ==
  /\ app = "none written"
  /\ num_group_written = 0
  /\ freed' = freed \cup {Other(b)}
  /\ result' = ReduceRecords(buffer[b])
  /\ left' = left \cup RecordsAt(Place \ {<<"buffer", b>>})
  /\ app' = IF buffer[b] = {} THEN "free" ELSE "output"
  /\ UNCHANGED <<config, process, todo, pending, buffer, b, countVars, threadVars,
                 at, skipped, fileVars, outVars>>

\* Temporary files there are; records that are left in the buffer follow them.
InFromFiles ==
  /\ \/ app = "open" /\ todo = {} /\ num_written # 0
     \/ app = "none written" /\ num_group_written # 0
  /\ app' = IF buffer[b] = {} THEN "merge" ELSE "last"
  /\ UNCHANGED <<config, process, todo, pending, bufferVars, countVars, threadVars,
                 destroyVars, fileVars, outVars>>

\* Fault: the last group is left as it is.
LastBufferUngrouped ==
  /\ app = "last"
  /\ Joined
  /\ Hand
  /\ app' = "last written"
  /\ UNCHANGED <<config, process, todo, pending, countVars, destroyVars, fileVars, outVars>>

\* num_per_group becomes what makes check_for_merge merge now.
LastBuffer ==
  /\ app = "last"
  /\ Joined
  /\ Hand
  /\ group' = IF group = 0 THEN 0 ELSE IF num_group_written > 0 THEN num_group_written ELSE 1
  /\ app' = "last written"
  /\ UNCHANGED <<config, process, todo, pending, num_written, num_group_written,
                 destroyVars, fileVars, outVars>>

LastWritten ==
  /\ app = "last written"
  /\ Joined
  /\ app' = "merge"
  /\ UNCHANGED <<config, process, todo, pending, bufferVars, countVars, threadVars,
                 destroyVars, fileVars, outVars>>

\* The cursor over all the temporary files, but not those of a group that is still open.
MergeFiles ==
  /\ app = "merge"
  /\ freed' = 1 .. 2
  /\ result' = ReduceRecords(UNION {tmp[i] : i \in 0 .. num_written - 1})
  /\ left' = left \cup RecordsAt({"gtmp"} \X Files)
  /\ app' = "output"
  /\ UNCHANGED <<config, process, todo, pending, buffer, b, countVars, threadVars,
                 at, skipped, fileVars, outVars>>

\* Fault: the rename comes before the last write.
OpenOutputRenamed ==
  /\ app = "output"
  /\ app' = "write"
  /\ exist' = exist \cup {Final}
  /\ safe' = {}
  /\ final' = {}
  /\ UNCHANGED <<config, process, todo, pending, bufferVars, countVars, threadVars,
                 destroyVars, tmp, gtmp, ack>>

\* The output is opened, under another name in safe mode, and truncated.
OpenOutput ==
  /\ app = "output"
  /\ app' = "write"
  /\ IF config.safe THEN safe' = {} /\ UNCHANGED <<final, exist>>
                    ELSE final' = {} /\ exist' = exist \cup {Final} /\ UNCHANGED safe
  /\ UNCHANGED <<config, process, todo, pending, bufferVars, countVars, threadVars,
                 destroyVars, tmp, gtmp, ack>>

WriteOutput ==
  /\ app = "write"
  /\ app' = IF config.safe THEN "rename" ELSE "ack"
  /\ IF config.safe THEN safe' = result /\ UNCHANGED final
                    ELSE final' = result /\ UNCHANGED safe
  /\ UNCHANGED <<config, process, todo, pending, bufferVars, countVars, threadVars,
                 destroyVars, fileVars, ack>>

RenameOutput ==
  /\ app = "rename"
  /\ final' = safe
  /\ exist' = exist \cup {Final}
  /\ safe' = {}
  /\ app' = "ack"
  /\ UNCHANGED <<config, process, todo, pending, bufferVars, countVars, threadVars,
                 destroyVars, tmp, gtmp, ack>>

WriteAck ==
  /\ app = "ack"
  /\ ack' = TRUE
  /\ app' = "free"
  /\ UNCHANGED <<config, process, todo, pending, bufferVars, countVars, threadVars,
                 destroyVars, fileVars, safe, final>>

FreeBuffers ==
  /\ app = "free"
  /\ freed' = 1 .. 2
  /\ at' = <<"tmp", 0>>
  /\ skipped' = 0
  /\ app' = "remove"
  /\ UNCHANGED <<config, process, todo, pending, buffer, b, countVars, threadVars,
                 result, left, fileVars, outVars>>

\* ac_out_ext_remove_tmp_files, a name at a time: all up to the fourth that is not there,
\* so also those that an earlier process left.
RemoveFile ==
  /\ app = "remove"
  /\ skipped < 4
  /\ IF at \in exist
     THEN /\ exist' = exist \ {at}
          /\ IF at[1] = "tmp" THEN tmp' = [tmp EXCEPT ![at[2]] = {}] /\ UNCHANGED gtmp
                              ELSE gtmp' = [gtmp EXCEPT ![at[2]] = {}] /\ UNCHANGED tmp
          /\ UNCHANGED skipped
     ELSE skipped' = skipped + 1 /\ UNCHANGED fileVars
  /\ at' = <<at[1], at[2] + 1>>
  /\ UNCHANGED <<config, process, app, todo, pending, bufferVars, countVars, threadVars,
                 result, left, outVars>>

\* The files of groups come after the others.
EndRemove ==
  /\ app = "remove"
  /\ skipped = 4
  /\ IF at[1] = "tmp" THEN at' = <<"gtmp", 0>> /\ skipped' = 0 /\ UNCHANGED app
                      ELSE app' = "closed" /\ UNCHANGED <<at, skipped>>
  /\ UNCHANGED <<config, process, todo, pending, bufferVars, countVars, threadVars,
                 result, left, fileVars, outVars>>

App ==
  \/ \E r \in Records : Store(r) \/ Overflow(r)
  \/ WriteSorted \/ Retry \/ WriteOne \/ OneWritten
  \/ NoneWritten \/ InFromBuffer \/ InFromFiles \/ LastBuffer \/ LastWritten \/ MergeFiles
  \/ OpenOutput \/ WriteOutput \/ RenameOutput \/ WriteAck
  \/ FreeBuffers \/ RemoveFile \/ EndRemove

Next == App \/ Thread \/ Restart

Spec == Init /\ [][Next]_vars
-----------------------------------------------------------------------------
(* Properties *)

FileType == SUBSET (SUBSET Item)

\* Until the cursor over what was written is there.
Writing == app \in {"open", "none written", "flush", "retry", "one", "one written",
                    "last", "last written", "merge"}

TypeOK ==
  /\ config \in Configurations
  /\ process \in Process
  /\ Writing \/ app \in {"output", "write", "rename", "ack", "free", "remove", "closed"}
  /\ todo \subseteq ToWrite
  /\ pending \in Item \cup {None}
  /\ DOMAIN buffer = 1 .. 2 /\ \A i \in 1 .. 2 : buffer[i] \in FileType
  /\ \A i \in 1 .. 2 : Cardinality(buffer[i]) <= config.capacity
  /\ b \in 1 .. 2 /\ source \in 1 .. 2 /\ freed \subseteq 1 .. 2
  /\ num_written \in Nat /\ num_group_written \in Nat /\ group \in Nat
  /\ thread \in {"none", "sort", "name", "write", "merge", "ended"}
  /\ taken \in FileType
  /\ name \in {"tmp", "gtmp"} \X Nat
  /\ result \in FileType /\ left \subseteq Item
  /\ at \in {"tmp", "gtmp"} \X Nat /\ skipped \in 0 .. 4
  /\ DOMAIN tmp = Files /\ DOMAIN gtmp = Files
  /\ \A i \in Files : tmp[i] \in FileType /\ gtmp[i] \in FileType
  /\ exist \subseteq ({"tmp", "gtmp"} \X Nat) \cup {Final}
  /\ safe \in FileType /\ final \in FileType /\ ack \in BOOLEAN

\* No record of this process was passed by.
Complete == left \cap ({process} \X Records) = {}

\* The records of the output of process p: each of its records in one place but those
\* that were passed by, and with a reducer one record for each key.
IsWhole(S, p) ==
  /\ UNION S = ({p} \X ToWrite) \ left
  /\ \A x, y \in S : x # y => x \cap y = {} /\ (config.reduce => KeyOf(x) # KeyOf(y))

Disjoint(files, n) ==
  \A i, j \in 0 .. n - 1 : i # j => (UNION files[i]) \cap (UNION files[j]) = {}

\* Nothing that was written is missing from the output but what the tests of
\* ac_out_destroy pass by: a buffer that the thread has yet to name a file for, and the
\* files of a group that is open behind a large record; without the thread and without
\* large records in groups nothing is.  A reducer leaves one record for each key, nothing
\* that a killed process left behind is in the output, and no record is in two of the
\* files that are merged, neither of a group nor at the end (check_for_merge,
\* _ac_out_sorted_in).
AllMerged ==
  /\ ~Writing => IsWhole(result, process)
  /\ ~Complete => config.extra \/ (config.group > 0 /\ config.large)
  /\ app = "merge" => Disjoint(tmp, num_written)
  /\ Writing /\ thread = "merge" => Disjoint(gtmp, num_group_written)

\* While the thread reads a buffer nobody fills it, and nobody frees it but an
\* ac_out_destroy that has passed it by (wait_on_thread before the buffers change places
\* and before they are freed).
BufferUntouched ==
  thread \in {"sort", "name", "write"} =>
     /\ source \in freed => ~Complete
     /\ Writing /\ config.extra => source # b

\* In safe mode the output file is never part of one, whatever was killed: it is the whole
\* output of some process, an earlier one until this one has renamed its own, and there is
\* one before there is an ack file.
SafeOutput ==
  config.safe =>
    /\ Final \in exist =>
         \E p \in 1 .. process :
           IsWhole(final, p) /\ (p = process => app \in {"ack", "free", "remove", "closed"})
    /\ ack => Final \in exist

FileOf(n) == IF n[1] = "tmp" THEN tmp[n[2]] ELSE gtmp[n[2]]

\* Is there a record of process p in the file?
Wrote(n, p) == (UNION FileOf(n)) \cap ({p} \X Records) # {}

\* ac_out_destroy leaves no temporary file that this process wrote, in its groups or for
\* its output, unless it passed records by; a file that a killed process left may stay
\* only behind four names that are free (ac_out_ext_remove_tmp_files).
NoFilesLeft ==
  app = "closed" /\ Complete => \A n \in Name \cap exist : ~Wrote(n, process) /\ n[2] > 3

\* What holds of buffers and files in every step of every process, killed ones included
\* (write_sorted_thread, ac_out_destroy, ac_out_ext_remove_tmp_files).
OutInv == TypeOK /\ BufferUntouched /\ SafeOutput /\ NoFilesLeft

\* "all of the tmp files are merged at the end" (ac_out.h:140): what was written is in the
\* output.  It is not, where ac_out_destroy passes records by, so no run claims it.
AllTmpMerged == app = "output" => UNION result = {process} \X ToWrite

-----------------------------------------------------------------------------
(* What is behind it: the inductive invariant. *)

\* Every record of a file is made from records of one key, and no two from the same.
IsFile(S) ==
  /\ \A x \in S : x # {} /\ \A i, j \in x : Key(i[2]) = Key(j[2])
  /\ \A x, y \in S : x # y => x \cap y = {}

\* Each record that was written is in one place.
PlacesInv ==
  Writing =>
    /\ \A p \in Place : IsFile(Content(p))
    /\ \A p, q \in Place : p # q => (UNION Content(p)) \cap (UNION Content(q)) = {}
    /\ RecordsAt(Place) = {process} \X (ToWrite \ todo)

\* A file is named for each full buffer and each large record, so there are no more of
\* them than records.
Filling == IF thread = "sort" /\ ~config.extra THEN 0 ELSE Cardinality(buffer[b])

CountInv ==
  num_written + num_group_written + (IF thread \in {"sort", "name"} THEN 1 ELSE 0) + Filling
    + (IF pending = None THEN 0 ELSE 1) + Cardinality(todo) <= Cardinality(ToWrite)

\* Whose turn it is: which buffer the thread reads, what it still holds, which file is the
\* one it writes, and when it runs.
ThreadInv ==
  /\ Writing =>
       /\ thread \in {"sort", "name", "write"} => source = IF config.extra THEN Other(b) ELSE b
       /\ thread # "sort" => buffer[Other(b)] = {}
       /\ ~config.extra => buffer[Other(b)] = {}
       /\ thread \notin {"name", "write"} => taken = {}
       /\ thread = "write" =>
            /\ name \in Name
            /\ \/ name = <<"tmp", num_written - 1>> /\ num_written > 0
               \/ name = <<"gtmp", num_group_written - 1>> /\ num_group_written > 0
            /\ Content(name) = {}
       /\ ~Joined => config.extra \/ app \in {"retry", "one written", "last written"}
  /\ ~Writing /\ ~Joined => config.extra /\ ~Complete

\* A thread that runs has records in hand, or in a file.
HoldInv ==
  Writing =>
    /\ thread = "sort" => buffer[source] # {}
    /\ thread \in {"name", "write"} => taken # {}
    /\ thread = "merge" => \E n \in Name : Content(n) # {}

\* What the application still holds in each of its phases.
PhaseInv ==
  /\ Writing => freed = {}
  /\ pending # None <=> app \in {"flush", "retry", "one"}
  /\ pending # None => pending \in {process} \X ToWrite
  /\ app = "one" => pending[2] \in Large
  /\ app \in {"one", "one written"} => config.large
  /\ app \in {"flush", "last"} => buffer[b] # {}
  /\ app \in {"retry", "one", "one written", "last written"} /\ (config.extra \/ thread # "sort")
       => buffer[b] = {}
  /\ app \in {"open", "none written"} /\ buffer[b] = {} => Joined /\ (NothingNamed \/ config.large)
  /\ app = "none written" => todo = {} /\ (config.extra \/ (Joined /\ num_written = 0))
  /\ app \in {"last", "last written", "merge"} => todo = {} /\ ~NothingNamed

\* The group that is open at the end is merged with the last buffer.
GroupInv ==
  Writing =>
    /\ group = 0 <=> config.group = 0
    /\ group = 0 => num_group_written = 0
    /\ app \notin {"last written", "merge"} => group = config.group
    /\ app = "last written" =>
         /\ thread # "none"
         /\ group > 0 /\ thread \in {"sort", "name"} => group <= num_group_written + 1
         /\ thread \in {"write", "merge"} => group <= num_group_written
         /\ Joined => num_group_written = 0
    /\ app = "merge" => Joined /\ buffer[b] = {} /\ (num_group_written = 0 \/ config.large)

\* What is on its way to the output file, and what was passed by.
OutputInv ==
  /\ \A i \in left : i[1] <= process
  /\ Writing => Complete
  /\ ~Complete => config.extra \/ (config.group > 0 /\ config.large)
  /\ ~Writing => IsWhole(result, process)
  /\ app = "rename" => safe = result /\ config.safe
  /\ app = "ack" /\ config.safe => final = result /\ Final \in exist

\* No record of a process that is still to come.
Past(S) == \A i \in UNION S : i[1] <= process

\* The temporary files of this process have the names from zero on without a gap, those
\* that are removed already aside.
FilesInv ==
  /\ \A n \in Name : Past(FileOf(n))
  /\ ~Writing => Past(taken) /\ \A i \in 1 .. 2 : Past(buffer[i])
  /\ Writing => \A i \in Files : /\ i < num_written => <<"tmp", i>> \in exist
                                 /\ i < num_group_written => <<"gtmp", i>> \in exist
  /\ Complete /\ app \notin {"remove", "closed"} =>
       \A n \in Name : Wrote(n, process) => \A j \in 0 .. n[2] : <<n[1], j>> \in exist
  /\ Complete /\ app = "remove" =>
       /\ \A n \in Name : Wrote(n, process) =>
            IF n[1] = at[1]
            THEN skipped = 0 /\ n[2] >= at[2] /\ \A j \in at[2] .. n[2] : <<n[1], j>> \in exist
            ELSE at[1] = "tmp" /\ \A j \in 0 .. n[2] : <<n[1], j>> \in exist
       /\ skipped <= at[2]
       /\ \A n \in Name \cap exist : n[1] = at[1] => n[2] >= at[2]
       /\ at[1] = "gtmp" => \A n \in Name \cap exist : n[1] = "tmp" => n[2] > 3

\* The inductive invariant, which OutInv and AllMerged follow from.
OutIInv ==
  /\ TypeOK /\ CountInv /\ ThreadInv /\ HoldInv /\ PhaseInv /\ GroupInv
  /\ PlacesInv
  /\ OutputInv /\ FilesInv /\ SafeOutput /\ NoFilesLeft
=============================================================================
