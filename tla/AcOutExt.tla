------------------------------ MODULE AcOutExt ------------------------------
(***************************************************************************)
(* What ac_out_ext_init makes of its options and what is on the disk once   *)
(* the output is destroyed: a plain file, a sorted one, or one file for     *)
(* each partition, sorted before, while or after the records are parted.    *)
(*                                                                          *)
(* A file name is a record of its directory, its stem, the numbers that     *)
(* were appended to the stem, a word in front of the last number and the    *)
(* extension.  A file holds records (numbers) in a format and has a time.   *)
(* The buffers, temporary files and the thread of a sorted output are in    *)
(* AcOutSorted, the bytes of a file in AcOutFormat.                         *)
(***************************************************************************)
EXTENDS Integers, Sequences, SequencesExt, FiniteSets, TLC

-----------------------------------------------------------------------------
(* Records, compared as numbers *)

Ascending(recs) == SortSeq(recs, <)

\* ac_io_keep_first over the groups of equal records of a sorted sequence.
KeepFirst(recs) ==
  FoldLeft(LAMBDA acc, r : IF acc # <<>> /\ Last(acc) = r THEN acc ELSE Append(acc, r),
           <<>>, recs)

\* ac_io_hash_partition
PartitionOf(r, n) == r % n

-----------------------------------------------------------------------------
(* Options *)

ac_out_options_init == [format |-> "prefix", safe |-> FALSE, ack |-> FALSE]

ac_out_ext_options_init ==
  [partition |-> FALSE, num_partitions |-> 0, compare |-> FALSE, int_compare |-> FALSE,
   reducer |-> FALSE, int_reducer |-> FALSE, before |-> FALSE, while |-> FALSE,
   threads |-> 0, extra_thread |-> FALSE, lz4_tmp |-> TRUE, num_per_group |-> 0]

\* Every other ac_out_ext_options_... function sets one field.
ac_out_ext_options(ext, field, value) == [ext EXCEPT ![field] = value]

-----------------------------------------------------------------------------
(* Files: fs is a function from the names that exist *)

Holds(fs, name) == name \in DOMAIN fs
Put(fs, name, format, recs, now) ==
  (name :> [format |-> format, recs |-> recs, time |-> now]) @@ fs
Without(fs, names) == [n \in DOMAIN fs \ names |-> fs[n]]

\* The bytes of one format make no records of the other.
Read(fs, name, format) ==
  IF ~Holds(fs, name) THEN <<>>
  ELSE IF fs[name].format = format THEN fs[name].recs
  ELSE [i \in DOMAIN fs[name].recs |-> -1]

suffix_filename_with_id(name, id, extra, use_lz4) ==
  [name EXCEPT !.ids = Append(@, id), !.extra = extra,
               !.ext = IF use_lz4 THEN "lz4" ELSE @]

ac_out_partition_filename(name, id) == suffix_filename_with_id(name, id, "", FALSE)

AckName(name) == [name EXCEPT !.extra = "ack"]

-----------------------------------------------------------------------------
(* Making an output.  A plain output has its file from here on (under        *)
(* another name in safe mode); a sorted one has none.                        *)

ac_out_init(name, options) ==
  [type |-> "normal", name |-> name, options |-> options, recs |-> <<>>]

ac_out_sorted_init(name, options, ext) ==
  [type |-> "sorted", name |-> name, options |-> options, ext |-> ext, recs |-> <<>>,
   partition_options |-> [ext EXCEPT !.compare = FALSE]]

RECURSIVE ac_out_ext_init(_, _, _)

\* Two partitions or more: plain files, in the format of the output only if they are
\* sorted at once; if they are sorted later they have names of their own.
Parted(name, options, ext) ==
  LET direct == ext.while \/ ~ext.compare
      part_options == IF ext.while THEN options
                      ELSE [options EXCEPT !.format = "prefix", !.ack = FALSE]
      part_ext == [ext EXCEPT !.partition = FALSE]
  IN  [type |-> "partitioned", name |-> name, options |-> options, ext |-> ext,
       part_options |-> part_options, part_ext |-> part_ext,
       partitions |->
         [i \in 1 .. ext.num_partitions |->
            IF direct
            THEN ac_out_ext_init(ac_out_partition_filename(name, i - 1), part_options, part_ext)
            ELSE ac_out_init(suffix_filename_with_id(name, i - 1, "unsorted", ext.lz4_tmp),
                             part_options)]]

ac_out_partitioned_init(name, options, ext) ==
  LET plain == [ext EXCEPT !.partition = FALSE]
  IN  CASE ext.num_partitions = 0 -> ac_out_ext_init(name, options, plain)
        [] ext.num_partitions = 1 ->
             ac_out_ext_init(ac_out_partition_filename(name, 0), options, plain)
        [] OTHER -> Parted(name, options, ext)

ac_out_ext_init(name, options, given) ==
  LET ext == [given EXCEPT !.int_compare = @ \/ given.compare,
                           !.int_reducer = @ \/ given.reducer]
  IN  CASE ext.partition /\ ~ext.before -> ac_out_partitioned_init(name, options, ext)
        [] ext.compare -> ac_out_sorted_init(name, options, ext)
        [] ext.partition -> ac_out_partitioned_init(name, options, ext)
        [] OTHER -> ac_out_init(name, options)

-----------------------------------------------------------------------------
(* Writing and reading *)

write_partitioned_record(out, r) ==
  LET p == PartitionOf(r, out.ext.num_partitions) + 1
  IN  [out EXCEPT !.partitions[p].recs = Append(@, r)]

ac_out_write_record(out, r) ==
  IF out.type = "partitioned" THEN write_partitioned_record(out, r)
  ELSE [out EXCEPT !.recs = Append(@, r)]

\* What _ac_out_sorted_in reads, after all the merging.
SortedRecords(out) ==
  LET recs == Ascending(out.recs) IN IF out.ext.int_reducer THEN KeepFirst(recs) ELSE recs

\* ac_in_out
WriteAll(out, recs) == FoldLeft(ac_out_write_record, out, recs)

\* The file of a plain output with its ack file.
DestroyNormal(fs, out, now) ==
  LET written == Put(fs, out.name, out.options.format, out.recs, now)
  IN  IF out.options.ack THEN Put(written, AckName(out.name), "prefix", <<>>, now) ELSE written

RECURSIVE ac_out_destroy(_, _, _)

\* Without records there is no input to read back, and no file is made or emptied.
ac_out_sorted_destroy(fs, out, now) ==
  IF out.recs = <<>> THEN fs
  ELSE ac_out_destroy(fs, WriteAll(ac_out_ext_init(out.name, out.options, out.partition_options),
                                   SortedRecords(out)), now)

\* One turn of sort_partitions: the threads share the partitions between them.
SortPartition(fs, out, i, now) ==
  LET unsorted == suffix_filename_with_id(out.name, i - 1, "unsorted", out.ext.lz4_tmp)
      sorted == ac_out_ext_init(ac_out_partition_filename(out.name, i - 1),
                                [out.part_options EXCEPT !.format = out.options.format],
                                [out.part_ext EXCEPT !.extra_thread = FALSE])
  IN  ac_out_destroy(fs, WriteAll(sorted, Read(fs, unsorted, "prefix")), now)

_ac_out_partitioned_destroy(fs, out, now) ==
  LET closed == FoldLeft(LAMBDA acc, o : ac_out_destroy(acc, o, now), fs, out.partitions)
      sorted == FoldLeft(LAMBDA acc, i : SortPartition(acc, out, i, now), closed,
                         [i \in 1 .. out.ext.num_partitions |-> i])
  IN  IF out.ext.while \/ ~out.ext.compare THEN closed
      ELSE Without(sorted, {suffix_filename_with_id(out.name, i - 1, "unsorted", out.ext.lz4_tmp) :
                             i \in 1 .. out.ext.num_partitions})

ac_out_destroy(fs, out, now) ==
  CASE out.type = "normal" -> DestroyNormal(fs, out, now)
    [] out.type = "sorted" -> ac_out_sorted_destroy(fs, out, now)
    [] out.type = "partitioned" -> _ac_out_partitioned_destroy(fs, out, now)

\* ac_out_in: what can be read back, <<>> for no input at all, and the files once
\* that input is destroyed, too.  A plain file is removed, a sorted one never made.
ac_out_in(fs, out, now) ==
  CASE out.type = "sorted" ->
         [in |-> IF out.recs = <<>> THEN <<>> ELSE <<SortedRecords(out)>>, fs |-> fs]
    [] out.type = "partitioned" ->
         [in |-> <<>>, fs |-> _ac_out_partitioned_destroy(fs, out, now)]
    [] out.type = "normal" ->
         [in |-> <<out.recs>>, fs |-> IF out.options.safe THEN fs ELSE Without(fs, {out.name})]

\* ac_in_transform with default_transform: records in order, by way of a sorted output
\* with a name of its own.
ac_in_transform(recs) ==
  LET name == [dir |-> <<>>, stem |-> "transform", ids |-> <<>>, extra |-> "", ext |-> "lz4"]
      ext == ac_out_ext_options(ac_out_ext_options_init, "compare", TRUE)
  IN  ac_out_in(<<>>, WriteAll(ac_out_ext_init(name, ac_out_options_init, ext), recs), 0).in

-----------------------------------------------------------------------------
(* The names of files an output has open or makes when it is destroyed. *)

OutputNames(name, ext) ==
  IF ext.partition /\ ext.num_partitions > 0
  THEN {ac_out_partition_filename(name, i) : i \in 0 .. ext.num_partitions - 1}
  ELSE {name}
=============================================================================
