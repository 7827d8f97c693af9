-------------------------------- MODULE Stream --------------------------------
(***************************************************************************)
(* A file from its writer, ac_out.c, to a reader, ac_in.c: an application  *)
(* writes records and closes the output, or is killed, or the disk fills   *)
(* up; a reader opens the file at any moment, with buffers of its own      *)
(* size, and reads to the end.  What it gets is compared with what was     *)
(* written.  The reader reads the file as it was when it opened it.        *)
(***************************************************************************)
EXTENDS AcOutFormat

CONSTANTS
  Outs,         \* the options of a writer
  Rooms,        \* the room on the disk
  RecordsOf(_), \* the records an application writes in a format
  MaxRecords,   \* bound on the records
  Ins           \* the sizes a reader asks for: [from, buffer_size, compressed]

ASSUME StreamAssumption == MaxRecords \in Nat /\ Rooms \subseteq Nat

VARIABLES
  out,      \* the options the output was opened with
  h,        \* the writer's handle
  writer,   \* "open", "flushed", "renamed", "closed" or "gone"
  files,    \* on disk: what the final name and the -safe name hold
  ack,      \* is there an ack file?
  written,  \* the records, in the order they were written in
  full,     \* did a write fail?
  hurt,     \* was a block changed on the disk?
  in,       \* the reader's cursor
  reader,   \* "none", "reading", "end" or "destroyed"
  promise,  \* could the reader know that the file is whole?
  got       \* what it read

outVars == <<out, h, writer, files, ack, written, full>>
inVars == <<in, reader, promise, got>>
vars == <<outVars, hurt, inVars>>

None == [exists |-> FALSE, ext |-> "", bytes |-> <<>>]
File(o, bytes) == [exists |-> TRUE, ext |-> o.ext, bytes |-> bytes]

\* The file the handle writes to, by name.
NameOf(o) == IF o.safe_mode THEN "safe" ELSE "final"
Saved(k) == [files EXCEPT ![NameOf(k.options)] = File(k.options, k.file)]

Init ==
  \E o \in Outs, room \in Rooms :
    /\ out = o
    /\ h = _ac_out_init_(o, <<>>, room)
    /\ writer = "open"
    /\ files = [[n \in {"final", "safe"} |-> None] EXCEPT ![NameOf(o)] = File(o, <<>>)]
    /\ ack = FALSE
    /\ written = <<>>
    /\ full = FALSE
    /\ hurt = FALSE
    /\ in = _ac_in_empty(ac_in_options_init, FALSE)
    /\ reader = "none"
    /\ promise = FALSE
    /\ got = <<>>

------------------------------------------------------------------------------
(* The writer.                                                             *)

Write ==
  /\ writer = "open" /\ reader = "none"
  /\ Len(written) < MaxRecords
  /\ \E d \in RecordsOf(out.format) :
       \E put \in {ac_out_write_record(h, d)} :
         /\ h' = put.h
         /\ files' = Saved(put.h)
         /\ full' = (full \/ ~put.ok)
         /\ written' = Append(written, d)
  /\ UNCHANGED <<out, writer, ack, hurt, inVars>>

\* _ac_out_destroy, of ac_out_destroy and of ac_out_normal_in.
Flush ==
  /\ writer = "open" /\ reader = "none"
  /\ h' = _ac_out_destroy(h)
  /\ files' = Saved(h')
  /\ full' = (full \/ ~h'.write_d \/ h'.room = 0)
  /\ writer' = "flushed"
  /\ UNCHANGED <<out, ack, written, hurt, inVars>>

\* A write that failed does not keep the file from its name.
Rename ==
  /\ writer = "flushed" /\ reader = "none"
  /\ files' = IF out.safe_mode THEN [final |-> files["safe"], safe |-> None] ELSE files
  /\ writer' = "renamed"
  /\ UNCHANGED <<out, h, ack, written, full, hurt, inVars>>

WriteAck ==
  /\ writer = "renamed" /\ reader = "none"
  /\ ack' = out.write_ack_file
  /\ writer' = "closed"
  /\ UNCHANGED <<out, h, files, written, full, hurt, inVars>>

\* The application opens its file again to append to it.
Reopen ==
  /\ writer = "closed" /\ reader = "none"
  /\ out.append_mode
  /\ Len(written) < MaxRecords
  /\ h' = _ac_out_init_(out, h.file, h.room)
  /\ writer' = "open"
  /\ UNCHANGED <<out, files, ack, written, full, hurt, inVars>>

\* The application is killed: the files stay as they are.
Crash ==
  /\ writer \in {"open", "flushed", "renamed"} /\ reader = "none"
  /\ writer' = "gone"
  /\ UNCHANGED <<out, h, files, ack, written, full, hurt, inVars>>

------------------------------------------------------------------------------
(* The reader.                                                             *)

\* Where the blocks of an lz4 file have their data and their checksums.
RECURSIVE BlockBytes(_, _)
BlockBytes(s, at) ==
  LET length == read_little_endian_32(SubSeq(s, at + 1, at + 4))
      to == at + 4 + length + (IF out.block_checksum THEN 4 ELSE 0)
  IN  IF at + 4 > Len(s) \/ length = 0 \/ to > Len(s) THEN {}
      ELSE (at + 5 .. to) \cup BlockBytes(s, to)

\* A byte of a block changes on the disk, where blocks have checksums.
Hurt ==
  /\ reader = "none" /\ ~hurt /\ writer \in {"closed", "gone"}
  /\ out.ext = "lz4" /\ out.block_checksum
  /\ \E i \in BlockBytes(files["final"].bytes, 7) :
       files' = [files EXCEPT !["final"].bytes[i] = (@ + 1) % 256]
  /\ hurt' = TRUE
  /\ UNCHANGED <<out, h, writer, ack, written, full, inVars>>

InOptions(x, format) ==
  [ac_in_options_lz4(ac_in_options_buffer_size(ac_in_options_format(ac_in_options_init, format), x.buffer_size),
                     x.compressed) EXCEPT !.from = x.from]

OpenAs(o, file) ==
  /\ in' = _ac_in_init(file, o)
  /\ reader' = "reading"
  /\ UNCHANGED <<got, out, h, writer, files, ack, written, full, hurt>>

\* Another application opens the final name.  It knows that the file is whole from the
\* ack file, from the name in safe mode, or from the writer having closed it.
OpenIn ==
  /\ reader = "none"
  /\ \E x \in Ins :
       /\ x.from = "buffer" => out.ext # "gz"
       /\ OpenAs(InOptions(x, out.format), files["final"])
  /\ promise' = (ack \/ writer = "closed" \/ (out.safe_mode /\ files["final"].exists))

\* ac_out_normal_in: the writer reads its own file, whatever its name is by now.
NormalIn ==
  /\ reader = "none" /\ writer = "flushed"
  /\ OpenAs(ac_in_options_buffer_size(ac_in_options_format(ac_in_options_init, out.format), h.size),
            files[NameOf(out)])
  /\ promise' = TRUE

Advance ==
  /\ reader = "reading"
  /\ in' = ac_in_advance(in)
  /\ got' = got \o in'.current
  /\ reader' = IF in'.current = <<>> THEN "end" ELSE "reading"
  /\ UNCHANGED <<outVars, hurt, promise>>

Destroy ==
  /\ reader = "end"
  /\ in' = ac_in_destroy(in)
  /\ reader' = "destroyed"
  /\ UNCHANGED <<outVars, hurt, promise, got>>

Next ==
  \/ Write \/ Flush \/ Rename \/ WriteAck \/ Reopen \/ Crash
  \/ Hurt \/ OpenIn \/ NormalIn \/ Advance \/ Destroy

Spec == Init /\ [][Next]_vars

------------------------------------------------------------------------------
(* Properties.                                                             *)

Strings(s) == [i \in 1 .. Len(s) |-> s[i].s] \o <<>>

\* What the code cannot read back: a csv record cut by the end of the buffer behind a
\* quote; a record of an lz4 file longer than the buffer of decompressed blocks, which
\* ac_in_use_buffer fills once; a record that spans a bad block, made of what comes before
\* and behind it.
LongForLz4 ==
  /\ out.ext = "lz4" /\ out.format >= 0
  /\ \E i \in 1 .. Len(written) : Len(written[i]) > in.r.size

Readable == ~in.r.cut /\ ~LongForLz4 /\ ~in.r.beyond

\* A reader that could know the file to be whole reads every record that was written, in
\* order, each with a zero behind it: whatever the format, the compression and the sizes
\* of the buffers on both sides, whichever step of the writer it came after.
ReadBack ==
  (reader = "end" /\ promise /\ ~full /\ ~hurt /\ Readable) =>
     /\ Strings(got) = written
     /\ \A i \in 1 .. Len(got) : got[i].z

\* A reader of a file that is being written, was cut short by a crash or a full disk, or
\* lost a block of lz4 whose checksum tells, reads the first of the records and no other,
\* and never asks its buffer for more than it holds, which would abort (ac_in_base.c).
\* The one abort left is the memory given back twice, see freed.
PrefixRead ==
  /\ Readable => IsPrefix(Strings(got), written)
  /\ in.r.aborted => in.r.freed
==============================================================================
