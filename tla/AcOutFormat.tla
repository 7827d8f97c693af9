------------------------------ MODULE AcOutFormat ------------------------------
(***************************************************************************)
(* ac_out.c for one file: records go through a buffer, and for lz4 through *)
(* a second one of compressed blocks, to the file.  A handle is a record;  *)
(* h.file is what the disk has of the file and h.room how much more it     *)
(* takes.  write_d is FALSE after a write failed.                          *)
(***************************************************************************)
EXTENDS AcInBase

CONSTANTS
  MinGzOut,  \* the smallest buffer of a gz file, 64 KB in the code
  ZChunk     \* how many bytes zlib holds back

ASSUME OutAssumption == {MinGzOut, ZChunk} \subseteq Nat

\* External: the disk takes what there is room for.
OnDisk(h, p) ==
  LET n == Lesser(Len(p), h.room)
  IN  [h EXCEPT !.file = @ \o SubSeq(p, 1, n), !.room = @ - n]

\* A write that fails gives up the file.
Result(h, p) == [h |-> IF Len(p) <= h.room THEN OnDisk(h, p) ELSE [OnDisk(h, p) EXCEPT !.fd = FALSE],
                 ok |-> Len(p) <= h.room]
_write_to_fd(h, p) == IF ~h.fd /\ p # <<>> THEN [h |-> h, ok |-> FALSE] ELSE Result(h, p)

\* External: gzwrite keeps the bytes until there are enough.
_write_to_gz(h, p) ==
  LET all == h.pending \o Deflate(p)
  IN  IF ~h.fd THEN [h |-> h, ok |-> p = <<>>]
      ELSE IF Len(all) <= ZChunk THEN [h |-> [h EXCEPT !.pending = all], ok |-> TRUE]
      ELSE Result([h EXCEPT !.pending = <<>>], all)

\* A block goes into the second buffer, which is written when it is full or has no room
\* for the longest block there may be.
WithBlock(h, block) == [h EXCEPT !.buffer2 = @ \o block.bytes, !.lz4 = <<block.l>>]
Emptied2(put) == IF put.ok THEN [put EXCEPT !.h.buffer2 = <<>>] ELSE put
WriteBuffer2(h) == Emptied2(_write_to_fd(h, h.buffer2))
WriteIfFull(h) == IF Len(h.buffer2) < h.size2 THEN [h |-> h, ok |-> TRUE] ELSE WriteBuffer2(h)

RECURSIVE _write_to_lz4(_, _), AndThenBlock(_, _)
_write_to_lz4(h, p) ==
  IF p # <<>> /\ Len(h.buffer2) + LZ4_compressBound(Len(p)) + 8 <= h.size2
  THEN WriteIfFull(WithBlock(h, ac_lz4_compress_block(h.lz4[1], p)))
  ELSE AndThenBlock(WriteBuffer2(h), p)
AndThenBlock(put, p) == IF put.ok /\ p # <<>> THEN _write_to_lz4(put.h, p) ELSE put

\* Mutant: the bytes that fill the buffer are not taken off the record.
FillTwice(h, d) == [first |-> SubSeq(d, 1, h.size - Len(h.buffer)), rest |-> d]

\* What still goes into the buffer of a record, and what is left of it.
Split(h, d) ==
  LET diff == h.size - Len(h.buffer)
  IN  [first |-> SubSeq(d, 1, diff), rest |-> SubSeq(d, diff + 1, Len(d))]

\* Whole blocks of a long record, then the rest of it into the buffer.
RECURSIVE Blocks(_, _), BlocksAfter(_, _)
Blocks(h, p) ==
  IF Len(p) < h.size THEN [h |-> [h EXCEPT !.buffer = p], ok |-> TRUE]
  ELSE BlocksAfter(LET block == SubSeq(p, 1, h.size) IN
                     IF h.options.ext = "lz4" THEN _write_to_lz4(h, block) ELSE _write_to_gz(h, block),
                   SubSeq(p, h.size + 1, Len(p)))
BlocksAfter(put, p) == IF put.ok THEN Blocks([put.h EXCEPT !.buffer = <<>>], p) ELSE put

Buffered(h, d) == [h |-> [h EXCEPT !.buffer = @ \o d], ok |-> TRUE]
Emptied(put) == IF put.ok THEN [put EXCEPT !.h.buffer = <<>>] ELSE put

\* The rest of a record that fills the buffer of a plain file is written as it is.
RestAfter(put, rest) ==
  IF put.ok /\ Len(rest) >= put.h.size THEN _write_to_fd([put.h EXCEPT !.buffer = <<>>], rest)
  ELSE IF put.ok THEN [put EXCEPT !.h.buffer = rest] ELSE put

\* The flush is a write of no bytes.
_ac_out_write(h, d) ==
  LET s == Split(h, d)
  IN  CASE Len(h.buffer) + Len(d) < h.size /\ d # <<>> -> Buffered(h, d)
        [] Len(h.buffer) + Len(d) < h.size /\ d = <<>> -> Emptied(_write_to_fd(h, h.buffer))
        [] OTHER -> RestAfter(_write_to_fd(h, h.buffer \o s.first), s.rest)

\* The end mark behind the last block, and all of it to the file.
WithMark(h) == [h EXCEPT !.buffer2 = @ \o ac_lz4_finish(h.lz4[1])]
EndMark(put) == IF put.ok THEN _write_to_lz4(WithMark(put.h), <<>>) ELSE put

_ac_out_write_lz4(h, d) ==
  LET s == Split(h, d)
  IN  CASE Len(h.buffer) + Len(d) <= h.size /\ d # <<>> -> Buffered(h, d)
        [] Len(h.buffer) + Len(d) <= h.size /\ d = <<>> -> EndMark(Emptied(_write_to_lz4(h, h.buffer)))
        [] OTHER -> BlocksAfter(_write_to_lz4(h, h.buffer \o s.first), s.rest)

_ac_out_write_gz(h, d) ==
  LET s == Split(h, d)
  IN  CASE Len(h.buffer) + Len(d) < h.size /\ d # <<>> -> Buffered(h, d)
        [] Len(h.buffer) + Len(d) < h.size /\ d = <<>> -> Emptied(_write_to_gz(h, h.buffer))
        [] OTHER -> BlocksAfter(_write_to_gz(h, h.buffer \o s.first), s.rest)

------------------------------------------------------------------------------
(* Opening, the three formats, closing.                                    *)

ac_out_options_init ==
  [ext |-> "", buffer_size |-> 0, format |-> ac_io_prefix, append_mode |-> FALSE, safe_mode |-> FALSE,
   write_ack_file |-> FALSE, size |-> 1, block_checksum |-> FALSE, content_checksum |-> FALSE]
ac_out_options_buffer_size(o, n) == [o EXCEPT !.buffer_size = n]
ac_out_options_format(o, format) == [o EXCEPT !.format = format]
ac_out_options_append_mode(o) == [o EXCEPT !.append_mode = TRUE]
ac_out_options_safe_mode(o) == [o EXCEPT !.safe_mode = TRUE]
ac_out_options_write_ack_file(o) == [o EXCEPT !.write_ack_file = TRUE]
ac_out_options_gz(o) == [o EXCEPT !.ext = "gz"]
ac_out_options_lz4(o, size, block, content) ==
  [o EXCEPT !.ext = "lz4", !.size = size, !.block_checksum = block, !.content_checksum = content]

\* The file starts with what it had when it is appended to.
Handle(o, file, room, size) ==
  [options |-> o, fd |-> TRUE, write_d |-> TRUE, file |-> IF o.append_mode THEN file ELSE <<>>, room |-> room,
   buffer |-> <<>>, size |-> size, buffer2 |-> <<>>, size2 |-> 0, lz4 |-> <<>>, pending |-> <<>>]

_ac_out_init(o, file, room) == Handle(o, file, room, o.buffer_size)
_ac_out_init_gz(o, file, room) == Handle(o, file, room, Greater(o.buffer_size, MinGzOut))

\* The one block of memory is the buffer of a block and, behind it, the second buffer.
_ac_out_init_lz4(o, room) ==
  LET lz4 == ac_lz4_init(o.size, o.block_checksum, o.content_checksum)
      size == Greater(o.buffer_size, ac_lz4_compressed_size(lz4) + lz4.block_size + 8)
  IN  [Handle(o, <<>>, room, lz4.block_size) EXCEPT
         !.lz4 = <<lz4>>, !.size2 = size - lz4.block_size, !.buffer2 = lz4.header]

_ac_out_init_(o, file, room) ==
  CASE o.ext = "lz4" -> _ac_out_init_lz4(o, room)
    [] o.ext = "gz" -> _ac_out_init_gz(o, file, room)
    [] OTHER -> _ac_out_init(o, file, room)

write_d(h, d) ==
  CASE h.options.ext = "lz4" -> _ac_out_write_lz4(h, d)
    [] h.options.ext = "gz" -> _ac_out_write_gz(h, d)
    [] OTHER -> _ac_out_write(h, d)

\* After one write failed all others do.
Failed(put) == IF put.ok THEN put ELSE [put EXCEPT !.h.write_d = FALSE]
ac_out_write(h, d) ==
  CASE d = <<>> -> [h |-> h, ok |-> TRUE]
    [] d # <<>> /\ ~h.write_d -> [h |-> h, ok |-> FALSE]
    [] OTHER -> Failed(write_d(h, d))
ac_out_flush(h) == IF h.write_d THEN Failed(write_d(h, <<>>)) ELSE [h |-> h, ok |-> FALSE]

AndThenWrite(put, e) == IF put.ok THEN ac_out_write(put.h, e) ELSE put
Both(h, d, e) == AndThenWrite(ac_out_write(h, d), e)

_ac_out_write_prefix(h, d) == Both(h, write_little_endian_32(Len(d)), d)
\* The delimiter of a csv file is an ordinary one here: the caller has quoted the fields.
_ac_out_write_delimiter(h, d) == Both(h, d, << (-h.options.format - 1) % 256 >>)
\* A record of another length aborts.
_ac_out_write_fixed(h, d) == ac_out_write(h, d)

ac_out_write_record(h, d) ==
  CASE h.options.format < 0 -> _ac_out_write_delimiter(h, d)
    [] h.options.format > 0 -> _ac_out_write_fixed(h, d)
    [] OTHER -> _ac_out_write_prefix(h, d)

\* gzclose writes what zlib kept; nobody looks whether it could.
CloseGz(h) ==
  IF h.options.ext = "gz" /\ h.fd THEN OnDisk([h EXCEPT !.pending = <<>>], h.pending) ELSE h
_ac_out_destroy(h) == CloseGz(ac_out_flush(h).h)
==============================================================================
