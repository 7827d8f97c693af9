------------------------------- MODULE AcInBase -------------------------------
(***************************************************************************)
(* ac_in_base.c, which reads a file through a buffer, and the second       *)
(* buffer ac_in.c puts behind it for the blocks of an lz4 file.  The two   *)
(* have the same members and, but for what fills them, the same code:      *)
(* a buffer is a record r whose kind is "fd" or "gz" for a file, "mem" for *)
(* memory of the caller, "lz4" for decompressed blocks, and then r.base is *)
(* the buffer the blocks come from.  Offsets start at 0, as in the code.   *)
(*                                                                         *)
(* A read returns the buffer and what the caller gets: <<>> for NULL, or   *)
(* the bytes before rlen and whether a zero follows them.                  *)
(***************************************************************************)
EXTENDS Integers, Sequences, SequencesExt

-----------------------------------------------------------------------------
(***************************************************************************)
(* ac_lz4.c: the frame of an lz4 file, a header of seven bytes, blocks and *)
(* an end mark, with the checksums the header announces.  Bytes are        *)
(* numbers, memory is a sequence of bytes.  A handle is a record: ctx says *)
(* whether it compresses, xxh is what went into the content checksum.      *)
(***************************************************************************)

CONSTANTS
  BlockSizes,  \* bytes of a block of s64kb, s256kb, s1mb and s4mb: 64 KB to 4 MB in the code
  BoundSlack   \* how much longer than the input LZ4_compressBound is: length / 255 + 16

Sizes == 1 .. 4

ASSUME Lz4Assumption ==
  /\ BlockSizes \in [Sizes -> Nat \ {0}]
  /\ BoundSlack \in Nat

Repeat(b, n) == [i \in 1..n |-> b] \o <<>>
Tail4(s) == SubSeq(s, Len(s) - 3, Len(s))
Drop4(s) == SubSeq(s, 1, Len(s) - 4)

\* External: LZ4.  A run of three or more of one byte is compressed to two bytes.
IsRun(s) == Len(s) > 2 /\ \A i \in 1..Len(s) : s[i] = s[1]
LZ4_compress(s) == IF IsRun(s) THEN <<s[1], Len(s)>> ELSE <<0>> \o s
LZ4_decompress_safe(s, max) ==
  IF Len(s) = 2 /\ s[2] <= max THEN <<Repeat(s[1], s[2])>> ELSE <<>>
LZ4_compressBound(n) == n + BoundSlack

\* External: XXH32, as a number below 251 that changes with every byte of a short input.
XXH32(s) == FoldLeft(LAMBDA a, b : (a * 7 + b + 1) % 251, 1, s)

\* A uint32_t in memory; the top bit of a block's length is the top bit of its last byte.
write_little_endian_32(v) == <<v % 256, v \div 256, 0, 0>>
read_little_endian_32(s) == s[1] + 256 * s[2]
NotCompressed(s) == s[4] = 128
Mark(s) == [s EXCEPT ![4] = 128]

\* The last byte of the header by size, block checksum, content checksum.
HeaderCheck ==
  << << <<130, 167>>, <<173, 189>> >>,
     << <<251, 8>>, <<132, 255>> >>,
     << <<81, 133>>, <<51, 217>> >>,
     << <<115, 185>>, <<114, 142>> >> >>

Bit(b) == IF b THEN 1 ELSE 0
Header(size, block, content) ==
  << 4, 34, 77, 24, 96 + 16 * Bit(block) + 4 * Bit(content), 48 + 16 * size,
     HeaderCheck[size][1 + Bit(block)][1 + Bit(content)] >>

ac_lz4_init(size, block, content) ==
  [ctx |-> TRUE, size |-> size, header |-> Header(size, block, content),
   block_size |-> BlockSizes[size], compressed_size |-> LZ4_compressBound(BlockSizes[size]),
   block_checksum |-> block, content_checksum |-> content,
   block_header_size |-> IF block THEN 8 ELSE 4, xxh |-> <<>>]

ac_lz4_compressed_size(l) == l.compressed_size + l.block_header_size

\* <<>> when the header is none of the sixteen.
ac_lz4_check_header(header) ==
  IF \E s \in Sizes, b, c \in BOOLEAN : header = Header(s, b, c)
  THEN << CHOOSE x \in [size : Sizes, block : BOOLEAN, content : BOOLEAN] :
            header = Header(x.size, x.block, x.content) >>
  ELSE <<>>

\* A block is announced without its own length word here: it has been read by then.
ac_lz4_init_decompress(header) ==
  [i \in 1 .. Len(ac_lz4_check_header(header)) |->
     LET x == ac_lz4_check_header(header)[i]
     IN  [ac_lz4_init(x.size, x.block, x.content) EXCEPT
            !.ctx = FALSE, !.block_header_size = IF x.block THEN 4 ELSE 0]] \o <<>>

Update(l, s) == IF l.content_checksum THEN [l EXCEPT !.xxh = @ \o s] ELSE l
Checksum(l, s) == IF l.block_checksum THEN write_little_endian_32(XXH32(s)) ELSE <<>>

\* A block that does not get shorter is stored as it is.
ac_lz4_compress_block(l, src) ==
  LET c == LZ4_compress(src)
      stored == Len(c) >= Len(src)
      data == IF stored THEN src ELSE c
      word == write_little_endian_32(Len(data))
  IN  [l |-> Update(l, src),
       bytes |-> (IF stored THEN Mark(word) ELSE word) \o data \o Checksum(l, data)]

\* Mutant: the checksum is not compared.
TrustBlock(l, src) == FALSE

BadChecksum(l, src) == l.block_checksum /\ Tail4(src) # write_little_endian_32(XXH32(Drop4(src)))

\* n < 0 for a wrong checksum or a block that cannot be decompressed.
ac_lz4_decompress(l, src, compressed) ==
  LET data == IF l.block_checksum THEN Drop4(src) ELSE src
      out == IF compressed THEN LZ4_decompress_safe(data, l.block_size) ELSE <<data>>
  IN  IF BadChecksum(l, src) \/ out = <<>> THEN [l |-> l, n |-> -1, bytes |-> <<>>]
      ELSE [l |-> Update(l, out[1]), n |-> Len(out[1]), bytes |-> out[1]]

\* The end mark; a handle that decompresses compares the content checksum instead,
\* which no reader of the repository asks for.
ac_lz4_finish(l) ==
  write_little_endian_32(0) \o
    (IF l.content_checksum THEN write_little_endian_32(XXH32(l.xxh)) ELSE <<>>)

-----------------------------------------------------------------------------

CONSTANTS
  MinBuffer,    \* the smallest buffer of a file, 256 bytes in the code
  MinGzBuffer,  \* and of a gz file, 32000
  Lz4Extra      \* what a decompression buffer has over two blocks, 100

ASSUME InAssumption == {MinBuffer, MinGzBuffer, Lz4Extra} \subseteq Nat

Quote == 34
Unset == -1
Lesser(m, n) == IF m < n THEN m ELSE n
Greater(m, n) == IF m < n THEN n ELSE m
Put(s, at, t) == SubSeq(s, 1, at) \o t \o SubSeq(s, at + Len(t) + 1, Len(s))
Piece(s, from, to) == SubSeq(s, from + 1, to)

Buffer(kind, from, size) ==
  [kind |-> kind, from |-> from, bytes |-> Repeat(Unset, size + 1), size |-> size,
   used |-> 0, pos |-> 0, eof |-> FALSE, zerop |-> <<>>, zero |-> Unset, bh |-> <<>>,
   freed |-> FALSE, beyond |-> FALSE, cut |-> FALSE, base |-> <<>>, lz4 |-> <<>>,
   aborted |-> FALSE]

reset_block(b) ==
  [b EXCEPT !.bytes = Put(@, 0, Piece(@, b.pos, b.used)), !.used = @ - b.pos, !.pos = 0]

\* read and gzread of a file give what was asked for, or what is left.
fill_blocks(b) ==
  LET bytes == b.size - b.used
      n == Lesser(bytes, Len(b.from))
      more == [b EXCEPT !.bytes = Put(@, b.used, SubSeq(b.from, 1, n)), !.used = @ + n,
                        !.from = SubSeq(@, n + 1, Len(@))]
  IN  CASE b.eof \/ b.kind = "mem" -> b
        [] ~b.eof /\ b.kind # "mem" /\ n = bytes -> more
        [] OTHER -> [more EXCEPT !.eof = TRUE, !.size = more.used]

restore_zero(r) ==
  IF r.zerop = <<>> THEN r
  ELSE [r EXCEPT !.bytes = Put(@, r.zerop[1], <<r.zero>>), !.zerop = <<>>]

\* freed: the memory bh points to has been given back already.
cleanup_last_read(r) == restore_zero([r EXCEPT !.bh = <<>>, !.aborted = @ \/ r.freed])

\* What a caller gets of the buffer itself: a zero is written over the byte behind it.
Zeroed(r, sp, ep) ==
  [r |-> [r EXCEPT !.zerop = <<ep>>, !.zero = r.bytes[ep + 1], !.bytes = Put(@, ep, <<0>>)],
   p |-> << [s |-> Piece(r.bytes, sp, ep), z |-> TRUE] >>]
Null(r) == [r |-> r, p |-> <<>>]

ac_in_base_init_gz(file, buffer_size) ==
  fill_blocks(Buffer("gz", file, Greater(buffer_size, MinGzBuffer)))
ac_in_base_init(file, buffer_size) ==
  fill_blocks(Buffer("fd", file, Greater(buffer_size, MinBuffer)))
ac_in_base_init_from_buffer(file) ==
  [Buffer("mem", <<>>, Len(file)) EXCEPT
     !.bytes = Put(@, 0, file), !.used = Len(file), !.eof = TRUE]

\* A larger buffer with the same contents.
ac_in_base_reinit(base, buffer_size) ==
  IF base.kind = "mem" THEN base
  ELSE [base EXCEPT !.size = buffer_size,
                    !.bytes = Put(Repeat(Unset, buffer_size + 1), 0, Piece(@, 0, base.used))]

\* The next bytes as they are, or with a zero behind them.
Take(r, len) ==
  [r |-> [r EXCEPT !.pos = @ + len],
   p |-> << [s |-> Piece(r.bytes, r.pos, r.pos + len), z |-> FALSE] >>]
TakeZ(r, len) == Zeroed([r EXCEPT !.pos = @ + len], r.pos, r.pos + len)

\* The rest of the buffer, at the end of the file.
Rest(b) == Zeroed([b EXCEPT !.pos = b.used], b.pos, b.used)

AfterFill(more, len) ==
  IF len <= more.used THEN Take(more, len)
  ELSE Null([more EXCEPT !.pos = more.used, !.aborted = ~more.eof])

BaseRead(b, len) ==
  CASE b.pos + len <= b.used -> Take(b, len)
    [] b.pos + len > b.used /\ b.eof -> Null([b EXCEPT !.pos = b.used])
    [] OTHER -> AfterFill(fill_blocks(reset_block(b)), len)

\* Bytes of the file as they are, for a word or a block: no zero behind them.
ac_in_base_read(h, len) == BaseRead(restore_zero(h), len)

\* A record longer than the buffer is read into memory of its own, tmp.
OwnMemory(b, left, len) ==
  fill_blocks([b EXCEPT !.bytes = left \o Repeat(Unset, len + 1 - Len(left)), !.size = len,
                        !.used = Len(left)])
FromMemory(b, tmp, len) ==
  [r |-> [b EXCEPT !.pos = 0, !.used = 0, !.from = tmp.from, !.eof = tmp.eof, !.bh = <<tmp.bytes>>],
   p |-> << [s |-> Piece(tmp.bytes, 0, tmp.used), z |-> tmp.used = len] >>]

TakeMost(more, len) == TakeZ(more, Lesser(len, more.used))

BaseReadz(b, len) ==
  CASE b.pos + len <= b.used -> TakeZ(b, len)
    [] b.pos + len > b.used /\ b.eof -> Rest(b)
    [] b.pos + len > b.used /\ ~b.eof /\ len > b.size ->
         FromMemory(b, OwnMemory(b, Piece(b.bytes, b.pos, b.used), len), len)
    [] OTHER -> TakeMost(fill_blocks(reset_block(b)), len)

ac_in_base_readz(h, len) == BaseReadz(cleanup_last_read(h), len)

------------------------------------------------------------------------------
(* The blocks of an lz4 file.                                              *)

\* Anything but a block ends the file: no word, the end mark, a block cut short, a
\* wrong checksum.
EndOfBlocks(dest) == [dest EXCEPT !.eof = TRUE]

With(dest, base) == [dest EXCEPT !.base = <<base>>, !.aborted = @ \/ base.aborted]

Decompressed(dest, got) ==
  [r |-> [dest EXCEPT !.lz4 = <<got.l>>, !.bytes = Put(@, dest.used, got.bytes),
                      !.used = @ + Len(got.bytes)],
   n |-> got.n]

BlockRead(dest, block, compressed) ==
  IF block.p = <<>> THEN [r |-> With(dest, block.r), n |-> 0]
  ELSE Decompressed(With(dest, block.r),
                    ac_lz4_decompress(dest.lz4[1], block.p[1].s, compressed))

WordRead(dest, word) ==
  IF word.p = <<>> \/ read_little_endian_32(word.p[1].s) = 0
  THEN [r |-> With(dest, word.r), n |-> 0]
  ELSE BlockRead(dest,
                 ac_in_base_read(word.r, read_little_endian_32(word.p[1].s) +
                                         dest.lz4[1].block_header_size),
                 ~NotCompressed(word.p[1].s))

\* n is what was added to dest, 0 or less at the end.
read_lz4_block(dest) == WordRead(dest, ac_in_base_read(dest.base[1], 4))

RECURSIVE fill_lz4_blocks(_), Filled(_)
fill_lz4_blocks(dest) ==
  IF dest.used + dest.lz4[1].block_size > dest.size THEN dest ELSE Filled(read_lz4_block(dest))
Filled(got) == IF got.n <= 0 THEN EndOfBlocks(got.r) ELSE fill_lz4_blocks(got.r)

Fill(r) == IF r.kind = "lz4" THEN fill_lz4_blocks(r) ELSE fill_blocks(r)

\* len bytes in memory of its own: what the buffer still has and what one filling of it
\* brings.  With cap_length the caller gets less when that is not enough.  The filling
\* does not ask whether the end was met: it may bring what lies beyond a block that ended
\* the file, and beyond records that.
UseFilled(more, left, len, cap_length) ==
  LET n == Lesser(len - Len(left), more.used)
      all == left \o Piece(more.bytes, 0, n)
  IN  IF n < len - Len(left) /\ ~cap_length THEN Null([more EXCEPT !.pos = more.used])
      ELSE [r |-> [more EXCEPT !.pos = n, !.bh = <<all>>],
            p |-> << [s |-> all, z |-> Len(all) = len] >>]

MarkBeyond(h, filled) == [filled EXCEPT !.beyond = @ \/ (h.eof /\ filled.used > 0)]

ac_in_use_buffer(h, len, cap_length) ==
  LET left == Piece(h.bytes, h.pos, h.used)
      empty == [h EXCEPT !.pos = 0, !.used = 0]
  IN  UseFilled(MarkBeyond(h, IF len > Len(left) THEN fill_lz4_blocks(empty) ELSE empty),
                left, len, cap_length)

\* The zero behind the record is the caller's, and ac_in_lz4_read does not ask for it.
Lz4AfterFill(more, len, zero) ==
  CASE len > more.used -> ac_in_use_buffer(more, len, FALSE)
    [] len <= more.used /\ zero -> TakeZ(more, len)
    [] OTHER -> Take(more, len)

Lz4Read(b, len, zero) ==
  CASE b.pos + len <= b.used -> IF zero THEN TakeZ(b, len) ELSE Take(b, len)
    [] b.pos + len > b.used /\ b.eof -> IF zero THEN Rest(b) ELSE Null([b EXCEPT !.pos = b.used])
    [] b.pos + len > b.used /\ ~b.eof /\ len > b.size -> ac_in_use_buffer(b, len, zero)
    [] OTHER -> Lz4AfterFill(fill_lz4_blocks(reset_block(b)), len, zero)

ac_in_lz4_readz(h, len) == Lz4Read(cleanup_last_read(h), len, TRUE)
ac_in_lz4_read(h, len) == Lz4Read(cleanup_last_read(h), len, FALSE)

------------------------------------------------------------------------------
(* Delimited records.                                                      *)

\* The quote that closes a field, or ep: two quotes are one of the field's.
RECURSIVE ClosingQuote(_, _, _)
ClosingQuote(s, p, ep) ==
  CASE p >= ep -> ep
    [] p < ep /\ s[p + 1] # Quote -> ClosingQuote(s, p + 1, ep)
    [] p < ep /\ s[p + 1] = Quote /\ p + 1 < ep /\ s[Lesser(p + 2, Len(s))] = Quote -> ClosingQuote(s, p + 2, ep)
    [] OTHER -> p

\* The first delimiter from p on that is not between quotes, or ep.
RECURSIVE FindDelimiter(_, _, _, _, _)
FindDelimiter(s, p, ep, delim, csv) ==
  CASE p >= ep -> ep
    [] p < ep /\ s[p + 1] = Quote ->
         LET q == IF csv THEN ClosingQuote(s, p + 1, ep) ELSE p
         IN  FindDelimiter(s, Lesser(q + 1, ep), ep, delim, csv)
    [] p < ep /\ s[p + 1] # Quote /\ s[p + 1] # delim -> FindDelimiter(s, p + 1, ep, delim, csv)
    [] OTHER -> p

\* At the end of the file a record without its delimiter counts only if it may be partial.
end_of_block(r, sp, ep, required) ==
  IF required THEN Null([r EXCEPT !.pos = r.used]) ELSE Zeroed([r EXCEPT !.pos = r.used], sp, ep)

\* The search goes on behind the end of the buffer as if no field were open: cut records
\* that a quote had been seen by then.
Cut(r, csv) ==
  [r EXCEPT !.cut = @ \/ (csv /\ \E i \in r.pos + 1 .. r.used : r.bytes[i] = Quote)]

\* Step 5: the record is longer than the buffer and is gathered piece by piece.  At the
\* end of an lz4 file the memory is given back and still pointed to.
GatherFill(r, csv) ==
  Fill([Cut(r, csv) EXCEPT !.bh = << @[1] \o Piece(r.bytes, 0, r.used) >>, !.used = 0, !.pos = 0])

RECURSIVE GatherFrom(_, _, _, _), Gathered(_, _, _, _, _)
Gathered(more, p, delim, csv, required) ==
  LET all == more.bh[1] \o Piece(more.bytes, 0, p)
  IN  CASE p < more.used \/ (more.eof /\ ~required) ->
             [r |-> [more EXCEPT !.pos = Lesser(p + 1, more.used), !.bh = <<all>>],
              p |-> << [s |-> all, z |-> TRUE] >>]
        [] p = more.used /\ more.eof /\ required ->
             Null([more EXCEPT !.pos = more.used, !.bh = <<>>, !.freed = more.kind = "lz4"])
        [] OTHER -> GatherFrom(GatherFill(more, csv), delim, csv, required)
GatherFrom(more, delim, csv, required) ==
  Gathered(more, FindDelimiter(more.bytes, 0, more.used, delim, csv), delim, csv, required)

Gather(r, delim, csv, required) ==
  GatherFrom(GatherFill([r EXCEPT !.bh = << <<>> >>], csv), delim, csv, required)

\* Step 4 searches only what the filling added.
SearchMore(more, from, delim, csv, required) ==
  LET q == FindDelimiter(more.bytes, from, more.used, delim, csv)
  IN  CASE q < more.used -> Zeroed([more EXCEPT !.pos = q + 1], 0, q)
        [] q = more.used /\ more.eof -> end_of_block(more, 0, q, required)
        [] OTHER -> Gather(more, delim, csv, required)

SearchBuffer(b, delim, csv, required) ==
  LET p == FindDelimiter(b.bytes, b.pos, b.used, delim, csv)
  IN  CASE p < b.used -> Zeroed([b EXCEPT !.pos = p + 1], b.pos, p)
        [] p = b.used /\ b.eof -> end_of_block(b, b.pos, p, required)
        [] p = b.used /\ ~b.eof /\ b.pos = 0 -> Gather(b, delim, csv, required)
        [] OTHER -> SearchMore(Fill(reset_block(Cut(b, csv))), b.used - b.pos,
                               delim, csv, required)

ReadDelimited(h, delim, csv, required) ==
  SearchBuffer(cleanup_last_read(h), delim, csv, required)

\* A delimiter of 256 and more is that of a csv file.
ac_in_base_read_delimited(h, delim, required) == ReadDelimited(h, delim % 256, delim >= 256, required)
ac_in_lz4_read_delimited(h, delim, required) == ReadDelimited(h, delim % 256, delim >= 256, required)

-----------------------------------------------------------------------------
(***************************************************************************)
(* ac_in.c for one file, and the formats of ac_io.c.  A format is a        *)
(* number, as in the code: 0 for a length before each record, n > 0 for    *)
(* records of n bytes, below 0 for a delimiter.  A file is [ext, bytes],   *)
(* where ext is the extension that decides how it is read, and a cursor is *)
(* [format, required, r, current, num_current, empty] with r a buffer,     *)
(* current what ac_in_current returns.                                     *)
(***************************************************************************)

ac_io_delimiter(delim) == -(delim + 1)
ac_io_csv_delimiter(delim) == -(delim + 257)
ac_io_fixed(size) == size
ac_io_prefix == 0

\* External: zlib.  A compressed byte is told from the byte, and what is there of a
\* file cut short is read.
Deflate(s) == [i \in 1 .. Len(s) |-> 256 + s[i]] \o <<>>
Inflate(s) == [i \in 1 .. Len(s) |-> s[i] - 256] \o <<>>

\* The options an application reads with: where the bytes come from is "file", "fd" or
\* "buffer", and without a file name lz4 and gz say what the extension would.
ac_in_options_init ==
  [from |-> "file", buffer_size |-> 0, compressed_buffer_size |-> 0, format |-> ac_io_prefix,
   full_record_required |-> TRUE, abort_on_error |-> FALSE, abort_on_file_not_found |-> FALSE,
   abort_on_file_empty |-> FALSE]
ac_in_options_buffer_size(o, n) == [o EXCEPT !.buffer_size = n]
ac_in_options_format(o, format) == [o EXCEPT !.format = format]
ac_in_options_allow_partial_records(o) == [o EXCEPT !.full_record_required = FALSE]
ac_in_options_abort(o) ==
  [o EXCEPT !.abort_on_error = TRUE, !.abort_on_file_not_found = TRUE, !.abort_on_file_empty = TRUE]
ac_in_options_lz4(o, n) == [o EXCEPT !.compressed_buffer_size = n]

Cursor(o, r) ==
  [format |-> o.format, required |-> o.full_record_required, r |-> r, current |-> <<>>,
   num_current |-> 0, empty |-> FALSE]
_ac_in_empty(o, abort) ==
  [Cursor(o, [Buffer("mem", <<>>, 0) EXCEPT !.aborted = abort]) EXCEPT !.empty = TRUE]

\* The buffer of a file that is not compressed is the one asked for; for lz4 the sizes
\* change places, and both are made large enough for any block.
InitBase(file, o) ==
  CASE o.from = "buffer" -> ac_in_base_init_from_buffer(file.bytes)
    [] o.from # "buffer" /\ file.ext = "gz" -> ac_in_base_init_gz(Inflate(file.bytes), o.buffer_size)
    [] OTHER -> ac_in_base_init(file.bytes, o.buffer_size)

InitLz4(base, lz4, compressed_size, o) ==
  LET least == ac_lz4_compressed_size(lz4) + lz4.block_header_size + 4
      big == IF compressed_size < least THEN ac_in_base_reinit(base, least) ELSE base
      size == Greater(o.buffer_size, 2 * lz4.block_size + Lz4Extra)
  IN  fill_lz4_blocks([Buffer("lz4", <<>>, size) EXCEPT
                         !.base = <<big>>, !.lz4 = <<lz4>>, !.aborted = big.aborted])

_ac_in_init(file, o) ==
  LET compressed == IF o.compressed_buffer_size = 0 THEN o.buffer_size ELSE o.compressed_buffer_size
      header == ac_in_base_read(InitBase(file, [o EXCEPT !.buffer_size = compressed]), 7)
      lz4 == ac_lz4_init_decompress(header.p[1].s)
  IN  CASE ~file.exists -> _ac_in_empty(o, o.abort_on_file_not_found)
        [] file.exists /\ file.ext # "lz4" -> Cursor(o, InitBase(file, o))
        [] file.exists /\ file.ext = "lz4" /\ header.p = <<>> -> _ac_in_empty(o, o.abort_on_file_empty)
        [] file.exists /\ file.ext = "lz4" /\ header.p # <<>> /\ lz4 = <<>> -> _ac_in_empty(o, o.abort_on_error)
        [] OTHER -> Cursor(o, InitLz4(header.r, lz4[1], compressed, o))

\* What an advance leaves behind: the record, or none.
Found(h, got) ==
  [h EXCEPT !.r = got.r, !.current = got.p, !.num_current = Len(got.p)]
Nothing(h, r) == Found(h, Null(r))

Whole(h, got, length) ==
  IF got.p # <<>> /\ Len(got.p[1].s) = length THEN Found(h, got) ELSE Nothing(h, got.r)

Readz(r, len) == IF r.kind = "lz4" THEN ac_in_lz4_readz(r, len) ELSE ac_in_base_readz(r, len)

\* A record of length 0 is where its length was read, four zeros.
AfterLength(h, word, length) ==
  IF length = 0 THEN Found(h, [r |-> word.r, p |-> << [s |-> <<>>, z |-> word.p[1].s[1] = 0] >>])
  ELSE Whole(h, Readz(word.r, length), length)
AfterWord(h, word) ==
  IF word.p = <<>> THEN Nothing(h, word.r)
  ELSE AfterLength(h, word, read_little_endian_32(word.p[1].s))

_advance_prefix(h) == AfterWord(h, ac_in_base_read(h.r, 4))
_advance_prefix_lz4(h) == AfterWord(h, ac_in_lz4_read(h.r, 4))

_advance_fixed(h) == Whole(h, ac_in_base_readz(h.r, h.format), h.format)
_advance_fixed_lz4(h) == Whole(h, ac_in_lz4_readz(h.r, h.format), h.format)

_advance_delimited(h) == Found(h, ac_in_base_read_delimited(h.r, -h.format - 1, h.required))
_advance_delimited_lz4(h) == Found(h, ac_in_lz4_read_delimited(h.r, -h.format - 1, h.required))

ac_in_advance(h) ==
  CASE h.empty -> [h EXCEPT !.current = <<>>]
    [] ~h.empty /\ h.r.kind = "lz4" /\ h.format < 0 -> _advance_delimited_lz4(h)
    [] ~h.empty /\ h.r.kind = "lz4" /\ h.format > 0 -> _advance_fixed_lz4(h)
    [] ~h.empty /\ h.r.kind = "lz4" /\ h.format = 0 -> _advance_prefix_lz4(h)
    [] ~h.empty /\ h.r.kind # "lz4" /\ h.format < 0 -> _advance_delimited(h)
    [] ~h.empty /\ h.r.kind # "lz4" /\ h.format > 0 -> _advance_fixed(h)
    [] OTHER -> _advance_prefix(h)

\* A buffer freed before is freed again.
ac_in_destroy(h) == [h EXCEPT !.r = cleanup_last_read(@), !.current = <<>>, !.empty = TRUE]
=============================================================================
