------------------------------- MODULE AcPool -------------------------------
(***************************************************************************)
(* ac_allocator.c in the build with _AC_MEMORY_CHECK_: every ac_malloc of  *)
(* the library is listed by the global allocator, and a thread writes the  *)
(* list to a log again and again.                                          *)
(*                                                                         *)
(* Memory is one record m: the blocks that malloc handed out (heap), the   *)
(* allocator's list of them with its two totals, and the pools and buffers *)
(* that live in them.  A block is named by a number; the name of a freed   *)
(* block is handed out again.  An operation answers [m, p] where p is the  *)
(* block, 0 for NULL.                                                      *)
(*                                                                         *)
(* Then come the functions on texts, and at the end the buffers.           *)
(***************************************************************************)
EXTENDS Naturals, Integers, FiniteSets, Sequences, SequencesExt

CONSTANT MaxBlocks  \* blocks alive at once

\* ac_allocator_init: nothing is listed.
ac_allocator_init ==
    [heap |-> <<>>, list |-> <<>>, bytes |-> 0, allocations |-> 0,
     aborted |-> FALSE, pools |-> <<>>, bufs |-> <<>>]

Drop(f, x) == [y \in DOMAIN f \ {x} |-> f[y]]
With(f, x, v) == [y \in DOMAIN f \cup {x} |-> IF y = x THEN v ELSE f[y]]
FreeBlock(m) == CHOOSE b \in 1..MaxBlocks : b \notin DOMAIN m.heap /\ \A c \in 1..(b - 1) : c \in DOMAIN m.heap

\* custom blocks are dumped by a function whose address their first word holds;
\* the caller has yet to write it when the block is listed.
_ac_malloc_d(m, len, custom) ==
    IF len = 0 THEN [m |-> m, p |-> 0]
    ELSE LET b == FreeBlock(m) IN
         [m |-> [m EXCEPT !.heap = With(@, b, [len |-> len, custom |-> custom, dump |-> ~custom]),
                          !.list = Append(@, b), !.bytes = @ + len, !.allocations = @ + 1],
          p |-> b]

_ac_strdup_d(m, s) == _ac_malloc_d(m, Len(s) + 1, FALSE)

\* Up to 31 characters are formatted on the stack and duplicated.
_ac_strdupvf_d(m, s) == IF Len(s) < 32 THEN _ac_strdup_d(m, s) ELSE _ac_malloc_d(m, Len(s) + 1, FALSE)

\* Whether p names a block of the allocator; otherwise the program is aborted.
get_ac_node(m, p) == p \in DOMAIN m.heap

_ac_free_d(m, p) ==
    CASE p = 0 -> m
      [] p # 0 /\ ~get_ac_node(m, p) -> [m EXCEPT !.aborted = TRUE]
      [] OTHER -> [m EXCEPT !.heap = Drop(@, p), !.list = SelectSeq(@, LAMBDA b : b # p),
                            !.allocations = @ - 1, !.bytes = @ - m.heap[p].len]

_ac_realloc_d(m, p, len) ==
    CASE p = 0 -> _ac_malloc_d(m, len, FALSE)
      [] p # 0 /\ ~get_ac_node(m, p) -> [m |-> [m EXCEPT !.aborted = TRUE], p |-> 0]
      [] OTHER -> LET new == _ac_malloc_d(m, len, FALSE) IN [m |-> _ac_free_d(new.m, p), p |-> new.p]

-----------------------------------------------------------------------------
(***************************************************************************)
(* The log files: logs[k] is the number of the dump that log.k holds       *)
(* (log.0 is the log itself), NoLog when there is no such file.            *)
(***************************************************************************)
NoLog == -1

\* How many files the save moves on: the length of the run of ones at the end
\* of the number of saves.
Renames(logs, saves) ==
    CHOOSE n \in 0..31 : /\ saves % 2^n = 2^n - 1
                         /\ n = 31 \/ saves % 2^(n + 1) # 2^(n + 1) - 1

\* Mutant: the oldest of the files to be moved stays.
SaveOneLess(logs, saves) ==
    [k \in DOMAIN logs |-> IF k \in 1..(Renames(logs, saves) - 1) THEN logs[k - 1] ELSE logs[k]]

save_old_log(logs, saves) ==
    LET num == Renames(logs, saves) IN
    [k \in DOMAIN logs |-> CASE k = 0 -> IF num = 0 THEN logs[0] ELSE NoLog
                             [] k \in 1..num -> IF logs[k - 1] = NoLog THEN logs[k] ELSE logs[k - 1]
                             [] OTHER -> logs[k]]

\* What the dump meets: a listed block whose dump function is not written yet.
_ac_dump_global_allocations(m) == \E b \in ToSet(m.list) : m.heap[b].custom /\ ~m.heap[b].dump

-----------------------------------------------------------------------------
(***************************************************************************)
(* ac_pool.c and the inlined part of ac_pool.h.  A pool is a record of     *)
(* m.pools: nodes is the list of its blocks, oldest first, each the bytes  *)
(* from..to-1 of the heap block b; curp is an offset into the last one's   *)
(* heap block.  Heap blocks start at a multiple of Word.  An allocation    *)
(* answers [m, at] where at is [b, from, to].                              *)
(*                                                                         *)
(* live is not a field of ac_pool_t: the allocations the client may still  *)
(* use, in the order they were made.                                       *)
(***************************************************************************)
Word == 8
SizeofNode == 16  \* sizeof(ac_pool_node_t)
SizeofPool == 80  \* sizeof(ac_pool_t) with the fields of the memory check
Page == 4096
NoPool == "none"

Aligned(n) == n + ((Word - (n % Word)) % Word)

Longest(a, b) == IF a > b THEN a ELSE b
\* ac_pool_pool_init leaves cur_size, max_size and initial_size as it finds them.
Unknown == -1
Took(h, len) ==
    LET cur == IF h.cur_size = Unknown THEN Unknown ELSE h.cur_size + len
    IN  [h EXCEPT !.cur_size = cur,
                  !.max_size = IF Unknown \in {@, cur} THEN Unknown ELSE Longest(@, cur)]
Piece(b, from, len) == [b |-> b, from |-> from, to |-> from + len]
Handed(m, p, at) == [m |-> [m EXCEPT !.pools[p].live = Append(@, at)], at |-> at]

\* The fields both initialisers set; the struct, the first node and its block are one piece.
NewPool(b, from, initial, block, parent) ==
    [nodes |-> <<[b |-> b, from |-> from + SizeofPool + SizeofNode, to |-> from + SizeofPool + SizeofNode + block]>>,
     curp |-> from + SizeofPool + SizeofNode, minimum_growth_size |-> initial,
     size |-> 0, used |-> initial + SizeofPool + SizeofNode,
     initial_size |-> Unknown, cur_size |-> Unknown, max_size |-> Unknown,
     pool |-> parent, live |-> <<>>]

ac_pool_set_minimum_growth_size(m, p, size) == [m EXCEPT !.pools[p].minimum_growth_size = size]

\* The header is taken out of the size unless the bit of a page is set in it; a size below
\* the header's 96 bytes wraps around there, and no client of this model asks for it.
_ac_pool_init(m, p, size) ==
    LET initial == Aligned(size)
        block == IF (initial \div Page) % 2 = 0 THEN initial - (SizeofPool + SizeofNode) ELSE initial
        h == _ac_malloc_d(m, block + SizeofPool + SizeofNode, TRUE)
        pool == [NewPool(h.p, 0, initial, block, NoPool) EXCEPT
                   !.initial_size = initial, !.cur_size = 0, !.max_size = 0]
    IN  [h.m EXCEPT !.pools = With(@, p, pool)]

RECURSIVE ac_pool_alloc(_, _, _), _ac_pool_alloc_grow(_, _, _)
ac_pool_alloc(m, p, len) ==
    LET h == m.pools[p]
        r == Aligned(h.curp)
        cur == Last(h.nodes)
    IN  IF r + len < cur.to
        THEN Handed([m EXCEPT !.pools[p] = Took([h EXCEPT !.curp = r + len], len)], p, Piece(cur.b, r, len))
        ELSE _ac_pool_alloc_grow(m, p, len)

\* A new block, from the parent for a pool in a pool.
_ac_pool_alloc_grow(m, p, len) ==
    LET h == m.pools[p]
        block == Longest(len, h.minimum_growth_size)
        got == IF h.pool = NoPool THEN LET n == _ac_malloc_d(m, SizeofNode + block, FALSE)
                                       IN  [m |-> n.m, at |-> Piece(n.p, 0, SizeofNode + block)]
               ELSE ac_pool_alloc(m, h.pool, SizeofNode + block)
        r == got.at.from + SizeofNode
        node == [b |-> got.at.b, from |-> r, to |-> r + block]
        left == IF Len(h.nodes) > 1 THEN Last(h.nodes).to - h.curp ELSE 0
        grown == [h EXCEPT !.size = @ + left, !.used = @ + SizeofNode + block,
                           !.nodes = Append(@, node), !.curp = r + len]
    IN  Handed([got.m EXCEPT !.pools[p] = Took(grown, len)], p, Piece(node.b, r, len))

\* Mutant: the test lets one byte too many through.
UallocPast(m, p, len) ==
    LET h == m.pools[p] IN
    IF h.curp + len <= Last(h.nodes).to + 1
    THEN Handed([m EXCEPT !.pools[p] = Took([h EXCEPT !.curp = @ + len], len)], p, Piece(Last(h.nodes).b, h.curp, len))
    ELSE _ac_pool_alloc_grow(m, p, len)

ac_pool_ualloc(m, p, len) ==
    LET h == m.pools[p]
        cur == Last(h.nodes)
    IN  IF h.curp + len < cur.to
        THEN Handed([m EXCEPT !.pools[p] = Took([h EXCEPT !.curp = @ + len], len)], p, Piece(cur.b, h.curp, len))
        ELSE _ac_pool_alloc_grow(m, p, len)

\* Between min_len and len bytes: the rest of the block but its last byte when len does not fit.
ac_pool_min_max_alloc(m, p, min_len, len) ==
    LET h == m.pools[p]
        r == Aligned(h.curp)
        cur == Last(h.nodes)
    IN  IF r + len < cur.to \/ r + min_len >= cur.to THEN ac_pool_alloc(m, p, len)
        ELSE LET n == cur.to - r - 1 IN
             Handed([m EXCEPT !.pools[p] = Took([h EXCEPT !.curp = r + n], n)], p, Piece(cur.b, r, n))

\* Copies: with a zero behind them and unaligned, or as they are and aligned.
ac_pool_udup(m, p, s) == ac_pool_ualloc(m, p, Len(s) + 1)
ac_pool_strndup(m, p, s, length) == ac_pool_udup(m, p, IF Len(s) > length THEN SubSeq(s, 1, length) ELSE s)
ac_pool_dup(m, p, s) == ac_pool_alloc(m, p, Len(s))
ac_pool_calloc(m, p, len) == ac_pool_alloc(m, p, len)

\* Formatted text goes straight to the rest of the block when it fits.
ac_pool_strdupvf(m, p, s) ==
    LET h == m.pools[p]
        n == Len(s)
    IN  IF n < Last(h.nodes).to - h.curp
        THEN Handed([m EXCEPT !.pools[p] = Took([h EXCEPT !.curp = @ + n + 1], n + 1)], p,
                    Piece(Last(h.nodes).b, h.curp, n + 1))
        ELSE ac_pool_ualloc(m, p, n + 1)

ac_pool_pool_init(m, p, parent, size) ==
    LET initial == Aligned(size)
        got == ac_pool_alloc(m, parent, initial + SizeofPool + SizeofNode)
    IN  [got.m EXCEPT !.pools = With(@, p, NewPool(got.at.b, got.at.from, initial, initial, parent))]

\* The heap blocks of the nodes behind the first n go back, unless they are a parent's.
FreeNodes(m, p, n) ==
    IF m.pools[p].pool # NoPool THEN m
    ELSE FoldLeft(LAMBDA mm, nd : _ac_free_d(mm, nd.b), m, SubSeq(m.pools[p].nodes, n + 1, Len(m.pools[p].nodes)))

ac_pool_clear(m, p) ==
    LET freed == FreeNodes(m, p, 1)
        first == m.pools[p].nodes[1]
    IN  [freed EXCEPT !.pools[p].nodes = <<first>>, !.pools[p].curp = first.from,
                      !.pools[p].size = 0, !.pools[p].cur_size = 0, !.pools[p].live = <<>>,
                      !.pools[p].used = first.to - first.from + SizeofPool + SizeofNode]

ac_pool_destroy(m, p) ==
    LET cleared == ac_pool_clear(m, p)
        freed == IF m.pools[p].pool = NoPool THEN _ac_free_d(cleared, m.pools[p].nodes[1].b) ELSE cleared
    IN  [freed EXCEPT !.pools = Drop(@, p)]

\* prev is the number of blocks before the current one.
ac_pool_checkpoint(m, p) ==
    LET h == m.pools[p] IN
    [prev |-> Len(h.nodes) - 1, curp |-> h.curp, size |-> h.size, used |-> h.used,
     cur_size |-> h.cur_size, live |-> Len(h.live)]

\* Mutant: a block is left behind.
ResetKeepsBlock(m, p, cp) ==
    LET n == cp.prev + 1
        freed == FreeNodes(m, p, IF Len(m.pools[p].nodes) > n THEN n + 1 ELSE n)
    IN  [freed EXCEPT !.pools[p].nodes = SubSeq(@, 1, n), !.pools[p].curp = cp.curp, !.pools[p].size = cp.size,
                      !.pools[p].used = cp.used, !.pools[p].cur_size = cp.cur_size,
                      !.pools[p].live = SubSeq(@, 1, cp.live)]

ac_pool_reset(m, p, cp) ==
    LET freed == FreeNodes(m, p, cp.prev + 1) IN
    [freed EXCEPT !.pools[p].nodes = SubSeq(@, 1, cp.prev + 1), !.pools[p].curp = cp.curp, !.pools[p].size = cp.size,
                  !.pools[p].used = cp.used, !.pools[p].cur_size = cp.cur_size,
                  !.pools[p].live = SubSeq(@, 1, cp.live)]

ac_pool_size(m, p) == m.pools[p].size + (Last(m.pools[p].nodes).to - m.pools[p].curp)
ac_pool_used(m, p) == m.pools[p].used

-----------------------------------------------------------------------------
(* The functions of ac_pool.c and ac_allocator.c that take strings apart and *)
(* put rows together.  A text is a sequence of characters; the pieces that   *)
(* the code leaves in place, ended by zeros, are sequences of texts.         *)

Quote == "Q"
NewLine == "N"
BackSlash == "/"
Space == " "

\* The characters' codes, where they matter.
Code == [c \in {"a", "A", ",", ";", "Q", "N", "|", "/", " ", "<", ">", "'"} |->
           CASE c = "a" -> 97 [] c = "A" -> 65 [] c = "," -> 44 [] c = ";" -> 59 [] c = "Q" -> 34 [] c = "N" -> 10
             [] c = "|" -> 124 [] c = "/" -> 92 [] c = " " -> 32 [] c = "<" -> 60 [] c = ">" -> 62 [] c = "'" -> 39]

Grow(pieces, c) == [pieces EXCEPT ![Len(pieces)] = Append(@, c)]
Full(pieces) == SelectSeq(pieces, LAMBDA t : t # <<>>)

\* Every delimiter starts a piece.
_ac_pool_split(delim, s) ==
    FoldLeft(LAMBDA a, c : IF c = delim THEN Append(a, <<>>) ELSE Grow(a, c), <<<<>>>>, s)
_ac_pool_split2(delim, s) == Full(_ac_pool_split(delim, s))

\* A delimiter of several characters; the next one is looked for behind it.
RECURSIVE SplitAt(_, _, _, _)
SplitAt(delim, s, i, pieces) ==
    IF i > Len(s) THEN pieces
    ELSE IF i + Len(delim) - 1 <= Len(s) /\ SubSeq(s, i, i + Len(delim) - 1) = delim
         THEN SplitAt(delim, s, i + Len(delim), Append(pieces, <<>>))
         ELSE SplitAt(delim, s, i + 1, Grow(pieces, s[i]))
_ac_pool_split_str(delim, s) ==
    CASE Len(delim) = 0 -> <<s>>
      [] Len(delim) = 1 -> _ac_pool_split(delim[1], s)
      [] OTHER -> SplitAt(delim, s, 1, <<<<>>>>)
_ac_pool_split_str2(delim, s) == Full(_ac_pool_split_str(delim, s))

\* The allocator's: no piece behind a last delimiter, and none counted in an empty string,
\* whose array has no room for the one that is written.
_ac_split_d(delim, s) ==
    LET num == Len(SelectSeq(s, LAMBDA c : c = delim)) + (IF s # <<>> /\ Last(s) # delim THEN 1 ELSE 0)
        pieces == SubSeq(_ac_pool_split(delim, s), 1, IF s = <<>> THEN 1 ELSE num)
    IN  [num_splits |-> num, pieces |-> pieces, overrun |-> Len(pieces) > num]

\* Runs of delimiters count once; a string of nothing else has no array at all.
_ac_split2_d(delim, s) == _ac_pool_split2(delim, s)

-----------------------------------------------------------------------------
(***************************************************************************)
(* Tokens.  The delimiters are bits of two words, one for the codes below  *)
(* 64 and one for the others, and the shift is that of an int: only its    *)
(* low five bits count.                                                    *)
(***************************************************************************)
Bit(c) == <<Code[c] < 64, Code[c] % 32>>
setup_tokenize(delims) == {Bit(c) : c \in delims}
_ac_pool_tokenize(delims, s) ==
    LET bits == setup_tokenize(delims) IN
    Full(FoldLeft(LAMBDA a, c : IF Bit(c) \in bits THEN Append(a, <<>>) ELSE Grow(a, c), <<<<>>>>, s))

-----------------------------------------------------------------------------
(***************************************************************************)
(* Rows of comma separated values.                                         *)
(***************************************************************************)
\* Mutant: a quote inside a quoted value is not doubled.
EncodeBareQuote(delim, s) ==
    IF \A i \in DOMAIN s : s[i] \notin {delim, NewLine, Quote} THEN s ELSE <<Quote>> \o s \o <<Quote>>

ac_pool_csv_encode(delim, s) ==
    IF \A i \in DOMAIN s : s[i] \notin {delim, NewLine, Quote} THEN s
    ELSE <<Quote>> \o FoldLeft(LAMBDA a, c : a \o (IF c = Quote THEN <<Quote, Quote>> ELSE <<c>>), <<>>, s) \o <<Quote>>

\* A quote anywhere opens a quoted part, in which two quotes are one; a part
\* that nothing closes is read past the end of the string.
_ac_pool_split_csv(delim, s) ==
    LET Plain(a, c) == CASE c = Quote -> [a EXCEPT !.at = "quoted"]
                         [] c = delim -> [a EXCEPT !.pieces = Append(@, <<>>), !.at = "plain"]
                         [] OTHER -> [a EXCEPT !.pieces = Grow(@, c), !.at = "plain"]
        Char(a, c) == CASE a.at = "quoted" /\ c = Quote -> [a EXCEPT !.at = "closing"]
                        [] a.at = "quoted" /\ c # Quote -> [a EXCEPT !.pieces = Grow(@, c)]
                        [] a.at = "closing" /\ c = Quote -> [a EXCEPT !.pieces = Grow(@, c), !.at = "quoted"]
                        [] OTHER -> Plain(a, c)
        end == FoldLeft(Char, [pieces |-> <<<<>>>>, at |-> "plain"], s)
    IN  [pieces |-> end.pieces, overrun |-> end.at = "quoted"]
_ac_pool_split_csv2(delim, s) == Full(_ac_pool_split_csv(delim, s).pieces)

-----------------------------------------------------------------------------
(***************************************************************************)
(* strip_html: tags go, runs of blanks become one.  The positions run to   *)
(* Len(s) + 1, the zero; a backslash in front of the zero jumps over it.   *)
(***************************************************************************)
RECURSIVE SkipQuoted(_, _, _), SkipTag(_, _), Strip(_, _, _)
SkipQuoted(s, i, q) ==
    CASE i > Len(s) -> i
      [] i <= Len(s) /\ s[i] = q -> i + 1
      [] OTHER -> SkipQuoted(s, IF s[i] = BackSlash THEN i + 2 ELSE i + 1, q)

SkipTag(s, i) ==
    CASE i > Len(s) -> i
      [] i <= Len(s) /\ s[i] = ">" -> i + 1
      [] OTHER -> SkipTag(s, IF s[i] \in {Quote, "'"} THEN SkipQuoted(s, i + 1, s[i]) ELSE i + 1)

Strip(s, i, out) ==
    CASE i > Len(s) -> [text |-> out, overrun |-> i > Len(s) + 1]
      [] i <= Len(s) /\ s[i] = "<" /\ \E k \in (i + 1)..Len(s) : s[k] = ">" -> Strip(s, SkipTag(s, i + 1), out)
      [] OTHER -> Strip(s, i + 1, IF s[i] = Space /\ out # <<>> /\ Last(out) = Space THEN out ELSE Append(out, s[i]))

RECURSIVE WithoutLeading(_), WithoutTrailing(_)
WithoutLeading(s) == IF s # <<>> /\ Head(s) = Space THEN WithoutLeading(Tail(s)) ELSE s
WithoutTrailing(s) == IF s # <<>> /\ Last(s) = Space THEN WithoutTrailing(Front(s)) ELSE s
ac_pool_strip_html(s) ==
    LET r == Strip(WithoutLeading(s), 1, <<>>) IN [r EXCEPT !.text = WithoutTrailing(@)]

-----------------------------------------------------------------------------
(***************************************************************************)
(* Copies of an array of strings in one piece of memory of len bytes: the  *)
(* pointers and, from byte text up to byte end, the strings.               *)
(***************************************************************************)
Pointer == 8
Strings(a) == FoldLeft(LAMBDA n, s : n + Len(s) + 1, 0, a)
count_bytes_in_array(a) == [len |-> Pointer + Strings(a) + Pointer * Len(a), num |-> Len(a) + 1]
count_bytes_in_arrayn(a, n) == Pointer * (n + 1) + Strings(SubSeq(a, 1, n))
Copy(a, text, len) == [pointers |-> Len(a) + 1, text |-> text, end |-> text + Strings(a), len |-> len]

_ac_strdupa_d(a) == Copy(a, Pointer * count_bytes_in_array(a).num, count_bytes_in_array(a).len)
ac_pool_strdupan(a, n) == Copy(SubSeq(a, 1, n), Pointer * (n + 1), count_bytes_in_arrayn(a, n))

\* The allocator's makes room for n strings and copies all of them.
_ac_strdupan_d(a, n) == Copy(a, Pointer * (n + 1), count_bytes_in_arrayn(a, n))

\* The pool's count does not hand the number of strings back: it stays 0.
ac_pool_strdupa(a) == Copy(a, 0, count_bytes_in_array(a).len)

-----------------------------------------------------------------------------
(***************************************************************************)
(* ac_buffer.c and ac_buffer.h: a string that grows, in memory of its own  *)
(* or of a pool.  A buffer is a record of m.bufs: h is where the           *)
(* ac_buffer_t lies, at where its data lies (NoPiece: inside the           *)
(* ac_buffer_t, as long as size is 0), bytes the size + 1 bytes of data.   *)
(* Unset is a byte that was never written, Zero the terminator.            *)
(***************************************************************************)
CONSTANT Slack  \* bytes added when a buffer grows, 50 in the code

SizeofBuffer == 56
Unset == "?"
Zero == "0"
NoPiece == [b |-> 0, from |-> 0, to |-> 0]
Block(n) == [i \in 1..n |-> Unset] \o <<>>
Put(bytes, i, s) == SubSeq(bytes, 1, i) \o s \o SubSeq(bytes, i + Len(s) + 1, Len(bytes))
Max2(h, n) == [h EXCEPT !.max_length = Longest(@, n)]

\* Memory for a buffer's data, from malloc or from its pool.
Get(m, pool, n) ==
    IF pool # NoPool THEN ac_pool_alloc(m, pool, n)
    ELSE LET got == _ac_malloc_d(m, n, FALSE) IN [m |-> got.m, at |-> Piece(got.p, 0, n)]

_ac_buffer_init(m, x, initial) ==
    LET h == _ac_malloc_d(m, SizeofBuffer, TRUE)
        d == IF initial = 0 THEN [m |-> h.m, at |-> NoPiece] ELSE Get(h.m, NoPool, initial + 1)
    IN  [d.m EXCEPT !.bufs = With(@, x, [h |-> Piece(h.p, 0, SizeofBuffer), at |-> d.at, length |-> 0, size |-> initial,
                                         pool |-> NoPool, max_length |-> 0, bytes |-> Put(Block(initial + 1), 0, <<Zero>>)])]

ac_buffer_pool_init(m, x, pool, initial) ==
    LET h == ac_pool_calloc(m, pool, SizeofBuffer)
        d == ac_pool_alloc(h.m, pool, initial + 1)
    IN  [d.m EXCEPT !.bufs = With(@, x, [h |-> h.at, at |-> d.at, length |-> 0, size |-> initial, pool |-> pool,
                                         max_length |-> 0, bytes |-> Put(Block(initial + 1), 0, <<Zero>>)])]

\* The data of a buffer made with size 0 and never grown is no block of its own.
ac_buffer_destroy(m, x) ==
    LET h == m.bufs[x] IN
    CASE h.pool # NoPool -> [m EXCEPT !.bufs = Drop(@, x)]
      [] h.pool = NoPool /\ h.at = NoPiece -> [m EXCEPT !.aborted = TRUE]
      [] OTHER -> [_ac_free_d(_ac_free_d(m, h.at.b), h.h.b) EXCEPT !.bufs = Drop(@, x)]

NewSize(h, length) == length + Slack + (h.size \div 8)
Moved(got, x, len, bytes) ==
    [got.m EXCEPT !.bufs[x].at = got.at, !.bufs[x].size = len, !.bufs[x].bytes = bytes]

\* Mutant: the old data is not copied.
GrowLoses(m, x, length) ==
    LET h == m.bufs[x]
        len == NewSize(h, length)
        got == Get(m, h.pool, len + 1)
        freed == IF h.pool = NoPool /\ h.size > 0 THEN [got EXCEPT !.m = _ac_free_d(@, h.at.b)] ELSE got
    IN  Moved(freed, x, len, Block(len + 1))

\* The copy in a pool takes as many bytes as the new data has, beyond the end of the old.
_ac_buffer_grow(m, x, length) ==
    LET h == m.bufs[x]
        len == NewSize(h, length)
        got == Get(m, h.pool, len + 1)
        freed == IF h.pool = NoPool /\ h.size > 0 THEN [got EXCEPT !.m = _ac_free_d(@, h.at.b)] ELSE got
    IN  Moved(freed, x, len, Put(Block(len + 1), 0, SubSeq(h.bytes, 1, h.length + 1)))

\* The old data goes before the new is taken, and nothing is copied.
_ac_buffer_alloc(m, x, length) ==
    LET h == m.bufs[x]
        len == NewSize(h, length)
        freed == IF h.pool = NoPool /\ h.size > 0 THEN _ac_free_d(m, h.at.b) ELSE m
    IN  Moved(Get(freed, h.pool, len + 1), x, len, Block(len + 1))

Roomy(m, x, length) == IF length > m.bufs[x].size THEN _ac_buffer_grow(m, x, length) ELSE m

\* s is written at the end, with a zero behind it.
Written(m, x, s) ==
    LET h == m.bufs[x] IN
    [m EXCEPT !.bufs[x].bytes = Put(@, h.length, s \o <<Zero>>), !.bufs[x].length = @ + Len(s)]
Counted(m, x) == [m EXCEPT !.bufs[x] = Max2(@, m.bufs[x].length)]

\* append, appends: the statistic counts the piece, not the whole.
_ac_buffer_append(m, x, s) ==
    LET w == Written(Roomy(m, x, m.bufs[x].length + Len(s)), x, s) IN [w EXCEPT !.bufs[x] = Max2(@, Len(s))]

ac_buffer_appendc(m, x, ch) == Counted(Written(Roomy(m, x, m.bufs[x].length + 1), x, <<ch>>), x)

ac_buffer_appendn(m, x, ch, n) ==
    IF n <= 0 THEN m ELSE Counted(Written(Roomy(m, x, m.bufs[x].length + n), x, [i \in 1..n |-> ch] \o <<>>), x)

\* Formatted text that leaves no byte of size over is formatted again, after growing.
ac_buffer_appendvf(m, x, s) ==
    LET h == m.bufs[x] IN
    Counted(Written(IF Len(s) < h.size - h.length THEN m ELSE _ac_buffer_grow(m, x, h.length + Len(s)), x, s), x)

ac_buffer_clear(m, x) == [m EXCEPT !.bufs[x].length = 0, !.bufs[x].bytes = Put(@, 0, <<Zero>>)]

ac_buffer_shrink_by(m, x, length) ==
    LET n == IF m.bufs[x].length > length THEN m.bufs[x].length - length ELSE 0 IN
    [m EXCEPT !.bufs[x].length = n, !.bufs[x].bytes = Put(@, n, <<Zero>>)]

ac_buffer_resize(m, x, length) ==
    LET g == Roomy(m, x, length) IN
    Counted([g EXCEPT !.bufs[x].length = length, !.bufs[x].bytes = Put(@, length, <<Zero>>)], x)

ac_buffer_append_ualloc(m, x, length) ==
    LET g == Roomy(m, x, length + m.bufs[x].length)
        n == g.bufs[x].length + length
    IN  Counted([g EXCEPT !.bufs[x].length = n, !.bufs[x].bytes = Put(@, n, <<Zero>>)], x)

\* Rounded up to a word first.
ac_buffer_append_alloc(m, x, length) ==
    LET n == Aligned(m.bufs[x].length)
        g == Roomy(m, x, n)
        a == IF n = m.bufs[x].length THEN m
             ELSE [g EXCEPT !.bufs[x].length = n, !.bufs[x].bytes = Put(@, n, <<Zero>>)]
    IN  ac_buffer_append_ualloc(a, x, length)

ac_buffer_alloc(m, x, length) ==
    LET g == IF length > m.bufs[x].size THEN _ac_buffer_alloc(m, x, length) ELSE m IN
    Counted([g EXCEPT !.bufs[x].length = length, !.bufs[x].bytes = Put(@, length, <<Zero>>)], x)

\* set, sets, setc.
_ac_buffer_set(m, x, s) ==
    LET g == IF Len(s) > m.bufs[x].size THEN _ac_buffer_alloc(m, x, Len(s)) ELSE m IN
    Counted([g EXCEPT !.bufs[x].length = Len(s), !.bufs[x].bytes = Put(@, 0, s \o <<Zero>>)], x)

\* Nothing ends the old text when n is 0.
ac_buffer_setn(m, x, ch, n) == ac_buffer_appendn([m EXCEPT !.bufs[x].length = 0], x, ch, n)
ac_buffer_setvf(m, x, s) == ac_buffer_appendvf([m EXCEPT !.bufs[x].length = 0], x, s)
=============================================================================
