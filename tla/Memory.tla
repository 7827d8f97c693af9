------------------------------- MODULE Memory -------------------------------
(***************************************************************************)
(* Pools, buffers and plain blocks used together in the build with the     *)
(* memory check: one thread allocates, grows, clears and frees, while the  *)
(* allocator's thread dumps the list.  The functions take the allocator's  *)
(* mutex only to change the list, so a call is one step, except that a     *)
(* pool or a buffer is listed before its dump function is written.         *)
(***************************************************************************)
EXTENDS AcPool

CONSTANTS
    PoolSizes, ChildSizes, BufferSizes,  \* initial sizes
    Lengths,                             \* of allocations
    Words,                               \* texts put into buffers
    Fills,                               \* how often a character is put there
    Texts, Delims,                       \* texts that are taken apart
    Rows,                                \* sequences of fields
    OpsOf,                               \* for each kind of client, the calls it makes
    SavesOf                              \* and the dumps written meanwhile

VARIABLES
    m,        \* memory, see AcPool
    client,   \* what this client uses
    half,     \* blocks whose dump function is yet to be written
    cps,      \* checkpoints, by pool
    raw,      \* blocks from ac_malloc
    want,     \* what each buffer should hold, and whether a zero ends it
    text,     \* the text that was taken apart, with the result
    dumper,   \* the thread: at, save, logs, done
    ops

vars == <<m, client, half, cps, raw, want, text, dumper, ops>>

P == "P"  \* a pool
C == "C"  \* a pool in the pool
H == "H"  \* a buffer with memory of its own
B == "B"  \* a buffer in the pool

Logs == 0..5
ChildHeader == SizeofPool + SizeofNode

Init ==
    /\ m = ac_allocator_init
    /\ client \in DOMAIN OpsOf
    /\ half = {} /\ cps = <<>> /\ raw = {} /\ want = <<>> /\ text = <<>> /\ ops = 0
    /\ dumper = [at |-> "rotate", save |-> 0, logs |-> [k \in Logs |-> NoLog], done |-> FALSE]

-----------------------------------------------------------------------------
\* The client calls something.
Call(kinds) ==
    /\ client \in kinds /\ ops < OpsOf[client]
    /\ half = {} /\ ~m.aborted /\ ~dumper.done /\ dumper.at # "wild"
    /\ ops' = ops + 1
    /\ UNCHANGED <<client, dumper, text>>

Has(p) == p \in DOMAIN m.pools
Inside(mm, at, p) ==
    p \in DOMAIN mm.pools /\ \E e \in ToSet(mm.pools[p].live) : e.b = at.b /\ e.from <= at.from /\ at.to <= e.to
NodePieces(h) == {[b |-> h.nodes[i].b, to |-> h.nodes[i].to,
                   from |-> h.nodes[i].from - (IF i = 1 THEN ChildHeader ELSE SizeofNode)] : i \in DOMAIN h.nodes}

\* A client drops what lay in memory that it gave back.
Known(mm) ==
    LET pools == {p \in DOMAIN mm.pools : \/ mm.pools[p].pool = NoPool
                                          \/ \A n \in NodePieces(mm.pools[p]) : Inside(mm, n, mm.pools[p].pool)}
        m1 == [mm EXCEPT !.pools = [p \in pools |-> mm.pools[p]]]
        bufs == {x \in DOMAIN mm.bufs : \/ mm.bufs[x].pool = NoPool
                                        \/ Inside(m1, mm.bufs[x].h, mm.bufs[x].pool)
                                           /\ Inside(m1, mm.bufs[x].at, mm.bufs[x].pool)}
    IN  [m1 EXCEPT !.bufs = [x \in bufs |-> mm.bufs[x]]]
Becomes(mm) ==
    /\ m' = Known(mm)
    /\ cps' = [p \in DOMAIN cps \cap DOMAIN m'.pools |-> cps[p]]
    /\ want' = [x \in DOMAIN want \cap DOMAIN m'.bufs |-> want[x]]

Listed(mm) == half' = {b \in DOMAIN mm.heap : mm.heap[b].custom /\ ~mm.heap[b].dump}

PoolInit(size) ==
    /\ Call({"pool", "buffer", "log"}) /\ ~Has(P)
    /\ Becomes(_ac_pool_init(m, P, size)) /\ Listed(_ac_pool_init(m, P, size)) /\ UNCHANGED raw

\* The rest of _ac_pool_init and _ac_buffer_init: h->dump.dump = ...
DumpSet ==
    /\ half # {} /\ dumper.at # "wild"
    /\ m' = [m EXCEPT !.heap = [b \in DOMAIN m.heap |-> [m.heap[b] EXCEPT !.dump = TRUE]]]
    /\ half' = {}
    /\ UNCHANGED <<client, cps, raw, want, text, dumper, ops>>

PoolPoolInit(size) ==
    /\ Call({"pool"}) /\ Has(P) /\ ~Has(C)
    /\ Becomes(ac_pool_pool_init(m, C, P, size)) /\ UNCHANGED <<half, raw>>

PoolAlloc(p, len) ==
    /\ Call({"pool"}) /\ Has(p)
    /\ \/ Becomes(ac_pool_alloc(m, p, len).m)
       \/ Becomes(ac_pool_ualloc(m, p, len).m)
       \/ Becomes(ac_pool_min_max_alloc(m, p, len \div 2, len).m)
    /\ UNCHANGED <<half, raw>>

PoolCopy(p, s) ==
    /\ Call({"pool"}) /\ Has(p)
    /\ \/ Becomes(ac_pool_strndup(m, p, s, 2).m)
       \/ Becomes(ac_pool_dup(m, p, s).m)
       \/ Becomes(ac_pool_strdupvf(m, p, s).m)
    /\ UNCHANGED <<half, raw>>

PoolGrowth(p) ==
    /\ Call({"pool"}) /\ Has(p) /\ m.pools[p].minimum_growth_size # Word
    /\ Becomes(ac_pool_set_minimum_growth_size(m, p, Word)) /\ UNCHANGED <<half, raw>>

PoolCheckpoint(p) ==
    /\ Call({"pool", "buffer"}) /\ Has(p)
    /\ cps' = With(cps, p, ac_pool_checkpoint(m, p))
    /\ UNCHANGED <<m, half, raw, want>>

PoolReset(p) ==
    /\ Call({"pool", "buffer"}) /\ Has(p) /\ p \in DOMAIN cps
    /\ Becomes(ac_pool_reset(m, p, cps[p])) /\ UNCHANGED <<half, raw>>

\* A checkpoint is not used any more once its pool was cleared.
PoolClear(p) ==
    /\ Call({"pool", "buffer"}) /\ Has(p)
    /\ m' = Known(ac_pool_clear(m, p))
    /\ cps' = [q \in (DOMAIN cps \cap DOMAIN m'.pools) \ {p} |-> cps[q]]
    /\ want' = [x \in DOMAIN want \cap DOMAIN m'.bufs |-> want[x]]
    /\ UNCHANGED <<half, raw>>

PoolDestroy(p) ==
    /\ Call({"pool", "buffer", "log"}) /\ Has(p)
    /\ Becomes(ac_pool_destroy(m, p)) /\ UNCHANGED <<half, raw>>

-----------------------------------------------------------------------------
Malloc(len) ==
    /\ Call({"log"})
    /\ LET got == _ac_malloc_d(m, len, FALSE) IN
       Becomes(got.m) /\ raw' = raw \cup ({got.p} \ {0})
    /\ UNCHANGED half

Realloc(b, len) ==
    /\ Call({"log"}) /\ b \in raw \cup {0}
    /\ LET got == _ac_realloc_d(m, b, len) IN
       Becomes(got.m) /\ raw' = (raw \ {b}) \cup ({got.p} \ {0})
    /\ UNCHANGED half

Free(b) ==
    /\ Call({"log"}) /\ b \in raw
    /\ Becomes(_ac_free_d(m, b)) /\ raw' = raw \ {b} /\ UNCHANGED half

Strdup(s) ==
    /\ Call({"log"})
    /\ LET got == _ac_strdupvf_d(m, s) IN Becomes(got.m) /\ raw' = raw \cup {got.p}
    /\ UNCHANGED half

-----------------------------------------------------------------------------
Ended(s) == [text |-> s, ended |-> TRUE]
Text(x) == want[x].text

\* A call on a buffer; w is what the buffer should hold after it.
Leaves(x, mm, w) ==
    /\ m' = Known(mm) /\ want' = [want EXCEPT ![x] = w]
    /\ UNCHANGED <<half, raw, cps>>
On(x, mm, s) == Leaves(x, mm, Ended(s))

HeapBufferInit(size) ==
    /\ Call({"buffer"}) /\ H \notin DOMAIN m.bufs
    /\ LET mm == _ac_buffer_init(m, H, size) IN m' = mm /\ Listed(mm)
    /\ want' = With(want, H, Ended(<<>>)) /\ UNCHANGED <<raw, cps>>

PoolBufferInit(size) ==
    /\ Call({"buffer"}) /\ Has(P) /\ B \notin DOMAIN m.bufs
    /\ m' = ac_buffer_pool_init(m, B, P, size)
    /\ want' = With(want, B, Ended(<<>>)) /\ UNCHANGED <<half, raw, cps>>

BufferAdd(x, s) ==
    /\ Call({"buffer"}) /\ x \in DOMAIN m.bufs
    /\ \/ On(x, _ac_buffer_append(m, x, s), Text(x) \o s)
       \/ s # <<>> /\ On(x, ac_buffer_appendc(m, x, s[1]), Append(Text(x), s[1]))
       \/ On(x, ac_buffer_appendvf(m, x, s), Text(x) \o s)

BufferSet(x, s) ==
    /\ Call({"buffer"}) /\ x \in DOMAIN m.bufs
    /\ \/ On(x, _ac_buffer_set(m, x, s), s)
       \/ On(x, ac_buffer_setvf(m, x, s), s)
       \/ On(x, ac_buffer_clear(m, x), <<>>)

\* A character n times; with n = 0 nothing is written, not even the zero.
BufferFill(x, ch, n) ==
    /\ Call({"buffer"}) /\ x \in DOMAIN m.bufs
    /\ LET s == [i \in 1..n |-> ch] \o <<>> IN
       \/ Leaves(x, ac_buffer_appendn(m, x, ch, n), IF n = 0 THEN want[x] ELSE Ended(Text(x) \o s))
       \/ Leaves(x, ac_buffer_setn(m, x, ch, n),
                 [text |-> s, ended |-> n > 0 \/ (Text(x) = <<>> /\ want[x].ended)])

Padded(w, n) == w \o Block(n)
BufferRoom(x, n) ==
    /\ Call({"buffer"}) /\ x \in DOMAIN m.bufs
    /\ \/ On(x, ac_buffer_resize(m, x, n),
             IF n <= Len(Text(x)) THEN SubSeq(Text(x), 1, n) ELSE Padded(Text(x), n - Len(Text(x))))
       \/ On(x, ac_buffer_append_ualloc(m, x, n), Padded(Text(x), n))
       \/ On(x, ac_buffer_append_alloc(m, x, n), Padded(Text(x), Aligned(Len(Text(x))) - Len(Text(x)) + n))
       \/ On(x, ac_buffer_alloc(m, x, n), Block(n))
       \/ On(x, ac_buffer_shrink_by(m, x, n), SubSeq(Text(x), 1, Len(Text(x)) - n))

BufferDestroy(x) ==
    /\ Call({"buffer"}) /\ x \in DOMAIN m.bufs
    /\ Becomes(ac_buffer_destroy(m, x)) /\ UNCHANGED <<half, raw>>

-----------------------------------------------------------------------------
\* Texts are taken apart; the pieces lie in a pool, whose part PoolAlloc is.
TakeApart(s, d) ==
    /\ client = "text" /\ text = <<>>
    /\ text' = <<[s |-> s, d |-> d, split |-> _ac_pool_split(d, s), split2 |-> _ac_pool_split2(d, s),
                  strs |-> _ac_pool_split_str(<<d, d>>, s), strs2 |-> _ac_pool_split_str2(<<d, d>>, s),
                  mine |-> _ac_split_d(d, s), mine2 |-> _ac_split2_d(d, s),
                  tokens |-> _ac_pool_tokenize({d, Space}, s), html |-> ac_pool_strip_html(s), row |-> <<>>]>>
    /\ UNCHANGED <<m, client, half, cps, raw, want, dumper, ops>>

\* A row is written, field by field, and read back.
RowAndBack(row, d) ==
    /\ client = "text" /\ text = <<>>
    /\ LET line == FoldLeftDomain(LAMBDA a, i : a \o (IF i = 1 THEN <<>> ELSE <<d>>) \o ac_pool_csv_encode(d, row[i]),
                                  <<>>, row)
       IN  text' = <<[row |-> row, back |-> _ac_pool_split_csv(d, line), back2 |-> _ac_pool_split_csv2(d, line),
                      copy |-> _ac_strdupa_d(row), poolcopy |-> ac_pool_strdupa(row),
                      copyn |-> [n \in 0..Len(row) |-> _ac_strdupan_d(row, n)],
                      poolcopyn |-> [n \in 0..Len(row) |-> ac_pool_strdupan(row, n)]]>>
    /\ UNCHANGED <<m, client, half, cps, raw, want, dumper, ops>>

-----------------------------------------------------------------------------
(***************************************************************************)
(* dump_global_allocations_thread: outside the mutex it moves the old logs *)
(* on, in it it writes the log and looks at done before it waits.          *)
(***************************************************************************)
Rotate ==
    /\ dumper.at = "rotate" /\ dumper.save < SavesOf[client]
    /\ dumper' = [dumper EXCEPT !.at = "dump", !.logs = save_old_log(dumper.logs, dumper.save)]
    /\ UNCHANGED <<m, client, half, cps, raw, want, text, ops>>

Dump ==
    /\ dumper.at = "dump"
    /\ dumper' = [dumper EXCEPT !.logs[0] = dumper.save, !.save = @ + 1,
                                !.at = CASE _ac_dump_global_allocations(m) -> "wild"
                                         [] dumper.done -> "end"
                                         [] OTHER -> "wait"]
    /\ UNCHANGED <<m, client, half, cps, raw, want, text, ops>>

\* The wait ends by the clock or by ac_allocator_destroy.
Wake ==
    /\ dumper.at = "wait"
    /\ dumper' = [dumper EXCEPT !.at = "rotate"]
    /\ UNCHANGED <<m, client, half, cps, raw, want, text, ops>>

ac_allocator_destroy ==
    /\ client = "log" /\ ~dumper.done /\ half = {} /\ dumper.at # "wild"
    /\ dumper' = [dumper EXCEPT !.done = TRUE]
    /\ UNCHANGED <<m, client, half, cps, raw, want, text, ops>>

Next ==
    \/ \E size \in PoolSizes : PoolInit(size)
    \/ DumpSet
    \/ \E size \in ChildSizes : PoolPoolInit(size)
    \/ \E p \in {P, C}, len \in Lengths : PoolAlloc(p, len)
    \/ \E p \in {P, C}, s \in Words : PoolCopy(p, s)
    \/ \E p \in {P, C} : PoolGrowth(p) \/ PoolCheckpoint(p) \/ PoolReset(p) \/ PoolClear(p) \/ PoolDestroy(p)
    \/ \E len \in Lengths \cup {0} : Malloc(len)
    \/ \E b \in raw \cup {0}, len \in Lengths : Realloc(b, len)
    \/ \E b \in raw : Free(b)
    \/ \E s \in Words : Strdup(s)
    \/ \E size \in BufferSizes : HeapBufferInit(size)
    \/ \E size \in BufferSizes : PoolBufferInit(size)
    \/ \E x \in {H, B}, s \in Words \cup {<<>>} : BufferAdd(x, s) \/ BufferSet(x, s)
    \/ \E x \in {H, B}, n \in Fills : BufferFill(x, "x", n)
    \/ \E x \in {H, B}, n \in Lengths : BufferRoom(x, n)
    \/ \E x \in {H, B} : BufferDestroy(x)
    \/ \E s \in Texts, d \in Delims : TakeApart(s, d)
    \/ \E row \in Rows, d \in Delims : RowAndBack(row, d)
    \/ Rotate \/ Dump \/ Wake \/ ac_allocator_destroy

Spec == Init /\ [][Next]_vars

-----------------------------------------------------------------------------
Apart(x, y) == x.b # y.b \/ x.to <= y.from \/ y.to <= x.from
Within(x, y) == x.b = y.b /\ y.from <= x.from /\ x.to <= y.to

\* No two live allocations share a byte, across growth, checkpoints, resets and
\* pools in pools: each lies in one block of its pool, apart from the others, and
\* each block in the heap block or the parent's allocation it was cut from
\* (ac_pool_alloc, _ac_pool_alloc_grow, ac_pool_reset).
NoOverlap ==
    \A p \in DOMAIN m.pools :
        LET h == m.pools[p] IN
        /\ \A e \in ToSet(h.live) : \E n \in ToSet(h.nodes) : Within(e, n)
        /\ \A i, k \in DOMAIN h.live : i < k => Apart(h.live[i], h.live[k])
        /\ \A n \in NodePieces(h) :
               IF h.pool = NoPool THEN n.b \in DOMAIN m.heap /\ n.from >= 0 /\ n.to <= m.heap[n.b].len
               ELSE Inside(m, n, h.pool)

\* The allocator lists exactly the blocks that pools, buffers and the client
\* hold, each once, and its totals are theirs: nothing leaks, nothing is freed
\* twice or under its owner (ac_pool_clear, ac_pool_reset, _ac_buffer_grow).
Accounted ==
    LET Tops == {p \in DOMAIN m.pools : m.pools[p].pool = NoPool}
        Own == {x \in DOMAIN m.bufs : m.bufs[x].pool = NoPool}
        held == {<<"pool", p, i, m.pools[p].nodes[i].b>> : <<p, i>> \in
                    {q \in Tops \X (1..10) : q[2] \in DOMAIN m.pools[q[1]].nodes}}
                \cup {<<"buffer", x, 1, m.bufs[x].h.b>> : x \in Own}
                \cup {<<"buffer", x, 2, m.bufs[x].at.b>> : x \in {y \in Own : m.bufs[y].size > 0}}
                \cup {<<"raw", "", 1, b>> : b \in raw}
    IN  ~m.aborted =>
        /\ {t[4] : t \in held} = ToSet(m.list) /\ Cardinality(held) = Len(m.list)
        /\ DOMAIN m.heap = ToSet(m.list) /\ m.allocations = Len(m.list)
        /\ m.bytes = FoldLeft(LAMBDA n, b : n + m.heap[b].len, 0, m.list)

\* A buffer holds what was put into it after any sequence of growing, shrinking and
\* setting, in memory of its own or of a pool, and a zero ends it (_ac_buffer_grow,
\* ac_buffer_alloc) but for one case: ac_buffer_setn with n = 0 empties it and writes
\* no zero, so that none is there until the next call that writes one.
BufferExact ==
    ~m.aborted =>
    \A x \in DOMAIN m.bufs :
        LET h == m.bufs[x] IN
        /\ h.length = Len(Text(x)) /\ h.length <= h.size /\ Len(h.bytes) = h.size + 1
        /\ \A i \in DOMAIN Text(x) : Text(x)[i] # Unset => h.bytes[i] = Text(x)[i]
        /\ want[x].ended => h.bytes[h.length + 1] = Zero

\* The logs back off by a factor of two: while the thread waits, log.k is from
\* 2^k - 1 to 2^(k+1) - 2 dumps old, and there is one as soon as there can be
\* (save_old_log).  The comment of dump_global_allocations_thread says four, see
\* LogsAsSaid.
LogsBackOff ==
    dumper.at \in {"wait", "end"} =>
        \A k \in Logs :
            LET age == dumper.save - 1 - dumper.logs[k] IN
            IF dumper.save >= 2^k THEN dumper.logs[k] # NoLog /\ age \in (2^k - 1)..(2^(k + 1) - 2)
            ELSE dumper.logs[k] = NoLog

\* "back off now, 60 seconds ago, 240 seconds ago, 240*4 seconds ago"
\* (dump_global_allocations_thread, which waits 60 seconds between two dumps): once there
\* are so many, the logs are 1, 4 and 16 dumps old, or older.  The code breaks this with
\* its factor of two, so no run claims it.
LogsAsSaid ==
    dumper.at = "wait" =>
        \A k \in 1..3 : dumper.save > 4^(k - 1) => dumper.save - 1 - dumper.logs[k] >= 4^(k - 1)

Joined(pieces, d) == FoldLeftDomain(LAMBDA a, i : a \o (IF i = 1 THEN <<>> ELSE d) \o pieces[i], <<>>, pieces)
\* The tokens of s by definition: the longest runs without a delimiter.
TokensOf(delims, s) ==
    {<<i, k>> \in (DOMAIN s) \X (DOMAIN s) :
        /\ i <= k /\ \A j \in i..k : s[j] \notin delims
        /\ i = 1 \/ s[i - 1] \in delims
        /\ k = Len(s) \/ s[k + 1] \in delims}
Collides(delims, s) == \E i \in DOMAIN s : s[i] \notin delims /\ \E d \in delims : Bit(d) = Bit(s[i])

\* A copy lies in its memory, the strings behind the pointers.
Clear(c) == Pointer * c.pointers <= c.text /\ c.end <= c.len

\* What is taken apart can be put together again: the pieces joined by the
\* delimiter are the text, and a row of fields with delimiters and quotes comes back
\* as it was (ac_pool.c).  _ac_split_d leaves out a last, empty piece, and writes beyond
\* its array for the empty text and for no other.  Tokens are the runs between
\* delimiters in texts none of whose characters shares the low five bits of its code
\* with a delimiter (ac_pool.c:283, see TokensAsSaid for the others).  A copy of an array
\* lies in its memory, its strings clear of its pointers: of _ac_strdupa_d,
\* of ac_pool_strdupan for any n, and of _ac_strdupan_d just if n is the number of the
\* strings; the strings of ac_pool_strdupa always lie over its pointers.  What
\* ac_pool_strip_html leaves has no two blanks in a row and is no longer than the text,
\* unless a backslash in a quoted part takes it over the end (overrun).
TextExact ==
    text # <<>> =>
    LET t == text[1] IN
    IF "s" \in DOMAIN t
    THEN /\ Joined(t.split, <<t.d>>) = t.s /\ Joined(t.strs, <<t.d, t.d>>) = t.s
         /\ \A i \in DOMAIN t.split2 : t.split2[i] # <<>> /\ t.d \notin ToSet(t.split2[i])
         /\ t.mine.overrun <=> t.s = <<>>
         /\ t.mine.pieces \in {t.split, Front(t.split)} /\ t.mine2 = t.split2
         /\ ~Collides({t.d, Space}, t.s) =>
               /\ Len(t.tokens) = Cardinality(TokensOf({t.d, Space}, t.s))
               /\ ToSet(t.tokens) = {SubSeq(t.s, r[1], r[2]) : r \in TokensOf({t.d, Space}, t.s)}
         /\ ~t.html.overrun =>
               /\ \A i \in DOMAIN t.html.text : t.html.text[i] = Space => i < Len(t.html.text) /\ t.html.text[i + 1] # Space
               /\ Len(t.html.text) <= Len(t.s)
    ELSE /\ t.back = [pieces |-> t.row, overrun |-> FALSE] /\ t.back2 = SelectSeq(t.row, LAMBDA f : f # <<>>)
         /\ Clear(t.copy) /\ ~Clear(t.poolcopy)
         /\ \A n \in 0..Len(t.row) : Clear(t.poolcopyn[n]) /\ (Clear(t.copyn[n]) <=> n = Len(t.row))

\* "split a string into N pieces using any character in delim array" (ac_pool.h): no
\* other character ends a token.  The code breaks this with the first text that has
\* another character of the same five bits, so no run claims it.
TokensAsSaid ==
    text # <<>> /\ "s" \in DOMAIN text[1] =>
        ToSet(text[1].tokens) =
            {SubSeq(text[1].s, r[1], r[2]) : r \in TokensOf({text[1].d, Space}, text[1].s)}
=============================================================================
