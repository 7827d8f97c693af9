----------------------------- MODULE AcCursor ------------------------------
(***************************************************************************)
(* ac_cursor.c, the cursors of ac_s.c, of ac_bit_set.c and of a search     *)
(* image (ac_search_builder.c): walking the ids that match a query.        *)
(*                                                                         *)
(* ac_s.c has its own copy of the cursors; where the code is the same, its *)
(* operators are defined by those of ac_cursor.c.                          *)
(*                                                                         *)
(* A cursor is a record; it has one owner, so the cursors below it are     *)
(* part of its value.  .adv and .to name the functions its advance and     *)
(* advance_to point at, .back the one a reset put aside, .cur is current   *)
(* and .ret what the last call returned (0 is "no more").  The cursors of  *)
(* ac_s.c also show the positions of the current id, .wp up to ewp.        *)
(***************************************************************************)
EXTENDS AcToken, FiniteSets

-----------------------------------------------------------------------------
(***************************************************************************)
(* ac_search_builder.c: the postings (term, id, position, value) given to  *)
(* the builder, the bytes it writes for each term, and the walk over them. *)
(*                                                                         *)
(* The bytes of one term: per group of 4096 ids a 16-bit group number, the *)
(* length of the group in 1, 2 or 3 bytes, and per id a 16-bit head (12    *)
(* bits of id, 4 of control) with what the control announces.              *)
(***************************************************************************)

GroupSize == 4096
MaxPosition == 16383

\* n as w little-endian bytes, two's complement, and back.
LE(n, w) == [i \in 1..w |-> (n \div (256 ^ (i - 1))) % 256] \o <<>>
Unsigned(b, at, w) ==
    FoldLeftDomain(LAMBDA a, i : a + b[at + i - 1] * 256 ^ (i - 1), 0, SubSeq(b, at, at + w - 1))
Signed32(b, at) ==
    Unsigned(b, at, 3) + (IF b[at + 3] >= 128 THEN b[at + 3] - 256 ELSE b[at + 3]) * 256 ^ 3

(***************************************************************************)
(* The builder: P maps <<term, id, position>> to a value, gbls an id to    *)
(* its global data.  The sorted outputs keep one record per key.           *)
(***************************************************************************)
ac_search_builder_init == [P |-> <<>>, gbls |-> <<>>]

ac_search_builder_global(h, id, data) ==
    IF id \in DOMAIN h.gbls THEN h ELSE [h EXCEPT !.gbls = @ @@ (id :> data)]

ac_search_builder_term(h, id, value, pos, term) ==
    IF pos > MaxPosition \/ <<term, id, pos>> \in DOMAIN h.P THEN h
    ELSE [h EXCEPT !.P = @ @@ (<<term, id, pos>> :> value)]

\* Mutant: a stem is only written where it is the word.
WtermOwnStem(h, id, value, pos, word, stems) ==
    FoldSet(LAMBDA stem, a : ac_search_builder_term(a, id, value, pos, <<stem, "*">>),
            ac_search_builder_term(h, id, value, pos, <<word>>), stems \cap {word})

\* The word and its stems (the prefixes of at least sp letters), each with "*".
ac_search_builder_wterm(h, id, value, pos, word, stems) ==
    FoldSet(LAMBDA stem, a : ac_search_builder_term(a, id, value, pos, <<stem, "*">>),
            ac_search_builder_term(h, id, value, pos, <<word>>), stems)

Ascending(S) == SortSeq(FoldSet(LAMBDA x, a : Append(a, x), <<>>, S), <)

\* The width of a value that is written behind its position, and its flag bits.
ValueWidth(v) == IF v = 0 THEN 0 ELSE IF v \in 1..255 THEN 1 ELSE IF v \in 256..65535 THEN 2 ELSE 4
ValueFlag(v) == CASE ValueWidth(v) = 0 -> 0 [] ValueWidth(v) = 1 -> 1
                  [] ValueWidth(v) = 2 -> 2 [] OTHER -> 3

\* Mutant: no form of 32 bits.
EncodeShort(sub, v) ==
    CASE v \in 0..4 -> LE(sub * 16 + v, 2)
      [] v \in 5..255 -> LE(sub * 16 + 5, 2) \o LE(v, 1)
      [] OTHER -> LE(sub * 16 + 6, 2) \o LE(v, 2)

\* An id with one value and no position.
EncodeValue(sub, v) ==
    CASE v \in 0..4 -> LE(sub * 16 + v, 2)
      [] v \in 5..255 -> LE(sub * 16 + 5, 2) \o LE(v, 1)
      [] v \in 256..65535 -> LE(sub * 16 + 6, 2) \o LE(v, 2)
      [] OTHER -> LE(sub * 16 + 7, 2) \o LE(v, 4)

\* An id with positions: their bytes less one in the head or in 4 bytes.
EncodePositions(h, term, id, ps) ==
    LET sub == id % GroupSize
        val(p) == h.P[<<term, id, p>>]
        body == FoldLeft(LAMBDA b, p : b \o LE(p + ValueFlag(val(p)) * 16384, 2)
                                         \o LE(val(p), ValueWidth(val(p))), <<>>, ps)
        sum  == Len(body) - 1
    IN  IF sum > 7 THEN LE(sub * 16 + 8, 2) \o LE(sum, 4) \o body
        ELSE LE(sub * 16 + 8 + sum, 2) \o body

EncodeId(h, term, id) ==
    LET ps == Ascending({k[3] : k \in {x \in DOMAIN h.P : x[1] = term /\ x[2] = id}})
    IN  IF ps = <<0>> THEN EncodeValue(id % GroupSize, h.P[<<term, id, 0>>])
        ELSE EncodePositions(h, term, id, ps)

GroupLength(n) ==
    IF n <= 63 THEN <<n>>
    ELSE IF n <= 16383 THEN <<64 + n \div 256, n % 256>>
    ELSE <<128 + ((n \div 65536) % 64)>> \o LE(n % 65536, 2)

EncodeGroup(h, term, ids, gid) ==
    LET body == FoldLeft(LAMBDA b, id : b \o EncodeId(h, term, id), <<>>, ids)
    IN  LE(gid, 2) \o GroupLength(Len(body)) \o body

EncodeTerm(h, term) ==
    LET ids == Ascending({k[2] : k \in {x \in DOMAIN h.P : x[1] = term}})
        gids == Ascending({ids[i] \div GroupSize : i \in DOMAIN ids})
    IN  FoldLeft(LAMBDA b, g : b \o EncodeGroup(h, term,
                     SelectSeq(ids, LAMBDA id : id \div GroupSize = g), g), <<>>, gids)

\* The pointers of the global data, one per id up to the largest; a gap has none.
GlobalIndex(h) ==
    LET last == IF h.gbls = <<>> THEN -1 ELSE CHOOSE m \in DOMAIN h.gbls :
                                                  \A id \in DOMAIN h.gbls : id <= m
    IN  [id \in 0..last |-> IF id \in DOMAIN h.gbls THEN <<h.gbls[id]>> ELSE <<>>]

\* ac_search_builder_destroy writes the image, ac_search_builder_image_init reads it.
ac_search_builder_destroy(h) ==
    [gbls |-> GlobalIndex(h),
     terms |-> [t \in {k[1] : k \in DOMAIN h.P} |-> EncodeTerm(h, t)]]

(***************************************************************************)
(* The walk over a term of the image: .gp, .p and .ep index its bytes.     *)
(***************************************************************************)
advance_group(t) ==
    LET high == t.b[t.gp + 2] \div 64
        low  == t.b[t.gp + 2] % 64
        len  == CASE high = 0 -> low
                  [] high = 1 -> low * 256 + t.b[t.gp + 3]
                  [] high = 2 -> low * 65536 + Unsigned(t.b, t.gp + 3, 2)
        p    == t.gp + 3 + (CASE high = 0 -> 0 [] high = 1 -> 1 [] high = 2 -> 2)
    IN  [t EXCEPT !.p = p, !.ep = p + len, !.gp = p + len,
                  !.gid = Unsigned(t.b, t.gp, 2) * GroupSize]

advance_id(t) ==
    LET head == Unsigned(t.b, t.p, 2)
        c    == head % 16
        p    == t.p + 2
        at(q, v) == [t EXCEPT !.id = t.gid + head \div 16, !.p = q, !.value = v]
    IN  CASE c = 8 -> at(p + 5 + Unsigned(t.b, p, 4), 0)
          [] c > 8 -> at(p + c - 7, 0)
          [] c < 5 -> at(p, c)
          [] c = 5 -> at(p + 1, t.b[p])
          [] c = 6 -> at(p + 2, Unsigned(t.b, p, 2))
          [] c = 7 -> at(p + 4, Signed32(t.b, p))

NextGroup(t) == IF t.gp > Len(t.b) THEN [t EXCEPT !.ok = FALSE]
                ELSE advance_id(advance_group(t))

image_advance(t) == IF t.p >= t.ep THEN NextGroup(t) ELSE advance_id(t)

RECURSIVE SkipGroups(_, _), SkipIds(_, _)
SkipGroups(t, gid) ==
    IF t.gid >= gid THEN t
    ELSE IF t.gp > Len(t.b) THEN [t EXCEPT !.ok = FALSE]
    ELSE SkipGroups(advance_group(t), gid)
SkipIds(t, id) == IF id > t.id /\ t.p < t.ep THEN SkipIds(advance_id(t), id) ELSE t

\* From an id of id's group on.
WithinGroup(t, id) ==
    LET s == SkipIds(t, id) IN IF id <= s.id THEN s ELSE NextGroup(s)

image_advance_to(t, id) ==
    LET gid == (id \div GroupSize) * GroupSize
        g   == SkipGroups(t, gid)
    IN  IF id <= t.id THEN t
        ELSE IF t.gid >= gid THEN WithinGroup(t, id)
        ELSE IF ~g.ok THEN g
        ELSE IF gid < g.gid THEN advance_id(g) ELSE WithinGroup(advance_id(g), id)

ac_search_builder_fill_term(bytes) ==
    [b |-> bytes, gp |-> 1, gid |-> 0, id |-> 0, p |-> 0, ep |-> 0, value |-> 0, ok |-> TRUE]

\* A wildcard that was not written stands for the word itself.
image_term(img, term) ==
    IF term \in DOMAIN img.terms THEN <<ac_search_builder_fill_term(img.terms[term])>>
    ELSE IF Last(term) = "*" /\ Front(term) \in DOMAIN img.terms
    THEN <<ac_search_builder_fill_term(img.terms[Front(term)])>> ELSE <<>>

-----------------------------------------------------------------------------

(***************************************************************************)
(* ac_bit_set.c: sets of small numbers in 64-bit words.  .words is the     *)
(* number of words, .last the number of bits last_mask keeps of the last   *)
(* word, .on the numbers whose bit is set.                                 *)
(***************************************************************************)
ac_bit_set_init(n) == [words |-> n \div 64 + 1, last |-> n % 64, on |-> {}]

InWords(h, id) == id \div 64 < h.words
\* The bits of the last word beyond last_mask are cleared.
Masked(h, S) == {b \in S : b \div 64 < h.words - 1 \/ b % 64 < h.last}
AllBits(h) == 0..(64 * h.words - 1)

ac_bit_set_not(d, s) == [d EXCEPT !.on = @ \ s.on]
ac_bit_set_or(d, s) == [d EXCEPT !.on = @ \cup s.on]
ac_bit_set_and(d, s) == [d EXCEPT !.on = @ \cap s.on]
ac_bit_set_false(h) == [h EXCEPT !.on = {}]
ac_bit_set_true(h) == [h EXCEPT !.on = Masked(h, AllBits(h))]
ac_bit_set_complement(h) == [h EXCEPT !.on = Masked(h, AllBits(h) \ h.on)]

\* The copy's last_mask is left at 0.
ac_bit_set_copy(h) == [h EXCEPT !.last = 0]

ac_bit_set_set(h, id) == IF InWords(h, id) THEN [h EXCEPT !.on = @ \cup {id}] ELSE h
ac_bit_set_unset(h, id) == IF InWords(h, id) THEN [h EXCEPT !.on = @ \ {id}] ELSE h
ac_bit_set_boolean(h, id, v) == IF v THEN ac_bit_set_set(h, id) ELSE ac_bit_set_unset(h, id)
ac_bit_set(h, id) == InWords(h, id) /\ id \in h.on

ac_bit_set_count(h) == Cardinality(h.on)
ac_bit_set_count_and_zero(h) == [count |-> Cardinality(h.on), set |-> [h EXCEPT !.on = {}]]
ac_bit_set_first(h) == IF h.on = {} THEN 0 ELSE CHOOSE b \in h.on : \A x \in h.on : b <= x

\* The part of advance_bit_set that looks for the first set bit from id on:
\* first in id's word, then in the words behind it that are not zero.
NextBit(h, id) ==
    LET w == id \div 64
        here == {b \in h.on : b \div 64 = w /\ b >= id}
        later == {b \in h.on : b \div 64 > w}
        least(S) == CHOOSE b \in S : \A x \in S : b <= x
    IN  IF w >= h.words THEN <<>>
        ELSE IF here # {} THEN <<least(here)>>
        ELSE IF later # {} THEN <<least(later)>> ELSE <<>>

-----------------------------------------------------------------------------
Cursor(type, adv, to) ==
    [type |-> type, adv |-> adv, to |-> to, back |-> adv, cur |-> 0, ret |-> 0, wp |-> <<>>]

Undefined == -1

ac_cursor_init_empty == Cursor("EMPTY", "empty", "empty")

\* ac_cursor_empty: nothing more will come of c.
Emptied(c) == [c EXCEPT !.adv = "empty", !.to = "empty", !.cur = 0, !.ret = 0]
At(c, id) == [c EXCEPT !.cur = id, !.ret = id]

\* ac_cursor_reset: the next advance returns the current id again.
Reset(c) == [c EXCEPT !.back = c.adv, !.adv = "reset"]

\* ac_cursor_init_or / _and start without cursors, or_add and and_add append.
ac_cursor_init_or(cs) ==
    Cursor("OR", "or_init", "or_to_init") @@ [subs |-> cs, heap |-> <<>>, active |-> <<>>]
ac_cursor_init_and(cs, type) == Cursor(type, "and", "and_to") @@ [subs |-> cs]

\* ac_cursor_init_not, over none, one or two cursors.
ac_cursor_init_not(pos, neg) ==
    IF pos = <<>> THEN ac_cursor_init_empty
    ELSE IF neg = <<>> THEN pos[1]
    ELSE Cursor("NOT", "not", "not_to") @@ [pos |-> pos[1], neg |-> neg[1]]

\* The ids start .. end-1.
ac_cursor_range(start, end) ==
    [Reset(Cursor("NORMAL", "range", "range_to")) EXCEPT !.cur = start]
        @@ [at |-> start + 1, end |-> end]

ac_cursor_init_id(id) == [Reset(ac_cursor_init_empty) EXCEPT !.type = "NORMAL", !.cur = id]

(* The heap of the cursors of an OR that are not at its current id. *)
Exchange(h, i, j) == [h EXCEPT ![i] = h[j], ![j] = h[i]]

RECURSIVE SiftUp(_, _)
SiftUp(h, i) ==
    IF i \div 2 > 0 /\ h[i].cur < h[i \div 2].cur
    THEN SiftUp(Exchange(h, i, i \div 2), i \div 2) ELSE h

or_push(h, c) == SiftUp(Append(h, c), Len(h) + 1)

RECURSIVE SiftDown(_, _)
SiftDown(h, i) ==
    LET j == IF 2 * i + 1 <= Len(h) /\ h[2 * i + 1].cur < h[2 * i].cur THEN 2 * i + 1 ELSE 2 * i
    IN  IF j <= Len(h) /\ h[j].cur < h[i].cur THEN SiftDown(Exchange(h, i, j), j) ELSE h

\* The heap without its least cursor, h[1].
or_pop(h) ==
    IF Len(h) = 1 THEN <<>>
    ELSE SiftDown([SubSeq(h, 1, Len(h) - 1) EXCEPT ![1] = h[Len(h)]], 1)

\* The least cursors of the heap become the active ones.
RECURSIVE Activate(_, _)
Activate(c, id) ==
    IF c.heap # <<>> /\ c.heap[1].cur = id
    THEN Activate([c EXCEPT !.active = Append(@, c.heap[1]), !.heap = or_pop(@)], id)
    ELSE At(c, id)

OrFrom(c) ==
    IF c.heap = <<>> THEN Emptied(c)
    ELSE Activate([c EXCEPT !.active = <<>>], c.heap[1].cur)

RECURSIVE Move(_, _), advance_not(_), AndFrom(_, _, _), AndMoved(_, _, _),
          OrInit(_, _, _), OrPush(_, _, _), OrPushTo(_, _, _, _), OrPopTo(_, _), OrPopped(_, _, _),
          filter_single_advance(_), Filtered(_, _), FindPhrases(_, _, _, _, _),
          advance_phrase_cursor(_), PhraseAt(_)

\* The two calls through the pointers of a cursor; no id is 0.
advance(c) == Move(c, 0)
advance_to(c, id) == Move(c, id)

\* Only a move ahead moves.
Stay(c) == [c EXCEPT !.ret = c.cur]

\* The active cursors that have more go back to the heap.
PushMoved(heap, a) == IF a.ret # 0 THEN or_push(heap, a) ELSE heap

OrPush(c, heap, i) ==
    IF i > Len(c.active) THEN heap ELSE OrPush(c, PushMoved(heap, advance(c.active[i])), i + 1)

OrPushTo(c, heap, i, id) ==
    IF i > Len(c.active) THEN heap
    ELSE OrPushTo(c, PushMoved(heap, advance_to(c.active[i], id)), i + 1, id)

\* No active cursor is left: the first of the heap that reaches id, if any.
OrPopTo(heap, id) ==
    IF heap = <<>> THEN <<>> ELSE OrPopped(heap, advance_to(heap[1], id), id)
OrPopped(heap, p, id) ==
    IF p.ret # 0 THEN <<p, or_pop(heap)>> ELSE OrPopTo(or_pop(heap), id)

advance_or(c) == OrFrom([c EXCEPT !.heap = OrPush(c, @, 1)])

\* Where no active cursor reached id, the p found by the loop is a variable of
\* the inner block: the code goes on with the uninitialised p of the outer one.
\* What follows is undefined: the id is Undefined and stays so.
OrMoved(c, heap, id) ==
    IF Len(heap) > Len(c.heap) THEN OrFrom([c EXCEPT !.heap = heap])
    ELSE IF OrPopTo(heap, id) = <<>> THEN Emptied(c)
    ELSE At(c, Undefined)

advance_or_to(c, id) ==
    IF id <= c.cur THEN Stay(c) ELSE OrMoved(c, OrPushTo(c, c.heap, 1, id), id)

OrInit(c, heap, i) ==
    IF i > Len(c.subs) THEN heap ELSE OrInit(c, PushMoved(heap, advance(c.subs[i])), i + 1)

OrFilled(c, heap) ==
    IF heap = <<>> THEN Emptied(c)
    ELSE advance_or([c EXCEPT !.heap = heap, !.active = <<>>, !.adv = "or", !.to = "or_to"])
advance_or_init(c) == OrFilled(c, OrInit(c, <<>>, 1))

\* From the first id on to id.
OnTo(r, id) == IF r.ret >= id THEN r ELSE IF r.ret = 0 THEN Emptied(r) ELSE advance_to(r, id)

advance_or_to_init(c, id) == OnTo(advance_or_init(c), id)

\* From the positive cursor's id: the negative one is moved up to it, and
\* dropped once it has no more.
NotMoved(d) ==
    IF Undefined \in {d.pos.ret, d.neg.ret} THEN At(d, Undefined)
    ELSE IF d.neg.ret = 0 THEN [At(d, d.pos.ret) EXCEPT !.adv = "pos", !.to = "pos_to"]
    ELSE IF d.neg.ret = d.pos.ret THEN advance_not(d)
    ELSE At(d, d.pos.ret)

NotAt(c, pos) ==
    IF pos.ret = 0 THEN Emptied(c)
    ELSE NotMoved([c EXCEPT !.pos = pos, !.neg = advance_to(@, pos.ret)])

advance_not(c) == NotAt(c, advance(c.pos))
advance_not_to(c, id) == IF id <= c.cur THEN Stay(c) ELSE NotAt(c, advance_to(c.pos, id))

PosAt(c, pos) == IF pos.ret = 0 THEN Emptied(c) ELSE At([c EXCEPT !.pos = pos], pos.ret)
advance_pos(c) == PosAt(c, advance(c.pos))
advance_pos_to(c, id) == IF id <= c.cur THEN Stay(c) ELSE PosAt(c, advance_to(c.pos, id))

\* All cursors from i on are moved to id; a larger answer starts over.
AndFrom(c, id, i) ==
    IF id = 0 THEN Emptied(c)
    ELSE IF id = Undefined \/ i > Len(c.subs) THEN At(c, id)
    ELSE AndMoved([c EXCEPT !.subs[i] = advance_to(@, id)], id, i)
AndMoved(d, id, i) == AndFrom(d, d.subs[i].ret, IF d.subs[i].ret = id THEN i + 1 ELSE 1)

AndFirst(d) == AndFrom(d, d.subs[1].ret, 2)
advance_and(c) == AndFirst([c EXCEPT !.subs[1] = advance(@)])
advance_and_to(c, id) == IF id <= c.cur THEN Stay(c) ELSE AndFrom(c, id, 1)

advance_range(c) ==
    IF c.at >= c.end THEN Emptied(c) ELSE At([c EXCEPT !.at = @ + 1], c.at)
advance_range_to(c, id) ==
    IF id <= c.cur THEN Stay(c)
    ELSE IF id >= c.end THEN Emptied(c) ELSE At([c EXCEPT !.at = id + 1], id)

advance_bit_set(c) ==
    LET id == NextBit(c.bits, c.cur + 1) IN IF id = <<>> THEN Emptied(c) ELSE At(c, id[1])
advance_bit_set_to(c, id) ==
    IF c.cur >= id THEN Stay(c)
    ELSE IF ac_bit_set(c.bits, id) THEN At(c, id)
    ELSE advance_bit_set([c EXCEPT !.cur = id])

\* ac_search_builder_advance(_to): the walk over the image of a term.
ImageAt(c, t) == IF t.ok THEN At([c EXCEPT !.term = t], t.id) ELSE Emptied(c)
ac_search_builder_advance(c) == ImageAt(c, image_advance(c.term))
ac_search_builder_advance_to(c, id) == ImageAt(c, image_advance_to(c.term, id))

(***************************************************************************)
(* The cursors of ac_s.c.                                                  *)
(***************************************************************************)
advance_or_cursor(c) == advance_or(c)

\* The cursors left in the heap are not moved: the answer may be below id.
advance_or_cursor_to(c, id) ==
    IF id <= c.cur THEN Stay(c)
    ELSE OrFrom([c EXCEPT !.heap = OrPushTo(c, @, 1, id)])

OrReady(r, adv, to) == IF r.ret = 0 THEN r ELSE [r EXCEPT !.adv = adv, !.to = to]
advance_or_cursor_init(c) == OrReady(advance_or_init(c), "s_or", "s_or_to")
advance_or_cursor_to_init(c, id) == OnTo(advance_or_cursor_init(c), id)

\* The positions of the first two active cursors, merged; a third is left out.
fill_term_positions(c) ==
    IF c.ret = 0 THEN c
    ELSE [c EXCEPT !.wp = IF Len(c.active) = 1 THEN c.active[1].wp
                          ELSE Ascending(Range(c.active[1].wp) \cup Range(c.active[2].wp))]

advance_or_term_cursor(c) == fill_term_positions(advance_or(c))
advance_or_term_cursor_to(c, id) ==
    IF id <= c.cur THEN Stay(c) ELSE fill_term_positions(advance_or_cursor_to(c, id))
advance_or_term_cursor_init(c) ==
    OrReady(fill_term_positions(advance_or_init(c)), "s_ot", "s_ot_to")
advance_or_term_cursor_to_init(c, id) == OnTo(advance_or_term_cursor_init(c), id)

advance_not_cursor(c) == advance_not(c)
advance_not_cursor_to(c, id) == advance_not_to(c, id)
advance_and_cursor(c) == advance_and(c)
advance_and_cursor_to(c, id) == advance_and_to(c, id)

\* The walk over the groups of a term: .es are the entries of the group the
\* cursor is in, .p the next of them, .g the next group.
block_advance_group(c) ==
    [c EXCEPT !.gid = c.groups[c.g].group * GroupSize, !.es = c.groups[c.g].es, !.p = 1, !.g = @ + 1]

TakeEntry(c) ==
    At([c EXCEPT !.wp = c.es[c.p].pos, !.p = @ + 1], c.gid + c.es[c.p].sub)

\* From the next group, if the entries of this one are used up.
EntryOrGroup(c) ==
    IF c.p <= Len(c.es) THEN TakeEntry(c)
    ELSE IF c.g > Len(c.groups) THEN Emptied(c) ELSE TakeEntry(block_advance_group(c))

advance_block_cursor(c) == EntryOrGroup(c)

SkipBlockGroups(c, gid) ==
    LET behind == {i \in c.g..Len(c.groups) : c.groups[i].group * GroupSize >= gid}
        i == CHOOSE j \in behind : \A k \in behind : j <= k
    IN  IF c.gid >= gid THEN <<c>>
        ELSE IF behind = {} THEN <<>> ELSE <<block_advance_group([c EXCEPT !.g = i])>>

BlockFrom(c, id) ==
    LET left == {i \in c.p..Len(c.es) : c.es[i].sub >= id % GroupSize}
    IN  IF c.gid # (id \div GroupSize) * GroupSize THEN EntryOrGroup(c)
        ELSE EntryOrGroup([c EXCEPT !.p = IF left = {} THEN Len(c.es) + 1
                                          ELSE CHOOSE i \in left : \A k \in left : i <= k])

BlockTo(c, s, id) == IF s = <<>> THEN Emptied(c) ELSE BlockFrom(s[1], id)

advance_block_cursor_to(c, id) ==
    IF id <= c.cur THEN Stay(c)
    ELSE BlockTo(c, SkipBlockGroups(c, (id \div GroupSize) * GroupSize), id)

\* What a filter asks of the positions of the current id.
FilterHolds(f, wp) ==
    CASE f.kind = "position" -> \E i \in DOMAIN wp : wp[i] \in f.lo..f.hi
      [] f.kind = "frequency" -> Len(wp) \in f.lo..f.hi

FilterAt(c, s) == At([c EXCEPT !.c = s, !.wp = s.wp], s.ret)

Filtered(c, s) ==
    IF s.ret = 0 THEN Emptied(c)
    ELSE IF FilterHolds(c.filter, s.wp) THEN FilterAt(c, s)
    ELSE filter_single_advance([c EXCEPT !.c = s])

filter_single_advance(c) == Filtered(c, advance(c.c))
filter_single_advance_to(c, id) == Filtered(c, advance_to(c.c, id))

\* find_phrases: w[i] is where the i-th term is in its positions ps[i], i the
\* term being looked at (0: the first one starts a new phrase at min).
FindPhrases(ps, w, min, i, found) ==
    LET ahead == {k \in w[i]..Len(ps[i]) : ps[i][k] >= min + i - 1}
        k == CHOOSE j \in ahead : \A x \in ahead : j <= x
    IN  IF i = 0
        THEN IF w[1] > Len(ps[1]) THEN found ELSE FindPhrases(ps, w, ps[1][w[1]], 2, found)
        ELSE IF i > Len(ps) THEN FindPhrases(ps, [w EXCEPT ![1] = @ + 1], min, 0, Append(found, min))
        ELSE IF ahead = {} THEN found
        ELSE IF ps[i][k] > min + i - 1
        THEN FindPhrases(ps, [w EXCEPT ![i] = k], ps[i][k] - (i - 1), 1, found)
        ELSE FindPhrases(ps, [w EXCEPT ![i] = k], min, i + 1, found)

\* Mutant: the words may be in any place.
AllFound(c) == \A i \in DOMAIN c.subs : c.subs[i].wp # <<>>

find_phrases(c) ==
    LET ps == [i \in DOMAIN c.subs |-> c.subs[i].wp]
    IN  FindPhrases(ps, [i \in DOMAIN ps |-> 1], 0, 0, <<>>) # <<>>

PhraseAt(a) == IF a.ret = 0 \/ find_phrases(a) THEN a ELSE advance_phrase_cursor(a)
advance_phrase_cursor(c) == PhraseAt(advance_and(c))
advance_phrase_cursor_to(c, id) == IF id <= c.cur THEN Stay(c) ELSE PhraseAt(AndFrom(c, id, 1))

\* The functions .adv and .to name.
Move(c, id) ==
    IF id = 0
    THEN CASE c.adv = "empty" -> [c EXCEPT !.ret = 0]
           [] c.adv = "reset" -> [c EXCEPT !.adv = c.back, !.ret = c.cur]
           [] c.adv = "or_init" -> advance_or_init(c)
           [] c.adv = "or" -> advance_or(c)
           [] c.adv = "not" -> advance_not(c)
           [] c.adv = "pos" -> advance_pos(c)
           [] c.adv = "and" -> advance_and(c)
           [] c.adv = "range" -> advance_range(c)
           [] c.adv = "bits" -> advance_bit_set(c)
           [] c.adv = "image" -> ac_search_builder_advance(c)
           [] c.adv = "s_or_init" -> advance_or_cursor_init(c)
           [] c.adv = "s_or" -> advance_or_cursor(c)
           [] c.adv = "s_ot_init" -> advance_or_term_cursor_init(c)
           [] c.adv = "s_ot" -> advance_or_term_cursor(c)
           [] c.adv = "s_not" -> advance_not_cursor(c)
           [] c.adv = "s_and" -> advance_and_cursor(c)
           [] c.adv = "block" -> advance_block_cursor(c)
           [] c.adv = "filter" -> filter_single_advance(c)
           [] c.adv = "phrase" -> advance_phrase_cursor(c)
    ELSE CASE c.to = "empty" -> [c EXCEPT !.ret = 0]
           [] c.to = "or_to_init" -> advance_or_to_init(c, id)
           [] c.to = "or_to" -> advance_or_to(c, id)
           [] c.to = "not_to" -> advance_not_to(c, id)
           [] c.to = "pos_to" -> advance_pos_to(c, id)
           [] c.to = "and_to" -> advance_and_to(c, id)
           [] c.to = "range_to" -> advance_range_to(c, id)
           [] c.to = "bits_to" -> advance_bit_set_to(c, id)
           [] c.to = "image_to" -> ac_search_builder_advance_to(c, id)
           [] c.to = "s_or_to_init" -> advance_or_cursor_to_init(c, id)
           [] c.to = "s_or_to" -> advance_or_cursor_to(c, id)
           [] c.to = "s_ot_to_init" -> advance_or_term_cursor_to_init(c, id)
           [] c.to = "s_ot_to" -> advance_or_term_cursor_to(c, id)
           [] c.to = "s_not_to" -> advance_not_cursor_to(c, id)
           [] c.to = "s_and_to" -> advance_and_cursor_to(c, id)
           [] c.to = "block_to" -> advance_block_cursor_to(c, id)
           [] c.to = "filter_to" -> filter_single_advance_to(c, id)
           [] c.to = "phrase_to" -> advance_phrase_cursor_to(c, id)

\* A leaf's cursor is opened by walking to its first id and resetting.
ac_bit_set_open_cursor(bits) ==
    Reset(advance(Cursor("NORMAL", "bits", "bits_to") @@ [bits |-> bits]))
ac_search_builder_init_cursor(img, term) ==
    LET t == image_term(img, term)
    IN  IF t = <<>> THEN <<>>
        ELSE <<Reset(advance(Cursor("NORMAL", "image", "image_to") @@ [term |-> t[1]]))>>

\* _ac_cursor_open, with leaf[i] for what the callback answers for a token
\* without children: <<>> (NULL) or a cursor.
RECURSIVE _ac_cursor_open(_, _, _)
_ac_cursor_open(th, i, leaf) ==
    LET kids == Siblings(th, th.n[i].child)
        subs == [j \in DOMAIN kids |-> _ac_cursor_open(th, kids[j], leaf)]
        type == th.n[i].type
    IN  IF kids = <<>> THEN leaf[i]
        ELSE CASE type \in {"OPEN_PAREN", "DQUOTE"} ->
                    IF \E j \in DOMAIN subs : subs[j] = <<>> \/ subs[j][1].type = "EMPTY" THEN <<>>
                    ELSE <<ac_cursor_init_and(FlattenSeq(subs \o <<>>),
                                              IF type = "DQUOTE" THEN "PHRASE" ELSE "AND")>>
               [] type = "OR" -> <<ac_cursor_init_or(FlattenSeq(subs \o <<>>))>>
               [] type = "NOT" /\ Len(kids) > 1 -> <<ac_cursor_init_not(subs[2], subs[1])>>
               [] OTHER -> <<>>

ac_cursor_open(th, root, leaf) ==
    LET c == _ac_cursor_open(th, root, leaf)
    IN  IF root = NULL \/ c = <<>> THEN ac_cursor_init_empty ELSE c[1]

\* The first id of a query, or 0.
ac_cursor_first(th, root, leaf) == advance(ac_cursor_open(th, root, leaf)).ret

\* The cursors a result is explained with.
ac_cursor_subs(c) ==
    CASE c.type \in {"AND", "PHRASE"} -> c.subs
      [] c.type = "OR" -> c.active
      [] c.type = "NOT" -> <<c.pos>>
      [] OTHER -> <<>>
=============================================================================
