-------------------------------- MODULE AcS --------------------------------
(***************************************************************************)
(* ac_s.c: an index in memory.  A term has groups of 4096 ids; a group has *)
(* one entry inside its ac_block_t (type 0) or entries in a block of its   *)
(* own (type 1).  Blocks come from free lists by size class.               *)
(*                                                                         *)
(* The data of an entry is what advance_pos_id() reads: the positions of   *)
(* the term in the document, with their length in front.  .bad is set      *)
(* where the code goes on with a pointer or with bytes that are not what   *)
(* it takes them for; nothing is said of the index from then on.           *)
(***************************************************************************)
EXTENDS AcCursor

\* Starting[stem]: the words that start with stem, in the order of strcmp.
CONSTANT Starting

sizeofBlock == 10
size_tbl == <<0, 1, 2, 3, 4, 5, 6, 7, 12, 24, 32, 48, 64, 96, 128, 196, 256>>

\* The least class whose blocks have room for size bytes; class k is size_tbl[k + 1].
get_block_id(size) ==
    LET fits == {k \in 1..Len(size_tbl) : size <= size_tbl[k] * sizeofBlock}
    IN  (CHOOSE k \in fits : \A x \in fits : k <= x) - 1

Classes == 0..(Len(size_tbl) - 1)

Term == [groups |-> <<>>, num_ids |-> 0, bytes |-> 0]

ac_s_init == [terms |-> <<>>, made |-> [k \in Classes |-> 0], free |-> [k \in Classes |-> 0],
              bad |-> FALSE]

ac_s_alloc(h, k) ==
    IF h.free[k] = 0 THEN [h EXCEPT !.made[k] = @ + 1] ELSE [h EXCEPT !.free[k] = @ - 1]

ac_s_release(h, size) == [h EXCEPT !.free[get_block_id(size)] = @ + 1]

\* The bytes of an entry: id and control, a length unless it is in the control.
advance_pos_id(e) ==
    LET n == 2 * Len(e.pos)
    IN  2 + n + (IF n < 7 THEN 0 ELSE IF n < 256 THEN 1 ELSE IF n < 65536 THEN 3 ELSE 5)

EntriesBytes(es) == FoldLeft(LAMBDA a, e : a + advance_pos_id(e), 0, es)
BlockSize(es) == EntriesBytes(es) + 4

find_block(groups, gid) ==
    LET at == {i \in DOMAIN groups : groups[i].group >= gid}
    IN  IF at = {} THEN Len(groups) + 1 ELSE CHOOSE i \in at : \A k \in at : i <= k

find_id_in_block(es, sub) ==
    LET at == {i \in DOMAIN es : es[i].sub >= sub}
    IN  IF at = {} THEN Len(es) + 1 ELSE CHOOSE i \in at : \A k \in at : i <= k

Account(h, w, ids, bytes) ==
    [h EXCEPT !.terms[w] = [@ EXCEPT !.num_ids = @ + ids, !.bytes = @ + bytes]]
SetGroups(h, w, groups) == [h EXCEPT !.terms[w] = [@ EXCEPT !.groups = groups]]

\* Mutant: the shorter array is not given back.
GetAddBlockKeeps(h, num) ==
    IF (num + 1) * sizeofBlock <= size_tbl[get_block_id(num * sizeofBlock) + 1] * sizeofBlock THEN h
    ELSE ac_s_alloc(h, get_block_id(num * sizeofBlock) + 1)

\* A longer array of groups is allocated where the class has no room for one more.
get_add_block(h, num) ==
    LET k == get_block_id(num * sizeofBlock)
        a == ac_s_alloc(h, k + 1)
    IN  IF (num + 1) * sizeofBlock <= size_tbl[k + 1] * sizeofBlock THEN h
        ELSE IF num > 0 THEN ac_s_release(a, num * sizeofBlock) ELSE a

get_remove_block(h, num) ==
    LET k == get_block_id(num * sizeofBlock)
    IN  IF (num - 1) * sizeofBlock > size_tbl[k] * sizeofBlock THEN h
        ELSE ac_s_release(ac_s_alloc(h, k - 1), num * sizeofBlock)

\* The entry fits in the group itself when its data is shorter than 7 bytes.
Inline(e) == advance_pos_id(e) - 1 < 7

insert_new_group_with_data(h, w, i, gid, e) ==
    LET groups == h.terms[w].groups
        b == IF Inline(e) THEN h ELSE ac_s_alloc(h, get_block_id(BlockSize(<<e>>)))
        new == [group |-> gid, type |-> IF Inline(e) THEN 0 ELSE 1, es |-> <<e>>]
    IN  SetGroups(get_add_block(Account(b, w, 1, advance_pos_id(e)), Len(groups)), w,
                  InsertAt(groups, i, new))

\* An entry is put into the block es of group i: over the one of its id or
\* before those of larger ids.  The move of what follows has its arguments
\* swapped, so within a class only an entry at the end is right; an entry that
\* replaces the only one and fits in the group is written over the pointer.
UpdateBlock(h, w, i, e) ==
    LET g    == h.terms[w].groups[i]
        at   == find_id_in_block(g.es, e.sub)
        same == at <= Len(g.es) /\ g.es[at].sub = e.sub
        es   == IF same THEN [g.es EXCEPT ![at] = e] ELSE InsertAt(g.es, at, e)
        last == at >= Len(g.es) /\ (same \/ at > Len(g.es))
        old  == get_block_id(BlockSize(g.es))
        new  == get_block_id(BlockSize(es))
        put  == [SetGroups(h, w, [h.terms[w].groups EXCEPT ![i].es = es])
                    EXCEPT !.bad = @ \/ (old = new /\ ~last)]
        counted == Account(put, w, IF same THEN 0 ELSE 1, EntriesBytes(es) - EntriesBytes(g.es))
    IN  IF same /\ Len(g.es) = 1 /\ Inline(e)
        THEN [ac_s_release(counted, BlockSize(g.es)) EXCEPT !.bad = TRUE]
        ELSE IF same /\ advance_pos_id(e) = advance_pos_id(g.es[at])
        THEN SetGroups(h, w, [h.terms[w].groups EXCEPT ![i].es = es])
        ELSE IF old = new THEN counted
        ELSE ac_s_release(ac_s_alloc(counted, new), BlockSize(g.es))

\* The entry of a group without a block is replaced, or both move to a block.
\* Data too long to replace it is written through an uninitialised pointer,
\* and with the smaller id in front the group points behind its block's start.
UpdateInline(h, w, i, e) ==
    LET g    == h.terms[w].groups[i]
        one  == g.es[1]
        same == one.sub = e.sub
        es   == IF same THEN <<e>> ELSE IF one.sub < e.sub THEN <<one, e>> ELSE <<e, one>>
        type == IF same /\ Inline(e) THEN 0 ELSE 1
        put  == SetGroups(h, w, [h.terms[w].groups EXCEPT ![i] = [@ EXCEPT !.es = es, !.type = type]])
        counted == Account(put, w, IF same THEN 0 ELSE 1, EntriesBytes(es) - EntriesBytes(g.es))
    IN  IF type = 0 THEN counted
        ELSE [ac_s_alloc(counted, get_block_id(BlockSize(es))) EXCEPT !.bad = @ \/ same \/ e.sub < one.sub]

update_group_with_data(h, w, i, e) ==
    IF h.terms[w].groups[i].type = 0 THEN UpdateInline(h, w, i, e) ELSE UpdateBlock(h, w, i, e)

_ac_s_add(h, w, id, pos) ==
    LET groups == h.terms[w].groups
        gid == id \div GroupSize
        i   == find_block(groups, gid)
        e   == [sub |-> id % GroupSize, pos |-> pos]
    IN  IF i > Len(groups) \/ groups[i].group # gid
        THEN insert_new_group_with_data(h, w, i, gid, e)
        ELSE update_group_with_data(h, w, i, e)

ac_s_insert(h, w, id, pos) ==
    _ac_s_add(IF w \in DOMAIN h.terms THEN h ELSE [h EXCEPT !.terms = @ @@ (w :> Term)], w, id, pos)

\* The array has one group less.  The end of the copy is taken after num_groups
\* was counted down: unless group i is the last, the last group is left out.
remove_group(h, w, i) ==
    LET groups == h.terms[w].groups
        num    == Len(groups)
        less   == SetGroups(h, w, RemoveAt(groups, i))
    IN  IF num = 1 THEN ac_s_release(less, sizeofBlock)
        ELSE [get_remove_block(less, num) EXCEPT !.bad = @ \/ i < num]

\* What is left of a block moves into the group where it is short and one end
\* was removed: all of its bytes, of which a group only shows the first entry.
remove_id_from_group(h, w, i, at) ==
    LET g    == h.terms[w].groups[i]
        es   == RemoveAt(g.es, at)
        size == EntriesBytes(g.es)
        less == Account(h, w, -1, EntriesBytes(es) - size)
        edge == at \in {1, Len(g.es)}
        old  == get_block_id(size + 4)
        new  == get_block_id(BlockSize(es))
        put(x) == SetGroups(less, w, [less.terms[w].groups EXCEPT ![i] = x])
    IN  IF es = <<>> THEN remove_group(ac_s_release(less, size + 4), w, i)
        ELSE IF EntriesBytes(es) < 9 /\ edge
        THEN ac_s_release(put([g EXCEPT !.es = <<es[1]>>, !.type = 0]), size + 4)
        ELSE IF old = new THEN put([g EXCEPT !.es = es])
        ELSE ac_s_release(ac_s_alloc(put([g EXCEPT !.es = es]), new), size + 4)

\* For an entry inside its group the bytes are counted down by one too few.
_ac_s_remove(h, w, id) ==
    LET groups == h.terms[w].groups
        gid == id \div GroupSize
        i   == find_block(groups, gid)
        es  == groups[i].es
        at  == find_id_in_block(es, id % GroupSize)
    IN  IF i > Len(groups) \/ groups[i].group # gid THEN h
        ELSE IF at > Len(es) \/ es[at].sub # id % GroupSize THEN h
        ELSE IF groups[i].type # 0 THEN remove_id_from_group(h, w, i, at)
        ELSE remove_group(Account(h, w, -1, 1 - advance_pos_id(es[1])), w, i)

ac_s_erase(h, w, id) == IF w \in DOMAIN h.terms THEN _ac_s_remove(h, w, id) ELSE h

\* The positions of id in the term, if it is there.
ac_s_find(h, w, id) ==
    LET groups == h.terms[w].groups
        gid == id \div GroupSize
        i   == find_block(groups, gid)
        at  == find_id_in_block(groups[i].es, id % GroupSize)
    IN  IF w \notin DOMAIN h.terms \/ i > Len(groups) \/ groups[i].group # gid THEN <<>>
        ELSE IF at > Len(groups[i].es) \/ groups[i].es[at].sub # id % GroupSize THEN <<>>
        ELSE <<groups[i].es[at].pos>>

(***************************************************************************)
(* Opening the cursors of a query.                                         *)
(***************************************************************************)
ac_s_init_empty_cursor == Cursor("EMPTY", "empty", "empty")

\* At the first id of the term; a term without ids has an empty cursor that
\* still counts as a cursor of a term.
_init_term_cursor(t) ==
    Reset(advance(Cursor("NORMAL", "block", "block_to")
                    @@ [groups |-> t.groups, g |-> 1, gid |-> 0, es |-> <<>>, p |-> 1]))

ac_s_init_or_term_cursor(cs) ==
    Cursor("OR_TERM", "s_ot_init", "s_ot_to_init") @@ [subs |-> cs, heap |-> <<>>, active |-> <<>>]

WildOver(cs) ==
    IF cs = <<>> THEN ac_s_init_empty_cursor
    ELSE IF Len(cs) = 1 THEN cs[1] ELSE ac_s_init_or_term_cursor(cs)

ac_s_init_wild_cursor(h, stem) ==
    LET words == SelectSeq(Starting[stem], LAMBDA w : w \in DOMAIN h.terms)
    IN  WildOver([i \in DOMAIN words |-> _init_term_cursor(h.terms[words[i]])] \o <<>>)

\* token is <<word>> or <<stem, "*">>.
ac_s_init_term_cursor(h, token) ==
    IF Last(token) = "*" THEN ac_s_init_wild_cursor(h, token[1])
    ELSE IF token[1] \notin DOMAIN h.terms THEN ac_s_init_empty_cursor
    ELSE _init_term_cursor(h.terms[token[1]])

\* The ac_s_filter_ functions: only cursors of terms are filtered.
ac_s_filter(c, kind, lo, hi) ==
    IF c.type \notin {"NORMAL", "OR_TERM"} THEN c
    ELSE Cursor("FILTER", "filter", "filter_to")
            @@ [c |-> c, filter |-> [kind |-> kind, lo |-> lo, hi |-> hi]]

ac_s_init_not_cursor(pos, neg) ==
    IF pos = <<>> THEN ac_s_init_empty_cursor
    ELSE IF neg = <<>> THEN pos[1]
    ELSE Cursor("NOT", "s_not", "s_not_to") @@ [pos |-> pos[1], neg |-> neg[1]]

CursorOver(type, subs) ==
    LET all  == FlattenSeq(subs)
        hole == \E j \in DOMAIN subs : subs[j] = <<>> \/ subs[j][1].type = "EMPTY"
    IN  CASE type = "OPEN_PAREN" ->
                IF hole THEN <<>> ELSE <<Cursor("AND", "s_and", "s_and_to") @@ [subs |-> all]>>
          [] type = "DQUOTE" ->
                IF hole THEN <<>> ELSE <<Cursor("AND", "phrase", "phrase_to") @@ [subs |-> all]>>
          [] type = "OR" -> <<Cursor("OR", "s_or_init", "s_or_to_init")
                                 @@ [subs |-> all, heap |-> <<>>, active |-> <<>>]>>
          [] type = "NOT" /\ Len(subs) > 1 -> <<ac_s_init_not_cursor(subs[2], subs[1])>>
          [] OTHER -> <<>>

RECURSIVE _ac_s_open_cursor(_, _, _)
_ac_s_open_cursor(h, th, i) ==
    LET kids == Siblings(th, th.n[i].child)
    IN  IF kids = <<>> THEN <<ac_s_init_term_cursor(h, th.n[i].token)>>
        ELSE CursorOver(th.n[i].type,
                        [j \in DOMAIN kids |-> _ac_s_open_cursor(h, th, kids[j])] \o <<>>)

FirstOr(c, none) == IF c = <<>> THEN none ELSE c[1]
ac_s_open_cursor(h, th, root) ==
    IF root = NULL THEN ac_s_init_empty_cursor
    ELSE FirstOr(_ac_s_open_cursor(h, th, root), ac_s_init_empty_cursor)
=============================================================================
