------------------------------- MODULE Search ------------------------------
(***************************************************************************)
(* The parts of ac-search together: documents are put into an index in     *)
(* memory (ac_s.c) and into a builder (ac_search_builder.c), a query is    *)
(* parsed (ac_token.c), opened on both and walked (ac_cursor.c, ac_s.c).   *)
(***************************************************************************)
EXTENDS AcS

CONSTANTS
    Ids,        \* document ids
    Texts,      \* texts, sequences of words
    Value(_),   \* the value a text's words are written with
    Queries,    \* queries, see Render
    Synonyms,   \* Synonyms[x]: the word the dictionary has for x
    Marked,     \* ids of a bit set, the cursor of the leaf "marked"
    MaxEdits    \* erasures and insertions out of order

VARIABLES
    h,          \* the ac_s_t
    b,          \* the ac_search_builder_t
    has,        \* has[<<word, id>>]: the positions h was given
    docs,       \* docs[id]: the text
    edits,
    img,        \* <<>> or the image of b
    run         \* the query being walked

vars == <<h, b, has, docs, edits, img, run>>

Words == UNION {Range(Starting[s]) : s \in DOMAIN Starting}
Stems(w) == {s \in DOMAIN Starting : w \in Range(Starting[s])}
Positions(text, w) == Ascending({i \in DOMAIN text : text[i] = w})

NoRun == [q |-> <<>>]

Init ==
    /\ h = ac_s_init /\ b = ac_search_builder_init
    /\ has = <<>> /\ docs = <<>> /\ edits = 0
    /\ img = <<>> /\ run = NoRun

\* The calls for one document: every word is inserted with its positions and
\* written with its stems, the document's value under a term of its own.
InsertWords(g, id, text) ==
    FoldSet(LAMBDA w, a : ac_s_insert(a, w, id, Positions(text, w)), g, Range(text))
WriteWords(g, id, text) ==
    FoldLeftDomain(LAMBDA a, i : ac_search_builder_wterm(a, id, Value(text), i, text[i], Stems(text[i])),
        ac_search_builder_term(ac_search_builder_global(g, id, text), id, Value(text), 0, <<"value">>),
        text)

AddDoc(id, text) ==
    LET behind == \E x \in DOMAIN docs : x > id
    IN  /\ img = <<>> /\ id \notin DOMAIN docs
        /\ behind => edits < MaxEdits
        /\ edits' = IF behind THEN edits + 1 ELSE edits
        /\ h' = InsertWords(h, id, text)
        /\ b' = WriteWords(b, id, text)
        /\ has' = [w \in Range(text) \X {id} |-> Positions(text, w[1])] @@ has
        /\ docs' = docs @@ (id :> text)
        /\ UNCHANGED <<img, run>>

\* A word of a document is given other positions, or taken out.
Change(w, id, pos) ==
    /\ img = <<>> /\ edits < MaxEdits /\ <<w, id>> \in DOMAIN has
    /\ edits' = edits + 1
    /\ h' = ac_s_insert(h, w, id, pos)
    /\ has' = [has EXCEPT ![<<w, id>>] = pos]
    /\ UNCHANGED <<b, docs, img, run>>

Erase(w, id) ==
    /\ img = <<>> /\ edits < MaxEdits
    /\ edits' = edits + 1
    /\ h' = ac_s_erase(h, w, id)
    /\ has' = [k \in DOMAIN has \ {<<w, id>>} |-> has[k]]
    /\ UNCHANGED <<b, docs, img, run>>

\* The builder is closed and its image loaded.
Build ==
    /\ img = <<>> /\ edits = 0
    /\ img' = <<ac_search_builder_destroy(b)>>
    /\ UNCHANGED <<h, b, has, docs, edits, run>>

(***************************************************************************)
(* A query is <<"word", w>>, <<"wild", stem>>, <<"phrase", words>>,        *)
(* <<"filter", stem, kind, lo, hi>>, <<"attr", w, x>>, <<"custom", leaf>>  *)
(* or <<op, q1, q2>> with op and, or, not.  Render writes it for the       *)
(* parser; a filter is put on a cursor.  A custom leaf has a cursor of its *)
(* own: the callback that ac_cursor_open is given knows it by its name.    *)
(***************************************************************************)
RECURSIVE Render(_), Meaning(_, _), HasOr(_), OrUnderNot(_)
Leaf(q) == q[1] \in {"word", "wild", "phrase", "filter", "attr", "custom"}
Spaced(x, y) == x \o <<" ">> \o y
Inner(q) == IF Leaf(q) THEN Render(q) ELSE <<"(">> \o Render(q) \o <<")">>
Render(q) ==
    CASE q[1] \in {"word", "custom"} -> <<q[2]>>
      [] q[1] = "attr" -> <<q[2], ":", q[3]>>
      [] q[1] \in {"wild", "filter"} -> <<q[2], "*">>
      [] q[1] = "phrase" -> <<"\"">> \o FoldLeft(LAMBDA a, w : IF a = <<>> THEN <<w>> ELSE Spaced(a, <<w>>),
                                                 <<>>, q[2]) \o <<"\"">>
      [] q[1] = "and" -> Spaced(Inner(q[2]), Inner(q[3]))
      [] q[1] \in {"or", "not"} -> Spaced(Spaced(Inner(q[2]), <<q[1]>>), Inner(q[3]))

MaxId == CHOOSE m \in Ids : \A id \in Ids : id <= m
\* The bits are set in two halves, and twice complemented.
MarkedBits ==
    LET none == ac_bit_set_init(MaxId + 1)
        only(id) == ac_bit_set_boolean(ac_bit_set_boolean(none, id, TRUE), id + 1, FALSE)
    IN  ac_bit_set_complement(ac_bit_set_complement(
            FoldSet(LAMBDA id, a : ac_bit_set_or(a, only(id)), none, Marked)))
CustomCursor(leaf) ==
    CASE leaf = "marked" -> ac_bit_set_open_cursor(MarkedBits)
      [] leaf = "range" -> ac_cursor_range(2, MaxId)
      [] leaf = "one" -> ac_cursor_init_id(MaxId)
CustomIds(leaf) ==
    CASE leaf = "marked" -> Marked [] leaf = "range" -> 2..(MaxId - 1) [] leaf = "one" -> {MaxId}
Custom == {"marked", "range", "one"}

\* The ids a query is about; without phrases their words are only looked for.
Meaning(q, phrases) ==
    LET real(w) == IF w \in DOMAIN Synonyms THEN Synonyms[w] ELSE w
        with(w) == {id \in DOMAIN docs : real(w) \in Range(docs[id])}
        at(id, i, w) == i \in DOMAIN docs[id] /\ docs[id][i] = w
        stem(id) == {i \in DOMAIN docs[id] : docs[id][i] \in Range(Starting[q[2]])}
        asked(id) == IF ~phrases THEN stem(id) # {}
                     ELSE IF q[3] = "position" THEN \E i \in stem(id) : i \in q[4]..q[5]
                     ELSE Cardinality(stem(id)) \in q[4]..q[5] /\ stem(id) # {}
    IN  CASE q[1] = "word" -> with(q[2])
          [] q[1] = "attr" -> with(q[2]) \cap with(q[3])
          [] q[1] = "custom" -> CustomIds(q[2])
          [] q[1] = "wild" -> {id \in DOMAIN docs : stem(id) # {}}
          [] q[1] = "filter" -> {id \in DOMAIN docs : asked(id)}
          [] q[1] = "phrase" /\ phrases ->
                {id \in DOMAIN docs : \E i \in DOMAIN docs[id] :
                    \A k \in DOMAIN q[2] : at(id, i + k - 1, q[2][k])}
          [] q[1] = "phrase" /\ ~phrases ->
                {id \in DOMAIN docs : Range(q[2]) \subseteq Range(docs[id])}
          [] q[1] = "and" -> Meaning(q[2], phrases) \cap Meaning(q[3], phrases)
          [] q[1] = "or" -> Meaning(q[2], phrases) \cup Meaning(q[3], phrases)
          [] q[1] = "not" -> Meaning(q[2], phrases) \ Meaning(q[3], phrases)

RECURSIVE HasCustom(_), HasOp(_), OpUnderNot(_), HasOne(_)
HasOne(q) == q = <<"custom", "one">> \/ (~Leaf(q) /\ (HasOne(q[2]) \/ HasOne(q[3])))
HasCustom(q) == q[1] = "custom" \/ (~Leaf(q) /\ (HasCustom(q[2]) \/ HasCustom(q[3])))
\* An OR of the index is also behind a wildcard and a filter, one of an image
\* only where the query has one.
HasOr(q) == q[1] \in {"or", "wild", "filter"} \/ (~Leaf(q) /\ (HasOr(q[2]) \/ HasOr(q[3])))
OrUnderNot(q) == ~Leaf(q) /\ (\/ q[1] = "not" /\ HasOr(q[3])
                              \/ OrUnderNot(q[2]) \/ OrUnderNot(q[3]))
HasOp(q) == ~Leaf(q) /\ (q[1] = "or" \/ HasOp(q[2]) \/ HasOp(q[3]))
OpUnderNot(q) == ~Leaf(q) /\ (\/ q[1] = "not" /\ HasOp(q[3])
                              \/ OpUnderNot(q[2]) \/ OpUnderNot(q[3]))

\* The dictionary, with a line for each synonym.
Dict == [on  |-> TRUE,
         map |-> FoldSet(LAMBDA x, m : ac_token_dict_add(m, <<x>>, "NORMAL", TRUE, <<Synonyms[x]>>),
                         <<>>, DOMAIN Synonyms)]

LeafOf(token) ==
    IF token[1] \in Custom THEN <<CustomCursor(token[1])>>
    ELSE ac_search_builder_init_cursor(img[1], token)

\* A filter is put on the cursor of the index.
FilterOf(q, c) == IF q[1] = "filter" THEN ac_s_filter(c, q[3], q[4], q[5]) ELSE c

Open(q) ==
    /\ img # <<>> /\ run = NoRun
    /\ \E tree \in {ac_token_parse_expression(Dict, Render(q))} :
         run' = [q |-> q, calls |-> "none", again |-> [s |-> FALSE, c |-> FALSE],
                 was |-> [s |-> 0, c |-> 0], asked |-> [s |-> 1, c |-> 1],
                 s |-> FilterOf(q, ac_s_open_cursor(h, tree.th, tree.r)),
                 c |-> ac_cursor_open(tree.th, tree.r,
                                      [i \in DOMAIN tree.th.n |-> LeafOf(tree.th.n[i].token)])]
    /\ UNCHANGED <<h, b, has, docs, edits, img>>

(***************************************************************************)
(* One more call of both walks.  For each of them .was is what the call    *)
(* before returned and .asked the least id this one is asked for: the id   *)
(* given, and after an advance the one behind the last id; a call that     *)
(* stopped short of what it was asked for leaves that as it was.  .again   *)
(* marks a call that may return the id of the call before: an advance_to   *)
(* of no more than that id, and the first advance of a walk begun with     *)
(* advance_to.  Once an answer is undefined the cursor is not called again.*)
(***************************************************************************)
Returned == [w \in {"s", "c"} |-> IF run.calls = "none" THEN 0 ELSE run[w].ret]
Behind(w) ==
    IF Returned[w] # 0 /\ Returned[w] >= run.asked[w] THEN Returned[w] + 1 ELSE run.asked[w]
MaxOf(x, y) == IF x > y THEN x ELSE y
MoreToCome == run.s.ret # 0 \/ run.c.ret \notin {0, Undefined}

\* A walk begun with advance is "on", one begun with advance_to is "to" until its
\* first advance and "late" from there.
AfterAdvance == [none |-> "on", on |-> "on", to |-> "late", late |-> "late"]

Advance ==
    /\ run # NoRun /\ (run.calls # "none" => MoreToCome)
    /\ run' = [run EXCEPT !.s = advance(@),
                          !.c = IF @.ret = Undefined THEN @ ELSE advance(@),
                          !.calls = AfterAdvance[@], !.again = [w \in {"s", "c"} |-> run.calls = "to"],
                          !.was = Returned, !.asked = [w \in {"s", "c"} |-> Behind(w)]]
    /\ UNCHANGED <<h, b, has, docs, edits, img>>

AdvanceTo(id) ==
    /\ run # NoRun /\ (run.calls # "none" => MoreToCome)
    /\ run' = [run EXCEPT !.s = advance_to(@, id),
                          !.c = IF @.ret = Undefined THEN @ ELSE advance_to(@, id),
                          !.calls = IF @ = "none" THEN "to" ELSE @,
                          !.again = [w \in {"s", "c"} |-> id <= Returned[w]],
                          !.was = Returned,
                          !.asked = [w \in {"s", "c"} |-> MaxOf(@[w], id)]]
    /\ UNCHANGED <<h, b, has, docs, edits, img>>

Next ==
    \/ \E id \in Ids, text \in Texts : AddDoc(id, text)
    \/ \E id \in Ids, w \in Words : Change(w, id, <<1>>) \/ Change(w, id, <<1, 2, 3, 4>>) \/ Erase(w, id)
    \/ Build
    \/ \E q \in Queries : Open(q)
    \/ Advance
    \/ \E id \in Ids : AdvanceTo(id)

Spec == Init /\ [][Next]_vars

(***************************************************************************)
(* Properties.                                                             *)
(***************************************************************************)
Appended == edits = 0
InUse(k) ==
    LET arrays == {w \in DOMAIN h.terms : Len(h.terms[w].groups) > 0
                     /\ get_block_id(Len(h.terms[w].groups) * sizeofBlock) = k}
        blocks == {<<w, i>> \in (DOMAIN h.terms) \X (1..Cardinality(Ids)) :
                     /\ i <= Len(h.terms[w].groups) /\ h.terms[w].groups[i].type = 1
                     /\ get_block_id(BlockSize(h.terms[w].groups[i].es)) = k}
    IN  Cardinality(arrays) + Cardinality(blocks)

\* Ids that are only ever appended to a term leave the index as it was given:
\* every id with its positions, the counts right (ac_s_insert, ac_s_find, and
\* the size classes behind them).  After other edits (ac_s_erase, an insertion
\* out of order) an index that was not damaged shows nothing that was erased
\* and still owns every block it took from the pool exactly once.  A walk changes
\* nothing of it, so it is looked at where there is none.
IndexExact ==
    run = NoRun =>
        /\ Appended => /\ ~h.bad
                       /\ \A w \in Words, id \in Ids : <<w, id>> \in DOMAIN has
                                                        => ac_s_find(h, w, id) = <<has[<<w, id>>]>>
                       /\ \A w \in DOMAIN h.terms :
                             /\ h.terms[w].num_ids = Cardinality({k \in DOMAIN has : k[1] = w})
                             /\ h.terms[w].bytes = FoldLeft(LAMBDA a, g : a + EntriesBytes(g.es), 0,
                                                            h.terms[w].groups)
        /\ ~h.bad => /\ \A w \in Words, id \in Ids :
                           LET f == ac_s_find(h, w, id)
                           IN  f # <<>> => <<w, id>> \in DOMAIN has /\ has[<<w, id>>] = f[1]
                     /\ \A k \in Classes : h.made[k] = h.free[k] + InUse(k)

\* What an image is read for is what the builder was given: the value of each
\* document, through the four ways a value is written, and its global data.
RECURSIVE Walk(_)
Walk(t) == LET n == image_advance(t) IN IF n.ok THEN <<<<n.id, n.value>>>> \o Walk(n) ELSE <<>>
ImageExact ==
    (img # <<>> /\ run = NoRun /\ docs # <<>>) =>
        /\ Walk(image_term(img[1], <<"value">>)[1])
             = [i \in 1..Cardinality(DOMAIN docs) |->
                   LET id == Ascending(DOMAIN docs)[i] IN <<id, Value(docs[id])>>]
        /\ \A id \in DOMAIN img[1].gbls :
             img[1].gbls[id] = IF id \in DOMAIN docs THEN <<docs[id]>> ELSE <<>>

\* What a call of the walk w may return of the ids S: 0 if none of them is left
\* from the id asked for on, or else the first of these; where .again allows it
\* the last id once more; and an id of short, below the one asked for but above
\* the last.
Answer(S, w, short) ==
    LET ret == run[w].ret
        from == run.asked[w]
    IN  \/ ret = 0 /\ \A id \in S : id < from
        \/ ret \in S /\ ret >= from /\ \A id \in S : id >= from => ret <= id
        \/ run.again[w] /\ ret = run.was[w] /\ ret # 0
        \/ ret \in short /\ ret < from /\ ret > run.was[w]

\* A query parsed by ac_token_parse_expression and walked with ac_s_open_cursor
\* yields the ids that it is about in order, whatever calls of advance and
\* advance_to the walk is made of: phrases by their positions, wildcards by
\* their prefix.  An advance_to of a query with an OR, a wildcard or a filter
\* may return an id below the one it was asked for, as the cursors in the heap
\* are not moved (ac_s.c:1039), a filter then one whose positions it saw in part;
\* no id that was asked for is lost.  An OR below a NOT is left out: the NOT
\* takes an answer that stopped short for one that does not have the id.
QueryExact ==
    (run # NoRun /\ run.calls # "none" /\ ~OrUnderNot(run.q) /\ ~HasCustom(run.q))
        => Answer(Meaning(run.q, TRUE), "s",
                  IF HasOr(run.q) THEN Meaning(run.q, run.q[1] # "filter") ELSE {})

\* The same of the image, walked with ac_cursor_open, where a phrase is an AND.
\* Two answers are the code's own: an advance_to of an OR may be undefined
\* (ac_cursor.c:153-172: no active cursor reaches the id and the p set by the
\* inner loop is another variable), after which nothing is said, and the cursor
\* of one id answers every advance_to with 0 (ac_cursor.c:478), so that it is
\* not found behind another cursor of an AND or when a walk begins with advance_to.
OneMoved == HasOne(run.q) /\ (run.calls \in {"to", "late"} \/ HasOne(run.q[3]))
ImageQueryExact ==
    (run # NoRun /\ run.calls # "none" /\ ~OpUnderNot(run.q) /\ ~OneMoved)
        => \/ Answer(Meaning(run.q, FALSE), "c",
                     IF HasOp(run.q) THEN Meaning(run.q, FALSE) ELSE {})
           \/ run.c.ret = Undefined /\ HasOp(run.q)

=============================================================================
