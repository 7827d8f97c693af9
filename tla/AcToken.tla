------------------------------ MODULE AcToken ------------------------------
(***************************************************************************)
(* ac_token.c: a query string becomes a tree of tokens.                    *)
(*                                                                         *)
(* The string is a sequence of lexemes: a word (a run of characters that   *)
(* have no case of their own in the switch) or one punctuation character.  *)
(* The text of a token is the sequence of its lexemes ("ab*" is            *)
(* <<"ab", "*">>).  The nodes of ac_token_t, linked by next, prev, child   *)
(* and parent, are the records of a sequence and the pointers its indexes  *)
(* (0 is NULL), so that the relinking of fix_ors and fix_nots is kept.     *)
(***************************************************************************)
EXTENDS Integers, Sequences, SequencesExt

NULL == 0

\* ac_token_t; .cb is attr_type.
Node(type, token) ==
    [type |-> type, token |-> token, cb |-> "NORMAL", attrs |-> <<>>, attr |-> NULL,
     next |-> NULL, prev |-> NULL, child |-> NULL, parent |-> NULL]

\* token_head_t over an empty heap of nodes; .crash is set where the code
\* hands memory of a pool to free().
TokenHead == [n |-> <<>>, head |-> NULL, tail |-> NULL, next |-> NULL,
              global |-> NULL, crash |-> FALSE]

Put(th, i, f, v) == IF i = NULL THEN th ELSE [th EXCEPT !.n[i] = [@ EXCEPT ![f] = v]]
New(th, node) == [th EXCEPT !.n = Append(@, node)]
TypeOf(th, i) == IF i = NULL THEN "none" ELSE th.n[i].type
UpType(th, i) == IF i = NULL THEN "none" ELSE TypeOf(th, th.n[i].parent)

OpenOf(type) == CASE type = "CLOSE_PAREN" -> "OPEN_PAREN"
                  [] type = "CLOSE_BRACE" -> "OPEN_BRACE"
                  [] type = "CLOSE_BRACKET" -> "OPEN_BRACKET"
                  [] OTHER -> "not_a_close"

\* A close: back to the parent, or a NULL token inside an empty pair.
CloseToken(th, type) ==
    LET open == OpenOf(type)
        tail == th.tail
    IN  IF UpType(th, tail) = open
        THEN [th EXCEPT !.tail = th.n[tail].parent]
        ELSE IF TypeOf(th, tail) = open /\ th.n[tail].child = NULL
        THEN Put(New(th, [Node("NULL", <<>>) EXCEPT !.parent = tail]),
                 tail, "child", Len(th.n) + 1)
        ELSE th

RECURSIVE Back(_, _, _)
Back(th, i, k) == IF k = 0 \/ i = NULL THEN i ELSE Back(th, th.n[i].prev, k - 1)

\* x < y ? u : v, at v: x and what follows it go under a new parenthesis.
WrapTernary(th, i) ==
    LET x == Back(th, i, 6)
        p == Len(th.n) + 1
        paren == [th.n[x] EXCEPT !.type = "OPEN_PAREN", !.token = <<"(">>, !.child = x,
                                 !.next = NULL]
    IN  IF TypeOf(th, Back(th, i, 3)) = "QUESTION" /\ TypeOf(th, Back(th, i, 5)) = "COMPARISON"
           /\ x # NULL
        THEN [Put(Put(Put(New(th, paren), x, "parent", p), x, "prev", NULL),
                  paren.prev, "next", p) EXCEPT !.tail = p]
        ELSE [th EXCEPT !.tail = i]

\* Links the node i of th behind the tail, or under it when the tail is an
\* opening that has no child yet.
LinkToken(th, i) ==
    LET tail == th.tail
        under == /\ th.n[tail].child = NULL
                 /\ \/ th.n[tail].type \in {"OPEN_PAREN", "OPEN_BRACE", "OPEN_BRACKET", "DQUOTE"}
                    \/ th.n[tail].type = "COMPARISON" /\ th.n[tail].token = <<"=">>
    IN  IF th.head = NULL THEN [th EXCEPT !.head = i, !.tail = i]
        ELSE IF under
        THEN [Put(Put(th, i, "parent", tail), tail, "child", i) EXCEPT !.tail = i]
        ELSE LET linked == Put(Put(Put(th, i, "parent", th.n[tail].parent), i, "prev", tail),
                               tail, "next", i)
             IN  IF th.n[tail].type = "COLON" THEN WrapTernary(linked, i)
                 ELSE [linked EXCEPT !.tail = i]

\* The merges of signs and of comparisons into the tail.  A sign is only seen
\* where it ends the string (p[1] == 0); token_merge() frees a pool's memory.
Merged(th, token, type, last) ==
    LET t == IF th.tail = NULL THEN <<>> ELSE th.n[th.tail].token
    IN  CASE last /\ token = <<"-">> /\ t = <<"-">> -> {Put(th, th.tail, "token", <<"+">>)}
          [] last /\ token = <<"-">> /\ t = <<"+">> -> {Put(th, th.tail, "token", <<"-">>)}
          [] last /\ token = <<"+">> /\ t \in {<<"+">>, <<"-">>} -> {th}
          [] type = "COMPARISON" /\ TypeOf(th, th.tail) = "COMPARISON" ->
                 {[th EXCEPT !.crash = TRUE]}
          [] OTHER -> {}

\* __token_init.  alt holds the node a dictionary gives instead, if any.
MakeToken(th, token, type, cb, alt, last) ==
    LET merged == Merged(th, token, type, last)
        tail   == th.tail
        inList == {UpType(th, tail), TypeOf(th, tail)} \cap {"OPEN_PAREN", "OPEN_BRACKET"} # {}
        i      == Len(th.n) + 1
        made   == New(th, IF alt # <<>> THEN alt[1] ELSE [Node(type, token) EXCEPT !.cb = cb])
    IN  CASE merged # {} -> CHOOSE m \in merged : TRUE
          [] type \in {"CLOSE_PAREN", "CLOSE_BRACE", "CLOSE_BRACKET"} -> CloseToken(th, type)
          [] type = "DQUOTE" /\ UpType(th, tail) = "DQUOTE" ->
                 [th EXCEPT !.tail = th.n[tail].parent]
          [] type = "DQUOTE" /\ TypeOf(th, tail) = "DQUOTE" /\ th.n[tail].child = NULL -> th
          [] type = "SPACE" ->
                 IF UpType(th, tail) = "COMPARISON" /\ th.n[th.n[tail].parent].token = <<"=">>
                 THEN [th EXCEPT !.tail = th.n[tail].parent] ELSE th
          [] type = "COMMA" /\ ~inList -> th
          [] cb = "NEXT" -> [Put(made, i, "next", th.next) EXCEPT !.next = i]
          [] cb = "GLOBAL" -> [Put(made, i, "next", th.global) EXCEPT !.global = i]
          [] OTHER -> LinkToken([Put(made, i, "attr", th.next) EXCEPT !.next = NULL], i)

\* ac_token_clone of the one node a dictionary keeps: its children are not copied.
ac_token_clone(n) ==
    [n EXCEPT !.child = NULL, !.parent = NULL, !.next = NULL, !.prev = NULL]

\* No callback at all, as when a dictionary reads its own lines.
NoCb == [on |-> FALSE, map |-> <<>>]

\* ac_token_dict_cb: what the dictionary d says of a parameter.  Without an
\* entry "@" starts a number and any other word takes no parameters.
DictCb(d, param) ==
    IF ~d.on THEN [cb |-> "NORMAL", no_params |-> FALSE, alt |-> <<>>]
    ELSE IF param \in DOMAIN d.map
    THEN [d.map[param] EXCEPT !.alt = <<ac_token_clone(@[1])>>]
    ELSE IF param[1] = "@" THEN [cb |-> "NUMBER", no_params |-> FALSE, alt |-> <<>>]
    ELSE [cb |-> "NORMAL", no_params |-> TRUE, alt |-> <<>>]

\* _token_init: the callback may skip the token or give another one.
TokenInit(d, th, token, type, last) ==
    LET r == DictCb(d, token)
    IN  IF r.cb = "SKIP" THEN th ELSE MakeToken(th, token, type, "NORMAL", r.alt, last)

RECURSIVE has_parent(_, _, _)
has_parent(th, i, type) ==
    i # NULL /\ (th.n[i].type = type \/ has_parent(th, th.n[i].parent, type))

is_quoted(th) == has_parent(th, th.tail, "DQUOTE")

FirstFrom(s, i, ch) ==
    LET at == {j \in i..Len(s) : s[j] = ch}
    IN  IF at = {} THEN Len(s) + 1 ELSE CHOOSE j \in at : \A k \in at : j <= k

Min2(a, b) == IF a < b THEN a ELSE b

\* get_next_token: where the (possibly quoted) token that starts at i ends.
get_next_token(s, i) ==
    IF i <= Len(s) /\ s[i] = "\"" THEN Min2(FirstFrom(s, i + 1, "\"") + 1, Len(s) + 1)
    ELSE FirstFrom(s, i, " ")

\* token_parse_attr, at the ':' s[i] behind the word w: [x, y] and the token
\* behind it are w's attributes (kept as lexemes) unless w takes none.
AttrToken(made, i, no_params, attrs) == IF no_params THEN made ELSE Put(made, i, "attrs", attrs)

AttrWith(d, th, w, param, r, attrs) ==
    LET known == ~d.on \/ param \in DOMAIN d.map \/ param[1] = "@"
    IN  IF r.cb = "SKIP" THEN th
        ELSE AttrToken(MakeToken(th, IF known THEN param ELSE w, "TOKEN", r.cb, r.alt, FALSE),
                       Len(th.n) + 1, r.no_params, attrs)

token_parse_attr(d, th, w, s, i) ==
    LET bracket == i < Len(s) /\ s[i + 1] = "["
        after   == IF bracket THEN Min2(FirstFrom(s, i + 2, "]") + 1, Len(s) + 1) ELSE i + 1
        end     == get_next_token(s, after)
        r       == DictCb(d, Append(w, ":"))
        attrs   == SelectSeq(SubSeq(s, i + 1, end - 1), LAMBDA c : c \notin {"[", "]", ",", " ", "\""})
    IN  [th |-> AttrWith(d, th, w, Append(w, ":"), r, attrs),
         i  |-> IF r.no_params THEN i + 1 ELSE end]

\* The type of the token a punctuation character makes.  Inside quotes the
\* cases from ',' to '^' fall through to OTHER.
PunctType(th, ch) ==
    CASE ch = "?" -> "QUESTION" [] ch = ":" -> "COLON" [] ch = "&" -> "AND" [] ch = "|" -> "OR"
      [] ch = "\"" -> "DQUOTE" [] ch = ".." -> "DASH" [] ch \in {" ", "'"} -> "SPACE"
      [] ch = "*" -> "OPERATOR"
      [] ch \in {".", "#", "~", ";"} \/ is_quoted(th) -> "OTHER"
      [] ch = "," -> "COMMA" [] ch = "(" -> "OPEN_PAREN" [] ch = ")" -> "CLOSE_PAREN"
      [] ch = "{" -> "OPEN_BRACE" [] ch = "}" -> "CLOSE_BRACE"
      [] ch = "[" -> "OPEN_BRACKET" [] ch = "]" -> "CLOSE_BRACKET"
      [] ch \in {"!", "=", "<", ">"} -> "COMPARISON"
      [] ch \in {"-", "+", "/", "%", "^"} -> "OPERATOR"

Punct == {"?", ":", "&", "|", "\"", ".", "..", " ", "'", ",", "(", ")", "{", "}", "[", "]",
          "!", "=", "<", ">", "-", "+", "*", "/", "%", "^", "#", "~", ";"}

Flush(d, th, w, type) == IF w = <<>> THEN th ELSE TokenInit(d, th, w, type, FALSE)

\* The switch of ac_token_parse_expression, at s[i] with the word w begun.  The
\* flush and the token see the quotes as they were at the case.
RECURSIVE Scan(_, _, _, _, _), ScanAfter(_, _, _)
ScanAfter(d, s, a) == Scan(d, s, a.i, a.th, <<>>)
Scan(d, s, i, th, w) ==
    IF i > Len(s) THEN Flush(d, th, w, "TOKEN")
    ELSE LET ch    == s[i]
             twice == ch \in {"&", "|"} /\ i < Len(s) /\ s[i + 1] = ch
         IN  CASE ch \notin Punct -> Scan(d, s, i + 1, th, Append(w, ch))
               [] ch = "*" /\ w # <<>> /\ ~has_parent(th, th.tail, "OPEN_BRACE") ->
                      Scan(d, s, i + 1, TokenInit(d, th, Append(w, "*"), "MODIFIER", FALSE), <<>>)
               [] ch = ":" /\ w # <<>> -> ScanAfter(d, s, token_parse_attr(d, th, w, s, i))
               [] OTHER -> Scan(d, s, IF twice THEN i + 2 ELSE i + 1,
                                TokenInit(d, Flush(d, th, w, IF ch \in {"*", "?"} THEN "MODIFIER"
                                                             ELSE "TOKEN"),
                                          <<ch>>, PunctType(th, ch), i = Len(s)), <<>>)

(***************************************************************************)
(* The rewriting of the list of tokens into a boolean tree.                *)
(***************************************************************************)
IsWord(th, t, type, word) ==
    th.n[t].type = type \/ (th.n[t].type = "TOKEN" /\ th.n[t].token = <<word>>)

RECURSIVE Siblings(_, _)
Siblings(th, t) == IF t = NULL THEN <<>> ELSE <<t>> \o Siblings(th, th.n[t].next)

\* kids become the children of the node p, in order.
Adopt(th, p, kids) ==
    LET Link(a, j) == [a EXCEPT !.n[kids[j]] =
            [@ EXCEPT !.parent = p,
                      !.prev = IF j = 1 THEN NULL ELSE kids[j - 1],
                      !.next = IF j = Len(kids) THEN NULL ELSE kids[j + 1]]]
    IN  FoldLeftDomain(Link, Put(th, p, "child", kids[1]), kids)

\* A new node of the type over kids, or the only kid as it is.
Group(th, type, token, kids) ==
    IF Len(kids) = 1 THEN [th |-> th, r |-> kids[1]]
    ELSE [th |-> Adopt(New(th, Node(type, token)), Len(th.n) + 1, kids), r |-> Len(th.n) + 1]

\* r takes the place of old under old's parent.
Replace(th, old, up, r) ==
    LET placed == Put(th, r, "parent", up)
    IN  IF up # NULL /\ placed.n[up].child = old THEN Put(placed, up, "child", r) ELSE placed

\* What was made of the list below t is t's list from here on.
Below(t, sub) == Put(sub.th, t, "child", sub.r)
Inside(th, t) == th.n[t].child # NULL /\ th.n[t].type # "DQUOTE"

RECURSIVE fix_ors(_, _), SplitOrs(_, _, _, _), SplitAtOr(_, _, _, _)
\* The loop of fix_ors at t: st starts the clause being read, starts are the
\* clauses so far.  An OR that ends the list drops the clause before it.
SplitOrs(th, t, st, starts) ==
    IF t = NULL THEN [th |-> th, st |-> st, starts |-> starts]
    ELSE SplitAtOr(IF Inside(th, t) THEN Below(t, fix_ors(th, th.n[t].child)) ELSE th, t, st, starts)

SplitAtOr(th, t, st, starts) ==
    LET next == th.n[t].next
        or   == IsWord(th, t, "OR", "or")
    IN  SplitOrs(IF or THEN Put(Put(th, th.n[t].prev, "next", NULL), next, "prev", NULL) ELSE th,
                 next, IF or THEN next ELSE st,
                 IF or /\ next # NULL /\ st # t THEN Append(starts, st) ELSE starts)

\* One clause more among the children of the node p.
AddClause(a, g) == [th |-> g.th, kids |-> Append(a.kids, g.r)]
OrOver(all, p, t, up) == [th |-> Replace(Adopt(all.th, p, all.kids), t, up, p), r |-> p]

OrWith(th, clauses, t) ==
    OrOver(FoldLeft(LAMBDA a, c : AddClause(a, Group(a.th, "OPEN_PAREN", <<"(">>, Siblings(a.th, c))),
                    [th |-> New(th, Node("OR", <<"or">>)), kids |-> <<>>], clauses),
           Len(th.n) + 1, t, th.n[clauses[1]].parent)

OrsOf(split, t) ==
    IF t = NULL \/ split.starts = <<>> THEN [th |-> split.th, r |-> t]
    ELSE OrWith(split.th, IF split.st = NULL THEN split.starts ELSE Append(split.starts, split.st), t)

fix_ors(th, t) == OrsOf(SplitOrs(th, t, t, <<>>), t)

RECURSIVE fix_nots(_, _), SplitNots(_, _, _, _), SplitAtNot(_, _, _, _)
\* The two loops of fix_nots: the operand of a NOT is not looked into.
SplitNots(th, t, nots, others) ==
    IF t = NULL THEN [th |-> th, nots |-> nots, others |-> others]
    ELSE SplitAtNot(IF Inside(th, t) THEN Below(t, fix_nots(th, th.n[t].child)) ELSE th,
                    t, nots, others)

SplitAtNot(th, t, nots, others) ==
    LET next == th.n[t].next
        not  == IsWord(th, t, "NOT", "not")
    IN  SplitNots(th, IF not /\ next # NULL THEN th.n[next].next ELSE next,
                  IF not /\ next # NULL THEN Append(nots, next) ELSE nots,
                  IF not THEN others ELSE Append(others, t))

\* The node p over what is not wanted and what is.
NotOver(th, p, kids, t, up) == [th |-> Replace(Adopt(th, p, kids), t, up, p), r |-> p]
NotWith(neg, pos, t, up) ==
    NotOver(New(pos.th, Node("NOT", <<"not">>)), Len(pos.th.n) + 1, <<neg.r, pos.r>>, t, up)
NotAnd(neg, others, t, up) == NotWith(neg, Group(neg.th, "OPEN_PAREN", <<"(">>, others), t, up)

NotsOf(split, t, up) ==
    IF t = NULL \/ split.nots = <<>> \/ split.others = <<>> THEN [th |-> split.th, r |-> t]
    ELSE NotAnd(Group(split.th, "OR", <<"or">>, split.nots), split.others, t, up)

fix_nots(th, t) ==
    NotsOf(SplitNots(th, t, <<>>, <<>>), t, IF t = NULL THEN NULL ELSE th.n[t].parent)

group_and(th, t) ==
    IF th.n[t].next = NULL THEN [th |-> th, r |-> t]
    ELSE [th |-> Put(Put(New(th, Node("OPEN_PAREN", <<"(">>)), Len(th.n) + 1, "child", t),
                     t, "parent", Len(th.n) + 1),
          r |-> Len(th.n) + 1]

\* The tree of a query: .th holds the nodes and .r is the root, or NULL.
GroupAnd(nots) == group_and(nots.th, nots.r)
FixNots(ors) == fix_nots(ors.th, ors.r)
Tree(th) ==
    IF th.head = NULL \/ th.crash THEN [th |-> th, r |-> NULL]
    ELSE GroupAnd(FixNots(fix_ors(th, th.head)))

ac_token_parse_expression(d, s) == Tree(Scan(d, s, 1, TokenHead, <<>>))

\* ac_token_dict_add: a line "name type expression"; a later line replaces.
ac_token_dict_add(map, name, cb, no_params, s) ==
    LET tree == ac_token_parse_expression(NoCb, s)
    IN  IF tree.r = NULL THEN map
        ELSE [x \in DOMAIN map \cup {name} |-> IF x = name
                THEN [cb |-> cb, no_params |-> no_params, alt |-> <<tree.th.n[tree.r]>>]
                ELSE map[x]]

\* ac_token_parse: only the words, in a list.
ac_token_parse(s) == SelectSeq(s, LAMBDA ch : ch \notin Punct)

=============================================================================
