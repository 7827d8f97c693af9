------------------------------- MODULE AcJson -------------------------------
(***************************************************************************)
(* ac_json.c and ac-json/ac_json.h: JSON values, the parser, the writer.   *)
(*                                                                         *)
(* A text is a sequence of bytes followed by a zero.  A scalar keeps its   *)
(* text as it is written; an object or an array is the list of its nodes,  *)
(* numbered in the order they were made, and an index over them: a sorted  *)
(* array or a tree for objects, a table for arrays.                        *)
(***************************************************************************)
EXTENDS Integers, Sequences, SequencesExt, FiniteSets

CONSTANT Bits               \* the width of the integers that are parsed

Quote == 34
Slash == 92
Space == {32, 9, 13, 10}
Digit == 48..57
Comma == 44
Colon == 58
Brace == [open |-> 123, close |-> 125]
Bracket == [open |-> 91, close |-> 93]
Dot == 46
Minus == 45

\* The byte at p, the zero behind the text.
Byte(s, p) == IF p \in DOMAIN s THEN s[p] ELSE 0
From(s, p, S) == {q \in p..Len(s) : s[q] \in S}
First(S, none) == IF S = {} THEN none ELSE CHOOSE x \in S : \A y \in S : x <= y

(***************************************************************************)
(* Scalars.                                                                *)
(***************************************************************************)
Scalar(type, value, length) == [type |-> type, value |-> value, length |-> length]
Text(type, value) == Scalar(type, value, Len(value))

True == <<116, 114, 117, 101>>
False == <<102, 97, 108, 115, 101>>
Null == <<110, 117, 108, 108>>

ac_json_string(s, length) == Scalar("STRING", s, length)
ac_json_str(s) == Text("STRING", s)
ac_json_binary(s) == Text("BINARY", s)
ac_json_true == Text("TRUE", True)
ac_json_false == Text("FALSE", False)
ac_json_null == Text("NULL", Null)
ac_json_zero == Text("ZERO", <<48>>)

RECURSIVE Digits(_)
Digits(n) == IF n < 10 THEN <<48 + n>> ELSE Digits(n \div 10) \o <<48 + (n % 10)>>
ac_json_number(n) == Text("NUMBER", IF n < 0 THEN <<Minus>> \o Digits(-n) ELSE Digits(n))
ac_json_number_string(s) == Text("NUMBER", s)
ac_json_decimal_string(s) == Text("DECIMAL", s)

\* A number of Bits bits; anything but digits gives the default.
Wrapped(n) == ((n + 2 ^ (Bits - 1)) % 2 ^ Bits) - 2 ^ (Bits - 1)
Accumulate(s) ==
    FoldLeft(LAMBDA a, c : [ok |-> a.ok /\ c \in Digit, n |-> (a.n * 10 + c - 48) % 2 ^ Bits],
             [ok |-> TRUE, n |-> 0], s)
parse_int(s, default) ==
    LET neg == s # <<>> /\ s[1] = Minus
        a   == Accumulate(IF neg THEN Tail(s) ELSE s)
    IN  IF ~a.ok THEN default ELSE Wrapped(IF neg THEN -a.n ELSE a.n)
parse_uint(s, default) ==
    LET a == Accumulate(s) IN IF a.ok THEN a.n ELSE default

(***************************************************************************)
(* Escapes.                                                                *)
(***************************************************************************)
Escaped == {Quote, Slash, 47, 8, 12, 10, 13, 9}
Letter(c) == CASE c = 8 -> 98 [] c = 12 -> 102 [] c = 10 -> 110 [] c = 13 -> 114
               [] c = 9 -> 116 [] OTHER -> c

\* Mutant: a backslash is written as it is.
EncodeSlashBare(s) == FlattenSeq([i \in DOMAIN s |-> IF s[i] \in Escaped \ {Slash}
                                                     THEN <<Slash, Letter(s[i])>> ELSE <<s[i]>>])
_ac_json_encode(s) == FlattenSeq([i \in DOMAIN s |-> IF s[i] \in Escaped
                                                     THEN <<Slash, Letter(s[i])>> ELSE <<s[i]>>])
ac_json_encode(s) == IF Range(s) \cap (Escaped \cup {0}) = {} THEN s ELSE _ac_json_encode(s)
\* The length of the string is taken up to a zero.
ac_json_encode_string(s) ==
    LET v == ac_json_encode(s)
        z == SelectInSeq(v, LAMBDA c : c = 0)
    IN  ac_json_str(IF z = 0 THEN v ELSE SubSeq(v, 1, z - 1))

Hex(c) == IF c \in Digit THEN c - 48 ELSE IF c \in 65..70 THEN c - 55
          ELSE IF c \in 97..102 THEN c - 87 ELSE -1
Hex4(s, p) == IF \E q \in p..(p + 3) : Hex(Byte(s, q)) = -1 THEN -1
              ELSE FoldLeft(LAMBDA a, c : a * 16 + Hex(c), 0, SubSeq(s, p, p + 3))
Utf8(ch) ==
    LET low(n) == 128 + (n % 64)
    IN  IF ch < 128 THEN <<ch>>
        ELSE IF ch < 2048 THEN <<192 + ch \div 64, low(ch)>>
        ELSE IF ch < 65536 THEN <<224 + ch \div 4096, low(ch \div 64), low(ch)>>
        ELSE <<240 + ch \div 262144, low(ch \div 4096), low(ch \div 64), low(ch)>>

\* .n bytes of s from p on are the character .out; .n = 0 where they are none.
unicode_to_utf8(s, p) ==
    LET ch  == Hex4(s, p)
        ch2 == Hex4(s, p + 6)
        high == ch \in 55296..56319
    IN  IF ch = -1 \/ (high /\ ~(Byte(s, p + 4) = Slash /\ Byte(s, p + 5) = 117 /\ ch2 \in 56320..57343))
        THEN [n |-> 0, out |-> <<>>]
        ELSE IF high THEN [n |-> 10, out |-> Utf8((ch - 55296) * 1024 + (ch2 - 56320) + 65536)]
        ELSE [n |-> 4, out |-> Utf8(ch)]

Unescaped == {Quote, Slash, 47, 98, 102, 110, 114, 116}
Unletter(c) == CASE c = 98 -> 8 [] c = 102 -> 12 [] c = 110 -> 10 [] c = 114 -> 13
                 [] c = 116 -> 9 [] OTHER -> c
\* An unknown escape is dropped; six bytes of a \u that is none stay as they are.
RECURSIVE _ac_json_decode(_, _)
_ac_json_decode(s, p) ==
    LET c == Byte(s, p + 1)
        u == unicode_to_utf8(s, p + 2)
    IN  IF p > Len(s) THEN <<>>
        ELSE IF s[p] # Slash THEN <<s[p]>> \o _ac_json_decode(s, p + 1)
        ELSE IF c \in Unescaped THEN <<Unletter(c)>> \o _ac_json_decode(s, p + 2)
        ELSE IF c # 117 THEN _ac_json_decode(s, p + 2)
        ELSE IF u.n > 0 THEN u.out \o _ac_json_decode(s, p + 2 + u.n)
        ELSE [i \in 1..6 |-> Byte(s, p + i - 1)] \o _ac_json_decode(s, p + 6)
ac_json_decode(s) == IF Slash \in Range(s) THEN _ac_json_decode(s, 1) ELSE s

NULL == <<>>
Scalars == {"NULL", "STRING", "FALSE", "ZERO", "NUMBER", "DECIMAL", "TRUE"}
\* The decoded text, the text and the bytes of a value, given as <<j>> or NULL.
ac_jsond(j) == IF j = NULL \/ j[1].type \notin Scalars \ {"NULL"} THEN NULL
               ELSE IF j[1].type = "STRING" THEN <<ac_json_decode(SubSeq(j[1].value, 1, j[1].length))>> ELSE <<j[1].value>>
ac_jsonv(j) == IF j = NULL \/ j[1].type \notin Scalars \ {"NULL"} THEN NULL ELSE <<j[1].value>>
ac_jsonb(j) == IF j = NULL \/ j[1].type \notin Scalars \cup {"BINARY"} THEN NULL
               ELSE <<SubSeq(j[1].value, 1, j[1].length)>>

(***************************************************************************)
(* Arrays.  .table is the direct access table, the numbers of its nodes.   *)
(* A node that ac_jsona_append puts first has a previous nobody set.       *)
(***************************************************************************)
ac_jsona == [type |-> "ARRAY", nodes |-> <<>>, num |-> 0, made |-> 0, table |-> NULL, bad |-> FALSE]

ArrayNode(a, item, wild) ==
    [a EXCEPT !.nodes = Append(@, [id |-> a.made + 1, value |-> item, wild |-> wild]),
              !.num = @ + 1, !.made = @ + 1]
ac_jsona_append(a, item) == [ArrayNode(a, item, a.nodes = <<>>) EXCEPT !.table = NULL]

_ac_jsona_fill(a) ==
    [a EXCEPT !.table = <<[i \in DOMAIN a.nodes |-> a.nodes[i].id]>>, !.num = Len(a.nodes)]

\* The array, with its table, and the node asked for.
ac_jsona_nth_node(a, n) ==
    LET f == IF a.table = NULL THEN _ac_jsona_fill(a) ELSE a
    IN  IF n >= a.num THEN [a |-> a, node |-> NULL]
        ELSE [a |-> f, node |-> SelectSeq(f.nodes, LAMBDA x : x.id = f.table[1][n + 1])]
ac_jsona_nth(a, n) == LET x == ac_jsona_nth_node(a, n).node IN IF x = NULL THEN NULL ELSE <<x[1].value>>

\* From the nearer end.
ac_jsona_scan(a, n) ==
    IF n >= a.num THEN NULL
    ELSE IF 2 * n > a.num THEN <<a.nodes[Len(a.nodes) - (a.num - n - 1)].value>>
    ELSE <<a.nodes[n + 1].value>>

\* Mutant: the table stays when the first node goes.
EraseKeepsTable(a, i) ==
    LET rest == RemoveAt(a.nodes, i)
    IN  IF a.nodes[i].wild THEN [a EXCEPT !.num = @ - 1, !.nodes = rest, !.bad = TRUE]
        ELSE [a EXCEPT !.num = @ - 1, !.nodes = rest, !.table = IF i = 1 THEN @ ELSE NULL]

ac_jsona_erase(a, i) ==
    LET rest == RemoveAt(a.nodes, i)
        last == i = Len(a.nodes)
        less == [a EXCEPT !.num = @ - 1,
                          !.nodes = IF i = 1 /\ rest # <<>> THEN [rest EXCEPT ![1].wild = FALSE] ELSE rest]
    IN  IF a.nodes[i].wild THEN [less EXCEPT !.bad = TRUE]
        ELSE IF i > 1 THEN IF last THEN less ELSE [less EXCEPT !.table = NULL]
        ELSE IF last \/ a.table = NULL THEN [less EXCEPT !.table = NULL]
        ELSE [less EXCEPT !.table = <<Tail(@[1])>>]

(***************************************************************************)
(* Objects.  .index is "none", "sorted" or "tree" over the nodes of .ids.  *)
(***************************************************************************)
ac_jsono == [type |-> "OBJECT", nodes |-> <<>>, num |-> 0, made |-> 0,
             index |-> "none", ids |-> {}, bad |-> FALSE]

ac_jsono_append(o, key, item) ==
    [o EXCEPT !.nodes = Append(@, [id |-> o.made + 1, key |-> key, value |-> item]),
              !.num = @ + 1, !.made = @ + 1]

With(o, key) == {i \in DOMAIN o.nodes : o.nodes[i].key = key}

_ac_jsono_fill(o) ==
    IF o.nodes = <<>> THEN o
    ELSE [o EXCEPT !.index = "sorted", !.ids = {o.nodes[i].id : i \in DOMAIN o.nodes}]
\* A key that is there twice is put into the tree once.
_ac_jsono_fill_tree(o) ==
    IF o.nodes = <<>> THEN o
    ELSE [o EXCEPT !.index = "tree",
                   !.ids = {o.nodes[i].id : i \in {k \in DOMAIN o.nodes :
                                                     First(With(o, o.nodes[k].key), 0) = k}}]

\* The nodes of the index that have the key.
Found(o, key) == SelectSeq(o.nodes, LAMBDA x : x.key = key /\ x.id \in o.ids)

\* A tree is no sorted array: it is searched as one of no entries.
ac_jsono_get(o, key) ==
    LET f == IF o.index = "none" THEN _ac_jsono_fill(o) ELSE o
        r == IF f.index = "sorted" THEN Found(f, key) ELSE <<>>
    IN  [o |-> f, value |-> IF r = <<>> THEN NULL ELSE <<r[1].value>>]

ac_jsono_find(o, key) ==
    LET f == IF o.index # "tree" THEN _ac_jsono_fill_tree(o) ELSE o
    IN  [o |-> f, node |-> IF f.index # "tree" THEN NULL ELSE Found(f, key)]

ac_jsono_scan(o, key) ==
    LET at == With(o, key) IN IF o.type # "OBJECT" \/ at = {} THEN NULL ELSE <<o.nodes[First(at, 0)].value>>
ac_jsono_scanr(o, key) ==
    LET at == With(o, key)
    IN  IF o.type # "OBJECT" \/ at = {} THEN NULL
        ELSE <<o.nodes[CHOOSE i \in at : \A k \in at : k <= i].value>>

ac_jsono_insert(o, key, item) ==
    LET f   == ac_jsono_find(o, key)
        new == ac_jsono_append(f.o, key, item)
    IN  IF f.node # NULL
        THEN [f.o EXCEPT !.nodes = [i \in DOMAIN @ |-> IF @[i].id = f.node[1].id
                                                       THEN [@[i] EXCEPT !.value = item] ELSE @[i]] \o <<>>]
        ELSE [new EXCEPT !.index = "tree", !.ids = @ \cup {new.made}]

\* A node that is not in the tree must not be taken out of it.
ac_jsono_erase(o, i) ==
    LET id   == o.nodes[i].id
        less == [o EXCEPT !.nodes = RemoveAt(@, i), !.num = @ - 1]
        ids  == o.ids \ {id}
    IN  IF o.index # "tree" THEN [less EXCEPT !.index = "none", !.ids = {}]
        ELSE [less EXCEPT !.ids = ids, !.index = IF ids = {} THEN "none" ELSE "tree",
                          !.bad = @ \/ id \notin o.ids]

ac_jsono_scan_int(o, key, default) ==
    LET v == ac_jsonv(ac_jsono_scan(o, key)) IN IF v = NULL THEN default ELSE parse_int(v[1], default)
ac_jsono_scan_uint(o, key, default) ==
    LET v == ac_jsonv(ac_jsono_scan(o, key)) IN IF v = NULL THEN default ELSE parse_uint(v[1], default)
ac_jsono_scan_strd(o, key, default) ==
    LET v == ac_jsond(ac_jsono_scan(o, key)) IN IF v = NULL THEN default ELSE v[1]

\* The value on a path: <<"key", k>>, <<"nth", n>> or <<"where", k, text>> at a time.
RECURSIVE ac_jsono_path(_, _)
ac_jsono_path(j, path) ==
    LET step == path[1]
        name == CASE step[1] = "key" -> step[2] [] step[1] = "nth" -> Digits(step[2])
                  [] step[1] = "where" -> step[2] \o <<61>> \o step[3]
        hit(x) == x.type = "OBJECT" /\ ac_jsonv(ac_jsono_scan(x, step[2])) = <<step[3]>>
        hits == SelectSeq(j.nodes, LAMBDA x : hit(x.value))
        next == CASE j.type = "ARRAY" /\ step[1] = "where" -> IF hits = <<>> THEN NULL ELSE <<hits[1].value>>
                  [] j.type = "ARRAY" /\ step[1] = "nth" -> ac_jsona_scan(j, step[2])
                  [] j.type = "OBJECT" -> ac_jsono_scan(j, name)
                  [] OTHER -> NULL
    IN  IF path = <<>> THEN <<j>> ELSE IF next = NULL THEN NULL ELSE ac_jsono_path(next[1], Tail(path))

(***************************************************************************)
(* Writing.                                                                *)
(***************************************************************************)
Joined(seqs) == FoldLeftDomain(LAMBDA a, i : a \o (IF i = 1 THEN <<>> ELSE <<Comma>>) \o seqs[i], <<>>, seqs)
Length4(n) == <<n % 256, (n \div 256) % 256, (n \div 65536) % 256, 0>>

RECURSIVE ac_json_dump_to_buffer(_), ac_json_dump(_)
ac_json_dump_object_to_buffer(o) ==
    <<Brace.open>> \o Joined([i \in DOMAIN o.nodes |->
        <<Quote>> \o o.nodes[i].key \o <<Quote, Colon>> \o ac_json_dump_to_buffer(o.nodes[i].value)])
    \o <<Brace.close>>
ac_json_dump_array_to_buffer(a) ==
    <<Bracket.open>> \o Joined([i \in DOMAIN a.nodes |-> ac_json_dump_to_buffer(a.nodes[i].value)])
    \o <<Bracket.close>>
ac_json_dump_to_buffer(j) ==
    LET bytes == SubSeq(j.value, 1, j.length)
    IN  CASE j.type = "STRING" -> <<Quote>> \o bytes \o <<Quote>>
          [] j.type \in Scalars \ {"STRING", "NULL"} -> bytes
          [] j.type = "OBJECT" -> ac_json_dump_object_to_buffer(j)
          [] j.type = "ARRAY" -> ac_json_dump_array_to_buffer(j)
          [] j.type = "BINARY" -> <<110, 98>> \o Length4(j.length) \o bytes
          [] j.type = "NULL" -> <<>>

\* To a file: a string ends at its zero, not at its length, and binary data has another mark.
ac_json_dump_object(o) ==
    <<Brace.open>> \o Joined([i \in DOMAIN o.nodes |->
        <<Quote>> \o o.nodes[i].key \o <<Quote, Colon>> \o ac_json_dump(o.nodes[i].value)])
    \o <<Brace.close>>
ac_json_dump_array(a) ==
    <<Bracket.open>> \o Joined([i \in DOMAIN a.nodes |-> ac_json_dump(a.nodes[i].value)]) \o <<Bracket.close>>
ac_json_dump(j) ==
    CASE j.type = "STRING" -> <<Quote>> \o j.value \o <<Quote>>
      [] j.type \in Scalars \ {"STRING", "NULL"} -> j.value
      [] j.type = "OBJECT" -> ac_json_dump_object(j)
      [] j.type = "ARRAY" -> ac_json_dump_array(j)
      [] j.type = "BINARY" -> <<98>> \o Length4(j.length) \o SubSeq(j.value, 1, j.length)
      [] j.type = "NULL" -> <<>>

(***************************************************************************)
(* Parsing.  st is the chain of parents: the containers that are open, an  *)
(* object with the key that is read.  A scalar is [ok, v, p] with p at the *)
(* byte behind it, or with p where the text is bad.                        *)
(***************************************************************************)
Bad(p) == [type |-> "ERROR", at |-> p]
Crash == [type |-> "CRASH"]
Got(v, p) == [ok |-> TRUE, v |-> v, p |-> p]
Not(p) == [ok |-> FALSE, p |-> p]

\* Mutant: any backslash in front of a quote escapes it.
EndOfKeyAnySlash(s, p) == First({q \in From(s, p, {Quote}) : s[q - 1] # Slash}, 0)

\* The first quote from p on with an even number of backslashes in front.
get_end_of_key(s, p) ==
    LET run(q) == q - 1 - First({k \in 0..(q - 1) : \A i \in (k + 1)..(q - 1) : s[i] = Slash}, 0)
    IN  First({q \in From(s, p, {Quote}) : run(q) % 2 = 0}, 0)

start_string(s, p) ==
    LET q == get_end_of_key(s, p)
    IN  IF q = 0 THEN Not(Len(s) + 1) ELSE Got(Text("STRING", SubSeq(s, p, q - 1)), q + 1)

PastDigits(s, p) == First({q \in p..(Len(s) + 1) : Byte(s, q) \notin Digit}, Len(s) + 1)
decimal_number(s, b, p) ==
    LET q == PastDigits(s, p)
    IN  IF Byte(s, p) \notin Digit THEN Not(p + 1) ELSE Got(Text("DECIMAL", SubSeq(s, b, q - 1)), q)
next_digit(s, b, p) ==
    LET q == PastDigits(s, p)
    IN  IF Byte(s, q) = Dot THEN decimal_number(s, b, q + 1) ELSE Got(Text("NUMBER", SubSeq(s, b, q - 1)), q)
\* A zero with p behind it; what starts with one has to go on with a dot.
Zero(s, b, p) == IF p < Len(s) /\ Byte(s, p) = Dot THEN decimal_number(s, b, p + 1) ELSE Got(ac_json_zero, p)
Negative(s, p) ==
    CASE Byte(s, p + 1) \in 49..57 -> next_digit(s, p, p + 2)
      [] Byte(s, p + 1) = 48 -> Zero(s, p, p + 2)
      [] OTHER -> Not(p + 2)

\* The letters of a word, which an object's value is not read for near the end.
Word(s, p, v, keyed) ==
    LET n == Len(v.value)
        wrong == {i \in 1..(n - 1) : Byte(s, p + i) # v.value[i + 1]}
    IN  IF keyed /\ p + n - 1 >= Len(s) THEN Not(p + 1)
        ELSE IF wrong = {} THEN Got(v, p + n) ELSE Not(p + First(wrong, 0) + 1)
Binary(s, p) ==
    LET n == s[p + 2] + 256 * s[p + 3] + 65536 * s[p + 4]
    IN  IF p + 4 >= Len(s) THEN Not(p + 2)
        ELSE IF p + 6 + n >= Len(s) + 1 THEN Not(p + 6)
        ELSE Got(Text("BINARY", SubSeq(s, p + 6, p + 5 + n)), p + 6 + n)

KeyedScalar(s, p) ==
    CASE Byte(s, p) = Quote -> start_string(s, p + 1)
      [] Byte(s, p) = Minus -> Negative(s, p)
      [] Byte(s, p) = 48 -> Zero(s, p, p + 1)
      [] Byte(s, p) \in 49..57 -> next_digit(s, p, p + 1)
      [] Byte(s, p) = 116 -> Word(s, p, ac_json_true, TRUE)
      [] Byte(s, p) = 102 -> Word(s, p, ac_json_false, TRUE)
      [] Byte(s, p) = 110 -> IF Byte(s, p + 1) = 98 THEN Binary(s, p) ELSE Word(s, p, ac_json_null, FALSE)
      [] OTHER -> Not(p + 1)
ArrayScalar(s, p) ==
    CASE Byte(s, p) = 116 -> Word(s, p, ac_json_true, FALSE)
      [] Byte(s, p) = 102 -> Word(s, p, ac_json_false, FALSE)
      [] OTHER -> KeyedScalar(s, p)

Open(st, c) == Append(st, [c |-> c, key |-> <<>>])
keyed_add_string(top, v) == [top EXCEPT !.c = ac_jsono_append(@, top.key, v)]
add_string(top, v) == [top EXCEPT !.c = ArrayNode(@, v, FALSE)]
Put(st, v) == [st EXCEPT ![Len(st)] = IF @.c.type = "OBJECT" THEN keyed_add_string(@, v) ELSE add_string(@, v)]

RECURSIVE start_key(_, _, _), start_key_object(_, _, _), look_for_key(_, _, _),
          start_value(_, _, _), look_for_next_object(_, _, _)

\* The innermost container ends; behind the outermost nothing is read.
Close(s, p, st) ==
    LET up == Put(Front(st), Last(st).c)
    IN  IF Len(st) = 1 THEN st[1].c
        ELSE IF Last(up).c.type = "OBJECT" THEN look_for_key(s, p, up) ELSE look_for_next_object(s, p, up)

start_key(s, p, st) ==
    LET q     == get_end_of_key(s, p + 1)
        colon == First(From(s, q + 1, {Colon}), Len(s) + 1)
        keyed == [st EXCEPT ![Len(st)].key = SubSeq(s, p + 1, q - 1)]
    IN  CASE Byte(s, p) = Quote /\ q = 0 -> Bad(Len(s) + 3)
          [] Byte(s, p) = Quote /\ q # 0 -> start_key_object(s, colon + 1, keyed)
          [] Byte(s, p) \in Space -> start_key(s, p + 1, st)
          [] Byte(s, p) = Brace.close -> Close(s, p + 1, st)
          [] OTHER -> Bad(IF p > Len(s) THEN p ELSE p + 1)

start_key_object(s, p, st) ==
    LET v == KeyedScalar(s, p)
    IN  CASE p > Len(s) -> Bad(p)
          [] p <= Len(s) /\ s[p] \in Space -> start_key_object(s, p + 1, st)
          [] p <= Len(s) /\ s[p] = Brace.open -> start_key(s, p + 1, Open(st, ac_jsono))
          [] p <= Len(s) /\ s[p] = Bracket.open -> start_value(s, p + 1, Open(st, ac_jsona))
          [] OTHER -> IF v.ok THEN look_for_key(s, v.p, Put(st, v.v)) ELSE Bad(v.p)

look_for_key(s, p, st) ==
    CASE Byte(s, p) = Comma -> start_key(s, p + 1, st)
      [] Byte(s, p) = Brace.close -> Close(s, p + 1, st)
      [] Byte(s, p) \in Space -> look_for_key(s, p + 1, st)
      [] OTHER -> Bad(p)

start_value(s, p, st) ==
    LET v == ArrayScalar(s, p)
    IN  CASE p > Len(s) -> Bad(p)
          [] p <= Len(s) /\ s[p] \in Space -> start_value(s, p + 1, st)
          [] p <= Len(s) /\ s[p] = Brace.open -> start_key(s, p + 1, Open(st, ac_jsono))
          [] p <= Len(s) /\ s[p] = Bracket.open -> start_value(s, p + 1, Open(st, ac_jsona))
          [] p <= Len(s) /\ s[p] = Bracket.close -> IF st = <<>> THEN Crash ELSE Close(s, p + 1, st)
          [] OTHER -> IF ~v.ok THEN Bad(v.p) ELSE IF st = <<>> THEN v.v
                      ELSE look_for_next_object(s, v.p, Put(st, v.v))

look_for_next_object(s, p, st) ==
    CASE Byte(s, p) = Comma -> start_value(s, p + 1, st)
      [] Byte(s, p) = Bracket.close -> Close(s, p + 1, st)
      [] Byte(s, p) \in Space -> look_for_next_object(s, p + 1, st)
      [] OTHER -> Bad(p)

ac_json_parse(s) ==
    IF s = <<>> THEN Bad(2)
    ELSE IF s[1] = Brace.open THEN start_key(s, 2, Open(<<>>, ac_jsono)) ELSE start_value(s, 1, <<>>)

\* The row and the column of an error; an escaped byte is no new row.
RECURSIVE RowAndColumn(_, _, _, _, _)
RowAndColumn(s, p, at, row, start) ==
    IF p >= at THEN <<row, p - start + 1>>
    ELSE IF Byte(s, p) = Slash THEN RowAndColumn(s, p + 2, at, row, start)
    ELSE IF Byte(s, p) = 10 THEN RowAndColumn(s, p + 1, at, row + 1, p + 1)
    ELSE RowAndColumn(s, p + 1, at, row, start)
ac_json_dump_error(s, err) == RowAndColumn(s, 1, err.at, 1, 1)

-----------------------------------------------------------------------------
(***************************************************************************)
(* A client of ac_json: it parses a text, then reads and changes what it   *)
(* got, in any order.                                                      *)
(***************************************************************************)

CONSTANTS
    Docs,       \* what the texts say, see Write
    Gaps,       \* what is written between the tokens
    Keys,       \* keys, sequences of bytes
    Items,      \* what is put into objects and arrays, see Made
    MaxOps

VARIABLES
    doc, src,   \* the document and its text, or the part of it that arrived
    j,          \* the ac_json_t
    late,       \* nodes appended behind an index, or second to another of their key
    ops

vars == <<doc, src, j, late, ops>>

(***************************************************************************)
(* A document is <<"text", bytes>>, <<"int", n>>, <<"decimal", bytes>>,    *)
(* <<"bytes", b>>, <<"true">>, <<"false">>, <<"null">>, <<"list", docs>>   *)
(* or <<"map", keys, docs>>.  Write is the text of it, Meaning the         *)
(* document that a value stands for.                                       *)
(***************************************************************************)
RECURSIVE Write(_, _), Meaning(_), HasNull(_)
Sep(seqs, gap) == FoldLeftDomain(LAMBDA a, i : a \o (IF i = 1 THEN <<>> ELSE <<Comma>> \o gap) \o seqs[i],
                                 <<>>, seqs)
Write(d, gap) ==
    CASE d[1] = "text" -> <<Quote>> \o d[2] \o <<Quote>>
      [] d[1] = "int" -> ac_json_number(d[2]).value
      [] d[1] = "decimal" -> d[2]
      [] d[1] = "bytes" -> <<110, 98>> \o Length4(Len(d[2])) \o d[2]
      [] d[1] = "true" -> True
      [] d[1] = "false" -> False
      [] d[1] = "null" -> Null
      [] d[1] = "list" -> <<Bracket.open>> \o gap \o Sep([i \in DOMAIN d[2] |-> Write(d[2][i], gap) \o gap], gap)
                            \o <<Bracket.close>>
      [] d[1] = "map" -> <<Brace.open>> \o gap
                           \o Sep([i \in DOMAIN d[2] |-> <<Quote>> \o d[2][i] \o <<Quote>> \o gap \o <<Colon>>
                                                          \o gap \o Write(d[3][i], gap) \o gap], gap)
                           \o <<Brace.close>>

Meaning(v) ==
    CASE v.type = "STRING" -> <<"text", SubSeq(v.value, 1, v.length)>>
      [] v.type \in {"NUMBER", "ZERO"} -> <<"int", parse_int(v.value, 0)>>
      [] v.type = "DECIMAL" -> <<"decimal", v.value>>
      [] v.type = "BINARY" -> <<"bytes", SubSeq(v.value, 1, v.length)>>
      [] v.type = "TRUE" -> <<"true">>
      [] v.type = "FALSE" -> <<"false">>
      [] v.type = "NULL" -> <<"null">>
      [] v.type = "ARRAY" -> <<"list", [i \in DOMAIN v.nodes |-> Meaning(v.nodes[i].value)] \o <<>>>>
      [] v.type = "OBJECT" -> <<"map", [i \in DOMAIN v.nodes |-> v.nodes[i].key] \o <<>>,
                                [i \in DOMAIN v.nodes |-> Meaning(v.nodes[i].value)] \o <<>>>>
      [] OTHER -> <<v.type>>

\* ac_json_null() is not written by the two dumps.
HasNull(v) == v.type = "NULL" \/ (v.type \in {"ARRAY", "OBJECT"} /\ \E i \in DOMAIN v.nodes : HasNull(v.nodes[i].value))

Made(item) ==
    CASE item[1] = "text" -> ac_json_encode_string(item[2])
      [] item[1] = "int" -> IF item[2] = 0 THEN ac_json_zero ELSE ac_json_number(item[2])
      [] item[1] = "map" -> ac_jsono

Unparsed == [type |-> "UNPARSED"]
Whole == [d \in Docs, g \in Gaps |-> Write(d, g)]

Init ==
    /\ doc \in Docs
    /\ \E g \in Gaps : \E n \in 1..Len(Whole[doc, g]) : src = SubSeq(Whole[doc, g], 1, n)
    /\ j = Unparsed /\ late = {} /\ ops = 0

Parse ==
    /\ j = Unparsed
    /\ j' = ac_json_parse(src)
    /\ UNCHANGED <<doc, src, late, ops>>

\* A change of an object.  A tree has no place for the second node of a key.
Second(o) == {o.nodes[i].id : i \in {k \in DOMAIN o.nodes : \E x \in With(o, o.nodes[k].key) : x < k}}
Change(o) ==
    /\ ops < MaxOps /\ ops' = ops + 1 /\ j' = o
    /\ late' = IF o.index = j.index THEN late ELSE IF o.index = "tree" THEN Second(o) ELSE {}
    /\ UNCHANGED <<doc, src>>

AppendKey(k, item) ==
    /\ j.type = "OBJECT" /\ ops < MaxOps /\ ops' = ops + 1
    /\ j' = ac_jsono_append(j, k, Made(item))
    /\ late' = IF j.index = "none" THEN {} ELSE late \cup {j'.made}
    /\ UNCHANGED <<doc, src>>
InsertKey(k, item) == j.type = "OBJECT" /\ Change(ac_jsono_insert(j, k, Made(item)))
EraseKey(k) == j.type = "OBJECT" /\ \E i \in With(j, k) : Change(ac_jsono_erase(j, i))
GetKey(k) == j.type = "OBJECT" /\ Change(ac_jsono_get(j, k).o)
FindKey(k) == j.type = "OBJECT" /\ Change(ac_jsono_find(j, k).o)

ChangeArray(a) ==
    /\ ops < MaxOps /\ ops' = ops + 1 /\ j' = a
    /\ UNCHANGED <<doc, src, late>>
AppendItem(item) == j.type = "ARRAY" /\ ChangeArray(ac_jsona_append(j, Made(item)))
EraseItem(i) == j.type = "ARRAY" /\ i \in DOMAIN j.nodes /\ ~j.bad /\ ChangeArray(ac_jsona_erase(j, i))
NthItem(n) == j.type = "ARRAY" /\ ~j.bad /\ ChangeArray(ac_jsona_nth_node(j, n).a)

Next ==
    \/ Parse
    \/ \E k \in Keys, item \in Items : AppendKey(k, item) \/ InsertKey(k, item)
    \/ \E k \in Keys : EraseKey(k) \/ GetKey(k) \/ FindKey(k)
    \/ \E item \in Items : AppendItem(item)
    \/ \E i \in 1..4 : EraseItem(i) \/ NthItem(i - 1)

Spec == Init /\ [][Next]_vars

(***************************************************************************)
(* Properties.                                                             *)
(***************************************************************************)
Complete == \E g \in Gaps : src = Whole[doc, g]

\* ac_json_parse reads a whole text, however it is spaced, for the document
\* that it was written for, with the counts of its containers right; of a
\* container's text that was cut off at any byte it says that it is bad, at a
\* place in the text or right behind it (no partial document is returned).
RECURSIVE Counted(_)
Counted(v) == v.type \in {"ARRAY", "OBJECT"} =>
                 v.num = Len(v.nodes) /\ \A i \in DOMAIN v.nodes : Counted(v.nodes[i].value)
ParseExact ==
    (j # Unparsed /\ ops = 0) =>
        IF Complete THEN Meaning(j) = doc /\ Counted(j)
        ELSE doc[1] \in {"list", "map"} => j.type = "ERROR" /\ j.at \in 1..(Len(src) + 3)

Sound == j.type \in {"ARRAY", "OBJECT"} /\ ~j.bad

\* What the client made of a document survives ac_json_dump_to_buffer and
\* ac_json_parse, and texts that ac_json_encode_string made are read back by
\* ac_jsond as they were given.
RoundTrip ==
    Sound => /\ HasNull(j) \/ Meaning(ac_json_parse(ac_json_dump_to_buffer(j))) = Meaning(j)
             /\ \A item \in Items : item[1] = "text" => ac_jsond(<<Made(item)>>) = <<item[2]>>
             /\ Counted(j)

\* Every way to look something up agrees with the list itself, whatever index
\* was built, changed or dropped before: ac_jsono_find for a key that is there
\* once and was neither appended behind the index nor second, ac_jsono_get in an object that
\* has no tree, ac_jsona_nth and ac_jsona_scan for arrays.
LookupExact ==
    Sound => IF j.type = "ARRAY"
             THEN \A n \in 0..Len(j.nodes) :
                    LET want == IF n = Len(j.nodes) THEN NULL ELSE <<j.nodes[n + 1].value>>
                    IN  /\ ac_jsona_nth(j, n) = want /\ ac_jsona_scan(j, n) = want
                        /\ ac_jsono_path(j, <<<<"nth", n>>>>) = want
             ELSE \A k \in Keys :
                    LET at == With(j, k)
                        v  == ac_jsono_scan(j, k)
                        f  == ac_jsono_find(j, k).node
                    IN  /\ at = {} => v = NULL /\ f = NULL
                        /\ Cardinality(at) = 1 /\ (\A i \in at : j.nodes[i].id \notin late) =>
                              /\ f # NULL /\ <<f[1].value>> = v /\ ac_jsono_scanr(j, k) = v
                              /\ ac_jsono_path(j, <<<<"key", k>>>>) = v
                              /\ j.index # "tree" => ac_jsono_get(j, k).value = v
=============================================================================
