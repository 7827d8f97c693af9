------------------------------ MODULE MCSearch -----------------------------
(* Three documents in two groups of ids, over the words a, ab and b.        *)
EXTENDS Search

MCStarting == [a |-> <<"a", "ab">>, ab |-> <<"ab">>, b |-> <<"b">>]

\* More positions than the short forms of a length have room for.
Long == [i \in 1..11 |-> "a"] \o <<"b", "ab">>

MCTexts == {<<"a", "b">>, <<"b", "a", "ab">>, <<"ab">>, <<"b">>, Long}
MCValue(text) == CASE text = <<"b">> -> 0 [] text = <<"ab">> -> 3 [] Len(text) = 2 -> 200
                   [] Len(text) = 3 -> 40000 [] OTHER -> -7

MCSynonyms == [x |-> "a"]

W(w) == <<"word", w>>
MCQueries ==
    {W("x"), <<"attr", "b", "ab">>, <<"custom", "marked">>,
     <<"and", W("b"), <<"custom", "marked">>>>, <<"not", W("b"), <<"custom", "range">>>>,
     <<"and", <<"custom", "one">>, W("b")>>, <<"and", W("b"), <<"custom", "one">>>>,
     <<"wild", "a">>, <<"phrase", <<"a", "b">>>>,
     <<"filter", "a", "position", 2, 3>>, <<"filter", "a", "frequency", 1, 1>>,
     <<"and", W("a"), W("b")>>, <<"or", W("a"), W("ab")>>, <<"not", W("b"), W("a")>>,
     <<"and", <<"not", W("b"), W("ab")>>, <<"phrase", <<"a", "b">>>>>>,
     <<"and", W("b"), <<"or", W("a"), W("ab")>>>>,
     <<"not", <<"phrase", <<"b", "a">>>>, <<"and", W("a"), W("ab")>>>>,
     <<"or", <<"not", W("b"), W("a")>>, <<"phrase", <<"a", "ab">>>>>>,
     <<"not", <<"and", W("b"), <<"wild", "a">>>>, W("ab")>>}
=============================================================================
