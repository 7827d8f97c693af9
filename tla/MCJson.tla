------------------------------- MODULE MCJson -------------------------------
(* Keys a and b; texts with quotes, backslashes and characters of 2 to 4    *)
(* bytes; containers in containers.                                         *)
EXTENDS AcJson

A == <<97>>
B == <<98>>
N(n) == <<"int", n>>
T(s) == <<"text", s>>
U(h) == <<Slash, 117>> \o h
MCKeys == {A, B}
MCGaps == {<<>>, <<32>>}
MCDocs ==
    {T(<<Slash, Quote, Slash, Slash>>), N(-12), <<"decimal", <<Minus, 48, Dot, 53>>>>,
     T(U(<<48, 48, 101, 57>>) \o U(<<68, 56, 51, 52>>) \o U(<<68, 68, 49, 69>>)),
     <<"list", <<>>>>, <<"map", <<>>, <<>>>>,
     <<"list", <<N(0), N(107), T(<<Slash, Slash>>)>>>>,
     <<"list", <<<<"true">>, <<"false">>, <<"null">>>>>>,
     <<"list", <<<<"list", <<N(1)>>>>, <<"map", <<A>>, <<<<"list", <<>>>>>>>>, <<"decimal", <<49, Dot, 53>>>>>>>>,
     <<"map", <<A>>, <<<<"bytes", <<7, Quote, 125>>>>>>>>,
     <<"map", <<A, B>>, <<N(0), <<"true">>>>>>,
     <<"map", <<A, B, A>>, <<<<"map", <<B>>, <<<<"false">>>>>>, <<"null">>, T(<<>>)>>>>}
MCItems == {N(5), T(<<Quote, Slash, 10, 97>>)}
=============================================================================
