------------------------------ MODULE MCMemory ------------------------------
(* A pool whose first block has room for three words, a pool of a page, a   *)
(* pool in a pool; buffers that start empty and grow by little.             *)
EXTENDS Memory

MCPoolSizes == {120, 4096}
MCChildSizes == {20}
MCBufferSizes == {0, 3}
MCLengths == {8, 17}
MCFills == {0, 2}
MCWords == {<<"x", "y", "z">>}
MCTexts == UNION {[1..n -> {"a", "A", ",", " ", "<", ">", "Q", "/"}] : n \in 0..4}
MCDelims == {",", "|", "a"}
MCRows == UNION {[1..n -> {<<>>, <<"a">>, <<"Q">>, <<",", "Q">>, <<"Q", "N", "Q">>, <<"a", "|">>}] : n \in 1..3}
MCOpsOf == [pool |-> 6, buffer |-> 5, log |-> 3, text |-> 0]
MCSavesOf == [pool |-> 0, buffer |-> 0, log |-> 16, text |-> 0]
=============================================================================
