---------------------------- MODULE MCAcOutSorted ----------------------------
(***************************************************************************)
(* Records and options for model-checking AcOutSorted.                      *)
(***************************************************************************)
EXTENDS AcOutSorted

\* Three small records, two of the same key, and two large ones.
SomeRecords == 1 .. 5
SomeKey(r) == r % 3
LargeRecords == {4, 5}

Options(extra, groups, reduce, safes, capacity, large) ==
  [extra : {extra}, group : groups, reduce : {reduce}, safe : safes,
   capacity : {capacity}, large : {large}]

\* Groups of one and of two, with and without large records, in two buffers and in one,
\* and a buffer for everything.
MergedConfigurations ==
  UNION {Options(TRUE, {0, 1, 2}, TRUE, {TRUE}, 1, FALSE),
         Options(FALSE, {2}, FALSE, BOOLEAN, 1, FALSE),
         Options(TRUE, {0, 2}, FALSE, {TRUE}, 2, TRUE),
         Options(FALSE, {2}, TRUE, {TRUE}, 2, TRUE),
         Options(TRUE, {0}, TRUE, {TRUE}, 3, FALSE)}
=============================================================================
