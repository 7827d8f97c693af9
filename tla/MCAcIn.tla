------------------------------- MODULE MCAcIn -------------------------------
(***************************************************************************)
(* Files and clients for model-checking AcIn.                               *)
(***************************************************************************)
EXTENDS AcIn

Keys == 1 .. 3

\* Files of up to two records; a sorted file may have a key twice, a strict one not.
Sorted == {<<>>} \cup {<<a>> : a \in Keys} \cup {<<a, b>> : a \in Keys, b \in Keys}
SortedFiles == {f \in Sorted : Len(f) = 2 => f[1] <= f[2]}
StrictFiles == {f \in Sorted : Len(f) = 2 => f[1] < f[2]}

Cursors(kind, fs, styles, reduce, limits) ==
  [kind : {kind}, files : fs, style : styles, reduce : {reduce}, limit : limits]

\* Five files make a heap of three levels.
ShortFiles == {f \in Sorted : Len(f) < 2}

\* An array of up to three records.
Arrays ==
  {<<f>> : f \in SortedFiles \cup {<<a, b, c>> : a \in {1}, b \in {1, 2}, c \in {2, 3}}}

\* The cursors of a callback; only the first may have nothing.
CbFiles == {f \in [1 .. 2 -> SortedFiles] : f[2] # <<>>}

\* Merges read record by record, in groups and with ac_in_advance_unique; reducers
\* and limits; lists, callbacks and arrays.
Merges ==
  UNION {Cursors("ext", [1 .. 3 -> SortedFiles], {"advance", "group"}, FALSE, {0}),
         Cursors("ext", [1 .. 5 -> ShortFiles], {"unique"}, FALSE, {0}),
         Cursors("ext", [1 .. 3 -> StrictFiles \ {<<3>>}], {"advance", "group"}, TRUE, {0, 2}),
         Cursors("list", [1 .. 2 -> SortedFiles \ {<<>>}], {"advance", "unique"}, FALSE, {0, 2}),
         Cursors("cb", CbFiles, {"advance", "unique"}, FALSE, {0, 2}),
         Cursors("records", Arrays, {"advance", "group"}, FALSE, {0, 2}),
         Cursors("records", Arrays, {"advance", "group", "unique"}, TRUE, {0, 2})}

DroppedKeys == {2}
=============================================================================
