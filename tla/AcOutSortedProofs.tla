-------------------------- MODULE AcOutSortedProofs --------------------------
(***************************************************************************)
(* Theorems about AcOutSorted for any records, buffers, groups and number   *)
(* of processes.                                                            *)
(*                                                                          *)
(* The argument is that each record that was written is in one place until  *)
(* the output is opened (PlacesInv): every step leaves the records where    *)
(* they are or moves the contents of some places to another one, which is   *)
(* lemma Moved.  Which places a step may read and write over is a matter of *)
(* who waits for whom (ThreadInv, PhaseInv, GroupInv); that the names of    *)
(* the files do not run out is a matter of counting (CountInv).             *)
(*                                                                          *)
(* What a cursor of ac_out_destroy passes by is what its places do not      *)
(* hold; that it passes nothing by without the thread and without large     *)
(* records in groups is shown in InFromBufferSorted and MergeFilesSorted,   *)
(* from who holds records when (HoldInv, PhaseInv).  A thread that nobody   *)
(* joined goes on while the output is written and files are removed, which  *)
(* is lemma LateThread; that the loop that removes files finds those of its *)
(* process is a matter of there being no gap between their names (FilesInv).*)
(***************************************************************************)
EXTENDS AcOutSorted, FiniteSetTheorems, TLAPS

-----------------------------------------------------------------------------
(* Files and the reducer *)

\* The key of a record of a file is the key of each record it is made from.
LEMMA KeyOfFile ==
  ASSUME NEW S, IsFile(S), NEW x \in S, NEW i \in x
  PROVE  Key(i[2]) = KeyOf(x)
<1>1. (CHOOSE j \in x : TRUE) \in x
  OBVIOUS
<1> QED
  BY <1>1 DEF IsFile, KeyOf

\* The reducer loses nothing and invents nothing, and leaves one record for each key.
LEMMA ReduceLemma ==
  ASSUME NEW S, IsFile(S)
  PROVE  /\ IsFile(ReduceRecords(S))
         /\ UNION ReduceRecords(S) = UNION S
         /\ config.reduce => \A x, y \in ReduceRecords(S) : x # y => KeyOf(x) # KeyOf(y)
<1>1. CASE ~config.reduce
  BY <1>1 DEF ReduceRecords
<1>2. CASE config.reduce
  <2> DEFINE Same(x) == UNION {y \in S : KeyOf(y) = KeyOf(x)}
             R == {Same(x) : x \in S}
  <2>1. ReduceRecords(S) = R
    BY <1>2 DEF ReduceRecords
  <2>2. ASSUME NEW x \in S PROVE x \subseteq Same(x) /\ Same(x) \subseteq UNION S /\ x # {}
    BY DEF IsFile
  <2>3. ASSUME NEW x \in S, NEW i \in Same(x) PROVE Key(i[2]) = KeyOf(x)
    <3>1. PICK y \in S : i \in y /\ KeyOf(y) = KeyOf(x)
      OBVIOUS
    <3> QED
      BY <3>1, KeyOfFile
  <2>4. ASSUME NEW x \in S PROVE Same(x) # {} /\ KeyOf(Same(x)) = KeyOf(x)
    <3>1. Same(x) # {}
      BY <2>2
    <3> HIDE DEF Same
    <3>2. (CHOOSE j \in Same(x) : TRUE) \in Same(x)
      BY <3>1
    <3>3. KeyOf(Same(x)) = KeyOf(x)
      BY <2>3, <3>2 DEF KeyOf
    <3> QED
      BY <3>1, <3>3
  <2>5. ASSUME NEW x \in S, NEW y \in S, KeyOf(x) = KeyOf(y) PROVE Same(x) = Same(y)
    BY <2>5
  <2> HIDE DEF Same
  <2>6. UNION R = UNION S
    BY <2>2
  <2>7. ASSUME NEW x \in S, NEW y \in S, Same(x) # Same(y)
        PROVE  Same(x) \cap Same(y) = {} /\ KeyOf(Same(x)) # KeyOf(Same(y))
    <3>1. KeyOf(x) # KeyOf(y)
      BY <2>5, <2>7
    <3> QED
      BY <2>3, <2>4, <3>1
  <2>8. IsFile(R)
    <3>1. ASSUME NEW z \in R PROVE z # {} /\ \A i, j \in z : Key(i[2]) = Key(j[2])
      <4>1. PICK x \in S : z = Same(x)
        OBVIOUS
      <4> QED
        BY <2>3, <2>4, <4>1
    <3>2. ASSUME NEW z \in R, NEW w \in R, z # w PROVE z \cap w = {}
      <4>1. PICK x \in S, y \in S : z = Same(x) /\ w = Same(y)
        OBVIOUS
      <4> QED
        BY <2>7, <3>2, <4>1
    <3> QED
      BY <3>1, <3>2 DEF IsFile
  <2>9. ASSUME NEW z \in R, NEW w \in R, z # w PROVE KeyOf(z) # KeyOf(w)
    <3>1. PICK x \in S, y \in S : z = Same(x) /\ w = Same(y)
      OBVIOUS
    <3> QED
      BY <2>7, <2>9, <3>1
  <2> QED
    BY <2>1, <2>6, <2>8, <2>9
<1>3. config.reduce \/ ~config.reduce
  OBVIOUS
<1> QED
  BY <1>1, <1>2, <1>3

\* Files without a common record make one file.
Apart(I, f) ==
  /\ \A i \in I : IsFile(f[i])
  /\ \A i, j \in I : i # j => (UNION f[i]) \cap (UNION f[j]) = {}

Together(I, f) == UNION {f[i] : i \in I}

LEMMA UnionOfFiles ==
  ASSUME NEW I, NEW f, Apart(I, f)
  PROVE  IsFile(Together(I, f)) /\ UNION Together(I, f) = UNION {UNION f[i] : i \in I}
<1> DEFINE S == UNION {f[i] : i \in I}
<1> USE DEF Apart
<1>1. ASSUME NEW x \in S PROVE x # {} /\ \A k, l \in x : Key(k[2]) = Key(l[2])
  <2>1. PICK i \in I : x \in f[i]
    OBVIOUS
  <2> QED
    BY <2>1 DEF IsFile
<1>2. ASSUME NEW x \in S, NEW y \in S, x # y PROVE x \cap y = {}
  <2>1. PICK i \in I : x \in f[i]
    OBVIOUS
  <2>2. PICK j \in I : y \in f[j]
    OBVIOUS
  <2>3. CASE i = j
    BY <1>2, <2>1, <2>2, <2>3 DEF IsFile
  <2>4. CASE i # j
    <3>1. x \subseteq UNION f[i] /\ y \subseteq UNION f[j]
      BY <2>1, <2>2
    <3>2. (UNION f[i]) \cap (UNION f[j]) = {}
      BY <2>4
    <3> QED
      BY <3>1, <3>2
  <2> QED
    BY <2>3, <2>4
<1>3. UNION S = UNION {UNION f[i] : i \in I}
  OBVIOUS
<1>4. IsFile(S)
  BY <1>1, <1>2, Zenon DEF IsFile
<1> QED
  BY <1>3, <1>4 DEF Together

\* What the reducer makes of records of the application.
LEMMA ReduceType ==
  ASSUME NEW S \in FileType, IsFile(S)
  PROVE  ReduceRecords(S) \in FileType /\ (S # {} => ReduceRecords(S) # {})
<1>1. UNION ReduceRecords(S) = UNION S
  BY ReduceLemma
<1>2. UNION S \subseteq Item
  BY DEF FileType
<1>3. ReduceRecords(S) \in FileType
  BY <1>1, <1>2 DEF FileType
<1>4. ASSUME S # {} PROVE ReduceRecords(S) # {}
  <2>1. PICK x \in S : TRUE
    BY <1>4
  <2>2. PICK i \in x : TRUE
    BY <2>1 DEF IsFile
  <2> QED
    BY <1>1, <2>1, <2>2
<1> QED
  BY <1>3, <1>4

-----------------------------------------------------------------------------
(* Moving records between places *)

\* The application's records at p.
Items(C, p) == UNION C[p]

\* Every place holds a file, and no record is in two places.
Spread(C) ==
  /\ \A p \in Place : IsFile(C[p])
  /\ \A p, q \in Place : p # q => Items(C, p) \cap Items(C, q) = {}

Everything(C) == UNION {Items(C, p) : p \in Place}

\* The records X and those of the places Q are at p now, and the others where they were.
IsMove(C, D, p, Q, X) ==
  /\ X \cap Everything(C) = {}
  /\ \A q \in Place : q # p /\ q \notin Q => D[q] = C[q]
  /\ \A q \in Q : q # p => D[q] = {}
  /\ IsFile(D[p])
  /\ Items(D, p) = X \cup Items(C, p) \cup UNION {Items(C, q) : q \in Q}

\* Moving records loses none and leaves none in two places.
LEMMA Moved ==
  ASSUME NEW C, NEW D, NEW p \in Place, NEW Q \in SUBSET Place, NEW X, Spread(C),
         IsMove(C, D, p, Q, X)
  PROVE  Spread(D) /\ Everything(D) = Everything(C) \cup X
<1> USE DEF IsMove
<1>1. \A q \in Place : IsFile(D[q])
  <2> TAKE q \in Place
  <2>1. CASE q = p
    BY <2>1
  <2>2. CASE q # p /\ q \in Q
    BY <2>2 DEF IsFile
  <2>3. CASE q # p /\ q \notin Q
    BY <2>3 DEF Spread
  <2> QED
    BY <2>1, <2>2, <2>3
<1>2. ASSUME NEW q \in Place, q # p
      PROVE  Items(D, q) \subseteq Items(C, q) /\ (q \in Q => Items(D, q) = {})
  BY <1>2 DEF Items
<1>3. ASSUME NEW q \in Place, q # p PROVE Items(D, q) \cap Items(D, p) = {}
  <2> SUFFICES ASSUME NEW i \in Items(D, q), i \in Items(D, p) PROVE FALSE
    OBVIOUS
  <2>1. q \notin Q /\ i \in Items(C, q)
    BY <1>2, <1>3
  <2>2. CASE i \in X
    BY <2>1, <2>2 DEF Everything
  <2>3. CASE i \in Items(C, p)
    BY <1>3, <2>1, <2>3 DEF Spread
  <2>4. CASE i \in UNION {Items(C, r) : r \in Q}
    <3>1. PICK r \in Q : i \in Items(C, r)
      BY <2>4
    <3> QED
      BY <2>1, <3>1 DEF Spread
  <2> QED
    BY <2>2, <2>3, <2>4
<1>4. ASSUME NEW q \in Place, NEW r \in Place, q # r PROVE Items(D, q) \cap Items(D, r) = {}
  <2>1. CASE q = p \/ r = p
    BY <1>3, <1>4, <2>1
  <2>2. CASE q # p /\ r # p
    <3>1. Items(C, q) \cap Items(C, r) = {}
      BY <1>4 DEF Spread
    <3> QED
      BY <1>2, <2>2, <3>1
  <2> QED
    BY <2>1, <2>2
<1>5. Everything(D) \subseteq Everything(C) \cup X
  <2> SUFFICES ASSUME NEW q \in Place, NEW i \in Items(D, q) PROVE i \in Everything(C) \cup X
    BY DEF Everything
  <2>1. CASE q # p
    BY <1>2, <2>1 DEF Everything
  <2>2. CASE q = p
    <3>1. CASE i \in X \cup Items(C, p)
      BY <3>1 DEF Everything
    <3>2. CASE i \in UNION {Items(C, r) : r \in Q}
      BY <3>2 DEF Everything
    <3> QED
      BY <2>2, <3>1, <3>2
  <2> QED
    BY <2>1, <2>2
<1>6. Everything(C) \cup X \subseteq Everything(D)
  <2>1. Items(D, p) \subseteq Everything(D)
    BY DEF Everything
  <2>2. ASSUME NEW q \in Place, NEW i \in Items(C, q) PROVE i \in Everything(D)
    <3>1. CASE q = p \/ q \in Q
      BY <2>1, <3>1
    <3>2. CASE q # p /\ q \notin Q
      BY <3>2 DEF Everything, Items
    <3> QED
      BY <3>1, <3>2
  <2> QED
    BY <2>1, <2>2 DEF Everything
<1> QED
  BY <1>1, <1>4, <1>5, <1>6 DEF Spread

Contents == [p \in Place |-> Content(p)]

\* The cases of Content.
LEMMA ContentCases ==
  /\ \A i \in 1 .. 2 : <<"buffer", i>> \in Place /\ Content(<<"buffer", i>>) = buffer[i]
  /\ <<"taken", 0>> \in Place /\ Content(<<"taken", 0>>) = taken
  /\ <<"pending", 0>> \in Place
  /\ Content(<<"pending", 0>>) = IF pending = None THEN {} ELSE {{pending}}
  /\ \A i \in Files :
       /\ <<"tmp", i>> \in Place /\ <<"gtmp", i>> \in Place
       /\ Content(<<"tmp", i>>) = IF i < num_written THEN tmp[i] ELSE {}
       /\ Content(<<"gtmp", i>>) = IF i < num_group_written THEN gtmp[i] ELSE {}
BY DEF Content, Place, Name

\* The same after a step.
LEMMA ContentCasesNext ==
  /\ \A i \in 1 .. 2 : Content(<<"buffer", i>>)' = buffer'[i]
  /\ Content(<<"taken", 0>>)' = taken'
  /\ Content(<<"pending", 0>>)' = IF pending' = None THEN {} ELSE {{pending'}}
  /\ \A i \in Files :
       /\ Content(<<"tmp", i>>)' = IF i < num_written' THEN tmp'[i] ELSE {}
       /\ Content(<<"gtmp", i>>)' = IF i < num_group_written' THEN gtmp'[i] ELSE {}
BY DEF Content

LEMMA PlaceCases ==
  ASSUME NEW p \in Place
  PROVE  \/ \E i \in 1 .. 2 : p = <<"buffer", i>>
         \/ p = <<"taken", 0>> \/ p = <<"pending", 0>>
         \/ \E i \in Files : p = <<"tmp", i>> \/ p = <<"gtmp", i>>
BY DEF Place, Name

\* PlacesInv in the terms of Moved.
LEMMA PlacesAsSpread ==
  ASSUME PlacesInv, Writing
  PROVE  Spread(Contents) /\ Everything(Contents) = {process} \X (ToWrite \ todo)
<1>1. \A p \in Place : Contents[p] = Content(p) /\ Items(Contents, p) = UNION Content(p)
  BY DEF Contents, Items
<1>2. Everything(Contents) = UNION {UNION Content(p) : p \in Place}
  BY <1>1 DEF Everything
<1>3. ASSUME NEW p \in Place PROVE IsFile(Contents[p])
  <2>1. IsFile(Content(p))
    BY Zenon DEF PlacesInv
  <2> QED
    BY <1>1, <2>1, Zenon
<1>4. ASSUME NEW p \in Place, NEW q \in Place, p # q
      PROVE  Items(Contents, p) \cap Items(Contents, q) = {}
  <2>1. (UNION Content(p)) \cap (UNION Content(q)) = {}
    BY <1>4 DEF PlacesInv
  <2> QED
    BY <1>1, <2>1
<1>5. Spread(Contents)
  BY <1>3, <1>4, Zenon DEF Spread
<1> QED
  BY <1>2, <1>5 DEF PlacesInv, RecordsAt

LEMMA SpreadAsPlaces ==
  ASSUME Spread(Contents'), Everything(Contents') = {process'} \X (ToWrite' \ todo')
  PROVE  PlacesInv'
<1>1. \A p \in Place : Contents'[p] = Content(p)' /\ Items(Contents', p) = UNION Content(p)'
  BY DEF Contents, Items
<1>2. Everything(Contents') = UNION {UNION Content(p)' : p \in Place}
  BY <1>1 DEF Everything
<1>3. ASSUME NEW p \in Place PROVE IsFile(Content(p))'
  <2>1. IsFile(Contents'[p])
    BY Zenon DEF Spread
  <2>2. Contents'[p] = Content(p)'
    BY <1>1
  <2>3. IsFile(Content(p)')
    BY <2>1, <2>2, Zenon
  <2> QED
    BY <2>3 DEF IsFile
<1>4. ASSUME NEW p \in Place, NEW q \in Place, p # q
      PROVE  (UNION Content(p)') \cap (UNION Content(q)') = {}
  <2>1. Items(Contents', p) \cap Items(Contents', q) = {}
    BY <1>4 DEF Spread
  <2> QED
    BY <1>1, <2>1
<1>5. (UNION {UNION Content(p) : p \in Place})' = {process'} \X (ToWrite' \ todo')
  BY <1>2
<1> QED
  BY <1>3, <1>4, <1>5, Zenon DEF PlacesInv, RecordsAt

\* A step that leaves every place as it is.
LEMMA SamePlaces ==
  ASSUME PlacesInv, Writing, UNCHANGED <<config, process, todo, buffer, taken, pending>>,
         \A i \in Files :
           /\ (IF i < num_written' THEN tmp'[i] ELSE {}) = IF i < num_written THEN tmp[i] ELSE {}
           /\ (IF i < num_group_written' THEN gtmp'[i] ELSE {})
                = IF i < num_group_written THEN gtmp[i] ELSE {}
  PROVE  PlacesInv'
<1>1. ASSUME NEW p \in Place PROVE Content(p)' = Content(p)
  <2>1. CASE \E i \in 1 .. 2 : p = <<"buffer", i>>
    BY <2>1, ContentCases, ContentCasesNext
  <2>2. CASE p = <<"taken", 0>> \/ p = <<"pending", 0>>
    BY <2>2, ContentCases, ContentCasesNext
  <2>3. CASE \E i \in Files : p = <<"tmp", i>> \/ p = <<"gtmp", i>>
    BY <2>3, ContentCases, ContentCasesNext, ZenonT(60)
  <2> QED
    BY <2>1, <2>2, <2>3, PlaceCases
<1>2. Contents' = Contents
  BY <1>1 DEF Contents
<1>3. ToWrite' = ToWrite
  BY DEF ToWrite
<1> QED
  BY <1>2, <1>3, PlacesAsSpread, SpreadAsPlaces

\* A step that moves the contents of Q, and the records X, to place p.
Moves(p, Q, X) ==
  /\ UNCHANGED <<config, process>>
  /\ X \cap ({process} \X (ToWrite \ todo)) = {}
  /\ \A q \in Place : q # p /\ q \notin Q => Content(q)' = Content(q)
  /\ \A q \in Q : q # p => Content(q)' = {}
  /\ IsFile(Content(p)')
  /\ UNION Content(p)' = X \cup (UNION Content(p)) \cup UNION {UNION Content(q) : q \in Q}
  /\ {process} \X (ToWrite \ todo') = ({process} \X (ToWrite \ todo)) \cup X

LEMMA MovedPlaces ==
  ASSUME PlacesInv, Writing, NEW p \in Place, NEW Q \in SUBSET Place, NEW X, Moves(p, Q, X)
  PROVE  PlacesInv'
<1> USE DEF Moves
<1>1. Spread(Contents) /\ Everything(Contents) = {process} \X (ToWrite \ todo)
  BY PlacesAsSpread
<1>2. \A q \in Place : /\ Contents[q] = Content(q) /\ Contents'[q] = Content(q)'
                       /\ Items(Contents, q) = UNION Content(q)
                       /\ Items(Contents', q) = UNION Content(q)'
  BY DEF Contents, Items
<1>3. UNION {Items(Contents, q) : q \in Q} = UNION {UNION Content(q) : q \in Q}
  BY <1>2
<1>4. /\ \A q \in Place : q # p /\ q \notin Q => Contents'[q] = Contents[q]
      /\ \A q \in Q : q # p => Contents'[q] = {}
      /\ IsFile(Contents'[p])
      /\ Items(Contents', p) = X \cup Items(Contents, p) \cup UNION {Items(Contents, q) : q \in Q}
  <2>1. \A q \in Place : q # p /\ q \notin Q => Contents'[q] = Contents[q]
    BY <1>2
  <2>2. \A q \in Q : q # p => Contents'[q] = {}
    BY <1>2
  <2>3. IsFile(Contents'[p])
    BY <1>2, Zenon
  <2>4. Items(Contents', p) = X \cup Items(Contents, p) \cup UNION {Items(Contents, q) : q \in Q}
    <3>1. Items(Contents', p) = UNION Content(p)' /\ Items(Contents, p) = UNION Content(p)
      BY <1>2
    <3> QED
      BY <1>3, <3>1, Zenon
  <2> QED
    BY <2>1, <2>2, <2>3, <2>4
<1>5. X \cap Everything(Contents) = {}
  BY <1>1
<1>6. IsMove(Contents, Contents', p, Q, X)
  BY <1>4, <1>5, Zenon DEF IsMove
<1>7. Spread(Contents') /\ Everything(Contents') = Everything(Contents) \cup X
  BY <1>1, <1>6, Moved, ZenonT(60)
<1>8. ToWrite' = ToWrite
  BY DEF ToWrite
<1>9. Everything(Contents') = {process'} \X (ToWrite' \ todo')
  BY <1>1, <1>7, <1>8
<1> QED
  BY <1>7, <1>9, SpreadAsPlaces

-----------------------------------------------------------------------------
(* What the types say *)

\* Files of records are finite.
LEMMA FileFinite ==
  ASSUME NEW S \in FileType
  PROVE  /\ IsFiniteSet(S) /\ Cardinality(S) \in Nat /\ (Cardinality(S) = 0 <=> S = {})
<1>1. IsFiniteSet(Process) /\ IsFiniteSet(Records)
  BY SortedAssumption, FS_Interval DEF Process
<1>2. IsFiniteSet(Item)
  BY <1>1, FS_Product DEF Item
<1>3. IsFiniteSet(SUBSET Item)
  BY <1>2, FS_SUBSET
<1>4. IsFiniteSet(S)
  BY <1>3, FS_Subset DEF FileType
<1> QED
  BY <1>4, FS_CardinalityType, FS_EmptySet

LEMMA Facts ==
  ASSUME TypeOK
  PROVE  /\ config.extra \in BOOLEAN /\ config.group \in Nat /\ config.reduce \in BOOLEAN
         /\ config.safe \in BOOLEAN /\ config.capacity \in Nat /\ config.capacity > 0
         /\ config.large \in BOOLEAN
         /\ Cardinality(Records) \in Nat /\ ToWrite \subseteq Records /\ IsFiniteSet(ToWrite)
         /\ Cardinality(ToWrite) \in Nat /\ Cardinality(ToWrite) <= Cardinality(Records)
         /\ IsFiniteSet(todo) /\ Cardinality(todo) \in Nat
         /\ \A i \in 1 .. 2 : /\ buffer[i] \in FileType /\ IsFiniteSet(buffer[i])
                              /\ Cardinality(buffer[i]) \in Nat
                              /\ Cardinality(buffer[i]) = 0 <=> buffer[i] = {}
         /\ Other(b) \in 1 .. 2 /\ Other(b) # b /\ Other(Other(b)) = b
         /\ None \notin Item
<1>1. config \in Configuration
  BY SortedAssumption DEF TypeOK
<1>2. IsFiniteSet(Records) /\ ToWrite \subseteq Records /\ todo \subseteq ToWrite
  BY SortedAssumption DEF ToWrite, TypeOK
<1>3. Cardinality(Records) \in Nat
  BY <1>2, FS_CardinalityType
<1>4. IsFiniteSet(ToWrite) /\ Cardinality(ToWrite) <= Cardinality(Records)
      /\ Cardinality(ToWrite) \in Nat
  BY <1>2, FS_Subset, FS_CardinalityType
<1>5. IsFiniteSet(todo) /\ Cardinality(todo) \in Nat
  BY <1>2, FS_Subset, FS_CardinalityType
<1>6. \A i \in 1 .. 2 : /\ buffer[i] \in FileType /\ IsFiniteSet(buffer[i])
                        /\ Cardinality(buffer[i]) \in Nat
                        /\ Cardinality(buffer[i]) = 0 <=> buffer[i] = {}
  BY FileFinite DEF TypeOK
<1>7. Other(b) \in 1 .. 2 /\ Other(b) # b /\ Other(Other(b)) = b
  <2>1. b \in 1 .. 2
    BY DEF TypeOK
  <2>2. b = 1 \/ b = 2
    BY <2>1
  <2> QED
    BY <2>2, SMT DEF Other
<1>8. None \notin Item
  BY SortedAssumption DEF None, Item, Process
<1>9. config.extra \in BOOLEAN /\ config.group \in Nat /\ config.reduce \in BOOLEAN
      /\ config.safe \in BOOLEAN /\ config.capacity \in Nat /\ config.capacity > 0
      /\ config.large \in BOOLEAN
  BY <1>1 DEF Configuration
<1> QED
  BY <1>2, <1>3, <1>4, <1>5, <1>6, <1>7, <1>8, <1>9

\* Nothing that concerns the output changes before it is opened.
LEMMA OutputUntouched ==
  ASSUME OutputInv, SafeOutput, Writing, Writing', UNCHANGED <<config, process, left, outVars>>,
         Final \in exist' <=> Final \in exist
  PROVE  OutputInv' /\ SafeOutput' /\ NoFilesLeft'
<1>1. \A S, p : IsWhole(S, p)' <=> IsWhole(S, p)
  BY DEF IsWhole, ToWrite
<1>2. OutputInv'
  BY DEF OutputInv, Writing, Complete
<1>3. SafeOutput'
  BY <1>1 DEF SafeOutput, outVars, Writing
<1>4. NoFilesLeft'
  BY DEF NoFilesLeft, Writing
<1> QED
  BY <1>2, <1>3, <1>4

\* A step that writes no temporary file.
LEMMA FilesKept ==
  ASSUME FilesInv, Writing, Writing',
         UNCHANGED <<process, left, tmp, gtmp, exist, num_written, num_group_written>>
  PROVE  FilesInv'
BY DEF FilesInv, Past, FileOf, Wrote, Complete, Writing

\* A step of the application that takes nothing from the thread.
LEMMA HoldKept ==
  ASSUME TypeOK, HoldInv, Writing, \A i \in 1 .. 2 : buffer[i] \subseteq buffer'[i],
         UNCHANGED <<thread, taken, source, tmp, gtmp, num_written, num_group_written>>
  PROVE  HoldInv'
<1>1. ASSUME NEW n \in Name PROVE Content(n)' = Content(n)
  <2>1. PICK i \in Files : n = <<"tmp", i>> \/ n = <<"gtmp", i>>
    BY DEF Name
  <2> QED
    BY <2>1, ContentCases, ContentCasesNext
<1>2. source \in 1 .. 2
  BY DEF TypeOK
<1> QED
  BY <1>1, <1>2 DEF HoldInv

\* What a name stands for changes only with the files and their number.
LEMMA NameContent ==
  ASSUME TypeOK, UNCHANGED <<name, tmp, gtmp, num_written, num_group_written>>
  PROVE  Content(name)' = Content(name)
<1>0. name \in {"tmp", "gtmp"} \X Nat
  BY DEF TypeOK
<1>1. PICK i \in Nat : name = <<"tmp", i>> \/ name = <<"gtmp", i>>
  BY <1>0
<1>2. CASE name = <<"tmp", i>>
  BY <1>1, <1>2 DEF Content
<1>3. CASE name = <<"gtmp", i>>
  BY <1>1, <1>3 DEF Content
<1> QED
  BY <1>1, <1>2, <1>3

\* A record that is put into a buffer.
LEMMA PutType ==
  ASSUME TypeOK, NEW x \in Item, Fits(x), Put(x)
  PROVE  /\ DOMAIN buffer' = 1 .. 2 /\ \A i \in 1 .. 2 : i # b => buffer'[i] = buffer[i]
         /\ buffer'[b] = buffer[b] \cup {{x}} /\ buffer'[b] \in FileType /\ buffer'[b] # {}
         /\ Cardinality(buffer'[b]) <= Cardinality(buffer[b]) + 1
         /\ Cardinality(buffer'[b]) <= config.capacity
         /\ Cardinality(buffer'[b]) \in Nat
<1>1. b \in 1 .. 2 /\ DOMAIN buffer = 1 .. 2 /\ buffer[b] \in FileType
  BY DEF TypeOK
<1>2. DOMAIN buffer' = 1 .. 2 /\ \A i \in 1 .. 2 : i # b => buffer'[i] = buffer[i]
  BY <1>1 DEF Put
<1>3. buffer'[b] = buffer[b] \cup {{x}}
  BY <1>1 DEF Put
<1>4. IsFiniteSet(buffer[b]) /\ Cardinality(buffer[b]) \in Nat /\ config.capacity \in Nat
  BY <1>1, Facts
<1>5. Cardinality(buffer[b] \cup {{x}}) <= Cardinality(buffer[b]) + 1
      /\ Cardinality(buffer[b] \cup {{x}}) \in Nat
  <2>1. Cardinality(buffer[b] \cup {{x}})
          = IF {x} \in buffer[b] THEN Cardinality(buffer[b]) ELSE Cardinality(buffer[b]) + 1
    BY <1>4, FS_AddElement, Zenon
  <2> QED
    BY <1>4, <2>1
<1>6. buffer'[b] \in FileType
  BY <1>1, <1>3 DEF FileType
<1>7. Cardinality(buffer[b]) < config.capacity
  BY DEF Fits
<1>8. Cardinality(buffer'[b]) <= config.capacity
  BY <1>3, <1>4, <1>5, <1>7
<1> QED
  BY <1>2, <1>3, <1>5, <1>6, <1>8

\* A record in a place of its own, and one among others.
LEMMA OneRecord ==
  ASSUME NEW x PROVE IsFile({{x}}) /\ UNION {{x}} = {x}
BY DEF IsFile

LEMMA AddRecord ==
  ASSUME NEW S, NEW x, IsFile(S), x \notin UNION S
  PROVE  IsFile(S \cup {{x}}) /\ UNION (S \cup {{x}}) = {x} \cup UNION S
<1>1. ASSUME NEW y \in S \cup {{x}} PROVE y # {} /\ \A i, j \in y : Key(i[2]) = Key(j[2])
  <2>1. CASE y = {x}
    BY <2>1
  <2>2. CASE y \in S
    BY <2>2 DEF IsFile
  <2> QED
    BY <2>1, <2>2
<1>2. ASSUME NEW y \in S \cup {{x}}, NEW z \in S \cup {{x}}, y # z PROVE y \cap z = {}
  <2>1. CASE y \in S /\ z \in S
    BY <1>2, <2>1 DEF IsFile
  <2>2. CASE y = {x} \/ z = {x}
    BY <1>2, <2>2
  <2> QED
    BY <2>1, <2>2
<1>3. UNION (S \cup {{x}}) = {x} \cup UNION S
  OBVIOUS
<1> QED
  BY <1>1, <1>2, <1>3, Zenon DEF IsFile

\* What a place holds while records are written.
LEMMA PlaceFacts ==
  ASSUME PlacesInv, Writing, NEW p \in Place
  PROVE  /\ IsFile(Content(p)) /\ UNION Content(p) \subseteq {process} \X (ToWrite \ todo)
         /\ \A q \in Place : p # q => (UNION Content(p)) \cap (UNION Content(q)) = {}
<1>1. IsFile(Content(p))
  BY Zenon DEF PlacesInv
<1>2. UNION Content(p) \subseteq UNION {UNION Content(q) : q \in Place}
  OBVIOUS
<1>3. \A q \in Place : p # q => (UNION Content(p)) \cap (UNION Content(q)) = {}
  BY Zenon DEF PlacesInv
<1> QED
  BY <1>1, <1>2, <1>3, Zenon DEF PlacesInv, RecordsAt

-----------------------------------------------------------------------------
(* One lemma for each action *)

LEMMA InitSorted ==
  ASSUME Init PROVE OutIInv
<1>1. config \in Configuration /\ process \in Process
  BY SortedAssumption DEF Init, Process
<1>2. IsFiniteSet(Records) /\ Cardinality(Records) \in Nat /\ 0 \in Files
  BY SortedAssumption, FS_CardinalityType DEF Files
<1>3. ToWrite \subseteq Records /\ Cardinality(ToWrite) \in Nat
  BY <1>2, FS_Subset, FS_CardinalityType DEF ToWrite
<1>4. Cardinality({}) = 0
  BY FS_EmptySet
<1>5. TypeOK
  <2>1. {} \in FileType
    BY DEF FileType
  <2>2. config.group \in Nat /\ config.capacity \in Nat
    BY <1>1 DEF Configuration
  <2>3. name \in {"tmp", "gtmp"} \X Nat /\ at \in {"tmp", "gtmp"} \X Nat /\ skipped \in 0 .. 4
        /\ left \subseteq Item /\ exist \subseteq ({"tmp", "gtmp"} \X Nat) \cup {Final} /\ Writing
    BY <1>2 DEF Init, InitMemory, Writing
  <2>4. pending \in Item \cup {None}
    BY DEF Init, InitMemory
  <2>5. DOMAIN buffer = 1 .. 2 /\ (\A i \in 1 .. 2 : buffer[i] = {})
        /\ DOMAIN tmp = Files /\ DOMAIN gtmp = Files
        /\ \A i \in Files : tmp[i] = {} /\ gtmp[i] = {}
    BY DEF Init, InitMemory
  <2>6. config \in Configurations /\ app = "open" /\ thread = "none" /\ todo \subseteq ToWrite
        /\ b = 1 /\ source = 1 /\ freed = {} /\ num_written = 0 /\ num_group_written = 0
        /\ group \in Nat /\ taken = {} /\ result = {} /\ safe = {} /\ final = {}
    BY <1>3, <2>2 DEF Init, InitMemory
  <2>9. ack \in BOOLEAN
    BY Zenon DEF Init
  <2>7. \A i \in 1 .. 2 : Cardinality(buffer[i]) <= config.capacity
    BY <1>4, <2>2, <2>5
  <2>8. (\A i \in 1 .. 2 : buffer[i] \in FileType)
        /\ (\A i \in Files : tmp[i] \in FileType /\ gtmp[i] \in FileType)
        /\ taken \in FileType /\ result \in FileType /\ safe \in FileType /\ final \in FileType
    BY <2>1, <2>5, <2>6
  <2> QED
    BY <1>1, <2>3, <2>4, <2>5, <2>6, <2>7, <2>8, <2>9 DEF TypeOK
<1>6. ASSUME NEW p \in Place PROVE Content(p) = {}
  <2>1. CASE \E i \in 1 .. 2 : p = <<"buffer", i>>
    BY <2>1, ContentCases DEF Init, InitMemory
  <2>2. CASE p = <<"taken", 0>> \/ p = <<"pending", 0>>
    BY <2>2, ContentCases DEF Init, InitMemory
  <2>3. CASE \E i \in Files : p = <<"tmp", i>> \/ p = <<"gtmp", i>>
    BY <1>2, <2>3, ContentCases DEF Init, InitMemory, Files
  <2> QED
    BY <2>1, <2>2, <2>3, PlaceCases
<1>7. PlacesInv
  <2>1. UNION {UNION Content(p) : p \in Place} = {}
    BY <1>6
  <2>2. {process} \X (ToWrite \ todo) = {}
    BY DEF Init, InitMemory
  <2>3. IsFile({})
    BY DEF IsFile
  <2> QED
    BY <1>6, <2>1, <2>2, <2>3 DEF PlacesInv, RecordsAt
<1>8. CountInv
  BY <1>3, <1>4 DEF CountInv, Filling, Init, InitMemory
<1>9. ThreadInv
  BY DEF ThreadInv, Init, InitMemory, Joined, Other
<1>h. HoldInv
  BY DEF HoldInv, Init, InitMemory
<1>10. PhaseInv
  BY DEF PhaseInv, Init, InitMemory, Joined, NothingNamed
<1>11. GroupInv
  BY DEF GroupInv, Init, InitMemory
<1>12. OutputInv /\ SafeOutput /\ NoFilesLeft
  BY DEF OutputInv, SafeOutput, NoFilesLeft, Init, InitMemory, Writing, Complete
<1>13. FilesInv
  <2>1. \A n \in Name : FileOf(n) = {}
    BY DEF Init, FileOf, Name
  <2> QED
    BY <2>1 DEF FilesInv, Init, InitMemory, Writing, Past, Wrote, Complete, Files
<1> QED
  BY <1>5, <1>7, <1>8, <1>9, <1>10, <1>11, <1>12, <1>13, <1>h, Zenon DEF OutIInv

LEMMA StoreSorted ==
  ASSUME OutIInv, NEW r \in Records, Store(r) PROVE OutIInv'
<1> DEFINE x == <<process, r>>
<1>0. /\ TypeOK /\ CountInv /\ ThreadInv /\ HoldInv /\ PhaseInv /\ GroupInv /\ PlacesInv
      /\ OutputInv /\ FilesInv /\ SafeOutput /\ NoFilesLeft
  BY DEF OutIInv
<1>1. app = "open" /\ app' = "open" /\ Writing /\ Writing' /\ r \in todo /\ x \in Item /\ x # None
  BY <1>0, Facts DEF Store, Writing, TypeOK, Item
<1>2. /\ Fits(x) /\ Put(x) /\ todo' = todo \ {r}
      /\ UNCHANGED <<config, process, app, pending, b, freed, countVars, threadVars,
                     result, left, at, skipped, tmp, gtmp, exist, outVars>>
  BY DEF Store, destroyVars, fileVars
<1>3. /\ DOMAIN buffer' = 1 .. 2 /\ \A i \in 1 .. 2 : i # b => buffer'[i] = buffer[i]
      /\ buffer'[b] = buffer[b] \cup {{x}} /\ buffer'[b] \in FileType /\ buffer'[b] # {}
      /\ Cardinality(buffer'[b]) <= Cardinality(buffer[b]) + 1
      /\ Cardinality(buffer'[b]) <= config.capacity
      /\ Cardinality(buffer'[b]) \in Nat
  BY <1>0, <1>1, <1>2, PutType
<1>4. TypeOK'
  BY <1>0, <1>1, <1>2, <1>3 DEF TypeOK, countVars, threadVars, outVars, ToWrite
<1>5. CountInv'
  <2>1. Cardinality(todo') = Cardinality(todo) - 1
    BY <1>0, <1>1, <1>2, Facts, FS_RemoveElement
  <2>2. thread = "sort" => config.extra
    BY <1>0, <1>1 DEF ThreadInv, Joined
  <2>3. ToWrite' = ToWrite
    BY <1>2 DEF ToWrite
  <2>4. Cardinality(buffer[b]) \in Nat /\ Cardinality(todo) \in Nat /\ Cardinality(ToWrite) \in Nat
    BY <1>0, Facts DEF TypeOK
  <2> QED
    BY <1>0, <1>1, <1>2, <1>3, <2>1, <2>2, <2>3, <2>4
    DEF CountInv, Filling, TypeOK, countVars, threadVars
<1>6. ThreadInv'
  <2>1. Content(name)' = Content(name)
    BY <1>0, <1>2, NameContent DEF countVars, threadVars
  <2>2. buffer'[Other(b)] = buffer[Other(b)]
    BY <1>0, <1>3, Facts
  <2> QED
    BY <1>0, <1>1, <1>2, <2>1, <2>2 DEF ThreadInv, Joined, countVars, threadVars, Other
<1>7. PhaseInv'
  BY <1>0, <1>1, <1>2, <1>3 DEF PhaseInv, countVars
<1>8. GroupInv'
  BY <1>0, <1>1, <1>2 DEF GroupInv, countVars
<1>9. PlacesInv'
  <2>0. PICK p \in Place : p = <<"buffer", b>>
    BY <1>0, ContentCases DEF TypeOK
  <2>1. Content(p) = buffer[b] /\ Content(p)' = buffer'[b]
    BY <1>0, <2>0, ContentCases, ContentCasesNext DEF TypeOK
  <2>2. ASSUME NEW q \in Place, q # p PROVE Content(q)' = Content(q)
    <3>1. CASE \E i \in 1 .. 2 : q = <<"buffer", i>>
      BY <1>3, <2>0, <2>2, <3>1, ContentCases, ContentCasesNext
    <3>2. CASE q = <<"taken", 0>> \/ q = <<"pending", 0>>
      BY <1>2, <3>2, ContentCases, ContentCasesNext DEF threadVars
    <3>3. CASE \E i \in Files : q = <<"tmp", i>> \/ q = <<"gtmp", i>>
      BY <1>2, <3>3, ContentCases, ContentCasesNext DEF countVars
    <3> QED
      BY <3>1, <3>2, <3>3, PlaceCases
  <2>3. r \in ToWrite
    BY <1>0, <1>1 DEF TypeOK
  <2>4. IsFile(buffer[b]) /\ UNION buffer[b] \subseteq {process} \X (ToWrite \ todo)
    BY <1>0, <1>1, <2>1, PlaceFacts, ZenonT(60)
  <2>5. x \notin {process} \X (ToWrite \ todo)
    BY <1>1
  <2>6. IsFile(buffer'[b]) /\ UNION buffer'[b] = {x} \cup UNION buffer[b]
    <3>1. x \notin UNION buffer[b]
      BY <2>4, <2>5
    <3> HIDE DEF x
    <3>2. IsFile(buffer[b] \cup {{x}}) /\ UNION (buffer[b] \cup {{x}}) = {x} \cup UNION buffer[b]
      BY <2>4, <3>1, AddRecord, Zenon
    <3> QED
      BY <1>3, <3>2, Zenon
  <2>7. UNION Content(p)' = {x} \cup (UNION Content(p)) \cup UNION {UNION Content(q) : q \in {}}
    BY <2>1, <2>6
  <2>8. {process} \X (ToWrite \ todo') = ({process} \X (ToWrite \ todo)) \cup {x}
    BY <1>1, <1>2, <2>3
  <2>9. IsFile(Content(p)')
    BY <2>1, <2>6, Zenon
  <2>10. {x} \cap ({process} \X (ToWrite \ todo)) = {}
    BY <2>5
  <2>11. UNCHANGED <<config, process>>
    BY <1>2
  <2>12. Moves(p, {}, {x})
    BY <2>2, <2>7, <2>8, <2>9, <2>10, <2>11, Zenon DEF Moves
  <2> QED
    BY <1>0, <1>1, <2>12, MovedPlaces
<1>10. OutputInv' /\ FilesInv' /\ SafeOutput' /\ NoFilesLeft'
  BY <1>0, <1>1, <1>2, OutputUntouched, FilesKept DEF countVars
<1>h. HoldInv'
  BY <1>0, <1>1, <1>2, <1>3, HoldKept DEF bufferVars, countVars, threadVars
<1> QED
  BY <1>4, <1>5, <1>6, <1>7, <1>8, <1>9, <1>10, <1>h, Zenon DEF OutIInv

LEMMA OverflowSorted ==
  ASSUME OutIInv, NEW r \in Records, Overflow(r) PROVE OutIInv'
<1> DEFINE x == <<process, r>>
<1>0. /\ TypeOK /\ CountInv /\ ThreadInv /\ HoldInv /\ PhaseInv /\ GroupInv /\ PlacesInv
      /\ OutputInv /\ FilesInv /\ SafeOutput /\ NoFilesLeft
  BY DEF OutIInv
<1>1. /\ app = "open" /\ app' = IF buffer[b] = {} THEN "one" ELSE "flush"
      /\ Writing /\ Writing' /\ r \in todo /\ r \in ToWrite /\ x \in Item /\ x # None
  BY <1>0, Facts DEF Overflow, Writing, TypeOK, Item
<1>2. /\ ~Fits(x) /\ pending = None /\ pending' = x /\ todo' = todo \ {r}
      /\ UNCHANGED <<config, process, bufferVars, countVars, threadVars,
                     result, left, at, skipped, tmp, gtmp, exist, outVars>>
  BY <1>0, <1>1 DEF Overflow, PhaseInv, destroyVars, fileVars
<1>3. ToWrite' = ToWrite
  BY <1>2 DEF ToWrite
<1>4. TypeOK'
  BY <1>0, <1>1, <1>2, <1>3 DEF TypeOK, bufferVars, countVars, threadVars, outVars
<1>5. CountInv'
  <2>1. Cardinality(todo') = Cardinality(todo) - 1
    BY <1>0, <1>1, <1>2, Facts, FS_RemoveElement
  <2>2. Cardinality(buffer[b]) \in Nat /\ Cardinality(todo) \in Nat /\ Cardinality(ToWrite) \in Nat
    BY <1>0, Facts DEF TypeOK
  <2>3. Filling' = Filling
    BY <1>2 DEF Filling, bufferVars, threadVars
  <2>4. Filling \in Nat
    BY <2>2 DEF Filling
  <2> QED
    BY <1>0, <1>1, <1>2, <1>3, <2>1, <2>2, <2>3, <2>4 DEF CountInv, TypeOK, countVars, threadVars
<1>6. ThreadInv'
  <2>1. Content(name)' = Content(name)
    BY <1>0, <1>2, NameContent DEF countVars, threadVars
  <2> QED
    BY <1>0, <1>1, <1>2, <2>1 DEF ThreadInv, Joined, bufferVars, countVars, threadVars, Other
<1>7. PhaseInv'
  <2>1. buffer[b] = {} => r \in Large /\ config.large
    <3>1. buffer[b] = {} => Cardinality(buffer[b]) < config.capacity
      BY <1>0, Facts, FS_EmptySet
    <3> QED
      BY <1>1, <1>2, <3>1 DEF Fits, ToWrite
  <2>2. x \in {process} \X ToWrite
    BY <1>1
  <2> QED
    BY <1>0, <1>1, <1>2, <1>3, <2>1, <2>2 DEF PhaseInv, bufferVars, countVars
<1>8. GroupInv'
  BY <1>0, <1>1, <1>2 DEF GroupInv, countVars, Writing
<1>9. PlacesInv'
  <2>0. PICK p \in Place : p = <<"pending", 0>>
    BY ContentCases
  <2>1. Content(p) = {} /\ Content(p)' = {{x}}
    BY <1>1, <1>2, <2>0, ContentCases, ContentCasesNext
  <2>2. ASSUME NEW q \in Place, q # p PROVE Content(q)' = Content(q)
    <3>1. CASE \E i \in 1 .. 2 : q = <<"buffer", i>>
      BY <1>2, <3>1, ContentCases, ContentCasesNext DEF bufferVars
    <3>2. CASE q = <<"taken", 0>>
      BY <1>2, <3>2, ContentCases, ContentCasesNext DEF threadVars
    <3>3. CASE \E i \in Files : q = <<"tmp", i>> \/ q = <<"gtmp", i>>
      BY <1>2, <3>3, ContentCases, ContentCasesNext DEF countVars
    <3> QED
      BY <2>0, <2>2, <3>1, <3>2, <3>3, PlaceCases
  <2>3. {x} \cap ({process} \X (ToWrite \ todo)) = {}
    BY <1>1
  <2>4. {process} \X (ToWrite \ todo') = ({process} \X (ToWrite \ todo)) \cup {x}
    BY <1>1, <1>2
  <2>5. UNCHANGED <<config, process>>
    BY <1>2
  <2> HIDE DEF x
  <2>6. IsFile(Content(p)') /\ UNION Content(p)' = {x}
    <3>1. IsFile({{x}}) /\ UNION {{x}} = {x}
      BY OneRecord
    <3> QED
      BY <2>1, <3>1, Zenon
  <2>7. UNION Content(p)' = {x} \cup (UNION Content(p)) \cup UNION {UNION Content(q) : q \in {}}
    BY <2>1, <2>6
  <2>8. Moves(p, {}, {x})
    BY <2>2, <2>3, <2>4, <2>5, <2>6, <2>7, Zenon DEF Moves
  <2> QED
    BY <1>0, <1>1, <2>8, MovedPlaces
<1>10. OutputInv' /\ FilesInv' /\ SafeOutput' /\ NoFilesLeft'
  BY <1>0, <1>1, <1>2, OutputUntouched, FilesKept DEF countVars
<1>h. HoldInv'
  BY <1>0, <1>1, <1>2, HoldKept DEF bufferVars, countVars, threadVars
<1> QED
  BY <1>4, <1>5, <1>6, <1>7, <1>8, <1>9, <1>10, <1>h, Zenon DEF OutIInv

LEMMA WriteSortedSorted ==
  ASSUME OutIInv, WriteSorted PROVE OutIInv'
<1>0. /\ TypeOK /\ CountInv /\ ThreadInv /\ HoldInv /\ PhaseInv /\ GroupInv /\ PlacesInv
      /\ OutputInv /\ FilesInv /\ SafeOutput /\ NoFilesLeft
  BY DEF OutIInv
<1>1. /\ app = "flush" /\ app' = "retry" /\ Writing /\ Writing' /\ Joined
      /\ b' = (IF config.extra THEN Other(b) ELSE b) /\ source' = b /\ thread' = "sort"
  BY DEF WriteSorted, Writing, Hand
<1>2. /\ UNCHANGED <<config, process, todo, pending, countVars, result, left, at, skipped, tmp, gtmp, exist, outVars>>
      /\ UNCHANGED <<buffer, freed, taken, name>>
  BY DEF WriteSorted, Hand, destroyVars, fileVars
<1>3. ToWrite' = ToWrite /\ Other(b) \in 1 .. 2 /\ Other(Other(b)) = b /\ Other(b) # b
      /\ buffer[Other(b)] = {} /\ b \in 1 .. 2
  BY <1>0, <1>1, <1>2, Facts DEF ToWrite, ThreadInv, Joined, TypeOK
<1>4. TypeOK'
  BY <1>0, <1>1, <1>2, <1>3 DEF TypeOK, countVars, outVars
<1>5. CountInv'
  <2>1. Cardinality(buffer[b]) \in Nat /\ Cardinality(todo) \in Nat /\ Cardinality(ToWrite) \in Nat
        /\ Cardinality(buffer[b]) # 0
    BY <1>0, <1>1, Facts DEF TypeOK, PhaseInv
  <2>2. Filling = Cardinality(buffer[b])
    BY <1>1 DEF Filling, Joined
  <2>3. Filling' = 0
    BY <1>1, <1>2, <1>3, FS_EmptySet DEF Filling
  <2> QED
    BY <1>0, <1>1, <1>2, <1>3, <2>1, <2>2, <2>3 DEF CountInv, TypeOK, countVars, Joined
<1>6. ThreadInv'
  <2>1. (Other(b))' = Other(b')
    BY DEF Other
  <2> QED
    BY <1>0, <1>1, <1>2, <1>3, <2>1 DEF ThreadInv, Joined
<1>7. PhaseInv'
  BY <1>0, <1>1, <1>2, <1>3 DEF PhaseInv, countVars, Joined
<1>8. GroupInv'
  BY <1>0, <1>1, <1>2 DEF GroupInv, countVars
<1>9. PlacesInv'
  BY <1>0, <1>1, <1>2, SamePlaces DEF countVars
<1>10. OutputInv' /\ FilesInv' /\ SafeOutput' /\ NoFilesLeft'
  BY <1>0, <1>1, <1>2, OutputUntouched, FilesKept DEF countVars
<1>h. HoldInv'
  BY <1>0, <1>1, <1>2 DEF HoldInv, PhaseInv
<1> QED
  BY <1>4, <1>5, <1>6, <1>7, <1>8, <1>9, <1>10, <1>h, Zenon DEF OutIInv

LEMMA RetrySorted ==
  ASSUME OutIInv, Retry PROVE OutIInv'
<1>0. /\ TypeOK /\ CountInv /\ ThreadInv /\ HoldInv /\ PhaseInv /\ GroupInv /\ PlacesInv
      /\ OutputInv /\ FilesInv /\ SafeOutput /\ NoFilesLeft
  BY DEF OutIInv
<1>1. /\ app = "retry" /\ (config.extra \/ Joined) /\ app' \in {"open", "one"}
      /\ Writing /\ Writing' /\ pending # None /\ pending \in Item /\ pending \in {process} \X ToWrite
      /\ buffer[b] = {} /\ b \in 1 .. 2 /\ Cardinality(buffer[b]) = 0
  BY <1>0, FS_EmptySet DEF Retry, Writing, PhaseInv, TypeOK, Joined
<1>2. UNCHANGED <<config, process, todo, b, freed, countVars, threadVars,
                  result, left, at, skipped, tmp, gtmp, exist, outVars>>
  BY DEF Retry, destroyVars, fileVars
<1>3. ToWrite' = ToWrite /\ (Other(b))' = Other(b) /\ Other(b) \in 1 .. 2 /\ Other(b) # b
  BY <1>0, <1>2, Facts DEF ToWrite, Other
<1>4. Content(name)' = Content(name)
  BY <1>0, <1>2, NameContent DEF countVars, threadVars
<1>5. OutputInv' /\ FilesInv' /\ SafeOutput' /\ NoFilesLeft'
  BY <1>0, <1>1, <1>2, OutputUntouched, FilesKept DEF countVars
<1>6. CASE Fits(pending)
  <2>0. Put(pending) /\ pending' = None /\ app' = "open"
    BY <1>6 DEF Retry
  <2>1. /\ DOMAIN buffer' = 1 .. 2 /\ \A i \in 1 .. 2 : i # b => buffer'[i] = buffer[i]
        /\ buffer'[b] = {{pending}} /\ buffer'[b] \in FileType /\ buffer'[b] # {}
        /\ Cardinality(buffer'[b]) <= 1
        /\ Cardinality(buffer'[b]) <= config.capacity
        /\ Cardinality(buffer'[b]) \in Nat
    BY <1>0, <1>1, <1>6, <2>0, PutType
  <2>2. TypeOK'
    BY <1>0, <1>1, <1>2, <1>3, <2>0, <2>1 DEF TypeOK, countVars, threadVars, outVars
  <2>3. CountInv'
    <3>1. Cardinality(todo) \in Nat /\ Cardinality(ToWrite) \in Nat
      BY <1>0, Facts
    <3>2. (thread = "sort" => config.extra) /\ Filling = 0 /\ Filling' = Cardinality(buffer'[b])
      BY <1>1, <1>2 DEF Filling, Joined, threadVars
    <3> QED
      BY <1>0, <1>1, <1>2, <1>3, <2>0, <2>1, <3>1, <3>2 DEF CountInv, TypeOK, countVars, threadVars
  <2>4. ThreadInv'
    BY <1>0, <1>1, <1>2, <1>3, <1>4, <2>0, <2>1 DEF ThreadInv, Joined, countVars, threadVars
  <2>5. PhaseInv'
    BY <1>0, <1>1, <1>2, <2>0, <2>1 DEF PhaseInv, countVars
  <2>6. GroupInv'
    BY <1>0, <1>1, <1>2, <2>0 DEF GroupInv, countVars, Writing
  <2>7. PlacesInv'
    <3>1. PICK p \in Place : p = <<"buffer", b>>
      BY <1>1, ContentCases
    <3>2. PICK e \in Place : e = <<"pending", 0>>
      BY ContentCases
    <3>3. Content(p) = {} /\ Content(p)' = {{pending}} /\ Content(e) = {{pending}}
          /\ Content(e)' = {} /\ p # e
      BY <1>1, <2>0, <2>1, <3>1, <3>2, ContentCases, ContentCasesNext
    <3>4. ASSUME NEW q \in Place, q # p, q # e PROVE Content(q)' = Content(q)
      <4>1. CASE \E i \in 1 .. 2 : q = <<"buffer", i>>
        BY <2>1, <3>1, <3>4, <4>1, ContentCases, ContentCasesNext
      <4>2. CASE q = <<"taken", 0>>
        BY <1>2, <4>2, ContentCases, ContentCasesNext DEF threadVars
      <4>3. CASE \E i \in Files : q = <<"tmp", i>> \/ q = <<"gtmp", i>>
        BY <1>2, <4>3, ContentCases, ContentCasesNext DEF countVars
      <4> QED
        BY <3>2, <3>4, <4>1, <4>2, <4>3, PlaceCases
    <3>5. Moves(p, {e}, {})
      <4>1. IsFile(Content(p)')
        <5>1. IsFile({{pending}})
          BY OneRecord
        <5> QED
          BY <3>3, <5>1, Zenon
      <4>2. UNION Content(p)' = {} \cup (UNION Content(p)) \cup UNION {UNION Content(q) : q \in {e}}
        BY <3>3, ZenonT(60)
      <4>3. {process} \X (ToWrite \ todo') = ({process} \X (ToWrite \ todo)) \cup {}
            /\ {} \cap ({process} \X (ToWrite \ todo)) = {}
        BY <1>2
      <4>4. \A q \in {e} : q # p => Content(q)' = {}
        BY <3>3
      <4>5. UNCHANGED <<config, process>>
        BY <1>2
      <4> QED
        BY <3>4, <4>1, <4>2, <4>3, <4>4, <4>5 DEF Moves
    <3> QED
      BY <1>0, <1>1, <3>5, MovedPlaces
  <2>8. HoldInv'
    BY <1>0, <1>1, <1>2, <2>1, HoldKept DEF bufferVars, countVars, threadVars
  <2> QED
    BY <1>5, <2>2, <2>3, <2>4, <2>5, <2>6, <2>7, <2>8, Zenon DEF OutIInv
<1>7. CASE ~Fits(pending)
  <2>1. app' = "one" /\ UNCHANGED <<buffer, pending>>
    BY <1>7 DEF Retry
  <2>2. pending[2] \in Large /\ config.large
    <3>1. pending[2] \in Large
      BY <1>0, <1>1, <1>7, Facts DEF Fits
    <3> QED
      BY <1>1, <3>1 DEF ToWrite
  <2>3. TypeOK'
    BY <1>0, <1>1, <1>2, <1>3, <2>1 DEF TypeOK, countVars, threadVars, outVars
  <2>4. CountInv'
    BY <1>0, <1>1, <1>2, <1>3, <2>1 DEF CountInv, Filling, countVars, threadVars
  <2>5. ThreadInv'
    BY <1>0, <1>1, <1>2, <1>3, <1>4, <2>1 DEF ThreadInv, Joined, countVars, threadVars
  <2>6. PhaseInv'
    BY <1>0, <1>1, <1>2, <1>3, <2>1, <2>2 DEF PhaseInv, countVars
  <2>7. GroupInv'
    BY <1>0, <1>1, <1>2, <2>1 DEF GroupInv, countVars, Writing
  <2>8. PlacesInv'
    BY <1>0, <1>1, <1>2, <2>1, SamePlaces DEF countVars, threadVars
  <2>9. HoldInv'
    BY <1>0, <1>1, <1>2, <2>1, HoldKept DEF bufferVars, countVars, threadVars
  <2> QED
    BY <1>5, <2>3, <2>4, <2>5, <2>6, <2>7, <2>8, <2>9, Zenon DEF OutIInv
<1> QED
  BY <1>6, <1>7

LEMMA OneWrittenSorted ==
  ASSUME OutIInv, OneWritten PROVE OutIInv'
<1>0. /\ TypeOK /\ CountInv /\ ThreadInv /\ HoldInv /\ PhaseInv /\ GroupInv /\ PlacesInv
      /\ OutputInv /\ FilesInv /\ SafeOutput /\ NoFilesLeft
  BY DEF OutIInv
<1>1. app = "one written" /\ app' = "open" /\ Joined /\ Writing /\ Writing'
  BY DEF OneWritten, Writing
<1>2. UNCHANGED <<config, process, todo, pending, bufferVars, countVars, threadVars,
                  result, left, at, skipped, tmp, gtmp, exist, outVars>>
  BY DEF OneWritten, destroyVars, fileVars
<1>3. ToWrite' = ToWrite /\ (Other(b))' = Other(b) /\ Content(name)' = Content(name)
  BY <1>0, <1>2, NameContent DEF ToWrite, Other, bufferVars, countVars, threadVars
<1>4. TypeOK'
  BY <1>0, <1>1, <1>2, <1>3 DEF TypeOK, bufferVars, countVars, threadVars, outVars
<1>5. CountInv'
  BY <1>0, <1>1, <1>2, <1>3 DEF CountInv, Filling, bufferVars, countVars, threadVars
<1>6. ThreadInv'
  BY <1>0, <1>1, <1>2, <1>3 DEF ThreadInv, Joined, bufferVars, countVars, threadVars
<1>7. config.large
  BY <1>0, <1>1 DEF PhaseInv
<1>8. PhaseInv'
  BY <1>0, <1>1, <1>2, <1>7 DEF PhaseInv, Joined, bufferVars, countVars, threadVars
<1>9. GroupInv'
  BY <1>0, <1>1, <1>2 DEF GroupInv, countVars, Writing
<1>10. PlacesInv'
  BY <1>0, <1>1, <1>2, SamePlaces DEF bufferVars, countVars, threadVars
<1>11. OutputInv' /\ FilesInv' /\ SafeOutput' /\ NoFilesLeft'
  BY <1>0, <1>1, <1>2, OutputUntouched, FilesKept DEF countVars
<1>h. HoldInv'
  BY <1>0, <1>1, <1>2, HoldKept DEF bufferVars, countVars, threadVars
<1> QED
  BY <1>4, <1>5, <1>6, <1>8, <1>9, <1>10, <1>11, <1>h, Zenon DEF OutIInv

\* What CountInv says, with its types.
LEMMA CountFacts ==
  ASSUME TypeOK, CountInv, Writing
  PROVE  /\ Cardinality(todo) \in Nat /\ Cardinality(ToWrite) \in Nat /\ Filling \in Nat
         /\ num_written \in Nat /\ num_group_written \in Nat
         /\ num_written + num_group_written + (IF thread \in {"sort", "name"} THEN 1 ELSE 0)
              + Filling + (IF pending = None THEN 0 ELSE 1) + Cardinality(todo)
              <= Cardinality(ToWrite)
<1>1. Cardinality(todo) \in Nat /\ Cardinality(ToWrite) \in Nat /\ Cardinality(buffer[b]) \in Nat
  BY Facts DEF TypeOK
<1>2. Filling \in Nat
  BY <1>1 DEF Filling
<1>3. num_written \in Nat /\ num_group_written \in Nat
  BY DEF TypeOK
<1> QED
  BY <1>1, <1>2, <1>3 DEF CountInv

\* There is a name left for what is still to be written.
LEMMA NameLeft ==
  ASSUME TypeOK, CountInv, Writing,
         pending # None \/ thread \in {"sort", "name"} \/ num_group_written > 0
  PROVE  num_written \in Files /\ num_group_written \in Files
<1>1. /\ Cardinality(todo) \in Nat /\ Cardinality(ToWrite) \in Nat /\ Cardinality(Records) \in Nat
      /\ Cardinality(ToWrite) <= Cardinality(Records) /\ Cardinality(buffer[b]) \in Nat
  BY Facts DEF TypeOK
<1>2. Filling \in Nat
  BY <1>1 DEF Filling
<1>3. num_written \in Nat /\ num_group_written \in Nat
  BY DEF TypeOK
<1>4. num_written + num_group_written + (IF thread \in {"sort", "name"} THEN 1 ELSE 0) + Filling
        + (IF pending = None THEN 0 ELSE 1) + Cardinality(todo) <= Cardinality(ToWrite)
  BY DEF CountInv
<1> QED
  BY <1>1, <1>2, <1>3, <1>4 DEF Files

\* Writing over a temporary file.
LEMMA WriteTmp ==
  ASSUME TypeOK, NEW i \in Files, NEW S \in FileType, WriteFile(<<"tmp", i>>, S)
  PROVE  /\ DOMAIN tmp' = Files /\ gtmp' = gtmp /\ tmp'[i] = S
         /\ \A j \in Files : tmp'[j] \in FileType /\ (j # i => tmp'[j] = tmp[j])
<1>1. tmp' = [tmp EXCEPT ![i] = S] /\ gtmp' = gtmp
  BY DEF WriteFile
<1>2. DOMAIN tmp = Files /\ \A j \in Files : tmp[j] \in FileType
  BY DEF TypeOK
<1> QED
  BY <1>1, <1>2

LEMMA WriteGtmp ==
  ASSUME TypeOK, NEW i \in Files, NEW S \in FileType, WriteFile(<<"gtmp", i>>, S)
  PROVE  /\ DOMAIN gtmp' = Files /\ tmp' = tmp /\ gtmp'[i] = S
         /\ \A j \in Files : gtmp'[j] \in FileType /\ (j # i => gtmp'[j] = gtmp[j])
<1>1. gtmp' = [gtmp EXCEPT ![i] = S] /\ tmp' = tmp
  BY DEF WriteFile
<1>2. DOMAIN gtmp = Files /\ \A j \in Files : gtmp[j] \in FileType
  BY DEF TypeOK
<1> QED
  BY <1>1, <1>2

\* Of what is on disk, a file that is written changes itself only.
LEMMA FileWritten ==
  ASSUME TypeOK, NEW n \in {"tmp", "gtmp"} \X Nat, NEW S \in FileType, WriteFile(n, S)
  PROVE  /\ DOMAIN tmp' = Files /\ DOMAIN gtmp' = Files
         /\ \A i \in Files : tmp'[i] \in FileType /\ gtmp'[i] \in FileType
         /\ exist' = exist \cup {n}
         /\ exist' \subseteq ({"tmp", "gtmp"} \X Nat) \cup {Final}
         /\ Final \in exist' <=> Final \in exist
         /\ \A m \in Name : FileOf(m)' = IF m = n THEN S ELSE FileOf(m)
<1>1. PICK k \in Nat : n = <<"tmp", k>> \/ n = <<"gtmp", k>>
  OBVIOUS
<1>2. /\ DOMAIN tmp = Files /\ DOMAIN gtmp = Files
      /\ \A i \in Files : tmp[i] \in FileType /\ gtmp[i] \in FileType
      /\ exist \subseteq ({"tmp", "gtmp"} \X Nat) \cup {Final}
  BY DEF TypeOK
<1>3. exist' = exist \cup {n} /\ n # Final
  BY <1>1 DEF WriteFile, Final
<1>4. CASE n = <<"tmp", k>>
  <2>1. tmp' = [tmp EXCEPT ![k] = S] /\ gtmp' = gtmp
    BY <1>4 DEF WriteFile
  <2>2. ASSUME NEW m \in Name PROVE FileOf(m)' = IF m = n THEN S ELSE FileOf(m)
    <3>1. PICK i \in Files : m = <<"tmp", i>> \/ m = <<"gtmp", i>>
      BY DEF Name
    <3> QED
      BY <1>2, <1>4, <2>1, <3>1 DEF FileOf
  <2> QED
    BY <1>2, <1>3, <2>1, <2>2
<1>5. CASE n = <<"gtmp", k>>
  <2>1. gtmp' = [gtmp EXCEPT ![k] = S] /\ tmp' = tmp
    BY <1>5 DEF WriteFile
  <2>2. ASSUME NEW m \in Name PROVE FileOf(m)' = IF m = n THEN S ELSE FileOf(m)
    <3>1. PICK i \in Files : m = <<"tmp", i>> \/ m = <<"gtmp", i>>
      BY DEF Name
    <3> QED
      BY <1>2, <1>5, <2>1, <3>1 DEF FileOf
  <2> QED
    BY <1>2, <1>3, <2>1, <2>2
<1> QED
  BY <1>1, <1>4, <1>5

\* The names of the files that are counted exist.
NamesExist ==
  \A i \in Files : /\ i < num_written => <<"tmp", i>> \in exist
                   /\ i < num_group_written => <<"gtmp", i>> \in exist

\* A file whose name follows on others is written.
LEMMA FilesWritten ==
  ASSUME FilesInv, Complete, Writing, Writing', UNCHANGED <<process, left>>, NamesExist',
         NEW n \in Name, NEW S, Past(S), exist \subseteq exist',
         \A j \in 0 .. n[2] : <<n[1], j>> \in exist',
         \A m \in Name : FileOf(m)' = IF m = n THEN S ELSE FileOf(m)
  PROVE  FilesInv'
<1>1. ASSUME NEW m \in Name PROVE Past(FileOf(m))'
  <2>1. Past(FileOf(m))
    BY DEF FilesInv
  <2> QED
    BY <2>1 DEF Past
<1>2. ASSUME NEW m \in Name, Wrote(m, process)' PROVE \A j \in 0 .. m[2] : <<m[1], j>> \in exist'
  <2>1. CASE m = n
    BY <2>1
  <2>2. CASE m # n
    <3>1. Wrote(m, process)
      BY <1>2, <2>2 DEF Wrote
    <3>2. app \notin {"remove", "closed"}
      BY DEF Writing
    <3>3. \A j \in 0 .. m[2] : <<m[1], j>> \in exist
      BY <3>1, <3>2 DEF FilesInv
    <3> QED
      BY <3>3
  <2> QED
    BY <2>1, <2>2
<1>3. app' # "remove"
  BY DEF Writing
<1> QED
  BY <1>1, <1>2, <1>3 DEF FilesInv, NamesExist

\* What is written came from this process.
LEMMA PlacePast ==
  ASSUME TypeOK, PlacesInv, Writing
  PROVE  /\ \A p \in Place : Past(Content(p))
         /\ Past(taken) /\ \A i \in 1 .. 2 : Past(buffer[i])
<1>0. process \in Nat
  BY DEF TypeOK, Process
<1>1. ASSUME NEW p \in Place PROVE Past(Content(p))
  <2>1. UNION Content(p) \subseteq {process} \X (ToWrite \ todo)
    BY PlaceFacts
  <2> QED
    BY <1>0, <2>1 DEF Past
<1>2. Past(taken)
  <2>1. Past(Content(<<"taken", 0>>)) /\ Content(<<"taken", 0>>) = taken
    BY <1>1, ContentCases
  <2> QED
    BY <2>1 DEF Past
<1>3. ASSUME NEW i \in 1 .. 2 PROVE Past(buffer[i])
  <2>1. Past(Content(<<"buffer", i>>)) /\ Content(<<"buffer", i>>) = buffer[i]
    BY <1>1, ContentCases
  <2> QED
    BY <2>1 DEF Past
<1> QED
  BY <1>1, <1>2, <1>3

\* The file that is written next.
NextFile == NextName(FALSE)

\* Either a file of the group or another is named, and it holds S.
Named(S) ==
  \/ /\ group > 0 /\ NextFile = <<"gtmp", num_group_written>> /\ num_group_written \in Files
     /\ num_group_written' = num_group_written + 1 /\ num_written' = num_written
     /\ DOMAIN gtmp' = Files /\ tmp' = tmp /\ gtmp'[num_group_written] = S
     /\ \A j \in Files : gtmp'[j] \in FileType /\ (j # num_group_written => gtmp'[j] = gtmp[j])
  \/ /\ group = 0 /\ NextFile = <<"tmp", num_written>> /\ num_written \in Files
     /\ num_written' = num_written + 1 /\ num_group_written' = num_group_written
     /\ DOMAIN tmp' = Files /\ gtmp' = gtmp /\ tmp'[num_written] = S
     /\ \A j \in Files : tmp'[j] \in FileType /\ (j # num_written => tmp'[j] = tmp[j])

LEMMA NamedLemma ==
  ASSUME TypeOK, CountInv, Writing, pending # None \/ thread \in {"sort", "name"},
         NEW S \in FileType, WriteFile(NextFile, S), CountName(FALSE)
  PROVE  Named(S)
<1>1. /\ num_written \in Files /\ num_group_written \in Files /\ group \in Nat
  BY NameLeft DEF TypeOK
<1>2. CASE group > 0
  <2>1. NextFile = <<"gtmp", num_group_written>>
    BY <1>2 DEF NextName, NextFile
  <2>2. WriteFile(<<"gtmp", num_group_written>>, S)
    BY <2>1, Zenon
  <2>3. num_group_written' = num_group_written + 1 /\ num_written' = num_written
    BY <1>2 DEF CountName
  <2> QED
    BY <1>1, <1>2, <2>1, <2>2, <2>3, WriteGtmp DEF Named
<1>3. CASE group = 0
  <2>1. NextFile = <<"tmp", num_written>>
    BY <1>3 DEF NextName, NextFile
  <2>2. WriteFile(<<"tmp", num_written>>, S)
    BY <2>1, Zenon
  <2>3. num_written' = num_written + 1 /\ num_group_written' = num_group_written
    BY <1>3 DEF CountName
  <2> QED
    BY <1>1, <1>3, <2>1, <2>2, <2>3, WriteTmp DEF Named
<1> QED
  BY <1>1, <1>2, <1>3

\* What the next name stands for, before and after.
LEMMA NamedPlaces ==
  ASSUME TypeOK, NEW S, Named(S), NEW p, p = NextFile
  PROVE  /\ p \in Name /\ p \in Place /\ Content(p) = {} /\ Content(p)' = S
         /\ \A q \in Name : q # p => Content(q)' = Content(q)
<1>0. num_written \in Nat /\ num_group_written \in Nat
  BY DEF TypeOK
<1>g. group \in Nat
  BY DEF TypeOK
<1>1. CASE group > 0
  <2>1. /\ p = <<"gtmp", num_group_written>> /\ num_group_written \in Files
        /\ num_group_written' = num_group_written + 1 /\ num_written' = num_written
        /\ tmp' = tmp /\ gtmp'[num_group_written] = S
        /\ \A j \in Files : j # num_group_written => gtmp'[j] = gtmp[j]
    BY <1>1, <1>g DEF Named
  <2>2. Content(p) = {} /\ Content(p)' = S
    <3>1. num_group_written < num_group_written' /\ ~(num_group_written < num_group_written)
      BY <1>0, <2>1
    <3> QED
      BY <2>1, <3>1, ContentCases, ContentCasesNext
  <2>3. ASSUME NEW q \in Name, q # p PROVE Content(q)' = Content(q)
    <3>1. PICK i \in Files : q = <<"tmp", i>> \/ q = <<"gtmp", i>>
      BY DEF Name
    <3>2. CASE q = <<"tmp", i>>
      BY <2>1, <3>2, ContentCases, ContentCasesNext
    <3>3. CASE q = <<"gtmp", i>>
      <4>1. i # num_group_written
        BY <2>1, <2>3, <3>3
      <4>n. i \in Nat
        BY DEF Files
      <4>2. gtmp'[i] = gtmp[i] /\ (i < num_group_written' <=> i < num_group_written)
        BY <1>0, <2>1, <4>1, <4>n
      <4> QED
        BY <3>3, <4>2, ContentCases, ContentCasesNext
    <3> QED
      BY <3>1, <3>2, <3>3
  <2>4. p \in Name /\ p \in Place
    BY <2>1 DEF Name, Place
  <2> QED
    BY <2>2, <2>3, <2>4
<1>2. CASE ~(group > 0)
  <2>1. /\ p = <<"tmp", num_written>> /\ num_written \in Files
        /\ num_written' = num_written + 1 /\ num_group_written' = num_group_written
        /\ gtmp' = gtmp /\ tmp'[num_written] = S
        /\ \A j \in Files : j # num_written => tmp'[j] = tmp[j]
    BY <1>2 DEF Named
  <2>2. Content(p) = {} /\ Content(p)' = S
    <3>1. num_written < num_written' /\ ~(num_written < num_written)
      BY <1>0, <2>1
    <3> QED
      BY <2>1, <3>1, ContentCases, ContentCasesNext
  <2>3. ASSUME NEW q \in Name, q # p PROVE Content(q)' = Content(q)
    <3>1. PICK i \in Files : q = <<"tmp", i>> \/ q = <<"gtmp", i>>
      BY DEF Name
    <3>2. CASE q = <<"gtmp", i>>
      BY <2>1, <3>2, ContentCases, ContentCasesNext
    <3>3. CASE q = <<"tmp", i>>
      <4>1. i # num_written
        BY <2>1, <2>3, <3>3
      <4>n. i \in Nat
        BY DEF Files
      <4>2. tmp'[i] = tmp[i] /\ (i < num_written' <=> i < num_written)
        BY <1>0, <2>1, <4>1, <4>n
      <4> QED
        BY <3>3, <4>2, ContentCases, ContentCasesNext
    <3> QED
      BY <3>1, <3>2, <3>3
  <2>4. p \in Name /\ p \in Place
    BY <2>1 DEF Name, Place
  <2> QED
    BY <2>2, <2>3, <2>4
<1> QED
  BY <1>1, <1>2

\* Naming a file keeps the names without a gap.
LEMMA NamedFiles ==
  ASSUME TypeOK, FilesInv, Complete, Writing, Writing', UNCHANGED <<process, left>>,
         NEW S \in FileType, Past(S), Named(S), WriteFile(NextFile, S)
  PROVE  /\ FilesInv' /\ (Final \in exist' <=> Final \in exist)
         /\ exist' \subseteq ({"tmp", "gtmp"} \X Nat) \cup {Final}
         /\ DOMAIN tmp' = Files /\ DOMAIN gtmp' = Files
         /\ \A i \in Files : tmp'[i] \in FileType /\ gtmp'[i] \in FileType
<1> DEFINE n == NextFile
<1>0. num_written \in Nat /\ num_group_written \in Nat
  BY DEF TypeOK
<1>1. n \in Name
  BY NamedPlaces
<1>2. n \in {"tmp", "gtmp"} \X Nat
  <2>1. Files \subseteq Nat
    BY DEF Files
  <2> QED
    BY <1>1, <2>1 DEF Name
<1>3. NamesExist
  BY DEF FilesInv, NamesExist
<1>4. \/ /\ n = <<"gtmp", num_group_written>> /\ num_group_written \in Files
         /\ num_group_written' = num_group_written + 1 /\ num_written' = num_written
      \/ /\ n = <<"tmp", num_written>> /\ num_written \in Files
         /\ num_written' = num_written + 1 /\ num_group_written' = num_group_written
  BY DEF Named
<1>w. WriteFile(n, S)
  OBVIOUS
<1> HIDE DEF n
<1>5. /\ DOMAIN tmp' = Files /\ DOMAIN gtmp' = Files
      /\ \A i \in Files : tmp'[i] \in FileType /\ gtmp'[i] \in FileType
      /\ exist' = exist \cup {n}
      /\ exist' \subseteq ({"tmp", "gtmp"} \X Nat) \cup {Final}
      /\ Final \in exist' <=> Final \in exist
      /\ \A m \in Name : FileOf(m)' = IF m = n THEN S ELSE FileOf(m)
  BY <1>2, <1>w, FileWritten
<1>6. NamesExist'
  <2> SUFFICES ASSUME NEW i \in Files
               PROVE  /\ i < num_written' => <<"tmp", i>> \in exist'
                      /\ i < num_group_written' => <<"gtmp", i>> \in exist'
    BY DEF NamesExist
  <2>1. i \in Nat
    BY DEF Files
  <2>2. i < num_written => <<"tmp", i>> \in exist
    BY <1>3 DEF NamesExist
  <2>3. i < num_group_written => <<"gtmp", i>> \in exist
    BY <1>3 DEF NamesExist
  <2>4. i < num_written' => i < num_written \/ n = <<"tmp", i>>
    BY <1>0, <1>4, <2>1
  <2>5. i < num_group_written' => i < num_group_written \/ n = <<"gtmp", i>>
    BY <1>0, <1>4, <2>1
  <2> QED
    BY <1>5, <2>2, <2>3, <2>4, <2>5
<1>7. ASSUME NEW j \in 0 .. n[2] PROVE <<n[1], j>> \in exist'
  <2>1. Cardinality(Records) \in Nat
    BY Facts
  <2>2. CASE n = <<"gtmp", num_group_written>> /\ num_group_written \in Files
    <3>1. j \in Files /\ (j < num_group_written \/ j = num_group_written)
      BY <1>0, <2>1, <2>2 DEF Files
    <3> QED
      BY <1>3, <1>5, <2>2, <3>1 DEF NamesExist
  <2>3. CASE n = <<"tmp", num_written>> /\ num_written \in Files
    <3>1. j \in Files /\ (j < num_written \/ j = num_written)
      BY <1>0, <2>1, <2>3 DEF Files
    <3> QED
      BY <1>3, <1>5, <2>3, <3>1 DEF NamesExist
  <2> QED
    BY <1>4, <2>2, <2>3
<1>8. FilesInv'
  BY <1>1, <1>5, <1>6, <1>7, FilesWritten
<1> QED
  BY <1>5, <1>8

LEMMA WriteOneSorted ==
  ASSUME OutIInv, WriteOne PROVE OutIInv'
<1>0. /\ TypeOK /\ CountInv /\ ThreadInv /\ HoldInv /\ PhaseInv /\ GroupInv /\ PlacesInv
      /\ OutputInv /\ FilesInv /\ SafeOutput /\ NoFilesLeft
  BY DEF OutIInv
<1>1. /\ app = "one" /\ app' = "one written" /\ Joined /\ thread' = "merge" /\ Writing /\ Writing'
      /\ pending # None /\ pending \in Item /\ pending' = None /\ config.large
      /\ pending \in {process} \X ToWrite
  BY <1>0 DEF WriteOne, Writing, PhaseInv, TypeOK
<1>2. UNCHANGED <<config, process, todo, bufferVars, group, taken, source, name,
                  result, left, at, skipped, outVars>>
  BY DEF WriteOne, destroyVars
<1>3. ToWrite' = ToWrite /\ (Other(b))' = Other(b)
  BY <1>2 DEF ToWrite, Other, bufferVars
<1>4. num_written \in Nat /\ num_group_written \in Nat /\ group \in Nat /\ process \in Nat
  BY <1>0 DEF TypeOK, Process
<1>5. {{pending}} \in FileType /\ Past({{pending}})
  <2>1. UNION {{pending}} = {pending} /\ pending[1] = process
    BY <1>1
  <2>2. pending[1] <= process
    BY <1>4, <2>1
  <2>3. \A i \in UNION {{pending}} : i[1] <= process
    BY <2>1, <2>2
  <2>4. {{pending}} \in FileType
    BY <1>1 DEF FileType
  <2> QED
    BY <2>3, <2>4 DEF Past
<1>6. WriteFile(NextFile, {{pending}}) /\ CountName(FALSE)
  BY Zenon DEF WriteOne, NextFile
<1>7. Named({{pending}})
  BY <1>0, <1>1, <1>5, <1>6, NamedLemma
<1>8. /\ FilesInv' /\ (Final \in exist' <=> Final \in exist)
      /\ exist' \subseteq ({"tmp", "gtmp"} \X Nat) \cup {Final}
      /\ DOMAIN tmp' = Files /\ DOMAIN gtmp' = Files
      /\ \A i \in Files : tmp'[i] \in FileType /\ gtmp'[i] \in FileType
  <2>1. Complete
    BY <1>0, <1>1 DEF OutputInv
  <2> QED
    BY <1>0, <1>1, <1>2, <1>5, <1>6, <1>7, <2>1, NamedFiles
<1>9. \/ group > 0 /\ num_group_written' = num_group_written + 1 /\ num_written' = num_written
      \/ group = 0 /\ num_written' = num_written + 1 /\ num_group_written' = num_group_written
  BY <1>7 DEF Named
<1>10. TypeOK'
  <2>1. num_written' \in Nat /\ num_group_written' \in Nat
    BY <1>4, <1>9
  <2> QED
    BY <1>0, <1>1, <1>2, <1>3, <1>8, <2>1 DEF TypeOK, bufferVars, outVars
<1>11. CountInv'
  <2>1. Filling' = Filling
    BY <1>1, <1>2 DEF Filling, bufferVars, Joined
  <2>2. todo' = todo /\ thread \notin {"sort", "name"} /\ thread' \notin {"sort", "name"}
    BY <1>1, <1>2 DEF Joined
  <2>3. /\ Cardinality(todo) \in Nat /\ Cardinality(ToWrite) \in Nat /\ Filling \in Nat
        /\ num_written + num_group_written + 0 + Filling + 1 + Cardinality(todo)
             <= Cardinality(ToWrite)
    BY <1>0, <1>1, <2>2, CountFacts
  <2>4. num_written' + num_group_written' + 0 + Filling' + 0 + Cardinality(todo')
             <= Cardinality(ToWrite')
    BY <1>3, <1>4, <1>9, <2>1, <2>2, <2>3
  <2> QED
    BY <1>1, <2>2, <2>4 DEF CountInv
<1>12. ThreadInv'
  BY <1>0, <1>1, <1>2, <1>3 DEF ThreadInv, Joined, bufferVars
<1>13. PhaseInv'
  BY <1>0, <1>1, <1>2 DEF PhaseInv, Joined, bufferVars
<1>14. GroupInv'
  <2>1. group = 0 => num_group_written' = 0
    <3>1. group = 0 => num_group_written = 0
      BY <1>0, <1>1 DEF GroupInv
    <3> QED
      BY <1>4, <1>9, <3>1
  <2> QED
    BY <1>0, <1>1, <1>2, <2>1 DEF GroupInv
<1>15. PICK p \in Place : p = NextFile
  BY <1>0, <1>7, NamedPlaces
<1>16. /\ p \in Name /\ Content(p) = {} /\ Content(p)' = {{pending}}
       /\ \A q \in Name : q # p => Content(q)' = Content(q)
  BY <1>0, <1>7, <1>15, NamedPlaces
<1>17. HoldInv'
  BY <1>1, <1>16 DEF HoldInv
<1>18. PlacesInv'
  <2>2. PICK e \in Place : e = <<"pending", 0>>
    BY ContentCases
  <2>3. Content(e) = {{pending}} /\ Content(e)' = {} /\ p # e
    <3>1. p # <<"pending", 0>>
      BY <1>16 DEF Name
    <3> QED
      BY <1>1, <2>2, <3>1, ContentCases, ContentCasesNext
  <2>4. ASSUME NEW q \in Place, q # p, q # e PROVE Content(q)' = Content(q)
    <3>1. CASE \E i \in 1 .. 2 : q = <<"buffer", i>>
      BY <1>2, <3>1, ContentCases, ContentCasesNext DEF bufferVars
    <3>2. CASE q = <<"taken", 0>>
      BY <1>2, <3>2, ContentCases, ContentCasesNext
    <3>3. CASE q \in Name
      BY <1>16, <2>4, <3>3
    <3> QED
      BY <2>2, <2>4, <3>1, <3>2, <3>3 DEF Place
  <2>5. Moves(p, {e}, {})
    <3>1. IsFile(Content(p)')
      <4>1. IsFile({{pending}})
        BY OneRecord
      <4> QED
        BY <1>16, <4>1, Zenon
    <3>2. UNION Content(p)' = {} \cup (UNION Content(p)) \cup UNION {UNION Content(q) : q \in {e}}
      BY <1>16, <2>3, ZenonT(60)
    <3>3. {process} \X (ToWrite \ todo') = ({process} \X (ToWrite \ todo)) \cup {}
          /\ {} \cap ({process} \X (ToWrite \ todo)) = {}
      BY <1>2
    <3>4. \A q \in {e} : q # p => Content(q)' = {}
      BY <2>3
    <3>5. UNCHANGED <<config, process>>
      BY <1>2
    <3> QED
      BY <2>4, <3>1, <3>2, <3>3, <3>4, <3>5 DEF Moves
  <2> QED
    BY <1>0, <1>1, <2>5, MovedPlaces
<1>19. OutputInv' /\ SafeOutput' /\ NoFilesLeft'
  BY <1>0, <1>1, <1>2, <1>8, OutputUntouched
<1> QED
  BY <1>8, <1>10, <1>11, <1>12, <1>13, <1>14, <1>17, <1>18, <1>19, Zenon DEF OutIInv

LEMMA ThreadSortSorted ==
  ASSUME OutIInv, Writing, ThreadSort PROVE OutIInv'
<1>0. /\ TypeOK /\ CountInv /\ ThreadInv /\ HoldInv /\ PhaseInv /\ GroupInv /\ PlacesInv
      /\ OutputInv /\ FilesInv /\ SafeOutput /\ NoFilesLeft
  BY DEF OutIInv
<1>1. /\ thread = "sort" /\ thread' = "name" /\ taken = {} /\ ~Joined /\ Writing
      /\ source = (IF config.extra THEN Other(b) ELSE b)
      /\ (config.extra \/ app \in {"retry", "one written", "last written"})
  BY <1>0 DEF ThreadSort, Joined, ThreadInv
<1>2. UNCHANGED <<config, process, app, todo, pending, b, freed, countVars, source, name,
                  result, left, at, skipped, tmp, gtmp, exist, outVars>>
  BY DEF ThreadSort, destroyVars, fileVars
<1>3. ToWrite' = ToWrite /\ (Other(b))' = Other(b) /\ Other(b) \in 1 .. 2 /\ Other(b) # b /\ Writing'
      /\ b \in 1 .. 2 /\ source \in 1 .. 2
  BY <1>0, <1>1, <1>2, Facts DEF ToWrite, Other, Writing, TypeOK
<1>4. /\ DOMAIN buffer' = 1 .. 2 /\ buffer'[source] = {}
      /\ \A i \in 1 .. 2 : i # source => buffer'[i] = buffer[i]
      /\ taken' = ReduceRecords(buffer[source])
  BY <1>0, <1>3 DEF ThreadSort, TypeOK
<1>5. IsFile(buffer[source]) /\ buffer[source] \in FileType
  <2>1. PICK s \in Place : s = <<"buffer", source>>
    BY <1>3, ContentCases
  <2>2. Content(s) = buffer[source]
    BY <1>3, <2>1, ContentCases
  <2>3. IsFile(Content(s))
    BY <1>0, <1>1, PlaceFacts
  <2>4. IsFile(buffer[source])
    BY <2>2, <2>3, Zenon
  <2> QED
    BY <1>0, <1>3, <2>4 DEF TypeOK
<1>6. IsFile(taken') /\ UNION taken' = UNION buffer[source] /\ taken' \in FileType /\ taken' # {}
  <2>0. buffer[source] # {}
    BY <1>0, <1>1 DEF HoldInv
  <2>1. IsFile(ReduceRecords(buffer[source])) /\ ReduceRecords(buffer[source]) \in FileType
        /\ ReduceRecords(buffer[source]) # {}
        /\ UNION ReduceRecords(buffer[source]) = UNION buffer[source]
    BY <1>5, <2>0, ReduceLemma, ReduceType, Zenon
  <2> QED
    BY <1>4, <2>1, Zenon
<1>7. TypeOK'
  <2>1. Cardinality({}) = 0 /\ {} \in FileType /\ config.capacity \in Nat
    BY <1>0, FS_EmptySet, Facts DEF FileType
  <2>2. \A i \in 1 .. 2 : buffer'[i] \in FileType /\ Cardinality(buffer'[i]) <= config.capacity
    <3>1. \A i \in 1 .. 2 : buffer[i] \in FileType /\ Cardinality(buffer[i]) <= config.capacity
      BY <1>0 DEF TypeOK
    <3> QED
      BY <1>4, <2>1, <3>1
  <2> QED
    BY <1>0, <1>1, <1>2, <1>3, <1>4, <1>6, <2>2 DEF TypeOK, countVars, outVars
<1>8. CountInv'
  <2>1. Cardinality(todo) \in Nat /\ Cardinality(ToWrite) \in Nat /\ Cardinality(buffer[b]) \in Nat
    BY <1>0, Facts DEF TypeOK
  <2>2. Filling' = Filling
    BY <1>1, <1>2, <1>3, <1>4, FS_EmptySet DEF Filling
  <2> QED
    BY <1>0, <1>1, <1>2, <1>3, <2>1, <2>2 DEF CountInv, TypeOK, countVars
<1>9. ThreadInv'
  BY <1>0, <1>1, <1>2, <1>3, <1>4 DEF ThreadInv, Joined
<1>10. PhaseInv'
  <2>1. ~config.extra => buffer'[b] = {}
    BY <1>1, <1>4
  <2>2. config.extra => buffer'[b] = buffer[b]
    BY <1>1, <1>3, <1>4
  <2>3. NothingNamed' = NothingNamed
    BY <1>2 DEF NothingNamed, countVars
  <2> QED
    BY <1>0, <1>1, <1>2, <1>3, <2>1, <2>2, <2>3 DEF PhaseInv, Joined, countVars
<1>11. GroupInv'
  BY <1>0, <1>1, <1>2, <1>3, <1>4 DEF GroupInv, Joined, countVars
<1>12. PlacesInv'
  <2>1. PICK p \in Place : p = <<"taken", 0>>
    BY ContentCases
  <2>2. PICK e \in Place : e = <<"buffer", source>>
    BY <1>3, ContentCases
  <2>3. Content(p) = {} /\ Content(p)' = taken' /\ Content(e) = buffer[source]
        /\ Content(e)' = {} /\ p # e
    BY <1>1, <1>3, <1>4, <2>1, <2>2, ContentCases, ContentCasesNext
  <2>4. ASSUME NEW q \in Place, q # p, q # e PROVE Content(q)' = Content(q)
    <3>1. CASE \E i \in 1 .. 2 : q = <<"buffer", i>>
      BY <1>4, <2>2, <2>4, <3>1, ContentCases, ContentCasesNext
    <3>2. CASE q = <<"pending", 0>>
      BY <1>2, <3>2, ContentCases, ContentCasesNext
    <3>3. CASE \E i \in Files : q = <<"tmp", i>> \/ q = <<"gtmp", i>>
      BY <1>2, <3>3, ContentCases, ContentCasesNext DEF countVars
    <3> QED
      BY <2>1, <2>4, <3>1, <3>2, <3>3, PlaceCases
  <2>5. Moves(p, {e}, {})
    <3>1. IsFile(Content(p)')
      BY <1>6, <2>3, Zenon
    <3>2. UNION Content(p)' = {} \cup (UNION Content(p)) \cup UNION {UNION Content(q) : q \in {e}}
      BY <1>6, <2>3
    <3>3. {process} \X (ToWrite \ todo') = ({process} \X (ToWrite \ todo)) \cup {}
          /\ {} \cap ({process} \X (ToWrite \ todo)) = {}
      BY <1>2
    <3>4. \A q \in {e} : q # p => Content(q)' = {}
      BY <2>3
    <3>5. UNCHANGED <<config, process>>
      BY <1>2
    <3> QED
      BY <2>4, <3>1, <3>2, <3>3, <3>4, <3>5 DEF Moves
  <2> QED
    BY <1>0, <1>1, <2>5, MovedPlaces
<1>13. OutputInv' /\ FilesInv' /\ SafeOutput' /\ NoFilesLeft'
  BY <1>0, <1>1, <1>2, <1>3, OutputUntouched, FilesKept DEF countVars
<1>14. HoldInv'
  BY <1>1, <1>6 DEF HoldInv
<1> QED
  BY <1>7, <1>8, <1>9, <1>10, <1>11, <1>12, <1>13, <1>14, Zenon DEF OutIInv

LEMMA ThreadNameSorted ==
  ASSUME OutIInv, Writing, ThreadName PROVE OutIInv'
<1>0. /\ TypeOK /\ CountInv /\ ThreadInv /\ HoldInv /\ PhaseInv /\ GroupInv /\ PlacesInv
      /\ OutputInv /\ FilesInv /\ SafeOutput /\ NoFilesLeft
  BY DEF OutIInv
<1>1. /\ thread = "name" /\ thread' = "write" /\ ~Joined /\ Writing
      /\ (config.extra \/ app \in {"retry", "one written", "last written"})
  BY <1>0 DEF ThreadName, Joined, ThreadInv
<1>2. UNCHANGED <<config, process, app, todo, pending, bufferVars, group, taken, source,
                  result, left, at, skipped, outVars>>
  BY DEF ThreadName, destroyVars, fileVars
<1>3. ToWrite' = ToWrite /\ (Other(b))' = Other(b) /\ Writing' /\ Filling' = Filling
  BY <1>1, <1>2 DEF ToWrite, Other, Writing, bufferVars, Filling
<1>4. num_written \in Nat /\ num_group_written \in Nat /\ group \in Nat
  BY <1>0 DEF TypeOK
<1>s. {} \in FileType /\ Past({})
  BY DEF FileType, Past
<1>w. name' = NextFile /\ WriteFile(NextFile, {}) /\ CountName(FALSE)
  <2>1. name' = NextName(FALSE) /\ WriteFile(name', {}) /\ CountName(FALSE)
    BY Zenon DEF ThreadName
  <2> QED
    BY <2>1, Zenon DEF NextFile
<1>5. Named({})
  BY <1>0, <1>1, <1>s, <1>w, NamedLemma
<1>f. /\ FilesInv' /\ (Final \in exist' <=> Final \in exist)
      /\ exist' \subseteq ({"tmp", "gtmp"} \X Nat) \cup {Final}
      /\ DOMAIN tmp' = Files /\ DOMAIN gtmp' = Files
      /\ \A i \in Files : tmp'[i] \in FileType /\ gtmp'[i] \in FileType
  <2>1. Complete
    BY <1>0, <1>1 DEF OutputInv
  <2> QED
    BY <1>0, <1>1, <1>2, <1>3, <1>s, <1>w, <1>5, <2>1, NamedFiles
<1>p. PICK p \in Place : p = NextFile
  BY <1>0, <1>5, NamedPlaces
<1>q. p \in Name /\ Content(p) = {} /\ Content(p)' = {}
  BY <1>0, <1>5, <1>p, NamedPlaces
<1>o. /\ p \in {"tmp", "gtmp"} \X Nat /\ name' = p
      /\ \/ p = <<"tmp", num_written' - 1>> /\ num_written' > 0
         \/ p = <<"gtmp", num_group_written' - 1>> /\ num_group_written' > 0
  <2>1. \/ p = <<"tmp", num_written>> /\ num_written' = num_written + 1
        \/ p = <<"gtmp", num_group_written>> /\ num_group_written' = num_group_written + 1
    BY <1>5, <1>p DEF Named
  <2>2. CASE p = <<"tmp", num_written>> /\ num_written' = num_written + 1
    <3>1. num_written' - 1 = num_written /\ num_written' > 0
      BY <1>4, <2>2
    <3> QED
      BY <1>4, <1>w, <1>p, <2>2, <3>1
  <2>3. CASE p = <<"gtmp", num_group_written>> /\ num_group_written' = num_group_written + 1
    <3>1. num_group_written' - 1 = num_group_written /\ num_group_written' > 0
      BY <1>4, <2>3
    <3> QED
      BY <1>4, <1>w, <1>p, <2>3, <3>1
  <2> QED
    BY <2>1, <2>2, <2>3
<1>6. TypeOK'
  <2>1. /\ num_written' \in Nat /\ num_group_written' \in Nat
    BY <1>4, <1>5 DEF Named
  <2> QED
    BY <1>0, <1>1, <1>2, <1>3, <1>f, <1>o, <2>1 DEF TypeOK, bufferVars, outVars
<1>7. num_written' + num_group_written' = num_written + num_group_written + 1
      /\ num_written' \in Nat /\ num_group_written' \in Nat
  BY <1>4, <1>5 DEF Named
<1>n. num_written \in Nat /\ num_group_written \in Nat /\ group \in Nat
  BY <1>4
<1>m. \/ group > 0 /\ num_group_written' = num_group_written + 1 /\ num_written' = num_written
      \/ group = 0 /\ num_written' = num_written + 1 /\ num_group_written' = num_group_written
  BY <1>5 DEF Named
<1>8. CountInv'
  <2>1. todo' = todo /\ pending' = pending /\ Cardinality(ToWrite') = Cardinality(ToWrite)
        /\ Filling' = Filling
    BY <1>2, <1>3
  <2>2. PICK e \in Nat : e = IF pending = None THEN 0 ELSE 1
    OBVIOUS
  <2>3. /\ Cardinality(todo) \in Nat /\ Cardinality(ToWrite) \in Nat /\ Filling \in Nat
        /\ num_written + num_group_written + 1 + Filling + e + Cardinality(todo)
             <= Cardinality(ToWrite)
    BY <1>0, <1>1, <2>2, CountFacts
  <2>4. num_written' + num_group_written' + 0 + Filling' + e + Cardinality(todo')
             <= Cardinality(ToWrite')
    BY <1>n, <1>m, <2>1, <2>3
  <2> QED
    BY <1>1, <2>1, <2>2, <2>4 DEF CountInv
<1>9. Content(name)' = {}
  BY <1>o, <1>q, Zenon DEF Content
<1>10. ThreadInv'
  BY <1>0, <1>1, <1>2, <1>3, <1>9, <1>o, <1>q DEF ThreadInv, Joined, bufferVars
<1>11. PhaseInv'
  <2>1. ~NothingNamed'
    BY <1>n, <1>m DEF NothingNamed
  <2> QED
    BY <1>0, <1>1, <1>2, <1>3, <2>1 DEF PhaseInv, Joined, bufferVars
<1>12. GroupInv'
  <2>1. group = 0 => num_group_written' = 0
    <3>1. group = 0 => num_group_written = 0
      BY <1>0 DEF GroupInv
    <3> QED
      BY <1>n, <1>m, <3>1
  <2>2. app = "last written" => group <= num_group_written'
    <3>1. app = "last written" /\ group > 0 => group <= num_group_written + 1
      BY <1>0, <1>1 DEF GroupInv
    <3>2. CASE group > 0
      <4>1. num_group_written' = num_group_written + 1
        BY <1>n, <1>m, <3>2
      <4> QED
        BY <3>1, <3>2, <4>1
    <3>3. CASE group = 0
      <4>1. num_group_written' = 0
        BY <2>1, <3>3
      <4>2. group <= num_group_written'
        BY <1>n, <3>3, <4>1
      <4> QED
        BY <4>2
    <3>4. group > 0 \/ group = 0
      BY <1>n
    <3> QED
      BY <3>2, <3>3, <3>4
  <2> QED
    BY <1>0, <1>1, <1>2, <1>3, <2>1, <2>2 DEF GroupInv, Joined
<1>13. PlacesInv'
  <2>1. ASSUME NEW i \in Files
        PROVE  (IF i < num_written' THEN tmp'[i] ELSE {}) = IF i < num_written THEN tmp[i] ELSE {}
    <3>1. i \in Nat
      BY DEF Files
    <3>2. i # num_written => (i < num_written' <=> i < num_written)
      BY <1>n, <1>m, <3>1
    <3>3. i = num_written => ~(i < num_written)
      BY <1>n
    <3>4. tmp'[i] = tmp[i] \/ (tmp'[i] = {} /\ i = num_written)
      BY <1>5 DEF Named
    <3>5. i < num_written' /\ i = num_written => tmp'[i] = {}
      BY <1>n, <1>5 DEF Named
    <3> QED
      BY <3>2, <3>3, <3>4, <3>5
  <2>2. ASSUME NEW i \in Files
        PROVE  (IF i < num_group_written' THEN gtmp'[i] ELSE {})
                 = IF i < num_group_written THEN gtmp[i] ELSE {}
    <3>1. i \in Nat
      BY DEF Files
    <3>2. i # num_group_written => (i < num_group_written' <=> i < num_group_written)
      BY <1>n, <1>m, <3>1
    <3>3. i = num_group_written => ~(i < num_group_written)
      BY <1>n
    <3>4. gtmp'[i] = gtmp[i] \/ (gtmp'[i] = {} /\ i = num_group_written)
      BY <1>5 DEF Named
    <3>5. i < num_group_written' /\ i = num_group_written => gtmp'[i] = {}
      BY <1>n, <1>5 DEF Named
    <3> QED
      BY <3>2, <3>3, <3>4, <3>5
  <2>3. UNCHANGED <<config, process, todo, buffer, taken, pending>>
    BY <1>2 DEF bufferVars
  <2> QED
    BY <1>0, <1>1, <2>1, <2>2, <2>3, SamePlaces
<1>14. OutputInv' /\ SafeOutput' /\ NoFilesLeft'
  BY <1>0, <1>1, <1>2, <1>3, <1>f, OutputUntouched
<1>15. HoldInv'
  BY <1>0, <1>1, <1>2 DEF HoldInv
<1> QED
  BY <1>f, <1>15, <1>6, <1>8, <1>10, <1>11, <1>12, <1>13, <1>14, Zenon DEF OutIInv

LEMMA ThreadWriteSorted ==
  ASSUME OutIInv, Writing, ThreadWrite PROVE OutIInv'
<1>0. /\ TypeOK /\ CountInv /\ ThreadInv /\ HoldInv /\ PhaseInv /\ GroupInv /\ PlacesInv
      /\ OutputInv /\ FilesInv /\ SafeOutput /\ NoFilesLeft
  BY DEF OutIInv
<1>1. /\ thread = "write" /\ thread' = "merge" /\ taken' = {} /\ ~Joined /\ Writing
      /\ (config.extra \/ app \in {"retry", "one written", "last written"})
  BY <1>0 DEF ThreadWrite, Joined, ThreadInv
<1>2. /\ UNCHANGED <<config, process, app, todo, pending, bufferVars, countVars, source, name,
                     result, left, at, skipped, outVars>>
      /\ WriteFile(name, taken)
  <2>1. freed = {}
    BY <1>0, <1>1 DEF PhaseInv
  <2> QED
    BY <2>1 DEF ThreadWrite, destroyVars
<1>3. ToWrite' = ToWrite /\ (Other(b))' = Other(b) /\ Writing' /\ Filling' = Filling
  BY <1>1, <1>2 DEF ToWrite, Other, Writing, bufferVars, Filling
<1>4. /\ name \in Name /\ taken \in FileType /\ Content(name) = {}
      /\ num_written \in Nat /\ num_group_written \in Nat
      /\ \/ name = <<"tmp", num_written - 1>> /\ num_written > 0
         \/ name = <<"gtmp", num_group_written - 1>> /\ num_group_written > 0
  BY <1>0, <1>1 DEF TypeOK, ThreadInv
<1>5. PICK k \in Files : \/ name = <<"tmp", k>> /\ k < num_written
                         \/ name = <<"gtmp", k>> /\ k < num_group_written
  <2>1. CASE name = <<"tmp", num_written - 1>> /\ num_written > 0
    <3>1. num_written - 1 \in Files /\ num_written - 1 < num_written
      BY <1>4, <2>1 DEF Name
    <3> QED
      BY <2>1, <3>1
  <2>2. CASE name = <<"gtmp", num_group_written - 1>> /\ num_group_written > 0
    <3>1. num_group_written - 1 \in Files /\ num_group_written - 1 < num_group_written
      BY <1>4, <2>2 DEF Name
    <3> QED
      BY <2>2, <3>1
  <2> QED
    BY <1>4, <2>1, <2>2
<1>6. \/ /\ name = <<"tmp", k>> /\ k < num_written
         /\ DOMAIN tmp' = Files /\ gtmp' = gtmp /\ tmp'[k] = taken
         /\ \A j \in Files : tmp'[j] \in FileType /\ (j # k => tmp'[j] = tmp[j])
      \/ /\ name = <<"gtmp", k>> /\ k < num_group_written
         /\ DOMAIN gtmp' = Files /\ tmp' = tmp /\ gtmp'[k] = taken
         /\ \A j \in Files : gtmp'[j] \in FileType /\ (j # k => gtmp'[j] = gtmp[j])
  <2>1. CASE name = <<"tmp", k>> /\ k < num_written
    <3>1. WriteFile(<<"tmp", k>>, taken)
      BY <1>2, <2>1, Zenon
    <3> QED
      BY <1>0, <1>4, <2>1, <3>1, WriteTmp
  <2>2. CASE name = <<"gtmp", k>> /\ k < num_group_written
    <3>1. WriteFile(<<"gtmp", k>>, taken)
      BY <1>2, <2>2, Zenon
    <3> QED
      BY <1>0, <1>4, <2>2, <3>1, WriteGtmp
  <2> QED
    BY <1>5, <2>1, <2>2
<1>f. /\ FilesInv' /\ (Final \in exist' <=> Final \in exist)
      /\ exist' \subseteq ({"tmp", "gtmp"} \X Nat) \cup {Final}
  <2>0. name \in {"tmp", "gtmp"} \X Nat /\ Cardinality(Records) \in Nat /\ k \in Nat
    BY <1>0, Facts DEF TypeOK, Files
  <2>1. /\ exist' = exist \cup {name}
        /\ exist' \subseteq ({"tmp", "gtmp"} \X Nat) \cup {Final}
        /\ Final \in exist' <=> Final \in exist
        /\ \A m \in Name : FileOf(m)' = IF m = name THEN taken ELSE FileOf(m)
    BY <1>0, <1>2, <1>4, <2>0, FileWritten
  <2>2. NamesExist /\ Past(taken) /\ Complete
    BY <1>0, <1>1, PlacePast DEF FilesInv, NamesExist, OutputInv
  <2>3. NamesExist'
    BY <1>2, <2>1, <2>2 DEF NamesExist, countVars
  <2>4. ASSUME NEW j \in 0 .. name[2] PROVE <<name[1], j>> \in exist'
    <3>1. CASE name = <<"tmp", k>> /\ k < num_written
      <4>1. j \in Files /\ j < num_written
        BY <1>4, <2>0, <3>1 DEF Files
      <4> QED
        BY <2>1, <2>2, <3>1, <4>1 DEF NamesExist
    <3>2. CASE name = <<"gtmp", k>> /\ k < num_group_written
      <4>1. j \in Files /\ j < num_group_written
        BY <1>4, <2>0, <3>2 DEF Files
      <4> QED
        BY <2>1, <2>2, <3>2, <4>1 DEF NamesExist
    <3> QED
      BY <1>5, <3>1, <3>2
  <2> QED
    BY <1>0, <1>1, <1>2, <1>3, <1>4, <2>1, <2>2, <2>3, <2>4, FilesWritten
<1>7. TypeOK'
  <2>1. /\ DOMAIN tmp' = Files /\ DOMAIN gtmp' = Files
        /\ \A i \in Files : tmp'[i] \in FileType /\ gtmp'[i] \in FileType
    <3>1. /\ DOMAIN tmp = Files /\ DOMAIN gtmp = Files
          /\ \A i \in Files : tmp[i] \in FileType /\ gtmp[i] \in FileType
      BY <1>0 DEF TypeOK
    <3> QED
      BY <1>6, <3>1
  <2>2. {} \in FileType
    BY DEF FileType
  <2> QED
    BY <1>0, <1>1, <1>2, <1>3, <1>f, <2>1, <2>2 DEF TypeOK, bufferVars, countVars, outVars
<1>8. CountInv'
  BY <1>0, <1>1, <1>2, <1>3 DEF CountInv, countVars
<1>9. ThreadInv'
  BY <1>0, <1>1, <1>2, <1>3 DEF ThreadInv, Joined, bufferVars
<1>10. PhaseInv'
  BY <1>0, <1>1, <1>2, <1>3 DEF PhaseInv, Joined, NothingNamed, bufferVars, countVars
<1>11. GroupInv'
  BY <1>0, <1>1, <1>2, <1>3 DEF GroupInv, Joined, bufferVars, countVars
<1>h. HoldInv'
  <2>1. taken # {}
    BY <1>0, <1>1 DEF HoldInv
  <2>2. Content(name)' = taken
    <3>1. name' = name /\ num_written' = num_written /\ num_group_written' = num_group_written
      BY <1>2 DEF countVars
    <3> QED
      BY <1>6, <3>1, ContentCasesNext
  <2>3. name' \in Name /\ name' = name
    BY <1>2, <1>4
  <2> QED
    BY <1>1, <2>1, <2>2, <2>3 DEF HoldInv
<1>12. PlacesInv'
  <2>1. PICK p \in Place : p = name
    BY <1>4 DEF Place
  <2>2. PICK e \in Place : e = <<"taken", 0>>
    BY ContentCases
  <2>3. Content(p) = {} /\ Content(e) = taken /\ Content(e)' = {} /\ p # e
    <3>1. Content(p) = {}
      BY <1>4, <2>1, Zenon
    <3>2. Content(e) = taken /\ Content(e)' = {}
      BY <1>1, <2>2, ContentCases, ContentCasesNext
    <3>3. p # e
      BY <1>5, <2>1, <2>2
    <3> QED
      BY <3>1, <3>2, <3>3, Zenon
  <2>4. Content(p)' = taken
    BY <1>2, <1>6, <2>1, ContentCases, ContentCasesNext DEF countVars
  <2>5. ASSUME NEW q \in Place, q # p, q # e PROVE Content(q)' = Content(q)
    <3>1. CASE \E i \in 1 .. 2 : q = <<"buffer", i>>
      BY <1>2, <3>1, ContentCases, ContentCasesNext DEF bufferVars
    <3>2. CASE q = <<"pending", 0>>
      BY <1>2, <3>2, ContentCases, ContentCasesNext
    <3>3. CASE \E i \in Files : q = <<"tmp", i>>
      <4>1. PICK i \in Files : q = <<"tmp", i>>
        BY <3>3
      <4>2. tmp'[i] = tmp[i] /\ num_written' = num_written
        BY <1>2, <1>6, <2>1, <2>5, <4>1 DEF countVars
      <4> QED
        BY <4>1, <4>2, ContentCases, ContentCasesNext
    <3>4. CASE \E i \in Files : q = <<"gtmp", i>>
      <4>1. PICK i \in Files : q = <<"gtmp", i>>
        BY <3>4
      <4>2. gtmp'[i] = gtmp[i] /\ num_group_written' = num_group_written
        BY <1>2, <1>6, <2>1, <2>5, <4>1 DEF countVars
      <4> QED
        BY <4>1, <4>2, ContentCases, ContentCasesNext
    <3> QED
      BY <2>2, <2>5, <3>1, <3>2, <3>3, <3>4, PlaceCases
  <2>6. Moves(p, {e}, {})
    <3>1. IsFile(Content(p)')
      <4>1. IsFile(Content(e))
        BY <1>0, <1>1, PlaceFacts
      <4> QED
        BY <2>3, <2>4, <4>1, Zenon
    <3>2. UNION Content(p)' = {} \cup (UNION Content(p)) \cup UNION {UNION Content(q) : q \in {e}}
      BY <2>3, <2>4
    <3>3. {process} \X (ToWrite \ todo') = ({process} \X (ToWrite \ todo)) \cup {}
          /\ {} \cap ({process} \X (ToWrite \ todo)) = {}
      BY <1>2
    <3>4. \A q \in {e} : q # p => Content(q)' = {}
      BY <2>3
    <3>5. UNCHANGED <<config, process>>
      BY <1>2
    <3> QED
      BY <2>5, <3>1, <3>2, <3>3, <3>4, <3>5 DEF Moves
  <2> QED
    BY <1>0, <1>1, <2>6, MovedPlaces
<1>13. OutputInv' /\ SafeOutput' /\ NoFilesLeft'
  BY <1>0, <1>1, <1>2, <1>3, <1>f, OutputUntouched
<1> QED
  BY <1>f, <1>h, <1>7, <1>8, <1>9, <1>10, <1>11, <1>12, <1>13, Zenon DEF OutIInv

\* The files of a group, and all the files at the end, make one file.
LEMMA TmpFiles ==
  ASSUME OutIInv, Writing
  PROVE  LET S == UNION {tmp[i] : i \in 0 .. num_written - 1}
         IN  /\ IsFile(S) /\ S \in FileType
             /\ UNION S = UNION {UNION Content(<<"tmp", i>>) : i \in Files}
             /\ Disjoint(tmp, num_written)
<1> DEFINE I == 0 .. num_written - 1
           S == UNION {tmp[i] : i \in I}
<1>0. TypeOK /\ CountInv /\ PlacesInv /\ ThreadInv
  BY DEF OutIInv
<1>1. /\ Cardinality(Records) \in Nat /\ Cardinality(ToWrite) \in Nat
      /\ Cardinality(ToWrite) <= Cardinality(Records)
  BY <1>0, Facts
<1>2. num_written \in Nat /\ num_written <= Cardinality(ToWrite)
  BY <1>0, CountFacts
<1>3. \A i \in Files : i \in I <=> i < num_written
  BY <1>2 DEF Files
<1>4. I \subseteq Files
  BY <1>1, <1>2 DEF Files
<1>5. \A i \in I : <<"tmp", i>> \in Place /\ Content(<<"tmp", i>>) = tmp[i]
  BY <1>3, <1>4, ContentCases
<1>6. \A i \in Files : i \notin I => Content(<<"tmp", i>>) = {}
  BY <1>3, ContentCases
<1> HIDE DEF I
<1>7. ASSUME NEW i \in I PROVE IsFile(tmp[i])
  <2>1. IsFile(Content(<<"tmp", i>>))
    BY <1>0, <1>5, PlaceFacts
  <2> QED
    BY <1>5, <2>1, Zenon
<1>8. ASSUME NEW i \in I, NEW j \in I, i # j PROVE (UNION tmp[i]) \cap (UNION tmp[j]) = {}
  <2>1. <<"tmp", i>> # <<"tmp", j>>
    BY <1>8
  <2>2. (UNION Content(<<"tmp", i>>)) \cap (UNION Content(<<"tmp", j>>)) = {}
    BY <1>0, <1>5, <2>1, PlaceFacts
  <2> QED
    BY <1>5, <2>2, Zenon
<1>9. IsFile(S) /\ UNION S = UNION {UNION tmp[i] : i \in I}
  <2>1. Apart(I, tmp)
    BY <1>7, <1>8, Zenon DEF Apart
  <2>2. IsFile(Together(I, tmp)) /\ UNION Together(I, tmp) = UNION {UNION tmp[i] : i \in I}
    BY <2>1, UnionOfFiles, Zenon
  <2> QED
    BY <2>2 DEF Together
<1>10. S \in FileType
  <2>1. \A i \in I : tmp[i] \in FileType
    BY <1>0, <1>4 DEF TypeOK
  <2> QED
    BY <2>1 DEF FileType
<1>11. UNION {UNION tmp[i] : i \in I} = UNION {UNION Content(<<"tmp", i>>) : i \in Files}
  BY <1>4, <1>5, <1>6
<1>12. Disjoint(tmp, num_written)
  BY <1>8 DEF Disjoint, I
<1> QED
  BY <1>9, <1>10, <1>11, <1>12 DEF I

LEMMA GtmpFiles ==
  ASSUME OutIInv, Writing
  PROVE  LET S == UNION {gtmp[i] : i \in 0 .. num_group_written - 1}
         IN  /\ IsFile(S) /\ S \in FileType
             /\ UNION S = UNION {UNION Content(<<"gtmp", i>>) : i \in Files}
             /\ Disjoint(gtmp, num_group_written)
<1> DEFINE I == 0 .. num_group_written - 1
           S == UNION {gtmp[i] : i \in I}
<1>0. TypeOK /\ CountInv /\ PlacesInv /\ ThreadInv
  BY DEF OutIInv
<1>1. /\ Cardinality(Records) \in Nat /\ Cardinality(ToWrite) \in Nat
      /\ Cardinality(ToWrite) <= Cardinality(Records)
  BY <1>0, Facts
<1>2. num_group_written \in Nat /\ num_group_written <= Cardinality(ToWrite)
  BY <1>0, CountFacts
<1>3. \A i \in Files : i \in I <=> i < num_group_written
  BY <1>2 DEF Files
<1>4. I \subseteq Files
  BY <1>1, <1>2 DEF Files
<1>5. \A i \in I : <<"gtmp", i>> \in Place /\ Content(<<"gtmp", i>>) = gtmp[i]
  BY <1>3, <1>4, ContentCases
<1>6. \A i \in Files : i \notin I => Content(<<"gtmp", i>>) = {}
  BY <1>3, ContentCases
<1> HIDE DEF I
<1>7. ASSUME NEW i \in I PROVE IsFile(gtmp[i])
  <2>1. IsFile(Content(<<"gtmp", i>>))
    BY <1>0, <1>5, PlaceFacts
  <2> QED
    BY <1>5, <2>1, Zenon
<1>8. ASSUME NEW i \in I, NEW j \in I, i # j PROVE (UNION gtmp[i]) \cap (UNION gtmp[j]) = {}
  <2>1. <<"gtmp", i>> # <<"gtmp", j>>
    BY <1>8
  <2>2. (UNION Content(<<"gtmp", i>>)) \cap (UNION Content(<<"gtmp", j>>)) = {}
    BY <1>0, <1>5, <2>1, PlaceFacts
  <2> QED
    BY <1>5, <2>2, Zenon
<1>9. IsFile(S) /\ UNION S = UNION {UNION gtmp[i] : i \in I}
  <2>1. Apart(I, gtmp)
    BY <1>7, <1>8, Zenon DEF Apart
  <2>2. IsFile(Together(I, gtmp)) /\ UNION Together(I, gtmp) = UNION {UNION gtmp[i] : i \in I}
    BY <2>1, UnionOfFiles, Zenon
  <2> QED
    BY <2>2 DEF Together
<1>10. S \in FileType
  <2>1. \A i \in I : gtmp[i] \in FileType
    BY <1>0, <1>4 DEF TypeOK
  <2> QED
    BY <2>1 DEF FileType
<1>11. UNION {UNION gtmp[i] : i \in I} = UNION {UNION Content(<<"gtmp", i>>) : i \in Files}
  BY <1>4, <1>5, <1>6
<1>12. Disjoint(gtmp, num_group_written)
  BY <1>8 DEF Disjoint, I
<1> QED
  BY <1>9, <1>10, <1>11, <1>12 DEF I

LEMMA ThreadMergeSorted ==
  ASSUME OutIInv, Writing, ThreadMerge PROVE OutIInv'
<1>0. /\ TypeOK /\ CountInv /\ ThreadInv /\ HoldInv /\ PhaseInv /\ GroupInv /\ PlacesInv
      /\ OutputInv /\ FilesInv /\ SafeOutput /\ NoFilesLeft
  BY DEF OutIInv
<1>1. /\ thread = "merge" /\ thread' = "ended" /\ taken = {} /\ ~Joined /\ Joined' /\ Writing
      /\ buffer[Other(b)] = {}
  BY <1>0 DEF ThreadMerge, Joined, ThreadInv
<1>2. UNCHANGED <<config, process, app, todo, pending, bufferVars, group, taken, source, name,
                  result, left, at, skipped, outVars>>
  BY DEF ThreadMerge, destroyVars
<1>3. ToWrite' = ToWrite /\ (Other(b))' = Other(b) /\ Writing' /\ Filling' = Filling
  BY <1>1, <1>2 DEF ToWrite, Other, Writing, bufferVars, Filling
<1>4. num_written \in Nat /\ num_group_written \in Nat /\ group \in Nat
  BY <1>0 DEF TypeOK
<1>5. ThreadInv'
  BY <1>1, <1>2, <1>3 DEF ThreadInv, Joined, bufferVars
<1>h. HoldInv'
  BY <1>1 DEF HoldInv
<1>7. CASE ~(group > 0 /\ num_group_written >= group)
  <2>1. UNCHANGED <<num_written, num_group_written, tmp, gtmp, exist>>
    BY <1>7 DEF ThreadMerge, fileVars
  <2>f. OutputInv' /\ FilesInv' /\ SafeOutput' /\ NoFilesLeft'
    BY <1>0, <1>1, <1>2, <1>3, <2>1, OutputUntouched, FilesKept
  <2>2. TypeOK'
    BY <1>0, <1>1, <1>2, <1>3, <2>1 DEF TypeOK, bufferVars, outVars
  <2>3. CountInv'
    BY <1>0, <1>1, <1>2, <1>3, <2>1 DEF CountInv
  <2>4. PhaseInv'
    BY <1>0, <1>1, <1>2, <1>3, <2>1 DEF PhaseInv, Joined, NothingNamed, bufferVars
  <2>5. GroupInv'
    <3>1. app = "last written" => num_group_written = 0
      <4>1. /\ group = 0 => num_group_written = 0
            /\ app = "last written" => group <= num_group_written
        BY <1>0, <1>1 DEF GroupInv
      <4>2. app = "last written" => ~(group > 0)
        BY <1>4, <1>7, <4>1
      <4>3. group > 0 \/ group = 0
        BY <1>4
      <4> QED
        BY <4>1, <4>2, <4>3
    <3>2. app # "merge"
      BY <1>0, <1>1 DEF GroupInv
    <3> QED
      BY <1>0, <1>1, <1>2, <1>3, <2>1, <3>1, <3>2 DEF GroupInv, Joined
  <2>6. PlacesInv'
    BY <1>0, <1>1, <1>2, <2>1, SamePlaces DEF bufferVars
  <2> QED
    BY <1>5, <1>h, <2>f, <2>2, <2>3, <2>4, <2>5, <2>6, Zenon DEF OutIInv
<1>8. CASE group > 0 /\ num_group_written >= group
  <2> DEFINE S == UNION {gtmp[i] : i \in 0 .. num_group_written - 1}
             R == ReduceRecords(S)
  <2>1. num_written' = num_written + 1 /\ num_group_written' = 0 /\ WriteFile(NextName(TRUE), R)
    BY <1>8 DEF ThreadMerge
  <2>2. /\ IsFile(S) /\ S \in FileType
        /\ UNION S = UNION {UNION Content(<<"gtmp", i>>) : i \in Files}
    BY <1>1, GtmpFiles
  <2> HIDE DEF S
  <2>3. IsFile(R) /\ R \in FileType /\ UNION R = UNION S
    BY <2>2, ReduceLemma, ReduceType, Zenon
  <2> HIDE DEF R
  <2>4. num_group_written > 0
    BY <1>4, <1>8
  <2>5. num_written \in Files
    BY <1>0, <1>1, <2>4, NameLeft
  <2>6. WriteFile(<<"tmp", num_written>>, R)
    <3>1. NextName(TRUE) = <<"tmp", num_written>>
      BY DEF NextName
    <3> QED
      BY <2>1, <3>1, Zenon
  <2>7. /\ DOMAIN tmp' = Files /\ gtmp' = gtmp /\ tmp'[num_written] = R
        /\ \A j \in Files : tmp'[j] \in FileType /\ (j # num_written => tmp'[j] = tmp[j])
    BY <1>0, <2>3, <2>5, <2>6, WriteTmp
  <2>n. PICK n \in Name : n = <<"tmp", num_written>>
    BY <2>5 DEF Name
  <2>x. /\ exist' = exist \cup {n}
        /\ exist' \subseteq ({"tmp", "gtmp"} \X Nat) \cup {Final}
        /\ Final \in exist' <=> Final \in exist
        /\ \A m \in Name : FileOf(m)' = IF m = n THEN R ELSE FileOf(m)
    <3>1. n \in {"tmp", "gtmp"} \X Nat
      BY <1>4, <2>n
    <3>2. WriteFile(n, R)
      BY <2>6, <2>n, Zenon
    <3> QED
      BY <1>0, <2>3, <3>1, <3>2, FileWritten
  <2>f. OutputInv' /\ FilesInv' /\ SafeOutput' /\ NoFilesLeft'
    <3>1. Past(R)
      <4>1. \A i \in Files : Past(Content(<<"gtmp", i>>))
        BY <1>0, <1>1, PlacePast, ContentCases
      <4> QED
        BY <2>2, <2>3, <4>1 DEF Past
    <3>2. NamesExist /\ Complete
      BY <1>0, <1>1 DEF FilesInv, NamesExist, OutputInv
    <3>3. NamesExist'
      <4> SUFFICES ASSUME NEW i \in Files
                   PROVE  /\ i < num_written' => <<"tmp", i>> \in exist'
                          /\ i < num_group_written' => <<"gtmp", i>> \in exist'
        BY DEF NamesExist
      <4>1. i \in Nat
        BY DEF Files
      <4>2. (i < num_written' => i < num_written \/ i = num_written) /\ ~(i < num_group_written')
        BY <1>4, <2>1, <4>1
      <4> QED
        BY <2>n, <2>x, <3>2, <4>2 DEF NamesExist
    <3>4. ASSUME NEW j \in 0 .. n[2] PROVE <<n[1], j>> \in exist'
      <4>1. Cardinality(Records) \in Nat
        BY <1>0, Facts
      <4>2. j \in Files /\ (j < num_written \/ j = num_written)
        BY <1>4, <2>5, <2>n, <4>1 DEF Files
      <4> QED
        BY <2>n, <2>x, <3>2, <4>2 DEF NamesExist
    <3>5. FilesInv'
      BY <1>0, <1>1, <1>2, <1>3, <2>x, <3>1, <3>2, <3>3, <3>4, FilesWritten
    <3> QED
      BY <1>0, <1>1, <1>2, <1>3, <2>x, <3>5, OutputUntouched
  <2>8. TypeOK'
    <3>1. num_written' \in Nat /\ num_group_written' \in Nat
      BY <1>4, <2>1
    <3> QED
      BY <1>0, <1>1, <1>2, <1>3, <2>7, <2>x, <3>1 DEF TypeOK, bufferVars, outVars
  <2>9. CountInv'
    <3>1. todo' = todo /\ pending' = pending /\ Cardinality(ToWrite') = Cardinality(ToWrite)
          /\ Filling' = Filling
      BY <1>2, <1>3
    <3>2. PICK e \in Nat : e = IF pending = None THEN 0 ELSE 1
      OBVIOUS
    <3>3. /\ Cardinality(todo) \in Nat /\ Cardinality(ToWrite) \in Nat /\ Filling \in Nat
          /\ num_written + num_group_written + 0 + Filling + e + Cardinality(todo)
               <= Cardinality(ToWrite)
      BY <1>0, <1>1, <3>2, CountFacts
    <3>4. num_written' + num_group_written' + 0 + Filling' + e + Cardinality(todo')
               <= Cardinality(ToWrite')
      BY <1>4, <2>1, <2>4, <3>1, <3>3
    <3> QED
      BY <1>1, <3>1, <3>2, <3>4 DEF CountInv
  <2>10. PhaseInv'
    <3>1. ~NothingNamed' /\ ~NothingNamed
      BY <1>4, <2>1, <2>4 DEF NothingNamed
    <3> QED
      BY <1>0, <1>1, <1>2, <1>3, <3>1 DEF PhaseInv, Joined, bufferVars
  <2>11. GroupInv'
    BY <1>0, <1>1, <1>2, <1>3, <2>1 DEF GroupInv, Joined
  <2>12. PlacesInv'
    <3> DEFINE Q == {<<"gtmp", i>> : i \in Files}
    <3>1. PICK p \in Place : p = <<"tmp", num_written>>
      BY <2>5, ContentCases
    <3>2. Q \subseteq Place /\ p \notin Q
      BY <3>1, ContentCases
    <3>3. Content(p) = {} /\ Content(p)' = R
      <4>1. num_written < num_written' /\ ~(num_written < num_written)
        BY <1>4, <2>1
      <4> QED
        BY <2>5, <2>7, <3>1, <4>1, ContentCases, ContentCasesNext
    <3>4. \A q \in Q : Content(q)' = {}
      <4>1. ASSUME NEW i \in Files PROVE ~(i < num_group_written')
        BY <2>1 DEF Files
      <4> QED
        BY <4>1, ContentCasesNext
    <3>5. ASSUME NEW q \in Place, q # p, q \notin Q PROVE Content(q)' = Content(q)
      <4>1. CASE \E i \in 1 .. 2 : q = <<"buffer", i>>
        BY <1>2, <4>1, ContentCases, ContentCasesNext DEF bufferVars
      <4>2. CASE q = <<"taken", 0>> \/ q = <<"pending", 0>>
        BY <1>2, <4>2, ContentCases, ContentCasesNext
      <4>3. CASE \E i \in Files : q = <<"tmp", i>>
        <5>1. PICK i \in Files : q = <<"tmp", i>>
          BY <4>3
        <5>2. i # num_written /\ i \in Nat
          BY <3>1, <3>5, <5>1 DEF Files
        <5>3. tmp'[i] = tmp[i]
          BY <2>7, <5>1, <5>2
        <5>4. i < num_written' <=> i < num_written
          BY <1>4, <2>1, <5>2
        <5> QED
          BY <5>1, <5>3, <5>4, ContentCases, ContentCasesNext
      <4> QED
        BY <3>5, <4>1, <4>2, <4>3, PlaceCases
    <3>6. Moves(p, Q, {})
      <4>1. IsFile(Content(p)')
        BY <2>3, <3>3, Zenon
      <4>2. UNION Content(p)' = {} \cup (UNION Content(p)) \cup UNION {UNION Content(q) : q \in Q}
        <5>1. UNION {UNION Content(q) : q \in Q} = UNION {UNION Content(<<"gtmp", i>>) : i \in Files}
          OBVIOUS
        <5> QED
          BY <2>2, <2>3, <3>3, <5>1
      <4>3. {process} \X (ToWrite \ todo') = ({process} \X (ToWrite \ todo)) \cup {}
            /\ {} \cap ({process} \X (ToWrite \ todo)) = {}
        BY <1>2
      <4>4. UNCHANGED <<config, process>>
        BY <1>2
      <4> QED
        BY <3>4, <3>5, <4>1, <4>2, <4>3, <4>4, Zenon DEF Moves
    <3> QED
      BY <1>0, <1>1, <3>2, <3>6, MovedPlaces
  <2> QED
    BY <1>5, <1>h, <2>f, <2>8, <2>9, <2>10, <2>11, <2>12, Zenon DEF OutIInv
<1> QED
  BY <1>7, <1>8

LEMMA NoneWrittenSorted ==
  ASSUME OutIInv, NoneWritten PROVE OutIInv'
<1>0. /\ TypeOK /\ CountInv /\ ThreadInv /\ HoldInv /\ PhaseInv /\ GroupInv /\ PlacesInv
      /\ OutputInv /\ FilesInv /\ SafeOutput /\ NoFilesLeft
  BY DEF OutIInv
<1>1. /\ app = "open" /\ app' = "none written" /\ Writing /\ Writing' /\ todo = {}
      /\ num_written = 0
  BY DEF NoneWritten, Writing
<1>2. UNCHANGED <<config, process, todo, pending, bufferVars, countVars, threadVars,
                  result, left, at, skipped, tmp, gtmp, exist, outVars>>
  BY DEF NoneWritten, destroyVars, fileVars
<1>3. ToWrite' = ToWrite /\ (Other(b))' = Other(b) /\ Content(name)' = Content(name)
      /\ NothingNamed' = NothingNamed /\ Joined' = Joined
  BY <1>0, <1>2, NameContent
  DEF ToWrite, Other, NothingNamed, Joined, bufferVars, countVars, threadVars
<1>4. TypeOK'
  BY <1>0, <1>1, <1>2, <1>3 DEF TypeOK, bufferVars, countVars, threadVars, outVars
<1>5. CountInv'
  BY <1>0, <1>1, <1>2, <1>3 DEF CountInv, Filling, bufferVars, countVars, threadVars
<1>6. ThreadInv'
  BY <1>0, <1>1, <1>2, <1>3 DEF ThreadInv, bufferVars, countVars, threadVars
<1>7. PhaseInv'
  <2>1. config.extra \/ Joined
    BY <1>0, <1>1 DEF ThreadInv
  <2> QED
    BY <1>0, <1>1, <1>2, <1>3, <2>1 DEF PhaseInv, bufferVars, countVars, threadVars
<1>8. GroupInv'
  BY <1>0, <1>1, <1>2, <1>3 DEF GroupInv, bufferVars, countVars, threadVars
<1>9. PlacesInv'
  BY <1>0, <1>1, <1>2, SamePlaces DEF bufferVars, countVars, threadVars
<1>10. OutputInv' /\ FilesInv' /\ SafeOutput' /\ NoFilesLeft'
  BY <1>0, <1>1, <1>2, OutputUntouched, FilesKept DEF countVars
<1>h. HoldInv'
  BY <1>0, <1>1, <1>2, HoldKept DEF bufferVars, countVars, threadVars
<1> QED
  BY <1>4, <1>5, <1>6, <1>7, <1>8, <1>9, <1>10, <1>h, Zenon DEF OutIInv

LEMMA InFromFilesSorted ==
  ASSUME OutIInv, InFromFiles PROVE OutIInv'
<1>0. /\ TypeOK /\ CountInv /\ ThreadInv /\ HoldInv /\ PhaseInv /\ GroupInv /\ PlacesInv
      /\ OutputInv /\ FilesInv /\ SafeOutput /\ NoFilesLeft
  BY DEF OutIInv
<1>1. app \in {"open", "none written"} /\ Writing /\ Writing' /\ todo = {} /\ ~NothingNamed
      /\ app' = IF buffer[b] = {} THEN "merge" ELSE "last"
  BY <1>0 DEF InFromFiles, Writing, NothingNamed, PhaseInv
<1>2. UNCHANGED <<config, process, todo, pending, bufferVars, countVars, threadVars,
                  result, left, at, skipped, tmp, gtmp, exist, outVars>>
  BY DEF InFromFiles, destroyVars, fileVars
<1>3. ToWrite' = ToWrite /\ (Other(b))' = Other(b) /\ Content(name)' = Content(name)
      /\ NothingNamed' = NothingNamed /\ Joined' = Joined
  BY <1>0, <1>2, NameContent
  DEF ToWrite, Other, NothingNamed, Joined, bufferVars, countVars, threadVars
<1>4. TypeOK'
  BY <1>0, <1>1, <1>2, <1>3 DEF TypeOK, bufferVars, countVars, threadVars, outVars
<1>5. CountInv'
  BY <1>0, <1>1, <1>2, <1>3 DEF CountInv, Filling, bufferVars, countVars, threadVars
<1>6. ThreadInv'
  BY <1>0, <1>1, <1>2, <1>3 DEF ThreadInv, bufferVars, countVars, threadVars
<1>7. PhaseInv'
  BY <1>0, <1>1, <1>2, <1>3 DEF PhaseInv, bufferVars, countVars, threadVars
<1>8. GroupInv'
  <2>1. buffer[b] = {} => Joined /\ config.large
    BY <1>0, <1>1 DEF PhaseInv, GroupInv
  <2> QED
    BY <1>0, <1>1, <1>2, <1>3, <2>1 DEF GroupInv, Writing, bufferVars, countVars, threadVars
<1>9. PlacesInv'
  BY <1>0, <1>1, <1>2, SamePlaces DEF bufferVars, countVars, threadVars
<1>10. OutputInv' /\ FilesInv' /\ SafeOutput' /\ NoFilesLeft'
  BY <1>0, <1>1, <1>2, OutputUntouched, FilesKept DEF countVars
<1>h. HoldInv'
  BY <1>0, <1>1, <1>2, HoldKept DEF bufferVars, countVars, threadVars
<1> QED
  BY <1>4, <1>5, <1>6, <1>7, <1>8, <1>9, <1>10, <1>h, Zenon DEF OutIInv

LEMMA LastBufferSorted ==
  ASSUME OutIInv, LastBuffer PROVE OutIInv'
<1>0. /\ TypeOK /\ CountInv /\ ThreadInv /\ HoldInv /\ PhaseInv /\ GroupInv /\ PlacesInv
      /\ OutputInv /\ FilesInv /\ SafeOutput /\ NoFilesLeft
  BY DEF OutIInv
<1>1. /\ app = "last" /\ app' = "last written" /\ Writing /\ Writing' /\ Joined
      /\ b' = (IF config.extra THEN Other(b) ELSE b) /\ source' = b /\ thread' = "sort"
      /\ group' = IF group = 0 THEN 0 ELSE IF num_group_written > 0 THEN num_group_written ELSE 1
  BY DEF LastBuffer, Writing, Hand
<1>2. UNCHANGED <<config, process, todo, pending, num_written, num_group_written,
                  result, left, at, skipped, tmp, gtmp, exist, outVars, buffer, freed, taken, name>>
  BY DEF LastBuffer, Hand, destroyVars, fileVars
<1>3. ToWrite' = ToWrite /\ Other(b) \in 1 .. 2 /\ Other(Other(b)) = b /\ Other(b) # b
      /\ buffer[Other(b)] = {} /\ b \in 1 .. 2 /\ (Other(b))' = Other(b')
  BY <1>0, <1>1, <1>2, Facts DEF ToWrite, ThreadInv, Joined, TypeOK, Other
<1>4. num_written \in Nat /\ num_group_written \in Nat /\ group \in Nat
  BY <1>0 DEF TypeOK
<1>5. group' \in Nat /\ (group' = 0 <=> group = 0) /\ group' <= num_group_written + 1
  <2>0. group' = IF group = 0 THEN 0 ELSE IF num_group_written > 0 THEN num_group_written ELSE 1
    BY <1>1
  <2>1. CASE group = 0
    BY <1>4, <2>0, <2>1
  <2>2. CASE group # 0 /\ num_group_written > 0
    BY <1>4, <2>0, <2>2
  <2>3. CASE group # 0 /\ ~(num_group_written > 0)
    <3>1. group' = 1 /\ 1 <= num_group_written + 1
      BY <1>4, <2>0, <2>3
    <3> QED
      BY <2>3, <3>1
  <2> QED
    BY <2>1, <2>2, <2>3
<1>6. TypeOK'
  BY <1>0, <1>1, <1>2, <1>3, <1>5 DEF TypeOK, outVars
<1>7. CountInv'
  <2>1. Cardinality(buffer[b]) \in Nat /\ Cardinality(todo) \in Nat /\ Cardinality(ToWrite) \in Nat
        /\ Cardinality(buffer[b]) # 0
    BY <1>0, <1>1, Facts DEF TypeOK, PhaseInv
  <2>2. Filling = Cardinality(buffer[b])
    BY <1>1 DEF Filling, Joined
  <2>3. Filling' = 0
    BY <1>1, <1>2, <1>3, FS_EmptySet DEF Filling
  <2>4. PICK e \in Nat : e = IF pending = None THEN 0 ELSE 1
    OBVIOUS
  <2>5. num_written + num_group_written + 0 + Filling + e + Cardinality(todo) <= Cardinality(ToWrite)
    BY <1>0, <1>1, <2>4, CountFacts DEF Joined
  <2>6. todo' = todo /\ pending' = pending /\ Cardinality(ToWrite') = Cardinality(ToWrite)
        /\ num_written' = num_written /\ num_group_written' = num_group_written
    BY <1>2, <1>3
  <2>7. num_written' + num_group_written' + 1 + Filling' + e + Cardinality(todo')
          <= Cardinality(ToWrite')
    BY <1>4, <2>1, <2>2, <2>3, <2>5, <2>6
  <2> QED
    BY <1>1, <2>4, <2>6, <2>7 DEF CountInv
<1>8. ThreadInv'
  BY <1>0, <1>1, <1>2, <1>3 DEF ThreadInv, Joined
<1>9. PhaseInv'
  BY <1>0, <1>1, <1>2, <1>3 DEF PhaseInv, NothingNamed
<1>10. GroupInv'
  BY <1>0, <1>1, <1>2, <1>5 DEF GroupInv, Joined
<1>11. PlacesInv'
  BY <1>0, <1>1, <1>2, SamePlaces
<1>12. OutputInv' /\ FilesInv' /\ SafeOutput' /\ NoFilesLeft'
  BY <1>0, <1>1, <1>2, OutputUntouched, FilesKept DEF countVars
<1>h. HoldInv'
  BY <1>0, <1>1, <1>2 DEF HoldInv, PhaseInv
<1> QED
  BY <1>6, <1>7, <1>8, <1>9, <1>10, <1>11, <1>12, <1>h, Zenon DEF OutIInv

LEMMA LastWrittenSorted ==
  ASSUME OutIInv, LastWritten PROVE OutIInv'
<1>0. /\ TypeOK /\ CountInv /\ ThreadInv /\ HoldInv /\ PhaseInv /\ GroupInv /\ PlacesInv
      /\ OutputInv /\ FilesInv /\ SafeOutput /\ NoFilesLeft
  BY DEF OutIInv
<1>1. app = "last written" /\ app' = "merge" /\ Joined /\ Writing /\ Writing'
  BY DEF LastWritten, Writing
<1>2. UNCHANGED <<config, process, todo, pending, bufferVars, countVars, threadVars,
                  result, left, at, skipped, tmp, gtmp, exist, outVars>>
  BY DEF LastWritten, destroyVars, fileVars
<1>3. ToWrite' = ToWrite /\ (Other(b))' = Other(b) /\ Content(name)' = Content(name)
      /\ NothingNamed' = NothingNamed /\ Joined' = Joined
  BY <1>0, <1>2, NameContent
  DEF ToWrite, Other, NothingNamed, Joined, bufferVars, countVars, threadVars
<1>4. TypeOK'
  BY <1>0, <1>1, <1>2, <1>3 DEF TypeOK, bufferVars, countVars, threadVars, outVars
<1>5. CountInv'
  BY <1>0, <1>1, <1>2, <1>3 DEF CountInv, Filling, bufferVars, countVars, threadVars
<1>6. ThreadInv'
  BY <1>0, <1>1, <1>2, <1>3 DEF ThreadInv, bufferVars, countVars, threadVars
<1>7. PhaseInv'
  BY <1>0, <1>1, <1>2, <1>3 DEF PhaseInv, bufferVars, countVars, threadVars
<1>8. GroupInv'
  <2>1. buffer[b] = {} /\ num_group_written = 0
    BY <1>0, <1>1 DEF PhaseInv, GroupInv, Joined
  <2> QED
    BY <1>0, <1>1, <1>2, <1>3, <2>1 DEF GroupInv, Writing, bufferVars, countVars, threadVars
<1>9. PlacesInv'
  BY <1>0, <1>1, <1>2, SamePlaces DEF bufferVars, countVars, threadVars
<1>10. OutputInv' /\ FilesInv' /\ SafeOutput' /\ NoFilesLeft'
  BY <1>0, <1>1, <1>2, OutputUntouched, FilesKept DEF countVars
<1>h. HoldInv'
  BY <1>0, <1>1, <1>2, HoldKept DEF bufferVars, countVars, threadVars
<1> QED
  BY <1>4, <1>5, <1>6, <1>7, <1>8, <1>9, <1>10, <1>h, Zenon DEF OutIInv

-----------------------------------------------------------------------------
(* From the last record to the output file *)

\* The file that the records make has one record for each key.
LEMMA ReducedWhole ==
  ASSUME NEW S, IsFile(S), NEW R, R = ReduceRecords(S)
  PROVE  /\ UNION R = UNION S
         /\ \A x, y \in R : x # y => x \cap y = {} /\ (config.reduce => KeyOf(x) # KeyOf(y))
<1>1. /\ IsFile(R) /\ UNION R = UNION S
      /\ config.reduce => \A x, y \in R : x # y => KeyOf(x) # KeyOf(y)
  BY ReduceLemma
<1>2. \A x, y \in R : x # y => x \cap y = {}
  BY <1>1 DEF IsFile
<1> QED
  BY <1>1, <1>2

LaterPhases == {"output", "write", "rename", "ack", "free", "remove", "closed"}

\* What is left of the invariant once the cursor over the records is made.
LEMMA LaterSteps ==
  ASSUME app' \in LaterPhases, pending' = None, ~Joined' => config'.extra /\ ~Complete'
  PROVE  ThreadInv' /\ HoldInv' /\ PhaseInv' /\ GroupInv' /\ PlacesInv' /\ ~Writing'
<1>1. ~Writing'
  BY DEF Writing, LaterPhases
<1>2. HoldInv' /\ PlacesInv' /\ GroupInv'
  BY <1>1 DEF HoldInv, PlacesInv, GroupInv
<1>3. ThreadInv'
  BY <1>1 DEF ThreadInv
<1>4. PhaseInv'
  BY <1>1 DEF PhaseInv, LaterPhases
<1> QED
  BY <1>1, <1>2, <1>3, <1>4

\* The cursor is made over the records of S, and those of X are passed by.
LEMMA CursorMade ==
  ASSUME OutIInv, Writing, pending = None, todo = {}, app' \in {"output", "free"},
         UNCHANGED <<config, process, todo, pending, buffer, b, countVars, threadVars,
                     at, skipped, tmp, gtmp, exist, outVars>>,
         freed' \subseteq 1 .. 2, NEW S \in FileType, IsFile(S), result' = ReduceRecords(S),
         NEW X \in SUBSET ({process} \X ToWrite), left' = left \cup X,
         UNION S = ({process} \X ToWrite) \ X,
         X # {} => config.extra \/ (config.group > 0 /\ config.large),
         ~Joined => config.extra /\ X # {}
  PROVE  OutIInv'
<1>0. /\ TypeOK /\ CountInv /\ ThreadInv /\ HoldInv /\ PhaseInv /\ GroupInv /\ PlacesInv
      /\ OutputInv /\ FilesInv /\ SafeOutput /\ NoFilesLeft
  BY DEF OutIInv
<1>1. /\ ToWrite' = ToWrite /\ ToWrite \subseteq Records /\ Joined' = Joined /\ Complete
      /\ app' \in LaterPhases /\ process \in Process /\ process \in Nat
  BY <1>0, Facts DEF ToWrite, Joined, threadVars, OutputInv, LaterPhases, TypeOK, Process
<1>2. X # {} <=> ~Complete'
  BY <1>1 DEF Complete
<1>3. ThreadInv' /\ HoldInv' /\ PhaseInv' /\ GroupInv' /\ PlacesInv' /\ ~Writing'
  BY <1>1, <1>2, LaterSteps
<1>4. X \subseteq Item
  BY <1>1 DEF Item
<1>5. TypeOK'
  <2>1. result' \in FileType
    BY ReduceType
  <2>2. left' \subseteq Item
    BY <1>0, <1>4 DEF TypeOK
  <2> QED
    BY <1>0, <1>1, <2>1, <2>2 DEF TypeOK, countVars, threadVars, outVars, LaterPhases
<1>6. CountInv'
  BY <1>0, <1>1 DEF CountInv, Filling, countVars, threadVars
<1>7. OutputInv'
  <2>1. UNION S = ({process} \X ToWrite) \ left'
    BY <1>1 DEF Complete
  <2>2. /\ UNION result' = UNION S
        /\ \A x, y \in result' :
             x # y => x \cap y = {} /\ (config.reduce => KeyOf(x) # KeyOf(y))
    BY ReducedWhole
  <2>3. IsWhole(result, process)'
    BY <1>1, <2>1, <2>2 DEF IsWhole
  <2>4. \A i \in left' : i[1] <= process'
    <3>1. \A i \in X : i[1] = process
      OBVIOUS
    <3> QED
      BY <1>0, <1>1, <3>1 DEF OutputInv
  <2>5. app' \in {"output", "free"} /\ ~Writing' /\ config' = config
    BY <1>3
  <2> QED
    BY <1>2, <2>3, <2>4, <2>5 DEF OutputInv
<1>8. FilesInv'
  <2>1. \A n \in Name : Past(FileOf(n))'
    BY <1>0 DEF FilesInv, FileOf, Past
  <2>2. Past(taken)' /\ \A j \in 1 .. 2 : Past(buffer[j])'
    BY <1>0, PlacePast DEF Past, threadVars
  <2>3. ASSUME NEW n \in Name, Wrote(n, process)' PROVE \A j \in 0 .. n[2] : <<n[1], j>> \in exist'
    <3>1. Wrote(n, process) /\ app \notin {"remove", "closed"}
      BY <2>3 DEF Wrote, FileOf, Writing
    <3> QED
      BY <1>0, <1>1, <3>1 DEF FilesInv
  <2> QED
    BY <1>3, <2>1, <2>2, <2>3 DEF FilesInv
<1>9. SafeOutput' /\ NoFilesLeft'
  <2>1. ASSUME NEW p \in 1 .. process, IsWhole(final, p), p # process PROVE IsWhole(final, p)'
    <3>1. ({p} \X ToWrite) \ left' = ({p} \X ToWrite) \ left
      BY <2>1
    <3> QED
      BY <1>1, <2>1, <3>1 DEF IsWhole, outVars
  <2>2. ASSUME config.safe, Final \in exist
        PROVE  \E p \in 1 .. process : IsWhole(final, p) /\ p # process
    BY <1>0, <2>2 DEF SafeOutput, Writing
  <2>3. SafeOutput'
    BY <1>0, <2>1, <2>2 DEF SafeOutput, outVars
  <2> QED
    BY <2>3 DEF NoFilesLeft
<1> QED
  BY <1>3, <1>5, <1>6, <1>7, <1>8, <1>9, Zenon DEF OutIInv

\* The records at some places, and those at the others.
LEMMA RecordsSplit ==
  ASSUME PlacesInv, Writing, todo = {}, NEW Q \in SUBSET Place
  PROVE  /\ RecordsAt(Q) \subseteq {process} \X ToWrite
         /\ RecordsAt(Place \ Q) = ({process} \X ToWrite) \ RecordsAt(Q)
<1>1. RecordsAt(Place) = {process} \X ToWrite
  BY DEF PlacesInv
<1>2. RecordsAt(Place) = RecordsAt(Q) \cup RecordsAt(Place \ Q)
  BY DEF RecordsAt
<1>3. RecordsAt(Q) \cap RecordsAt(Place \ Q) = {}
  <2> SUFFICES ASSUME NEW i, NEW p \in Q, i \in UNION Content(p),
                      NEW q \in Place \ Q, i \in UNION Content(q)
               PROVE  FALSE
    BY DEF RecordsAt
  <2>1. p \in Place /\ q \in Place /\ p # q
    OBVIOUS
  <2>2. (UNION Content(p)) \cap (UNION Content(q)) = {}
    BY <2>1, PlaceFacts
  <2> QED
    BY <2>2
<1> QED
  BY <1>1, <1>2, <1>3

\* A place that is not empty holds records.
LEMMA RecordsThere ==
  ASSUME PlacesInv, Writing, NEW Q \in SUBSET Place, NEW q \in Q, Content(q) # {}
  PROVE  RecordsAt(Q) # {}
<1>1. IsFile(Content(q))
  BY PlaceFacts
<1>2. PICK x \in Content(q) : TRUE
  OBVIOUS
<1>3. PICK i \in x : TRUE
  BY <1>1, <1>2 DEF IsFile
<1>4. i \in UNION Content(q)
  BY <1>2, <1>3
<1> QED
  BY <1>4 DEF RecordsAt

LEMMA InFromBufferSorted ==
  ASSUME OutIInv, InFromBuffer PROVE OutIInv'
<1> DEFINE p == <<"buffer", b>>
           X == RecordsAt(Place \ {p})
<1>0. /\ TypeOK /\ CountInv /\ ThreadInv /\ HoldInv /\ PhaseInv /\ GroupInv /\ PlacesInv
      /\ OutputInv /\ FilesInv /\ SafeOutput /\ NoFilesLeft
  BY DEF OutIInv
<1>1. /\ app = "none written" /\ Writing /\ todo = {} /\ pending = None
      /\ num_group_written = 0 /\ (config.extra \/ (Joined /\ num_written = 0))
      /\ result' = ReduceRecords(buffer[b]) /\ freed' = freed \cup {Other(b)}
      /\ app' \in {"output", "free"} /\ left' = left \cup X
  BY <1>0 DEF InFromBuffer, Writing, PhaseInv
<1>2. UNCHANGED <<config, process, todo, pending, buffer, b, countVars, threadVars,
                  at, skipped, tmp, gtmp, exist, outVars>>
  BY DEF InFromBuffer, fileVars
<1>3. /\ b \in 1 .. 2 /\ Other(b) \in 1 .. 2 /\ Other(b) # b /\ freed' \subseteq 1 .. 2
      /\ buffer[b] \in FileType
  BY <1>0, <1>1, Facts DEF TypeOK
<1>4. p \in Place /\ Content(p) = buffer[b]
  BY <1>3, ContentCases
<1>5. /\ X \subseteq {process} \X ToWrite
      /\ UNION buffer[b] = ({process} \X ToWrite) \ X
  <2>1. X \subseteq {process} \X ToWrite
    BY <1>0, <1>1, RecordsSplit
  <2>2. Place \ (Place \ {p}) = {p}
    BY <1>4
  <2>3. RecordsAt(Place \ (Place \ {p})) = ({process} \X ToWrite) \ X
    BY <1>0, <1>1, RecordsSplit
  <2>4. RecordsAt({p}) = UNION buffer[b]
    BY <1>4 DEF RecordsAt
  <2> QED
    BY <2>1, <2>2, <2>3, <2>4
<1>6. IsFile(buffer[b])
  <2>1. IsFile(Content(p))
    BY <1>0, <1>1, <1>4, PlaceFacts, Zenon
  <2> QED
    BY <1>4, <2>1, Zenon
\* Without the thread nothing is anywhere else.
<1>7. ASSUME ~config.extra PROVE X = {}
  <2>1. Joined /\ num_written = 0 /\ num_group_written = 0 /\ buffer[Other(b)] = {} /\ taken = {}
    BY <1>0, <1>1, <1>7 DEF ThreadInv, Joined
  <2>2. ASSUME NEW q \in Place, q # p PROVE Content(q) = {}
    <3>1. CASE \E i \in 1 .. 2 : q = <<"buffer", i>>
      <4>1. PICK i \in 1 .. 2 : q = <<"buffer", i>>
        BY <3>1
      <4>2. i = Other(b)
        BY <1>3, <2>2, <4>1 DEF Other
      <4> QED
        BY <2>1, <4>1, <4>2, ContentCases
    <3>2. CASE q = <<"taken", 0>> \/ q = <<"pending", 0>>
      BY <1>1, <2>1, <3>2, ContentCases
    <3>3. CASE \E i \in Files : q = <<"tmp", i>> \/ q = <<"gtmp", i>>
      <4>1. \A i \in Files : ~(i < num_written) /\ ~(i < num_group_written)
        BY <2>1 DEF Files
      <4> QED
        BY <3>3, <4>1, ContentCases
    <3> QED
      BY <3>1, <3>2, <3>3, PlaceCases
  <2> QED
    BY <2>2 DEF RecordsAt
\* A thread that runs has some.
<1>8. ASSUME ~Joined PROVE config.extra /\ X # {}
  <2>1. config.extra /\ thread \in {"sort", "name", "write", "merge"}
    BY <1>0, <1>1, <1>8 DEF Joined, TypeOK
  <2>2. \E q \in Place \ {p} : Content(q) # {}
    <3>1. CASE thread = "sort"
      <4>1. source = Other(b) /\ buffer[source] # {}
        BY <1>0, <1>1, <2>1, <3>1 DEF ThreadInv, HoldInv
      <4>2. <<"buffer", Other(b)>> \in Place /\ Content(<<"buffer", Other(b)>>) = buffer[Other(b)]
        BY <1>3, ContentCases
      <4>3. <<"buffer", Other(b)>> # p
        BY <1>3
      <4> QED
        BY <4>1, <4>2, <4>3
    <3>2. CASE thread \in {"name", "write"}
      <4>1. taken # {}
        BY <1>0, <1>1, <3>2 DEF HoldInv
      <4> QED
        BY <4>1, ContentCases
    <3>3. CASE thread = "merge"
      <4>1. PICK n \in Name : Content(n) # {}
        BY <1>0, <1>1, <3>3 DEF HoldInv
      <4>2. n \in Place /\ n # p
        BY DEF Place, Name
      <4> QED
        BY <4>1, <4>2
    <3> QED
      BY <2>1, <3>1, <3>2, <3>3
  <2>3. PICK q \in Place \ {p} : Content(q) # {}
    BY <2>2
  <2>4. X # {}
    BY <1>0, <1>1, <2>3, RecordsThere
  <2> QED
    BY <2>1, <2>4
<1> HIDE DEF X, p
<1> QED
  BY <1>1, <1>2, <1>3, <1>5, <1>6, <1>7, <1>8, CursorMade

LEMMA MergeFilesSorted ==
  ASSUME OutIInv, MergeFiles PROVE OutIInv'
<1> DEFINE S == UNION {tmp[i] : i \in 0 .. num_written - 1}
           G == {"gtmp"} \X Files
           X == RecordsAt(G)
<1>0. /\ TypeOK /\ CountInv /\ ThreadInv /\ HoldInv /\ PhaseInv /\ GroupInv /\ PlacesInv
      /\ OutputInv /\ FilesInv /\ SafeOutput /\ NoFilesLeft
  BY DEF OutIInv
<1>1. /\ app = "merge" /\ app' = "output" /\ Writing /\ freed' = 1 .. 2
      /\ result' = ReduceRecords(S) /\ left' = left \cup X
  BY DEF MergeFiles, Writing
<1>2. UNCHANGED <<config, process, todo, pending, buffer, b, countVars, threadVars,
                  at, skipped, tmp, gtmp, exist, outVars>>
  BY DEF MergeFiles, fileVars
<1>3. /\ pending = None /\ taken = {} /\ buffer[Other(b)] = {} /\ buffer[b] = {} /\ Joined /\ todo = {}
      /\ b \in 1 .. 2 /\ (num_group_written = 0 \/ (config.large /\ config.group # 0))
      /\ config.group \in Nat
  BY <1>0, <1>1, Facts DEF PhaseInv, ThreadInv, GroupInv, Joined, TypeOK
<1>4. /\ IsFile(S) /\ S \in FileType
      /\ UNION S = UNION {UNION Content(<<"tmp", i>>) : i \in Files}
  BY <1>1, TmpFiles
<1>5. G \in SUBSET Place
  BY DEF Place, Name
<1>6. X \subseteq {process} \X ToWrite /\ RecordsAt(Place \ G) = ({process} \X ToWrite) \ X
  BY <1>0, <1>1, <1>3, <1>5, RecordsSplit
<1>7. RecordsAt(Place \ G) = UNION {UNION Content(<<"tmp", i>>) : i \in Files}
  <2>1. ASSUME NEW q \in Place \ G, ~\E i \in Files : q = <<"tmp", i>> PROVE Content(q) = {}
    <3>1. CASE \E i \in 1 .. 2 : q = <<"buffer", i>>
      <4>1. PICK i \in 1 .. 2 : q = <<"buffer", i>>
        BY <3>1
      <4>2. i = b \/ i = Other(b)
        BY <1>3 DEF Other
      <4> QED
        BY <1>3, <4>1, <4>2, ContentCases
    <3>2. CASE q = <<"taken", 0>> \/ q = <<"pending", 0>>
      BY <1>3, <3>2, ContentCases
    <3> QED
      BY <2>1, <3>1, <3>2, PlaceCases
  <2>2. ASSUME NEW i \in Files PROVE <<"tmp", i>> \in Place \ G
    <3>1. <<"tmp", i>> \in Place
      BY ContentCases, Zenon
    <3>2. <<"tmp", i>> \notin G
      OBVIOUS
    <3> QED
      BY <3>1, <3>2
  <2>3. \A q \in Place \ G : UNION Content(q) \subseteq UNION {UNION Content(<<"tmp", i>>) : i \in Files}
    BY <2>1
  <2> QED
    BY <2>2, <2>3, ZenonT(60) DEF RecordsAt
<1>8. UNION S = ({process} \X ToWrite) \ X
  BY <1>4, <1>6, <1>7
\* Only large records leave a group open.
<1>9. ASSUME X # {} PROVE config.group > 0 /\ config.large
  <2>1. num_group_written # 0
    <3>1. ASSUME num_group_written = 0, NEW q \in G PROVE Content(q) = {}
      <4>1. PICK i \in Files : q = <<"gtmp", i>>
        OBVIOUS
      <4>2. ~(i < num_group_written)
        BY <3>1 DEF Files
      <4> QED
        BY <4>1, <4>2, ContentCases
    <3> QED
      BY <1>9, <3>1 DEF RecordsAt
  <2> QED
    BY <1>3, <2>1
<1> HIDE DEF X, S
<1> QED
  BY <1>1, <1>2, <1>3, <1>4, <1>6, <1>8, <1>9, CursorMade

\* What the memory of a buffer holds, whatever it is by then, the reducer makes a file of.
LEMMA ReduceAny ==
  ASSUME NEW S \in FileType, Past(S)
  PROVE  ReduceRecords(S) \in FileType /\ Past(ReduceRecords(S))
<1>1. UNION ReduceRecords(S) \subseteq UNION S
  BY DEF ReduceRecords
<1>2. UNION S \subseteq Item
  BY DEF FileType
<1>3. ReduceRecords(S) \in FileType
  BY <1>1, <1>2 DEF FileType
<1> QED
  BY <1>1, <1>3 DEF Past

LEMMA SumKept ==
  ASSUME NEW i \in Nat, NEW j \in Nat, NEW g \in Nat, NEW k \in Nat,
         NEW i2 \in Nat, NEW j2 \in Nat, NEW g2 \in Nat, NEW k2 \in Nat,
         NEW e \in Nat, NEW f \in Nat, NEW n \in Nat,
         i2 + j2 + g2 <= i + j + g, k2 <= k, i + j + g + k + e + f <= n
  PROVE  i2 + j2 + g2 + k2 + e + f <= n
OBVIOUS


\* A thread that was passed by changes nothing that the output depends on.
LEMMA LateThread ==
  ASSUME OutIInv, ~Writing, Thread PROVE OutIInv'
<1>0. TypeOK /\ CountInv /\ ThreadInv /\ PhaseInv /\ OutputInv /\ FilesInv /\ SafeOutput
  BY DEF OutIInv
<1>1. /\ UNCHANGED <<config, process, app, todo, pending, b, freed, group, source,
                     result, left, at, skipped, outVars>>
  BY DEF Thread, ThreadSort, ThreadName, ThreadWrite, ThreadMerge, destroyVars, bufferVars, countVars
<1>2. thread \in {"sort", "name", "write", "merge"} /\ ~Joined /\ config.extra /\ ~Complete
  BY <1>0 DEF Thread, ThreadSort, ThreadName, ThreadWrite, ThreadMerge, ThreadInv, Joined
<1>3. /\ ~Writing' /\ app \in LaterPhases /\ pending = None /\ ~Complete' /\ ToWrite' = ToWrite
      /\ (Other(b))' = Other(b) /\ Other(b) \in 1 .. 2
  BY <1>0, <1>1, <1>2, Facts DEF Writing, LaterPhases, TypeOK, PhaseInv, Complete, ToWrite, Other
<1>4. ThreadInv' /\ HoldInv' /\ PhaseInv' /\ GroupInv' /\ PlacesInv'
  BY <1>1, <1>2, <1>3, LaterSteps
<1>6. NoFilesLeft'
  BY <1>3 DEF NoFilesLeft
\* What is left to show: the types, the number of files, and what the files are made from.
<1>7. ASSUME NEW n \in {"tmp", "gtmp"} \X Nat, NEW S \in FileType, Past(S), WriteFile(n, S)
      PROVE  /\ DOMAIN tmp' = Files /\ DOMAIN gtmp' = Files
             /\ \A i \in Files : tmp'[i] \in FileType /\ gtmp'[i] \in FileType
             /\ exist' \subseteq ({"tmp", "gtmp"} \X Nat) \cup {Final}
             /\ Final \in exist' <=> Final \in exist
             /\ \A m \in Name : Past(FileOf(m))'
  <2>1. /\ DOMAIN tmp' = Files /\ DOMAIN gtmp' = Files
        /\ \A i \in Files : tmp'[i] \in FileType /\ gtmp'[i] \in FileType
        /\ exist' \subseteq ({"tmp", "gtmp"} \X Nat) \cup {Final}
        /\ Final \in exist' <=> Final \in exist
        /\ \A m \in Name : FileOf(m)' = IF m = n THEN S ELSE FileOf(m)
    BY <1>0, <1>7, FileWritten
  <2>2. ASSUME NEW m \in Name PROVE Past(FileOf(m))'
    <3>1. Past(FileOf(m))
      BY <1>0 DEF FilesInv
    <3> QED
      BY <1>1, <1>7, <2>1, <3>1 DEF Past
  <2> QED
    BY <2>1, <2>2
<1>8. ASSUME DOMAIN buffer' = 1 .. 2, \A i \in 1 .. 2 : buffer'[i] \in {buffer[i], {}},
             taken' \in FileType, Past(taken), Past(taken'), name' \in {"tmp", "gtmp"} \X Nat,
             thread' \in {"sort", "name", "write", "merge", "ended"},
             num_written' \in Nat, num_group_written' \in Nat,
             DOMAIN tmp' = Files, DOMAIN gtmp' = Files,
             \A i \in Files : tmp'[i] \in FileType /\ gtmp'[i] \in FileType,
             exist' \subseteq ({"tmp", "gtmp"} \X Nat) \cup {Final},
             Final \in exist' <=> Final \in exist,
             \A m \in Name : Past(FileOf(m))'
      PROVE  TypeOK' /\ FilesInv' /\ SafeOutput' /\ OutputInv'
  <2>1. TypeOK'
    <3>1. {} \in FileType /\ Cardinality({}) <= config.capacity
      BY <1>0, Facts, FS_EmptySet DEF FileType
    <3>2. \A i \in 1 .. 2 : buffer'[i] \in FileType /\ Cardinality(buffer'[i]) <= config.capacity
      BY <1>0, <1>8, <3>1 DEF TypeOK
    <3> QED
      BY <1>0, <1>1, <1>3, <1>8, <3>2 DEF TypeOK, outVars, LaterPhases
  <2>2. FilesInv'
    <3>1. Past({})
      BY DEF Past
    <3>2. \A i \in 1 .. 2 : Past(buffer[i])
      BY <1>0 DEF FilesInv
    <3>3. ASSUME NEW i \in 1 .. 2 PROVE Past(buffer'[i])
      BY <1>8, <3>1, <3>2
    <3>4. Past(taken)' /\ \A i \in 1 .. 2 : Past(buffer[i])'
      BY <1>1, <1>8, <3>3 DEF Past
    <3> QED
      BY <1>3, <1>8, <3>4 DEF FilesInv
  <2>3. SafeOutput'
    <3>1. \A p : IsWhole(final, p) => IsWhole(final, p)'
      BY <1>1, <1>3 DEF IsWhole, outVars
    <3> QED
      BY <1>0, <1>1, <1>8, <3>1 DEF SafeOutput, outVars
  <2>4. OutputInv'
    <3>1. IsWhole(result, process)
      BY <1>0 DEF OutputInv
    <3>2. IsWhole(result, process)'
      BY <1>1, <1>3, <3>1 DEF IsWhole
    <3> QED
      BY <1>0, <1>1, <1>2, <1>3, <1>8, <3>2 DEF OutputInv, outVars
  <2> QED
    BY <2>1, <2>2, <2>3, <2>4
<1>9. /\ DOMAIN buffer = 1 .. 2 /\ source \in 1 .. 2 /\ b \in 1 .. 2 /\ taken \in FileType
      /\ name \in {"tmp", "gtmp"} \X Nat
      /\ num_written \in Nat /\ num_group_written \in Nat /\ group \in Nat
      /\ DOMAIN tmp = Files /\ DOMAIN gtmp = Files
      /\ \A i \in Files : tmp[i] \in FileType /\ gtmp[i] \in FileType
      /\ exist \subseteq ({"tmp", "gtmp"} \X Nat) \cup {Final}
      /\ \A i \in 1 .. 2 : buffer[i] \in FileType
  BY <1>0 DEF TypeOK
<1>10. /\ Past(taken) /\ (\A i \in 1 .. 2 : Past(buffer[i])) /\ (\A m \in Name : Past(FileOf(m)))
       /\ {} \in FileType /\ Past({})
  BY <1>0 DEF FilesInv, FileType, Past
<1>11. PICK f \in Nat, e \in Nat :
         /\ f = Cardinality(todo) /\ e = IF pending = None THEN 0 ELSE 1
         /\ num_written + num_group_written + (IF thread \in {"sort", "name"} THEN 1 ELSE 0)
              + Filling + e + f <= Cardinality(ToWrite)
  BY <1>0, Facts DEF CountInv
<1>12. /\ Filling = Cardinality(buffer[b]) /\ Cardinality(buffer[b]) \in Nat
       /\ Cardinality(ToWrite) \in Nat /\ Cardinality(ToWrite) <= Cardinality(Records)
       /\ Cardinality(Records) \in Nat
  BY <1>0, <1>2, <1>9, Facts DEF Filling
<1>13. ASSUME num_written' + num_group_written' + (IF thread' \in {"sort", "name"} THEN 1 ELSE 0)
                <= num_written + num_group_written + (IF thread \in {"sort", "name"} THEN 1 ELSE 0),
              num_written' \in Nat, num_group_written' \in Nat,
              buffer'[b] \in {buffer[b], {}}
       PROVE  CountInv'
  <2>1. Filling' \in Nat /\ Filling' <= Filling
    <3>1. Filling' = Cardinality(buffer'[b])
      BY <1>1, <1>2 DEF Filling
    <3>2. CASE buffer'[b] = buffer[b]
      BY <1>12, <3>1, <3>2
    <3>3. CASE buffer'[b] = {}
      <4>1. Filling' = 0
        BY <3>1, <3>3, FS_EmptySet
      <4> QED
        BY <1>12, <4>1
    <3> QED
      BY <1>13, <3>2, <3>3
  <2>2. num_written' + num_group_written' + (IF thread' \in {"sort", "name"} THEN 1 ELSE 0)
          + Filling' + e + f <= Cardinality(ToWrite)
    <3>1. PICK g \in Nat, h \in Nat : /\ g = IF thread \in {"sort", "name"} THEN 1 ELSE 0
                                     /\ h = IF thread' \in {"sort", "name"} THEN 1 ELSE 0
      OBVIOUS
    <3>2. /\ num_written' + num_group_written' + h <= num_written + num_group_written + g
          /\ num_written + num_group_written + g + Filling + e + f <= Cardinality(ToWrite)
      BY <1>11, <1>13, <3>1
    <3>3. /\ num_written \in Nat /\ num_group_written \in Nat
          /\ num_written' \in Nat /\ num_group_written' \in Nat
          /\ Filling \in Nat /\ Filling' \in Nat /\ Filling' <= Filling
          /\ Cardinality(ToWrite) \in Nat
      BY <1>9, <1>12, <1>13, <2>1
    <3>4. num_written' + num_group_written' + h + Filling' + e + f <= Cardinality(ToWrite)
      BY <3>2, <3>3, SumKept, Zenon
    <3> QED
      BY <3>1, <3>4
  <2> QED
    BY <1>1, <1>3, <1>11, <2>2 DEF CountInv
<1>14. CASE ThreadSort
  <2>1. /\ thread = "sort" /\ thread' = "name" /\ taken' = ReduceRecords(buffer[source])
        /\ buffer' = [buffer EXCEPT ![source] = {}]
        /\ UNCHANGED <<num_written, num_group_written, name, tmp, gtmp, exist>>
    BY <1>14 DEF ThreadSort, countVars, fileVars
  <2>2. DOMAIN buffer' = 1 .. 2 /\ \A i \in 1 .. 2 : buffer'[i] \in {buffer[i], {}}
    BY <1>9, <2>1
  <2>3. taken' \in FileType /\ Past(taken')
    BY <1>9, <1>10, <2>1, ReduceAny
  <2>4. \A m \in Name : Past(FileOf(m))'
    BY <1>1, <1>10, <2>1 DEF FileOf, Past
  <2>5. TypeOK' /\ FilesInv' /\ SafeOutput' /\ OutputInv'
    BY <1>8, <1>9, <1>10, <2>1, <2>2, <2>3, <2>4
  <2>6. CountInv'
    BY <1>9, <1>13, <2>1, <2>2
  <2> QED
    BY <1>4, <1>6, <2>5, <2>6, Zenon DEF OutIInv
<1>15. CASE ThreadName
  <2>1. /\ thread = "name" /\ thread' = "write" /\ UNCHANGED <<buffer, taken>>
        /\ name' = NextFile /\ WriteFile(NextFile, {}) /\ CountName(FALSE)
    <3>1. /\ thread = "name" /\ thread' = "write" /\ UNCHANGED <<buffer, taken>>
      BY <1>15 DEF ThreadName, bufferVars
    <3>2. name' = NextName(FALSE) /\ WriteFile(name', {}) /\ CountName(FALSE)
      BY <1>15, Zenon DEF ThreadName
    <3> QED
      BY <3>1, <3>2, Zenon DEF NextFile
  <2>2. \/ /\ NextFile = <<"gtmp", num_group_written>>
           /\ num_group_written' = num_group_written + 1 /\ num_written' = num_written
        \/ /\ NextFile = <<"tmp", num_written>>
           /\ num_written' = num_written + 1 /\ num_group_written' = num_group_written
    <3>1. CASE group > 0
      BY <2>1, <3>1 DEF NextFile, NextName, CountName
    <3>2. CASE ~(group > 0)
      BY <2>1, <3>2 DEF NextFile, NextName, CountName
    <3> QED
      BY <3>1, <3>2
  <2>3. NextFile \in {"tmp", "gtmp"} \X Nat
    BY <1>9, <2>2
  <2>4. /\ DOMAIN tmp' = Files /\ DOMAIN gtmp' = Files
        /\ \A i \in Files : tmp'[i] \in FileType /\ gtmp'[i] \in FileType
        /\ exist' \subseteq ({"tmp", "gtmp"} \X Nat) \cup {Final}
        /\ Final \in exist' <=> Final \in exist
        /\ \A m \in Name : Past(FileOf(m))'
    BY <1>7, <1>10, <2>1, <2>3
  <2>5. num_written' \in Nat /\ num_group_written' \in Nat
        /\ num_written' + num_group_written' = num_written + num_group_written + 1
    BY <1>9, <2>2
  <2>6. TypeOK' /\ FilesInv' /\ SafeOutput' /\ OutputInv'
    BY <1>8, <1>9, <1>10, <2>1, <2>3, <2>4, <2>5
  <2>7. CountInv'
    BY <1>9, <1>13, <2>1, <2>5
  <2> QED
    BY <1>4, <1>6, <2>6, <2>7, Zenon DEF OutIInv
<1>16. CASE ThreadWrite
  <2>1. /\ thread = "write" /\ thread' = "merge" /\ taken' = {}
        /\ UNCHANGED <<buffer, name, num_written, num_group_written>>
    BY <1>16 DEF ThreadWrite, bufferVars, countVars
  <2>2. PICK S \in FileType : Past(S) /\ WriteFile(name, S)
    <3>1. \E S \in {taken, {}} : WriteFile(name, S)
      BY <1>16 DEF ThreadWrite
    <3> QED
      BY <1>9, <1>10, <3>1
  <2>3. /\ DOMAIN tmp' = Files /\ DOMAIN gtmp' = Files
        /\ \A i \in Files : tmp'[i] \in FileType /\ gtmp'[i] \in FileType
        /\ exist' \subseteq ({"tmp", "gtmp"} \X Nat) \cup {Final}
        /\ Final \in exist' <=> Final \in exist
        /\ \A m \in Name : Past(FileOf(m))'
    BY <1>7, <1>9, <2>2
  <2>4. TypeOK' /\ FilesInv' /\ SafeOutput' /\ OutputInv'
    BY <1>8, <1>9, <1>10, <2>1, <2>3
  <2>5. CountInv'
    BY <1>9, <1>13, <2>1
  <2> QED
    BY <1>4, <1>6, <2>4, <2>5, Zenon DEF OutIInv
<1>17. CASE ThreadMerge
  <2>1. thread = "merge" /\ thread' = "ended" /\ UNCHANGED <<buffer, name, taken>>
    BY <1>17 DEF ThreadMerge, bufferVars
  <2>2. CASE ~(group > 0 /\ num_group_written >= group)
    <3>1. UNCHANGED <<num_written, num_group_written, tmp, gtmp, exist>>
      BY <1>17, <2>2 DEF ThreadMerge, fileVars
    <3>2. \A m \in Name : Past(FileOf(m))'
      BY <1>1, <1>10, <3>1 DEF FileOf, Past
    <3>3. TypeOK' /\ FilesInv' /\ SafeOutput' /\ OutputInv'
      BY <1>8, <1>9, <1>10, <2>1, <3>1, <3>2
    <3>4. CountInv'
      BY <1>9, <1>13, <2>1, <3>1
    <3> QED
      BY <1>4, <1>6, <3>3, <3>4, Zenon DEF OutIInv
  <2>3. CASE group > 0 /\ num_group_written >= group
    <3> DEFINE I == 0 .. num_group_written - 1
               S == UNION {gtmp[i] : i \in I}
               R == ReduceRecords(S)
    <3>1. num_written' = num_written + 1 /\ num_group_written' = 0 /\ WriteFile(NextName(TRUE), R)
      BY <1>17, <2>3 DEF ThreadMerge
    <3>2. I \subseteq Files
      BY <1>9, <1>11, <1>12 DEF Files
    <3>3. \A i \in I : gtmp[i] \in FileType /\ Past(gtmp[i])
      <4>1. \A i \in Files : <<"gtmp", i>> \in Name /\ FileOf(<<"gtmp", i>>) = gtmp[i]
        BY DEF Name, FileOf
      <4> QED
        BY <1>9, <1>10, <3>2, <4>1
    <3> HIDE DEF I
    <3>4. S \in FileType /\ Past(S)
      BY <3>3 DEF FileType, Past
    <3> HIDE DEF S
    <3>5. R \in FileType /\ Past(R)
      BY <3>4, ReduceAny
    <3> HIDE DEF R
    <3>6. WriteFile(<<"tmp", num_written>>, R)
      <4>1. NextName(TRUE) = <<"tmp", num_written>>
        BY DEF NextName
      <4> QED
        BY <3>1, <4>1, Zenon
    <3>7. /\ DOMAIN tmp' = Files /\ DOMAIN gtmp' = Files
          /\ \A i \in Files : tmp'[i] \in FileType /\ gtmp'[i] \in FileType
          /\ exist' \subseteq ({"tmp", "gtmp"} \X Nat) \cup {Final}
          /\ Final \in exist' <=> Final \in exist
          /\ \A m \in Name : Past(FileOf(m))'
      <4>1. <<"tmp", num_written>> \in {"tmp", "gtmp"} \X Nat
        BY <1>9
      <4> QED
        BY <1>7, <3>5, <3>6, <4>1
    <3>8. num_written' \in Nat /\ num_group_written' \in Nat
          /\ num_written' + num_group_written' <= num_written + num_group_written
      BY <1>9, <2>3, <3>1
    <3>9. TypeOK' /\ FilesInv' /\ SafeOutput' /\ OutputInv'
      BY <1>8, <1>9, <1>10, <2>1, <3>7, <3>8
    <3>10. CountInv'
      <4>1. (IF thread' \in {"sort", "name"} THEN 1 ELSE 0) = 0
            /\ (IF thread \in {"sort", "name"} THEN 1 ELSE 0) = 0
        BY <2>1
      <4>2. num_written' + num_group_written' + (IF thread' \in {"sort", "name"} THEN 1 ELSE 0)
              <= num_written + num_group_written + (IF thread \in {"sort", "name"} THEN 1 ELSE 0)
        BY <1>9, <3>8, <4>1
      <4>3. buffer'[b] \in {buffer[b], {}}
        BY <2>1
      <4> QED
        BY <1>13, <3>8, <4>2, <4>3, Zenon
    <3> QED
      BY <1>4, <1>6, <3>9, <3>10, Zenon DEF OutIInv
  <2> QED
    BY <2>2, <2>3
<1> QED
  BY <1>14, <1>15, <1>16, <1>17 DEF Thread

Outputs == OpenOutput \/ WriteOutput \/ RenameOutput \/ WriteAck \/ FreeBuffers

\* What the steps that follow on the cursor leave of the invariant.
LEMMA LaterKept ==
  ASSUME OutIInv, ~Writing, app' \in LaterPhases,
         UNCHANGED <<config, process, todo, pending, buffer, b, countVars, threadVars, result, left>>
  PROVE  /\ CountInv' /\ ThreadInv' /\ HoldInv' /\ PhaseInv' /\ GroupInv' /\ PlacesInv'
         /\ ~Writing' /\ (Complete' <=> Complete) /\ ToWrite' = ToWrite
         /\ \A S, p : IsWhole(S, p)' <=> IsWhole(S, p)
<1>0. TypeOK /\ CountInv /\ ThreadInv /\ PhaseInv
  BY DEF OutIInv
<1>1. ToWrite' = ToWrite /\ Joined' = Joined /\ (Complete' <=> Complete)
  BY DEF ToWrite, Joined, Complete, threadVars
<1>2. pending' = None
  <2>1. app \in LaterPhases
    BY <1>0 DEF TypeOK, LaterPhases
  <2> QED
    BY <1>0, <2>1 DEF PhaseInv, LaterPhases
<1>3. ~Joined => config.extra /\ ~Complete
  BY <1>0 DEF ThreadInv
<1>4. ThreadInv' /\ HoldInv' /\ PhaseInv' /\ GroupInv' /\ PlacesInv' /\ ~Writing'
  BY <1>1, <1>2, <1>3, LaterSteps
<1>5. CountInv'
  BY <1>0, <1>1 DEF CountInv, Filling, countVars, threadVars
<1>6. \A S, p : IsWhole(S, p)' <=> IsWhole(S, p)
  BY <1>1 DEF IsWhole
<1> QED
  BY <1>1, <1>4, <1>5, <1>6

\* The steps that write the output leave it whole, or not there yet.
LEMMA OutputsSorted ==
  ASSUME OutIInv, Outputs PROVE OutIInv'
<1>0. /\ TypeOK /\ OutputInv /\ FilesInv /\ SafeOutput
  BY DEF OutIInv
<1>1. /\ ~Writing /\ app \in {"output", "write", "rename", "ack", "free"}
      /\ app' \in {"write", "rename", "ack", "free", "remove"} /\ app' \in LaterPhases
  BY DEF Outputs, OpenOutput, WriteOutput, RenameOutput, WriteAck, FreeBuffers, Writing, LaterPhases
<1>2. UNCHANGED <<config, process, todo, pending, buffer, b, countVars, threadVars,
                  result, left, tmp, gtmp>>
  BY DEF Outputs, OpenOutput, WriteOutput, RenameOutput, WriteAck, FreeBuffers, bufferVars,
         destroyVars, fileVars
<1>3. /\ CountInv' /\ ThreadInv' /\ HoldInv' /\ PhaseInv' /\ GroupInv' /\ PlacesInv'
      /\ ~Writing' /\ (Complete' <=> Complete) /\ ToWrite' = ToWrite
      /\ \A S, p : IsWhole(S, p)' <=> IsWhole(S, p)
  BY <1>1, <1>2, LaterKept
<1>4. /\ IsWhole(result, process) /\ IsWhole(result, process)' /\ result \in FileType
      /\ process \in 1 .. process /\ config.safe \in BOOLEAN
  <2>1. IsWhole(result, process) /\ result \in FileType /\ process \in Nat /\ process >= 1
    <3>1. process \in 1 .. MaxProcesses /\ result \in FileType
      BY <1>0 DEF TypeOK, Process
    <3>2. process \in Nat /\ process >= 1
      BY <3>1, SortedAssumption
    <3> QED
      BY <1>0, <1>1, <3>1, <3>2 DEF OutputInv
  <2>2. IsWhole(result, process)'
    BY <1>2, <1>3, <2>1 DEF IsWhole
  <2> QED
    BY <1>0, <2>1, <2>2, Facts
<1>5. NoFilesLeft'
  BY <1>1 DEF NoFilesLeft
<1>6. /\ safe \in FileType /\ final \in FileType /\ ack \in BOOLEAN /\ {} \in FileType
      /\ exist \subseteq ({"tmp", "gtmp"} \X Nat) \cup {Final} /\ freed \subseteq 1 .. 2
      /\ at \in {"tmp", "gtmp"} \X Nat /\ skipped \in 0 .. 4
  BY <1>0 DEF TypeOK, FileType
<1>7. ASSUME safe' \in FileType, final' \in FileType, ack' \in BOOLEAN, freed' \subseteq 1 .. 2,
             at' \in {"tmp", "gtmp"} \X Nat, skipped' \in 0 .. 4,
             exist' \in {exist, exist \cup {Final}}
      PROVE  TypeOK'
  <2>1. exist' \subseteq ({"tmp", "gtmp"} \X Nat) \cup {Final}
    BY <1>6, <1>7
  <2> QED
    BY <1>0, <1>1, <1>2, <1>3, <1>7, <2>1 DEF TypeOK, countVars, threadVars, LaterPhases
\* Temporary files stay what they are, and their names.
<1>8. ASSUME exist \subseteq exist' PROVE
        /\ \A n \in Name : Past(FileOf(n))' /\ (Wrote(n, process)' <=> Wrote(n, process))
        /\ Past(taken)' /\ \A i \in 1 .. 2 : Past(buffer[i])'
        /\ Complete' => \A n \in Name : Wrote(n, process)' => \A j \in 0 .. n[2] : <<n[1], j>> \in exist'
  <2>1. ASSUME NEW n \in Name
        PROVE  Past(FileOf(n))' /\ (Wrote(n, process)' <=> Wrote(n, process))
    BY <1>0, <1>2 DEF FilesInv, FileOf, Wrote, Past
  <2>2. Past(taken)' /\ \A i \in 1 .. 2 : Past(buffer[i])'
    BY <1>0, <1>1, <1>2 DEF FilesInv, Past, threadVars
  <2>3. ASSUME Complete', NEW n \in Name, Wrote(n, process)'
        PROVE  \A j \in 0 .. n[2] : <<n[1], j>> \in exist
    BY <1>0, <1>1, <1>3, <2>1, <2>3 DEF FilesInv
  <2> QED
    BY <1>8, <2>1, <2>2, <2>3
<1>9. ASSUME app' # "remove", exist \subseteq exist' PROVE FilesInv'
  BY <1>3, <1>8, <1>9 DEF FilesInv
<1>10. CASE OpenOutput
  <2>1. app = "output" /\ app' = "write" /\ UNCHANGED <<freed, ack, at, skipped>>
        /\ IF config.safe THEN safe' = {} /\ UNCHANGED <<final, exist>>
                          ELSE final' = {} /\ exist' = exist \cup {Final} /\ UNCHANGED safe
    BY <1>10 DEF OpenOutput, bufferVars, destroyVars
  <2>2. TypeOK'
    BY <1>6, <1>7, <2>1
  <2>3. OutputInv'
    BY <1>0, <1>2, <1>3, <1>4, <2>1 DEF OutputInv
  <2>4. SafeOutput'
    BY <1>0, <1>2, <1>3, <2>1 DEF SafeOutput
  <2>5. FilesInv'
    BY <1>9, <2>1
  <2> QED
    BY <1>3, <1>5, <2>2, <2>3, <2>4, <2>5, Zenon DEF OutIInv
<1>11. CASE WriteOutput
  <2>1. app = "write" /\ UNCHANGED <<freed, ack, at, skipped, exist>>
        /\ app' = (IF config.safe THEN "rename" ELSE "ack")
        /\ IF config.safe THEN safe' = result /\ UNCHANGED final
                          ELSE final' = result /\ UNCHANGED safe
    BY <1>11 DEF WriteOutput, bufferVars, destroyVars, fileVars
  <2>2. TypeOK'
    BY <1>4, <1>6, <1>7, <2>1
  <2>3. OutputInv'
    BY <1>0, <1>2, <1>3, <1>4, <2>1 DEF OutputInv
  <2>4. SafeOutput'
    BY <1>0, <1>2, <1>3, <2>1 DEF SafeOutput
  <2>5. FilesInv'
    BY <1>9, <2>1
  <2> QED
    BY <1>3, <1>5, <2>2, <2>3, <2>4, <2>5, Zenon DEF OutIInv
<1>12. CASE RenameOutput
  <2>1. app = "rename" /\ app' = "ack" /\ UNCHANGED <<freed, ack, at, skipped>>
        /\ safe = result /\ final' = result /\ safe' = {} /\ config.safe /\ exist' = exist \cup {Final}
    BY <1>0, <1>12 DEF RenameOutput, OutputInv, bufferVars, destroyVars
  <2>2. TypeOK'
    BY <1>4, <1>6, <1>7, <2>1
  <2>3. OutputInv'
    BY <1>0, <1>2, <1>3, <1>4, <2>1 DEF OutputInv
  <2>4. SafeOutput'
    <3>1. final' = result'
      BY <1>2, <2>1
    <3>2. IsWhole(final, process)'
      BY <1>4, <3>1 DEF IsWhole
    <3> QED
      BY <1>2, <1>4, <2>1, <3>2 DEF SafeOutput
  <2>5. FilesInv'
    BY <1>9, <2>1
  <2> QED
    BY <1>3, <1>5, <2>2, <2>3, <2>4, <2>5, Zenon DEF OutIInv
<1>13. CASE WriteAck
  <2>1. app = "ack" /\ app' = "free" /\ UNCHANGED <<freed, safe, final, at, skipped, exist>>
        /\ ack' = TRUE /\ (config.safe => final = result /\ Final \in exist)
    BY <1>0, <1>13 DEF WriteAck, OutputInv, bufferVars, destroyVars, fileVars
  <2>2. TypeOK'
    BY <1>6, <1>7, <2>1
  <2>3. OutputInv'
    BY <1>0, <1>2, <1>3, <1>4, <2>1 DEF OutputInv
  <2>4. SafeOutput'
    <3>1. config.safe => IsWhole(final, process)'
      BY <1>2, <1>3, <1>4, <2>1 DEF IsWhole
    <3> QED
      BY <1>2, <1>4, <2>1, <3>1 DEF SafeOutput
  <2>5. FilesInv'
    BY <1>9, <2>1
  <2> QED
    BY <1>3, <1>5, <2>2, <2>3, <2>4, <2>5, Zenon DEF OutIInv
<1>14. CASE FreeBuffers
  <2>1. app = "free" /\ app' = "remove" /\ UNCHANGED <<safe, final, ack, exist>>
        /\ freed' = 1 .. 2 /\ at' = <<"tmp", 0>> /\ skipped' = 0
    BY <1>14 DEF FreeBuffers, outVars, fileVars
  <2>2. TypeOK'
    BY <1>6, <1>7, <2>1
  <2>3. OutputInv'
    BY <1>0, <1>2, <1>3, <1>4, <2>1 DEF OutputInv
  <2>4. SafeOutput'
    BY <1>0, <1>2, <1>3, <2>1 DEF SafeOutput
  <2>5. FilesInv'
    <3>1. \A n \in Name : n[1] \in {"tmp", "gtmp"} /\ n[2] \in Nat
      BY DEF Name, Files
    <3> QED
      BY <1>3, <1>8, <2>1, <3>1 DEF FilesInv
  <2> QED
    BY <1>3, <1>5, <2>2, <2>3, <2>4, <2>5, Zenon DEF OutIInv
<1> QED
  BY <1>10, <1>11, <1>12, <1>13, <1>14 DEF Outputs

\* A temporary file is removed, or a name was free.
LEMMA RemoveFileSorted ==
  ASSUME OutIInv, RemoveFile PROVE OutIInv'
<1>0. /\ TypeOK /\ OutputInv /\ FilesInv /\ SafeOutput
  BY DEF OutIInv
<1>1. /\ app = "remove" /\ app' = "remove" /\ app' \in LaterPhases /\ ~Writing /\ skipped < 4
      /\ at' = <<at[1], at[2] + 1>>
      /\ UNCHANGED <<config, process, todo, pending, bufferVars, countVars, threadVars,
                     result, left, outVars>>
  BY DEF RemoveFile, Writing, LaterPhases
<1>2. /\ CountInv' /\ ThreadInv' /\ HoldInv' /\ PhaseInv' /\ GroupInv' /\ PlacesInv'
      /\ ~Writing' /\ (Complete' <=> Complete) /\ ToWrite' = ToWrite
      /\ \A S, p : IsWhole(S, p)' <=> IsWhole(S, p)
  BY <1>1, LaterKept DEF bufferVars
<1>3. PICK k \in Nat, s \in {"tmp", "gtmp"} : at = <<s, k>>
  BY <1>0 DEF TypeOK
<1>4. at' = <<s, k + 1>> /\ k + 1 \in Nat /\ skipped \in 0 .. 3
  BY <1>0, <1>1, <1>3 DEF TypeOK
<1>5. ASSUME NEW n \in Name PROVE n = <<n[1], n[2]>> /\ n[1] \in {"tmp", "gtmp"} /\ n[2] \in Files
                                  /\ n[2] \in Nat
  BY DEF Name, Files
<1>6. /\ DOMAIN tmp = Files /\ DOMAIN gtmp = Files /\ {} \in FileType
      /\ \A i \in Files : tmp[i] \in FileType /\ gtmp[i] \in FileType
      /\ exist \subseteq ({"tmp", "gtmp"} \X Nat) \cup {Final}
  BY <1>0 DEF TypeOK, FileType
\* Both cases: what is on disk.
<1>7. /\ exist' = exist \ {at} /\ skipped' = IF at \in exist THEN skipped ELSE skipped + 1
      /\ DOMAIN tmp' = Files /\ DOMAIN gtmp' = Files
      /\ \A i \in Files : tmp'[i] \in FileType /\ gtmp'[i] \in FileType
      /\ \A n \in Name : FileOf(n)' \in {FileOf(n), {}} /\ (at \in exist /\ n = at => FileOf(n)' = {})
  <2>1. CASE at \in exist
    <3>1. /\ exist' = exist \ {at} /\ skipped' = skipped
          /\ IF s = "tmp" THEN tmp' = [tmp EXCEPT ![k] = {}] /\ gtmp' = gtmp
                          ELSE gtmp' = [gtmp EXCEPT ![k] = {}] /\ tmp' = tmp
      BY <1>3, <2>1 DEF RemoveFile
    <3>2. /\ DOMAIN tmp' = Files /\ DOMAIN gtmp' = Files
          /\ \A i \in Files : tmp'[i] \in FileType /\ gtmp'[i] \in FileType
      BY <1>6, <3>1
    <3>3. ASSUME NEW n \in Name
          PROVE  FileOf(n)' \in {FileOf(n), {}} /\ (n = at => FileOf(n)' = {})
      <4>1. PICK i \in Files : n = <<"tmp", i>> \/ n = <<"gtmp", i>>
        BY DEF Name
      <4>2. CASE n = <<"tmp", i>>
        BY <1>3, <1>6, <3>1, <4>2 DEF FileOf
      <4>3. CASE n = <<"gtmp", i>>
        BY <1>3, <1>6, <3>1, <4>3 DEF FileOf
      <4> QED
        BY <4>1, <4>2, <4>3
    <3> QED
      BY <2>1, <3>1, <3>2, <3>3
  <2>2. CASE at \notin exist
    <3>1. skipped' = skipped + 1 /\ UNCHANGED <<tmp, gtmp, exist>>
      BY <2>2 DEF RemoveFile, fileVars
    <3> QED
      BY <1>6, <2>2, <3>1 DEF FileOf
  <2> QED
    BY <2>1, <2>2
<1>8. at # Final
  BY <1>3 DEF Final
<1>9. TypeOK'
  <2>1. skipped' \in 0 .. 4 /\ at' \in {"tmp", "gtmp"} \X Nat
    BY <1>4, <1>7
  <2>2. exist' \subseteq ({"tmp", "gtmp"} \X Nat) \cup {Final}
    BY <1>6, <1>7
  <2> QED
    BY <1>0, <1>1, <1>2, <1>7, <2>1, <2>2
    DEF TypeOK, bufferVars, countVars, threadVars, outVars, LaterPhases
<1>10. OutputInv'
  <2>1. IsWhole(result, process) => IsWhole(result, process)'
    BY <1>1, <1>2 DEF IsWhole
  <2> QED
    BY <1>0, <1>1, <1>2, <2>1 DEF OutputInv
<1>11. SafeOutput'
  <2>1. \A p : IsWhole(final, p) => IsWhole(final, p)'
    BY <1>1, <1>2 DEF IsWhole, outVars
  <2>2. Final \in exist' <=> Final \in exist
    BY <1>7, <1>8
  <2> QED
    BY <1>0, <1>1, <2>1, <2>2 DEF SafeOutput, outVars
<1>12. NoFilesLeft'
  BY <1>1 DEF NoFilesLeft
<1>13. ASSUME NEW n \in Name
       PROVE  Past(FileOf(n))' /\ (Wrote(n, process)' => Wrote(n, process) /\ ~(at \in exist /\ n = at))
  <2>1. Past(FileOf(n))
    BY <1>0 DEF FilesInv
  <2> QED
    BY <1>1, <1>7, <2>1 DEF Past, Wrote
<1>14. Past(taken)' /\ \A i \in 1 .. 2 : Past(buffer[i])'
  BY <1>0, <1>1 DEF FilesInv, Past, threadVars, bufferVars
<1>15. ASSUME Complete
       PROVE  /\ \A n \in Name : Wrote(n, process)' =>
                   IF n[1] = at'[1]
                   THEN skipped' = 0 /\ n[2] >= at'[2]
                        /\ \A j \in at'[2] .. n[2] : <<n[1], j>> \in exist'
                   ELSE at'[1] = "tmp" /\ \A j \in 0 .. n[2] : <<n[1], j>> \in exist'
              /\ skipped' <= at'[2]
              /\ \A n \in Name \cap exist' : n[1] = at'[1] => n[2] >= at'[2]
              /\ at'[1] = "gtmp" => \A n \in Name \cap exist' : n[1] = "tmp" => n[2] > 3
  <2>0. /\ \A n \in Name : Wrote(n, process) =>
             IF n[1] = s
             THEN skipped = 0 /\ n[2] >= k /\ \A j \in k .. n[2] : <<n[1], j>> \in exist
             ELSE s = "tmp" /\ \A j \in 0 .. n[2] : <<n[1], j>> \in exist
        /\ skipped <= k
        /\ \A n \in Name \cap exist : n[1] = s => n[2] >= k
        /\ s = "gtmp" => \A n \in Name \cap exist : n[1] = "tmp" => n[2] > 3
    BY <1>0, <1>1, <1>3, <1>15 DEF FilesInv
  <2>1. ASSUME NEW n \in Name, Wrote(n, process)', n[1] = s
        PROVE  skipped' = 0 /\ n[2] >= k + 1 /\ \A j \in k + 1 .. n[2] : <<n[1], j>> \in exist'
    <3>1. Wrote(n, process) /\ ~(at \in exist /\ n = at)
      BY <1>13, <2>1
    <3>2. skipped = 0 /\ n[2] >= k /\ \A j \in k .. n[2] : <<n[1], j>> \in exist
      BY <2>0, <2>1, <3>1
    <3>3. at \in exist
      <4>1. k \in k .. n[2]
        BY <1>5, <3>2
      <4> QED
        BY <1>3, <2>1, <3>2, <4>1
    <3>4. n[2] # k
      BY <1>3, <1>5, <2>1, <3>1, <3>3
    <3>5. n[2] >= k + 1
      BY <1>5, <3>2, <3>4
    <3>6. ASSUME NEW j \in k + 1 .. n[2] PROVE <<n[1], j>> \in exist'
      <4>1. j \in k .. n[2] /\ j # k
        BY <1>5
      <4> QED
        BY <1>3, <1>7, <2>1, <3>2, <4>1
    <3> QED
      BY <1>7, <3>2, <3>3, <3>5, <3>6
  <2>2. ASSUME NEW n \in Name, Wrote(n, process)', n[1] # s
        PROVE  s = "tmp" /\ \A j \in 0 .. n[2] : <<n[1], j>> \in exist'
    <3>1. Wrote(n, process)
      BY <1>13, <2>2
    <3> QED
      BY <1>3, <1>7, <2>0, <2>2, <3>1
  <2>3. skipped' <= k + 1
    BY <1>4, <1>7, <2>0
  <2>4. ASSUME NEW n \in Name \cap exist', n[1] = s PROVE n[2] >= k + 1
    <3>1. n[2] >= k /\ n # at
      BY <1>7, <2>0, <2>4
    <3>2. n[2] # k
      BY <1>3, <1>5, <2>4, <3>1
    <3> QED
      BY <1>5, <3>1, <3>2
  <2>5. s = "gtmp" => \A n \in Name \cap exist' : n[1] = "tmp" => n[2] > 3
    BY <1>7, <2>0
  <2>6. at'[1] = s /\ at'[2] = k + 1
    BY <1>4
  <2> QED
    BY <2>1, <2>2, <2>3, <2>4, <2>5, <2>6
<1>16. FilesInv'
  BY <1>1, <1>2, <1>13, <1>14, <1>15 DEF FilesInv
<1> QED
  BY <1>2, <1>9, <1>10, <1>11, <1>12, <1>16, Zenon DEF OutIInv

\* Four names in a row of no file: nothing of this process is left under such names.
LEMMA EndRemoveSorted ==
  ASSUME OutIInv, EndRemove PROVE OutIInv'
<1>0. /\ TypeOK /\ OutputInv /\ FilesInv /\ SafeOutput
  BY DEF OutIInv
<1>1. /\ app = "remove" /\ app' \in {"remove", "closed"} /\ app' \in LaterPhases
      /\ ~Writing /\ skipped = 4
      /\ UNCHANGED <<config, process, todo, pending, bufferVars, countVars, threadVars,
                     result, left, tmp, gtmp, exist, outVars>>
  BY DEF EndRemove, Writing, LaterPhases, fileVars
<1>2. /\ CountInv' /\ ThreadInv' /\ HoldInv' /\ PhaseInv' /\ GroupInv' /\ PlacesInv'
      /\ ~Writing' /\ (Complete' <=> Complete) /\ ToWrite' = ToWrite
      /\ \A S, p : IsWhole(S, p)' <=> IsWhole(S, p)
  BY <1>1, LaterKept DEF bufferVars
<1>3. IF at[1] = "tmp" THEN at' = <<"gtmp", 0>> /\ skipped' = 0 /\ app' = app
                       ELSE app' = "closed" /\ UNCHANGED <<at, skipped>>
  BY DEF EndRemove
<1>4. at[1] \in {"tmp", "gtmp"} /\ at[2] \in Nat /\ at \in {"tmp", "gtmp"} \X Nat
  BY <1>0 DEF TypeOK
<1>5. TypeOK'
  <2>1. skipped' \in 0 .. 4 /\ at' \in {"tmp", "gtmp"} \X Nat
    BY <1>1, <1>3, <1>4
  <2> QED
    BY <1>0, <1>1, <1>2, <2>1
    DEF TypeOK, bufferVars, countVars, threadVars, outVars, LaterPhases
<1>6. OutputInv'
  <2>1. IsWhole(result, process) => IsWhole(result, process)'
    BY <1>1, <1>2 DEF IsWhole
  <2> QED
    BY <1>0, <1>1, <1>2, <2>1 DEF OutputInv
<1>7. SafeOutput'
  <2>1. \A p : IsWhole(final, p) => IsWhole(final, p)'
    BY <1>1, <1>2 DEF IsWhole, outVars
  <2> QED
    BY <1>0, <1>1, <2>1 DEF SafeOutput, outVars
<1>8. ASSUME NEW n \in Name
      PROVE  Past(FileOf(n))' /\ (Wrote(n, process)' <=> Wrote(n, process))
  BY <1>0, <1>1 DEF FilesInv, Past, Wrote, FileOf
<1>9. Past(taken)' /\ \A i \in 1 .. 2 : Past(buffer[i])'
  BY <1>0, <1>1 DEF FilesInv, Past, threadVars, bufferVars
<1>10. ASSUME Complete
       PROVE  /\ \A n \in Name : ~(Wrote(n, process) /\ n[1] = at[1])
              /\ \A n \in Name : Wrote(n, process) =>
                   at[1] = "tmp" /\ \A j \in 0 .. n[2] : <<n[1], j>> \in exist
              /\ \A n \in Name \cap exist : n[1] = at[1] => n[2] > 3
              /\ at[1] = "gtmp" => \A n \in Name \cap exist : n[1] = "tmp" => n[2] > 3
  <2>1. /\ \A n \in Name : Wrote(n, process) =>
             IF n[1] = at[1]
             THEN skipped = 0 /\ n[2] >= at[2] /\ \A j \in at[2] .. n[2] : <<n[1], j>> \in exist
             ELSE at[1] = "tmp" /\ \A j \in 0 .. n[2] : <<n[1], j>> \in exist
        /\ skipped <= at[2]
        /\ \A n \in Name \cap exist : n[1] = at[1] => n[2] >= at[2]
        /\ at[1] = "gtmp" => \A n \in Name \cap exist : n[1] = "tmp" => n[2] > 3
    BY <1>0, <1>1, <1>10 DEF FilesInv
  <2>2. \A n \in Name : n[2] \in Nat
    BY DEF Name, Files
  <2>3. ASSUME NEW n \in Name \cap exist, n[1] = at[1] PROVE n[2] > 3
    BY <1>1, <1>4, <2>1, <2>2, <2>3
  <2> QED
    BY <1>1, <2>1, <2>3
<1>11. NoFilesLeft'
  <2>1. ASSUME app' = "closed", Complete, NEW n \in Name \cap exist
        PROVE  ~Wrote(n, process) /\ n[2] > 3
    <3>1. at[1] = "gtmp"
      BY <1>1, <1>3, <1>4, <2>1
    <3>2. n[1] \in {"tmp", "gtmp"}
      BY DEF Name
    <3> QED
      BY <1>10, <2>1, <3>1, <3>2
  <2> QED
    BY <1>1, <1>2, <1>8, <2>1 DEF NoFilesLeft
<1>12. FilesInv'
  <2>1. CASE at[1] = "tmp"
    <3>1. at' = <<"gtmp", 0>> /\ skipped' = 0 /\ app' = "remove"
      BY <1>1, <1>3, <2>1
    <3>2. \A n \in Name : n[1] \in {"tmp", "gtmp"} /\ n[2] \in Nat
      BY DEF Name, Files
    <3>3. ASSUME Complete
          PROVE  /\ \A n \in Name : Wrote(n, process)' =>
                      IF n[1] = at'[1]
                      THEN skipped' = 0 /\ n[2] >= at'[2]
                           /\ \A j \in at'[2] .. n[2] : <<n[1], j>> \in exist'
                      ELSE at'[1] = "tmp" /\ \A j \in 0 .. n[2] : <<n[1], j>> \in exist'
                 /\ skipped' <= at'[2]
                 /\ \A n \in Name \cap exist' : n[1] = at'[1] => n[2] >= at'[2]
                 /\ at'[1] = "gtmp" => \A n \in Name \cap exist' : n[1] = "tmp" => n[2] > 3
      <4>1. exist' = exist /\ at'[1] = "gtmp" /\ at'[2] = 0
        BY <1>1, <3>1
      <4>2. ASSUME NEW n \in Name, Wrote(n, process)'
            PROVE  /\ n[1] = "gtmp" /\ skipped' = 0 /\ n[2] >= 0
                   /\ \A j \in 0 .. n[2] : <<n[1], j>> \in exist
        BY <1>8, <1>10, <2>1, <3>1, <3>2, <3>3, <4>2
      <4>3. \A n \in Name \cap exist : n[1] = "tmp" => n[2] > 3
        BY <1>10, <2>1, <3>3
      <4> QED
        BY <3>1, <3>2, <4>1, <4>2, <4>3
    <3> QED
      BY <1>2, <1>8, <1>9, <3>1, <3>3 DEF FilesInv
  <2>2. CASE at[1] # "tmp"
    <3>1. app' = "closed"
      BY <1>3, <2>2
    <3> QED
      BY <1>2, <1>8, <1>9, <3>1 DEF FilesInv
  <2> QED
    BY <2>1, <2>2
<1> QED
  BY <1>2, <1>5, <1>6, <1>7, <1>11, <1>12, Zenon DEF OutIInv

LEMMA RestartSorted ==
  ASSUME OutIInv, Restart PROVE OutIInv'
<1>0. TypeOK /\ SafeOutput /\ OutputInv /\ FilesInv
  BY DEF OutIInv
<1>1. /\ app' = "open" /\ Writing' /\ UNCHANGED <<config, left, tmp, gtmp, exist, outVars>>
      /\ todo' = ToWrite /\ at' = <<"tmp", 0>> /\ skipped' = 0
      /\ ToWrite' = ToWrite /\ pending' = None /\ b' = 1 /\ freed' = {} /\ num_written' = 0
      /\ num_group_written' = 0 /\ group' = config.group /\ thread' = "none" /\ taken' = {}
      /\ source' = 1 /\ name' = <<"tmp", 0>> /\ result' = {}
      /\ DOMAIN buffer' = 1 .. 2 /\ buffer'[1] = {} /\ buffer'[2] = {}
      /\ \A i \in 1 .. 2 : buffer'[i] = {}
  BY DEF Restart, Writing, ToWrite, fileVars
<1>2. process' = process + 1 /\ process' \in Process /\ process \in Nat
  <2>1. process \in 1 .. MaxProcesses /\ process < MaxProcesses /\ process' = process + 1
    BY <1>0 DEF Restart, TypeOK, Process
  <2> QED
    BY <2>1, SortedAssumption DEF Process
<1>3. IsFiniteSet(Records) /\ Cardinality(Records) \in Nat /\ 0 \in Files
  BY SortedAssumption, FS_CardinalityType DEF Files
<1>4. Cardinality({}) = 0 /\ Cardinality(ToWrite) \in Nat /\ config.capacity \in Nat
      /\ config.group \in Nat
  BY <1>0, FS_EmptySet, Facts
<1>5. TypeOK'
  <2>1. {} \in FileType
    BY DEF FileType
  <2>2. name' \in {"tmp", "gtmp"} \X Nat /\ at' \in {"tmp", "gtmp"} \X Nat /\ skipped' \in 0 .. 4
    BY <1>1
  <2>3. \A i \in 1 .. 2 : Cardinality(buffer'[i]) <= config.capacity /\ buffer'[i] \in FileType
    BY <1>1, <1>4, <2>1
  <2>4. 1 \in 1 .. 2 /\ {} \subseteq 1 .. 2 /\ 0 \in Nat
    OBVIOUS
  <2> QED
    BY <1>0, <1>1, <1>2, <1>4, <2>1, <2>2, <2>3, <2>4 DEF TypeOK, outVars
<1>6. PlacesInv'
  <2>1. ASSUME NEW p \in Place PROVE Content(p)' = {}
    <3>1. CASE \E i \in 1 .. 2 : p = <<"buffer", i>>
      BY <1>1, <3>1, ContentCasesNext
    <3>2. CASE p = <<"taken", 0>> \/ p = <<"pending", 0>>
      BY <1>1, <3>2, ContentCasesNext
    <3>3. CASE \E i \in Files : p = <<"tmp", i>> \/ p = <<"gtmp", i>>
      <4>1. \A i \in Files : ~(i < num_written') /\ ~(i < num_group_written')
        BY <1>1 DEF Files
      <4> QED
        BY <3>3, <4>1, ContentCasesNext
    <3> QED
      BY <3>1, <3>2, <3>3, PlaceCases
  <2>2. (UNION {UNION Content(p) : p \in Place})' = {}
    BY <2>1
  <2>3. {process'} \X (ToWrite' \ todo') = {}
    BY <1>1
  <2>4. IsFile({})
    BY DEF IsFile
  <2>5. \A p \in Place : IsFile(Content(p))'
    BY <2>1 DEF IsFile
  <2>6. \A p, q \in Place : (UNION Content(p)') \cap (UNION Content(q)') = {}
    BY <2>1
  <2> QED
    BY <2>2, <2>3, <2>5, <2>6 DEF PlacesInv, RecordsAt
<1>7. CountInv'
  <2>1. Filling' = 0
    BY <1>1, <1>4 DEF Filling
  <2>2. 0 + 0 + 0 + 0 + 0 + Cardinality(ToWrite) <= Cardinality(ToWrite)
    BY <1>4
  <2> QED
    BY <1>1, <2>1, <2>2 DEF CountInv
<1>8. ThreadInv'
  BY <1>1 DEF ThreadInv, Joined, Other
<1>h. HoldInv'
  BY <1>1 DEF HoldInv
<1>9. PhaseInv'
  BY <1>1 DEF PhaseInv, Joined, NothingNamed
<1>10. GroupInv'
  BY <1>1 DEF GroupInv
<1>11. OutputInv' /\ NoFilesLeft'
  <2>1. \A i \in left : i[1] <= process /\ i[1] \in Nat
    BY <1>0 DEF OutputInv, TypeOK, Item, Process
  <2>2. \A i \in left' : i[1] <= process' /\ i[1] # process'
    BY <1>1, <1>2, <2>1
  <2>3. Complete'
    BY <2>2 DEF Complete
  <2> QED
    BY <1>1, <2>2, <2>3 DEF OutputInv, NoFilesLeft
\* What is on disk was written by the processes before.
<1>f. FilesInv'
  <2>1. ASSUME NEW n \in Name PROVE Past(FileOf(n))' /\ ~Wrote(n, process)'
    <3>1. FileOf(n)' = FileOf(n) /\ Past(FileOf(n)) /\ UNION FileOf(n) \subseteq Item
      <4>1. PICK i \in Files : n = <<"tmp", i>> \/ n = <<"gtmp", i>>
        BY DEF Name
      <4>2. FileOf(n) \in FileType /\ FileOf(n)' = FileOf(n)
        BY <1>0, <1>1, <4>1 DEF TypeOK, FileOf
      <4> QED
        BY <1>0, <4>2 DEF FilesInv, FileType
    <3>2. \A i \in UNION FileOf(n) : i[1] <= process /\ i[1] \in Nat
      BY <3>1 DEF Past, Item, Process
    <3>3. \A i \in UNION FileOf(n) : i[1] <= process' /\ i[1] # process'
      BY <1>2, <3>2
    <3> QED
      BY <3>1, <3>3 DEF Past, Wrote
  <2>2. app' # "remove" /\ \A i \in Files : ~(i < 0)
    BY <1>1 DEF Files
  <2> QED
    BY <1>1, <2>1, <2>2 DEF FilesInv
<1>12. SafeOutput'
  <2>1. \A S, p : IsWhole(S, p)' <=> IsWhole(S, p)
    BY <1>1 DEF IsWhole, ToWrite
  <2>2. 1 .. process \subseteq 1 .. process' /\ process' \notin 1 .. process
    BY <1>2
  <2> QED
    BY <1>0, <1>1, <2>1, <2>2 DEF SafeOutput, outVars
<1> QED
  BY <1>5, <1>6, <1>7, <1>8, <1>9, <1>10, <1>11, <1>12, <1>f, <1>h, Zenon DEF OutIInv

LEMMA StutterSorted ==
  ASSUME OutIInv, UNCHANGED vars PROVE OutIInv'
<1>0. /\ TypeOK /\ CountInv /\ ThreadInv /\ HoldInv /\ PhaseInv /\ GroupInv /\ PlacesInv
      /\ OutputInv /\ FilesInv /\ SafeOutput /\ NoFilesLeft
  BY DEF OutIInv
<1>1. UNCHANGED <<config, process, app, todo, pending, bufferVars, countVars, threadVars,
                  result, left, at, skipped, tmp, gtmp, exist, outVars>>
  BY DEF vars, destroyVars, fileVars
<1>2. ToWrite' = ToWrite /\ (Other(b))' = Other(b) /\ Content(name)' = Content(name)
      /\ NothingNamed' = NothingNamed /\ Joined' = Joined /\ Writing' = Writing
      /\ Filling' = Filling
  BY <1>0, <1>1, NameContent
  DEF ToWrite, Other, NothingNamed, Joined, Writing, Filling, bufferVars, countVars, threadVars
<1>3. TypeOK'
  BY <1>0, <1>1, <1>2 DEF TypeOK, bufferVars, countVars, threadVars, outVars
<1>4. CountInv'
  BY <1>0, <1>1, <1>2 DEF CountInv, countVars, threadVars
<1>c. Complete' <=> Complete
  BY <1>1 DEF Complete
<1>5. ThreadInv'
  BY <1>0, <1>1, <1>2, <1>c, ZenonT(60) DEF ThreadInv, bufferVars, countVars, threadVars
<1>p. PhaseInv'
  BY <1>0, <1>1, <1>2, ZenonT(60) DEF PhaseInv, bufferVars, countVars, threadVars
<1>h. HoldInv'
  <2>1. ASSUME NEW n \in Name PROVE Content(n)' = Content(n)
    <3>1. PICK i \in Files : n = <<"tmp", i>> \/ n = <<"gtmp", i>>
      BY DEF Name
    <3> QED
      BY <1>1, <3>1, ContentCases, ContentCasesNext DEF countVars
  <2> QED
    BY <1>0, <1>1, <1>2, <2>1 DEF HoldInv, bufferVars, threadVars
<1>f. FilesInv'
  <2>1. \A n \in Name : (Past(FileOf(n))' <=> Past(FileOf(n)))
                       /\ (Wrote(n, process)' <=> Wrote(n, process))
    BY <1>1 DEF Past, FileOf, Wrote
  <2>2. (Past(taken)' <=> Past(taken)) /\ \A i \in 1 .. 2 : Past(buffer[i])' <=> Past(buffer[i])
    BY <1>1 DEF Past, threadVars, bufferVars
  <2>3. Complete' <=> Complete
    BY <1>1 DEF Complete
  <2> QED
    BY <1>0, <1>1, <1>2, <2>1, <2>2, <2>3 DEF FilesInv, countVars
<1>6. GroupInv'
  BY <1>0, <1>1, <1>2 DEF GroupInv, bufferVars, countVars, threadVars
<1>7. PlacesInv'
  <2>1. CASE Writing
    BY <1>0, <1>1, <2>1, SamePlaces DEF bufferVars, countVars, threadVars
  <2>2. CASE ~Writing
    BY <1>2, <2>2 DEF PlacesInv
  <2> QED
    BY <2>1, <2>2
<1>8. OutputInv' /\ SafeOutput' /\ NoFilesLeft'
  <2>1. \A S, p : IsWhole(S, p)' <=> IsWhole(S, p)
    BY <1>1 DEF IsWhole, ToWrite
  <2>2. IsWhole(result, process) => IsWhole(result, process)'
    BY <1>1 DEF IsWhole, ToWrite
  <2>3. Complete' <=> Complete
    BY <1>1 DEF Complete
  <2>4. OutputInv' /\ SafeOutput'
    BY <1>0, <1>1, <1>2, <2>1, <2>2, <2>3 DEF OutputInv, SafeOutput, outVars
  <2>5. \A n \in Name : Wrote(n, process)' <=> Wrote(n, process)
    BY <1>1 DEF FileOf, Wrote
  <2>6. NoFilesLeft'
    BY <1>0, <1>1, <2>3, <2>5 DEF NoFilesLeft
  <2> QED
    BY <2>4, <2>6
<1> QED
  BY <1>3, <1>4, <1>5, <1>p, <1>6, <1>7, <1>8, <1>f, <1>h, Zenon DEF OutIInv

-----------------------------------------------------------------------------
(* The theorems *)

\* OutIInv holds of every sorted output: of any number of records, keys, processes, buffers
\* of any size and groups of any number of files, with and without a thread of its own and
\* with records of any size (ac_out_sorted_init to ac_out_destroy).
THEOREM SortedInvariant == Spec => []OutIInv
<1>1. Init => OutIInv
  BY InitSorted
<1>2. OutIInv /\ [Next]_vars => OutIInv'
  <2> SUFFICES ASSUME OutIInv, [Next]_vars PROVE OutIInv'
    OBVIOUS
  <2>1. CASE App
    BY <2>1, StoreSorted, OverflowSorted, WriteSortedSorted, RetrySorted, WriteOneSorted,
       OneWrittenSorted, NoneWrittenSorted, InFromBufferSorted, InFromFilesSorted,
       LastBufferSorted, LastWrittenSorted, MergeFilesSorted, OutputsSorted,
       RemoveFileSorted, EndRemoveSorted DEF App, Outputs
  <2>2. CASE Thread /\ Writing
    BY <2>2, ThreadSortSorted, ThreadNameSorted, ThreadWriteSorted, ThreadMergeSorted
    DEF Thread
  <2>l. CASE Thread /\ ~Writing
    BY <2>l, LateThread
  <2>3. CASE Restart
    BY <2>3, RestartSorted
  <2>4. CASE UNCHANGED vars
    BY <2>4, StutterSorted
  <2> QED
    BY <2>1, <2>2, <2>3, <2>4, <2>l DEF Next
<1> QED
  BY <1>1, <1>2, PTL DEF Spec

\* Every record that was written is in the output once, with a reducer one record for each
\* key, and no record of a killed process is, but for what the tests of ac_out_destroy pass
\* by, and these pass nothing by without the thread and without large records in groups
\* (_ac_out_sorted_in, check_for_merge).
THEOREM EverythingMerged == Spec => []AllMerged
<1>1. OutIInv => AllMerged
  <2> SUFFICES ASSUME OutIInv PROVE AllMerged
    OBVIOUS
  <2>0. ThreadInv /\ OutputInv
    BY DEF OutIInv
  <2>1. /\ ~Writing => IsWhole(result, process)
        /\ ~Complete => config.extra \/ (config.group > 0 /\ config.large)
    BY <2>0 DEF OutputInv
  <2>2. app = "merge" => Disjoint(tmp, num_written)
    BY TmpFiles DEF Writing
  <2>3. Writing /\ thread = "merge" => Disjoint(gtmp, num_group_written)
    BY GtmpFiles
  <2> QED
    BY <2>1, <2>2, <2>3 DEF AllMerged
<1> QED
  BY <1>1, SortedInvariant, PTL

\* In safe mode the output file is never part of one and the ack file never without it, no
\* buffer is filled under the thread that reads it, nor freed by an ac_out_destroy that passed
\* no record by, and such an ac_out_destroy leaves no temporary file of its process, whatever
\* processes were killed before and wherever.
THEOREM OutputsSound == Spec => []OutInv
<1>1. OutIInv => OutInv
  <2> SUFFICES ASSUME OutIInv PROVE OutInv
    OBVIOUS
  <2>0. TypeOK /\ ThreadInv /\ PhaseInv /\ SafeOutput /\ NoFilesLeft
    BY DEF OutIInv
  <2>1. BufferUntouched
    <3>1. thread \in {"sort", "name", "write"} /\ source \in freed => ~Complete
      BY <2>0 DEF ThreadInv, PhaseInv, Joined
    <3>2. thread \in {"sort", "name", "write"} /\ Writing /\ config.extra => source # b
      BY <2>0, Facts DEF ThreadInv
    <3> QED
      BY <3>1, <3>2 DEF BufferUntouched
  <2> QED
    BY <2>0, <2>1 DEF OutInv
<1> QED
  BY <1>1, SortedInvariant, PTL
=============================================================================
