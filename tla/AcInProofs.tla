----------------------------- MODULE AcInProofs -----------------------------
(***************************************************************************)
(* Theorems about AcIn for files of any number and length, and any client.  *)
(*                                                                          *)
(* Induction over data is induction over the members of a set of naturals,  *)
(* which the well-foundedness of the finite sets gives.                     *)
(***************************************************************************)
EXTENDS AcIn, FiniteSetTheorems, SequenceTheorems, WellFoundedInduction, TLAPS

-----------------------------------------------------------------------------
(* Induction *)

\* A set of naturals has a least member.
LEMMA LeastNatural ==
  ASSUME NEW T \in SUBSET Nat, NEW n \in T
  PROVE  \E x \in T : \A y \in T : x <= y
<1> DEFINE Below(x) == 0 .. x - 1
           B == {Below(x) : x \in T}
<1>1. IsWellFoundedOn(StrictSubsetOrdering(Nat), FiniteSubsetsOf(Nat))
  BY FS_StrictSubsetOrderingWellFounded
<1>2. B \subseteq FiniteSubsetsOf(Nat) /\ Below(n) \in B
  <2>1. ASSUME NEW x \in T PROVE IsFiniteSet(Below(x)) /\ Below(x) \in SUBSET Nat
    <3>1. x \in Nat /\ x - 1 \in Int /\ 0 \in Int
      OBVIOUS
    <3>2. IsFiniteSet(0 .. x - 1)
      BY <3>1, FS_Interval
    <3> QED
      BY <3>1, <3>2
  <2> QED
    BY <2>1 DEF FiniteSubsetsOf
<1>3. PICK b \in B : \A c \in B : ~(<<c, b>> \in StrictSubsetOrdering(Nat))
  <2> HIDE DEF B
  <2> QED
    BY <1>1, <1>2, WFMin, Zenon
<1>4. PICK x \in T : b = Below(x)
  BY <1>3
<1>5. ASSUME NEW y \in T PROVE x <= y
  <2> SUFFICES ASSUME y < x PROVE FALSE
    OBVIOUS
  <2>1. Below(y) \in B
    OBVIOUS
  <2>2. Below(y) \subseteq Below(x) /\ Below(y) # Below(x)
    <3>1. y \in Below(x) /\ y \notin Below(y)
      OBVIOUS
    <3> QED
      BY <3>1
  <2>3. <<Below(y), Below(x)>> \in StrictSubsetOrdering(Nat)
    <3>1. Below(y) \in SUBSET Nat /\ Below(x) \in SUBSET Nat
      OBVIOUS
    <3> HIDE DEF Below
    <3> QED
      BY <2>2, <3>1 DEF StrictSubsetOrdering
  <2> QED
    BY <1>3, <1>4, <2>1, <2>3
<1> QED
  BY <1>5

\* A set with zero and the successors of its members has all naturals.
LEMMA SetInduction ==
  ASSUME NEW S, 0 \in S, \A n \in Nat : n \in S => n + 1 \in S
  PROVE  Nat \subseteq S
<1> SUFFICES ASSUME NEW n \in Nat \ S PROVE FALSE
  OBVIOUS
<1>1. PICK x \in Nat \ S : \A y \in Nat \ S : x <= y
  BY LeastNatural
<1>2. x # 0 /\ x - 1 \in Nat /\ x - 1 \in S
  BY <1>1
<1> QED
  BY <1>1, <1>2

\* A set of naturals with a bound has a greatest member.
LEMMA GreatestNatural ==
  ASSUME NEW T \in SUBSET Nat, NEW n \in T, NEW m \in Nat, \A y \in T : y <= m
  PROVE  \E x \in T : \A y \in T : y <= x
<1> DEFINE Gaps == {m - y : y \in T}
<1>1. Gaps \in SUBSET Nat /\ m - n \in Gaps
  OBVIOUS
<1>2. PICK g \in Gaps : \A k \in Gaps : g <= k
  <2> HIDE DEF Gaps
  <2> QED
    BY <1>1, LeastNatural
<1>3. PICK x \in T : g = m - x
  BY <1>2
<1>4. ASSUME NEW y \in T PROVE y <= x
  <2>1. g <= m - y
    BY <1>2
  <2> QED
    BY <1>3, <2>1
<1> QED
  BY <1>4

-----------------------------------------------------------------------------
(* The heap *)

\* A way starts at its first place, goes on where it can, and has nothing else.
IsWay(W, places, from, onward) ==
  /\ from \in W /\ W \subseteq places
  /\ \A i \in W : i \in DOMAIN onward => onward[i] \in W
  /\ \A k \in W \ {from} : \E i \in W : i \in DOMAIN onward /\ onward[i] = k

LEMMA WayLemma ==
  ASSUME NEW places, NEW from \in places, NEW onward,
         \A i \in places : i \in DOMAIN onward => onward[i] \in places
  PROVE  IsWay(Way(places, from, onward), places, from, onward)
<1> DEFINE W == Way(places, from, onward)
           Closed(S) == from \in S /\ (\A j \in S : j \in DOMAIN onward => onward[j] \in S)
<1>1. W \subseteq places /\ \A i \in places : i \in W <=> \A S \in SUBSET places : Closed(S) => i \in S
  BY Zenon DEF Way
<1>2. from \in W
  BY <1>1
<1>3. ASSUME NEW i \in W, i \in DOMAIN onward PROVE onward[i] \in W
  <2>1. ASSUME NEW S \in SUBSET places, Closed(S) PROVE onward[i] \in S
    BY <1>1, <1>3, <2>1
  <2> QED
    BY <1>1, <1>3, <2>1
<1>4. ASSUME NEW k \in W \ {from}, \A i \in W : i \in DOMAIN onward => onward[i] # k
      PROVE  FALSE
  <2>1. Closed(W \ {k}) /\ W \ {k} \in SUBSET places
    BY <1>1, <1>2, <1>3, <1>4
  <2> HIDE DEF W, Closed
  <2> QED
    BY <1>1, <1>4, <2>1
<1> HIDE DEF W
<1>5. IsWay(W, places, from, onward)
  BY <1>1, <1>2, <1>3, <1>4, Zenon DEF IsWay
<1> QED
  BY <1>5 DEF W

\* Sifting keeps the items, and adds the one that moves.
LEMMA SiftItems ==
  ASSUME NEW S, NEW n \in Nat \ {0}, NEW heap, NEW x \in S, NEW from \in 1 .. n, NEW onward,
         \A i \in 1 .. n : i \in DOMAIN onward => onward[i] \in (1 .. n) \ {from},
         \A i \in (1 .. n) \ {from} : heap[i] \in S \ {x},
         \A i, j \in (1 .. n) \ {from} : heap[i] = heap[j] => i = j,
         \E i \in Way(1 .. n, from, onward) : i \notin DOMAIN onward
  PROVE  LET t == Sift(heap, n, x, from, onward)
         IN  /\ t \in Seq(S) /\ Len(t) = n /\ DOMAIN t = 1 .. n
             /\ Range(t) = {x} \cup {heap[i] : i \in (1 .. n) \ {from}}
             /\ IsInjective(t)
<1> DEFINE way == Way(1 .. n, from, onward)
           t == Sift(heap, n, x, from, onward)
           g == [i \in 1 .. n |-> IF i = from THEN x ELSE heap[i]]
           R == {x} \cup {heap[i] : i \in (1 .. n) \ {from}}
<1>1. /\ from \in way /\ way \subseteq 1 .. n
      /\ \A i \in way : i \in DOMAIN onward => onward[i] \in way
      /\ \A k \in way \ {from} : \E i \in way : i \in DOMAIN onward /\ onward[i] = k
  <2>1. \A i \in 1 .. n : i \in DOMAIN onward => onward[i] \in 1 .. n
    OBVIOUS
  <2>2. IsWay(way, 1 .. n, from, onward)
    BY <2>1, WayLemma
  <2> QED
    BY <2>2 DEF IsWay
<1>2. PICK stop \in way : stop \notin DOMAIN onward
  OBVIOUS
<1>3. t = [i \in 1 .. n |-> IF i \notin way THEN heap[i]
                            ELSE IF i \in DOMAIN onward THEN heap[onward[i]] ELSE x]
  BY Zenon DEF Sift
<1> HIDE DEF way, t
<1>4. /\ \A i \in 1 .. n : t[i] \in R
      /\ \A i \in (1 .. n) \ way : t[i] = heap[i]
      /\ \A i \in way : i \in DOMAIN onward => t[i] = heap[onward[i]]
      /\ t[stop] = x
  BY <1>1, <1>2, <1>3
<1>5. t \in [1 .. n -> R]
  BY <1>3, <1>4
<1>6. R \subseteq S
  OBVIOUS
<1>7. t \in Seq(S) /\ Len(t) = n
  <2>1. t \in [1 .. n -> S]
    BY <1>5, <1>6
  <2> QED
    BY <2>1
<1>8. ASSUME NEW y \in R PROVE \E i \in 1 .. n : t[i] = y
  <2>1. CASE y = x
    BY <1>1, <1>2, <1>4, <2>1
  <2>2. ASSUME NEW k \in (1 .. n) \ {from}, y = heap[k] PROVE \E i \in 1 .. n : t[i] = y
    <3>1. CASE k \notin way
      BY <1>4, <2>2, <3>1
    <3>2. CASE k \in way
      <4>1. PICK i \in way : i \in DOMAIN onward /\ onward[i] = k
        BY <1>1, <2>2, <3>2
      <4> QED
        BY <1>1, <1>4, <2>2, <4>1
    <3> QED
      BY <3>1, <3>2
  <2> QED
    BY <2>1, <2>2
<1>9. Range(t) = R
  <2> HIDE DEF R
  <2>1. DOMAIN t = 1 .. n /\ \A i \in 1 .. n : t[i] \in R
    BY <1>5
  <2>2. \A y \in R : y \in Range(t)
    BY <1>8, <2>1 DEF Range
  <2>3. \A y \in Range(t) : y \in R
    BY <2>1 DEF Range
  <2> QED
    BY <2>2, <2>3
<1>10. g \in Bijection(1 .. n, R)
  <2>1. g \in [1 .. n -> R]
    OBVIOUS
  <2>2. \A i, j \in 1 .. n : g[i] = g[j] => i = j
    OBVIOUS
  <2>3. \A y \in R : \E i \in 1 .. n : g[i] = y
    OBVIOUS
  <2> HIDE DEF g, R
  <2> QED
    BY <2>1, <2>2, <2>3 DEF Bijection, Injection, Surjection, IsInjective
<1>11. IsFiniteSet(1 .. n) /\ Cardinality(1 .. n) = Cardinality(R)
  <2>1. IsFiniteSet(1 .. n)
    BY FS_Interval
  <2>2. ExistsBijection(1 .. n, R)
    BY <1>10 DEF ExistsBijection
  <2> HIDE DEF R
  <2> QED
    BY <2>1, <2>2, FS_Bijection
<1>12. t \in Injection(1 .. n, R)
  <2>1. t \in Surjection(1 .. n, R)
    BY <1>5, <1>8 DEF Surjection
  <2> HIDE DEF R
  <2> QED
    BY <1>11, <2>1, FS_SurjSameCardinalityImpliesInj
<1> QED
  BY <1>5, <1>7, <1>9, <1>12 DEF Injection, t

\* What a heap has to be: a key for each item, and no item below one with a greater key.
HeapOf(s, heap) ==
  /\ heap \in Seq(File) /\ IsInjective(heap)
  /\ \A i \in 1 .. Len(heap) : KeyAt(s, heap[i]) \in Nat
  /\ \A i \in 2 .. Len(heap) : KeyAt(s, heap[i \div 2]) <= KeyAt(s, heap[i])

\* The places above and below a place.
LEMMA Halves ==
  ASSUME NEW i \in Nat \ {0}
  PROVE  /\ i > 1 => i \div 2 \in 1 .. i - 1
         /\ (2 * i) \div 2 = i /\ (2 * i + 1) \div 2 = i
         /\ \A j \in Nat : j \div 2 = i => j = 2 * i \/ j = 2 * i + 1
BY Z3

\* in_heap_push: the new item is in the heap, and it is one.
LEMMA PushHeap ==
  ASSUME NEW s \in Record, HeapOf(s, s.heap), NEW x \in File \ Range(s.heap), KeyAt(s, x) \in Nat
  PROVE  LET t == Push(s, x)
         IN  /\ t \in Record /\ t = [s EXCEPT !.heap = t.heap]
             /\ HeapOf(s, t.heap) /\ Len(t.heap) = Len(s.heap) + 1
             /\ Range(t.heap) = Range(s.heap) \cup {x}
<1> DEFINE n == Len(s.heap) + 1
           rises == {i \in 2 .. n : KeyAt(s, x) < KeyAt(s, s.heap[i \div 2])}
           onward == [i \in rises |-> i \div 2]
           way == Way(1 .. n, n, onward)
           new == Sift(s.heap, n, x, n, onward)
           R == {x} \cup {s.heap[i] : i \in (1 .. n) \ {n}}
<1>1. /\ s.heap \in Seq(File) /\ Len(s.heap) \in Nat /\ DOMAIN s.heap = 1 .. Len(s.heap)
      /\ \A i \in 1 .. Len(s.heap) : s.heap[i] \in File
      /\ \A i \in (1 .. n) \ {n} : s.heap[i] \in File \ {x}
      /\ \A i, j \in (1 .. n) \ {n} : s.heap[i] = s.heap[j] => i = j
      /\ n \in Nat \ {0} /\ n \in 1 .. n
  BY DEF HeapOf, Range, IsInjective
<1>2. /\ DOMAIN onward = rises /\ rises \subseteq 2 .. n
      /\ \A i \in rises : onward[i] = i \div 2 /\ i \div 2 \in (1 .. n) \ {n} /\ i \div 2 < i
  BY <1>1, Halves
<1>3. /\ n \in way /\ way \subseteq 1 .. n
      /\ \A i \in way : i \in rises => i \div 2 \in way
      /\ \A k \in way \ {n} : \E i \in way : i \in rises /\ i \div 2 = k
  <2>1. \A i \in 1 .. n : i \in DOMAIN onward => onward[i] \in 1 .. n
    BY <1>2
  <2>2. IsWay(way, 1 .. n, n, onward)
    BY <1>1, <2>1, WayLemma
  <2> HIDE DEF way, onward, rises
  <2> QED
    BY <1>2, <2>2 DEF IsWay
<1>4. \E i \in way : i \notin DOMAIN onward
  <2> HIDE DEF way, onward, rises
  <2>1. way \in SUBSET Nat
    BY <1>3
  <2>2. PICK i \in way : \A j \in way : i <= j
    BY <1>3, <2>1, LeastNatural
  <2>3. i \notin rises
    BY <1>2, <1>3, <2>1, <2>2
  <2> QED
    BY <1>2, <2>3
<1>5. /\ new \in Seq(File) /\ Len(new) = n /\ DOMAIN new = 1 .. n
      /\ Range(new) = R
      /\ IsInjective(new)
  <2>1. \A i \in 1 .. n : i \in DOMAIN onward => onward[i] \in (1 .. n) \ {n}
    BY <1>2
  <2> HIDE DEF onward, n
  <2> QED
    BY <1>1, <1>4, <2>1, SiftItems
<1>6. \A i \in 1 .. n : new[i] = IF i \notin way THEN s.heap[i]
                                 ELSE IF i \in rises THEN s.heap[i \div 2] ELSE x
  BY <1>2 DEF Sift
<1>7. R = Range(s.heap) \cup {x}
  BY <1>1, SMTT(30) DEF Range
<1> DEFINE key(i) == KeyAt(s, s.heap[i])
<1>8. /\ \A i \in 1 .. n - 1 : key(i) \in Nat
      /\ \A i \in 2 .. n - 1 : key(i \div 2) <= key(i)
      /\ \A i \in 1 .. n : i \in rises <=> i > 1 /\ KeyAt(s, x) < key(i \div 2)
  BY <1>1 DEF HeapOf
<1>11. Push(s, x) = [s EXCEPT !.heap = new]
  BY DEF Push
<1> HIDE DEF way, rises, onward, new, n
<1>9. ASSUME NEW i \in 1 .. n PROVE KeyAt(s, new[i]) \in Nat
  <2>1. new[i] \in R
    BY <1>5 DEF Range
  <2>2. ASSUME NEW k \in (1 .. n) \ {n} PROVE KeyAt(s, s.heap[k]) \in Nat
    BY <1>1, <1>8
  <2> HIDE DEF key
  <2> QED
    BY <2>1, <2>2
<1>10. ASSUME NEW i \in 2 .. n PROVE KeyAt(s, new[i \div 2]) <= KeyAt(s, new[i])
  <2> DEFINE p == i \div 2
  <2>1. p \in 1 .. n - 1 /\ p < i /\ i \in 1 .. n /\ p \in 1 .. n
    BY Halves, <1>1
  <2>2. p > 1 => p \div 2 \in 1 .. n - 1 /\ key(p \div 2) <= key(p)
    BY <2>1, <1>8, <1>1, Halves
  <2>3. /\ p \notin way => KeyAt(s, new[p]) = key(p)
        /\ p \in way /\ p \in rises => KeyAt(s, new[p]) = key(p \div 2) /\ p > 1
        /\ p \in way /\ p \notin rises => KeyAt(s, new[p]) = KeyAt(s, x)
    BY <1>2, <1>6, <2>1
  <2>4. i \in rises <=> KeyAt(s, x) < key(p)
    BY <1>8, <2>1
  <2>5. p \in rises <=> p > 1 /\ KeyAt(s, x) < key(p \div 2)
    BY <1>8, <2>1
  <2>6. p \in way => KeyAt(s, x) < key(p)
    <3>1. ASSUME p \in way PROVE \E j \in way : j \in rises /\ j \div 2 = p
      BY <1>3, <2>1, <3>1
    <3>2. \A j \in way : j \in rises => KeyAt(s, x) < key(j \div 2)
      BY <1>3, <1>8
    <3> QED
      BY <3>1, <3>2
  <2>7. /\ i \notin way => KeyAt(s, new[i]) = key(i) /\ i \in 2 .. n - 1
        /\ i \in way /\ i \in rises => KeyAt(s, new[i]) = key(p) /\ p \in way
        /\ i \in way /\ i \notin rises => KeyAt(s, new[i]) = KeyAt(s, x)
    BY <1>3, <1>6, <2>1
  <2>8. key(p) \in Nat /\ (i \in 2 .. n - 1 => key(p) <= key(i) /\ key(i) \in Nat)
        /\ (p > 1 => key(p \div 2) \in Nat)
    BY <1>8, <2>1, <2>2
  <2> HIDE DEF p, key
  <2>9. KeyAt(s, new[p]) <= KeyAt(s, new[i])
    BY <2>1, <2>2, <2>3, <2>4, <2>5, <2>6, <2>7, <2>8
  <2> QED
    BY <2>9 DEF p
<1> HIDE DEF R
<1>12. HeapOf(s, new) /\ Len(new) = Len(s.heap) + 1
  BY <1>5, <1>9, <1>10 DEF HeapOf, n
<1>13. [s EXCEPT !.heap = new] \in Record /\ [s EXCEPT !.heap = new].heap = new
  BY <1>5 DEF Record
<1> QED
  BY <1>5, <1>7, <1>11, <1>12, <1>13

\* The smaller of the two items below a place.
LEMMA SmallerLemma ==
  ASSUME NEW s, NEW num \in Nat, NEW p \in Nat \ {0}, 2 * p <= num,
         \A i \in 1 .. num : KeyAt(s, s.heap[i]) \in Nat
  PROVE  LET q == Smaller(s, p, num)
         IN  /\ q \in 2 .. num /\ q \div 2 = p /\ q > p
             /\ \A i \in 2 .. num : i \div 2 = p => KeyAt(s, s.heap[q]) <= KeyAt(s, s.heap[i])
<1> DEFINE q == Smaller(s, p, num)
           key(i) == KeyAt(s, s.heap[i])
<1>1. /\ q = IF 2 * p + 1 <= num /\ key(2 * p + 1) < key(2 * p) THEN 2 * p + 1 ELSE 2 * p
      /\ \A i \in 1 .. num : key(i) \in Nat
  BY DEF Smaller
<1>2. (2 * p) \div 2 = p /\ (2 * p + 1) \div 2 = p
      /\ \A j \in Nat : j \div 2 = p => j = 2 * p \/ j = 2 * p + 1
  BY Halves
<1> HIDE DEF q, key
<1>3. q \in 2 .. num /\ q \div 2 = p /\ q > p
  BY <1>1, <1>2
<1>4. ASSUME NEW i \in 2 .. num, i \div 2 = p PROVE key(q) <= key(i)
  <2>1. i = 2 * p \/ i = 2 * p + 1
    BY <1>2, <1>4
  <2>2. key(2 * p) \in Nat /\ key(i) \in Nat
    BY <1>1
  <2> QED
    BY <1>1, <1>4, <2>1, <2>2
<1> QED
  BY <1>3, <1>4 DEF q, key

\* in_heap_pop: the first item is gone, and the heap is one.
LEMMA PopHeap ==
  ASSUME NEW s \in Record, HeapOf(s, s.heap), s.heap # <<>>
  PROVE  LET t == Pop(s)
         IN  /\ t \in Record /\ t = [s EXCEPT !.heap = t.heap]
             /\ HeapOf(s, t.heap) /\ Len(t.heap) = Len(s.heap) - 1
             /\ Range(t.heap) = Range(s.heap) \ {Head(s.heap)}
<1> DEFINE n == Len(s.heap) - 1
           x == s.heap[n + 1]
           sm(i) == Smaller(s, i, n)
           key(i) == KeyAt(s, s.heap[i])
           sinks == {i \in 1 .. n : 2 * i <= n /\ key(sm(i)) < KeyAt(s, x)}
           onward == [i \in sinks |-> sm(i)]
           way == Way(1 .. n, 1, onward)
           new == Sift(s.heap, n, x, 1, onward)
           R == {x} \cup {s.heap[i] : i \in (1 .. n) \ {1}}
<1>1. /\ s.heap \in Seq(File) /\ n \in Nat /\ Len(s.heap) = n + 1
      /\ DOMAIN s.heap = 1 .. n + 1
      /\ \A i \in 1 .. n + 1 : s.heap[i] \in File /\ key(i) \in Nat
      /\ \A i \in 2 .. n + 1 : key(i \div 2) <= key(i)
      /\ \A i, j \in 1 .. n + 1 : s.heap[i] = s.heap[j] => i = j
      /\ Head(s.heap) = s.heap[1] /\ Last(s.heap) = x /\ x = s.heap[n + 1]
  BY DEF HeapOf, IsInjective, Last
<1>2. Pop(s) = [s EXCEPT !.heap = new]
  BY <1>1 DEF Pop
<1>3. /\ DOMAIN onward = sinks /\ sinks \subseteq 1 .. n
      /\ \A i \in 1 .. n : i \in sinks <=> 2 * i <= n /\ key(sm(i)) < KeyAt(s, x)
      /\ \A i \in sinks : onward[i] = sm(i)
  OBVIOUS
<1> HIDE DEF n, x
<1>4. ASSUME NEW p \in Nat \ {0}, 2 * p <= n
      PROVE  /\ sm(p) \in 2 .. n /\ sm(p) \div 2 = p /\ sm(p) > p
             /\ \A i \in 2 .. n : i \div 2 = p => key(sm(p)) <= key(i)
  <2>1. \A i \in 1 .. n : KeyAt(s, s.heap[i]) \in Nat
    BY <1>1
  <2>2. n \in Nat
    BY <1>1
  <2> QED
    BY <1>4, <2>1, <2>2, SmallerLemma
<1>5. CASE n = 0
  <2>1. new = <<>> /\ Range(s.heap) = {Head(s.heap)}
    BY <1>1, <1>5 DEF Sift, Range, n
  <2>2. HeapOf(s, <<>>) /\ Range(<<>>) = {} /\ Len(<<>>) = 0
    BY DEF HeapOf, IsInjective, Range
  <2>3. [s EXCEPT !.heap = <<>>] \in Record /\ [s EXCEPT !.heap = <<>>].heap = <<>>
    <3>1. <<>> \in Seq(File)
      OBVIOUS
    <3> QED
      BY <3>1 DEF Record
  <2> HIDE DEF new
  <2> QED
    BY <1>1, <1>2, <1>5, <2>1, <2>2, <2>3
<1>6. CASE n > 0
  <2>1. \A i \in 1 .. n : i \in DOMAIN onward => onward[i] \in (1 .. n) \ {1}
    BY <1>3, <1>4, <1>6
  <2>2. /\ 1 \in way /\ way \subseteq 1 .. n
        /\ \A i \in way : i \in sinks => sm(i) \in way
        /\ \A k \in way \ {1} : \E i \in way : i \in sinks /\ sm(i) = k
    <3>1. 1 \in 1 .. n /\ \A i \in 1 .. n : i \in DOMAIN onward => onward[i] \in 1 .. n
      <4>1. 1 \in 1 .. n
        BY <1>1, <1>6
      <4> HIDE DEF onward
      <4> QED
        BY <2>1, <4>1, Zenon
    <3>2. IsWay(way, 1 .. n, 1, onward)
      <4> HIDE DEF onward
      <4> QED
        BY <3>1, WayLemma
    <3> HIDE DEF way, onward, sinks, sm
    <3> QED
      BY <1>3, <3>2 DEF IsWay
  <2>3. \E i \in way : i \notin DOMAIN onward
    <3> HIDE DEF way, onward, sinks, sm
    <3>1. way \in SUBSET Nat /\ \A i \in way : i <= n
      BY <1>1, <2>2
    <3>2. PICK i \in way : \A j \in way : j <= i
      BY <1>1, <2>2, <3>1, GreatestNatural
    <3>3. i \notin sinks
      <4>1. i \in sinks => sm(i) > i
        BY <1>3, <1>4, <2>2
      <4> QED
        BY <2>2, <3>1, <3>2, <4>1, <1>3, <1>4
    <3> QED
      BY <1>3, <3>3
  <2>4. /\ new \in Seq(File) /\ Len(new) = n /\ DOMAIN new = 1 .. n
        /\ Range(new) = R
        /\ IsInjective(new)
    <3>1. /\ \A i \in (1 .. n) \ {1} : s.heap[i] \in File \ {x}
          /\ \A i, j \in (1 .. n) \ {1} : s.heap[i] = s.heap[j] => i = j
          /\ x \in File /\ 1 \in 1 .. n /\ n \in Nat \ {0}
      BY <1>1, <1>6, SMTT(30)
    <3> HIDE DEF onward
    <3> QED
      BY <2>1, <2>3, <3>1, SiftItems
  <2>5. \A i \in 1 .. n : new[i] = IF i \notin way THEN s.heap[i]
                                   ELSE IF i \in sinks THEN s.heap[sm(i)] ELSE x
    BY <1>3 DEF Sift
  <2>6. R = Range(s.heap) \ {Head(s.heap)}
    <3>1. \A y \in R : y \in Range(s.heap) /\ y # s.heap[1]
      <4>1. n + 1 \in 1 .. n + 1 /\ n + 1 # 1 /\ 1 \in 1 .. n + 1
            /\ \A k \in (1 .. n) \ {1} : k \in 1 .. n + 1 /\ k # 1
        BY <1>1, <1>6
      <4>2. \A k \in 1 .. n + 1 : k # 1 => s.heap[k] \in Range(s.heap) /\ s.heap[k] # s.heap[1]
        BY <1>1, <4>1 DEF Range
      <4> QED
        BY <1>1, <4>1, <4>2
    <3>2. ASSUME NEW y \in Range(s.heap), y # s.heap[1] PROVE y \in R
      <4>1. PICK i \in 1 .. n + 1 : y = s.heap[i]
        BY <1>1 DEF Range
      <4>2. i # 1 /\ (i = n + 1 \/ i \in (1 .. n) \ {1})
        BY <1>1, <3>2, <4>1
      <4>3. CASE i = n + 1
        BY <1>1, <4>1, <4>3
      <4>4. CASE i \in (1 .. n) \ {1}
        BY <4>1, <4>4
      <4> QED
        BY <4>2, <4>3, <4>4
    <3> HIDE DEF R
    <3> QED
      BY <1>1, <3>1, <3>2
  <2> HIDE DEF way, sinks, onward, new
  <2>7. ASSUME NEW i \in 1 .. n PROVE KeyAt(s, new[i]) \in Nat
    <3>1. new[i] \in R
      BY <2>4 DEF Range
    <3>2. KeyAt(s, x) \in Nat /\ \A k \in (1 .. n) \ {1} : KeyAt(s, s.heap[k]) \in Nat
      <4>1. n + 1 \in 1 .. n + 1 /\ \A k \in (1 .. n) \ {1} : k \in 1 .. n + 1
        BY <1>1
      <4> QED
        BY <1>1, <4>1
    <3> HIDE DEF key
    <3> QED
      BY <3>1, <3>2
  <2>8. ASSUME NEW i \in 2 .. n PROVE KeyAt(s, new[i \div 2]) <= KeyAt(s, new[i])
    <3> DEFINE p == i \div 2
    <3>1. p \in 1 .. n - 1 /\ i \in 1 .. n /\ p \in 1 .. n /\ 2 * p <= n
          /\ p \in Nat \ {0} /\ i \in Nat \ {0}
      <4>1. p \in 1 .. i - 1 /\ 2 * p <= i
        BY Z3
      <4> QED
        BY <1>1, <4>1
    <3>2. /\ key(sm(p)) <= key(i) /\ key(p) <= key(i)
          /\ key(sm(p)) \in Nat /\ key(p) \in Nat /\ key(i) \in Nat /\ KeyAt(s, x) \in Nat
      <4>1. sm(p) \in 2 .. n /\ key(sm(p)) <= key(i)
        BY <1>4, <3>1
      <4> HIDE DEF sm, p
      <4>2. n \in Nat /\ i \in 2 .. n + 1 /\ i \in 1 .. n + 1 /\ p \in 1 .. n + 1
            /\ sm(p) \in 1 .. n + 1 /\ n + 1 \in 1 .. n + 1
        <5>1. n \in Nat
          BY <1>1
        <5> QED
          BY <3>1, <4>1, <5>1
      <4> QED
        BY <1>1, <4>1, <4>2 DEF p
    <3>3. i \in sinks => key(i) <= key(sm(i)) /\ key(sm(i)) \in Nat
      <4>1. ASSUME i \in sinks PROVE 2 * i <= n
        BY <1>3, <4>1
      <4>2. ASSUME i \in sinks PROVE sm(i) \in 2 .. n /\ sm(i) \div 2 = i
        BY <1>4, <3>1, <4>1, <4>2
      <4> HIDE DEF key, sm
      <4> QED
        BY <1>1, <4>2
    <3>4. i \in way => p \in way /\ p \in sinks /\ i = sm(p)
      <4>1. ASSUME i \in way PROVE \E j \in way : j \in sinks /\ sm(j) = i
        BY <2>2, <4>1
      <4>2. \A j \in way : j \in sinks => j \in Nat \ {0} /\ 2 * j <= n
        BY <1>3, <2>2
      <4>3. \A j \in way : j \in sinks => sm(j) \div 2 = j
        BY <1>4, <4>2
      <4> HIDE DEF sm
      <4> QED
        BY <4>1, <4>3
    <3>5. p \in sinks <=> key(sm(p)) < KeyAt(s, x)
      BY <1>3, <3>1
    <3>6. /\ p \notin way => KeyAt(s, new[p]) = key(p)
          /\ p \in way /\ p \in sinks => KeyAt(s, new[p]) = key(sm(p))
          /\ p \in way /\ p \notin sinks => KeyAt(s, new[p]) = KeyAt(s, x)
          /\ i \notin way => KeyAt(s, new[i]) = key(i)
          /\ i \in way /\ i \in sinks => KeyAt(s, new[i]) = key(sm(i))
          /\ i \in way /\ i \notin sinks => KeyAt(s, new[i]) = KeyAt(s, x)
      BY <2>5, <3>1
    <3> HIDE DEF p, key, sm
    <3>7. KeyAt(s, new[p]) <= KeyAt(s, new[i])
      BY <3>2, <3>3, <3>4, <3>5, <3>6
    <3> QED
      BY <3>7 DEF p
  <2> HIDE DEF R
  <2>9. HeapOf(s, new) /\ Len(new) = Len(s.heap) - 1
    BY <2>4, <2>7, <2>8, <1>1 DEF HeapOf
  <2>10. [s EXCEPT !.heap = new] \in Record /\ [s EXCEPT !.heap = new].heap = new
    BY <2>4 DEF Record
  <2> QED
    BY <1>2, <2>4, <2>6, <2>9, <2>10
<1>7. n = 0 \/ n > 0
  BY <1>1
<1> QED
  BY <1>5, <1>6, <1>7, Zenon

\* The first item of a heap has the least key.
LEMMA HeapHead ==
  ASSUME NEW s, HeapOf(s, s.heap), s.heap # <<>>
  PROVE  /\ Head(s.heap) \in Range(s.heap) /\ Head(s.heap) \in File
         /\ \A i \in Range(s.heap) : KeyAt(s, Head(s.heap)) <= KeyAt(s, i)
<1> DEFINE n == Len(s.heap)
           key(i) == KeyAt(s, s.heap[i])
           T == {i \in 1 .. n : key(i) < key(1)}
<1>1. /\ n \in Nat \ {0} /\ DOMAIN s.heap = 1 .. n /\ Head(s.heap) = s.heap[1]
      /\ \A i \in 1 .. n : key(i) \in Nat /\ s.heap[i] \in File
      /\ \A i \in 2 .. n : key(i \div 2) <= key(i)
  BY DEF HeapOf
<1> HIDE DEF n, key
<1>2. ASSUME NEW j \in 1 .. n, key(j) < key(1) PROVE FALSE
  <2>1. T \in SUBSET Nat /\ j \in T
    BY <1>1, <1>2
  <2>2. PICK i \in T : \A k \in T : i <= k
    <3> HIDE DEF T
    <3> QED
      BY <2>1, LeastNatural
  <2>3. i \in 2 .. n /\ i \in 1 .. n /\ key(i) < key(1)
    BY <1>1, <2>2
  <2>4. i \div 2 \in 1 .. i - 1 /\ i \div 2 \in 1 .. n
    BY <1>1, <2>3, Halves
  <2>5. key(i \div 2) < key(1)
    BY <1>1, <2>3, <2>4
  <2> QED
    BY <2>2, <2>3, <2>4, <2>5
<1>3. \A i \in 1 .. n : key(1) <= key(i)
  BY <1>1, <1>2
<1> QED
  BY <1>1, <1>3 DEF Range, key

-----------------------------------------------------------------------------
(* The cursors of a merge *)

\* What a configuration says of the files and their records.
LEMMA FilesFacts ==
  ASSUME IsConfiguration(config)
  PROVE  /\ Len(files) \in Nat /\ File = 1 .. Len(files)
         /\ \A i \in File : /\ Len(files[i]) \in Nat /\ DOMAIN files[i] = 1 .. Len(files[i])
                            /\ \A p \in 1 .. Len(files[i]) : files[i][p] \in Nat /\ <<i, p>> \in All
         /\ \A r \in All : /\ r = <<r[1], r[2]>> /\ r[1] \in File
                           /\ r[2] \in 1 .. Len(files[r[1]]) /\ KeyOf(r) \in Nat
<1>1. files \in Seq(Seq(Nat))
  BY DEF IsConfiguration, files
<1>2. Len(files) \in Nat /\ File = 1 .. Len(files)
  BY <1>1 DEF File
<1>3. \A i \in File : files[i] \in Seq(Nat)
  BY <1>1, <1>2
<1>4. ASSUME NEW i \in File
      PROVE  /\ Len(files[i]) \in Nat /\ DOMAIN files[i] = 1 .. Len(files[i])
             /\ \A p \in 1 .. Len(files[i]) : files[i][p] \in Nat /\ <<i, p>> \in All
  <2>1. files[i] \in Seq(Nat)
    BY <1>3
  <2>2. /\ Len(files[i]) \in Nat /\ DOMAIN files[i] = 1 .. Len(files[i])
        /\ \A p \in 1 .. Len(files[i]) : files[i][p] \in Nat
    BY <2>1
  <2> QED
    BY <2>2 DEF All
<1>5. ASSUME NEW r \in All
      PROVE  /\ r = <<r[1], r[2]>> /\ r[1] \in File
             /\ r[2] \in 1 .. Len(files[r[1]]) /\ KeyOf(r) \in Nat
  <2>1. PICK i \in File : r \in {<<i, p>> : p \in DOMAIN files[i]}
    BY DEF All
  <2>2. PICK p \in DOMAIN files[i] : r = <<i, p>>
    BY <2>1
  <2>3. r[1] = i /\ r[2] = p
    BY <2>2
  <2> QED
    BY <1>4, <2>2, <2>3 DEF KeyOf
<1> QED
  BY <1>2, <1>4, <1>5

\* Sequences without repetition, from which the first is taken or to which one is added.
LEMMA WithoutHead ==
  ASSUME NEW S, NEW q \in Seq(S), q # <<>>, IsInjective(q)
  PROVE  /\ Head(q) \in S /\ Head(q) \in Range(q)
         /\ Tail(q) \in Seq(S) /\ Len(Tail(q)) = Len(q) - 1 /\ IsInjective(Tail(q))
         /\ Range(Tail(q)) = Range(q) \ {Head(q)}
<1> DEFINE n == Len(q)
           t == Tail(q)
<1>1. /\ n \in Nat \ {0} /\ DOMAIN q = 1 .. n /\ Head(q) = q[1]
      /\ \A i \in 1 .. n : q[i] \in S
      /\ \A i, j \in 1 .. n : q[i] = q[j] => i = j
  BY DEF IsInjective
<1>2. /\ t \in Seq(S) /\ Len(t) = n - 1 /\ DOMAIN t = 1 .. n - 1
      /\ \A i \in 1 .. n - 1 : t[i] = q[i + 1]
  BY <1>1
<1> HIDE DEF n, t
<1>3. IsInjective(t)
  <2>1. \A i, j \in 1 .. n - 1 : t[i] = t[j] => i = j
    BY <1>1, <1>2
  <2> QED
    BY <1>2, <2>1 DEF IsInjective
<1>4. \A y \in Range(t) : y \in Range(q) /\ y # q[1]
  BY <1>1, <1>2, SMTT(30) DEF Range
<1>5. ASSUME NEW y \in Range(q), y # q[1] PROVE y \in Range(t)
  <2>1. PICK i \in 1 .. n : y = q[i]
    BY <1>1 DEF Range
  <2>2. i # 1 /\ i - 1 \in 1 .. n - 1 /\ t[i - 1] = q[i]
    BY <1>1, <1>2, <1>5, <2>1
  <2> QED
    BY <1>2, <2>1, <2>2 DEF Range
<1>6. q[1] \in S /\ q[1] \in Range(q)
  BY <1>1 DEF Range
<1> QED
  BY <1>1, <1>2, <1>3, <1>4, <1>5, <1>6 DEF n, t

LEMMA WithOneMore ==
  ASSUME NEW S, NEW q \in Seq(S), NEW x \in S
  PROVE  LET t == Append(q, x)
         IN  /\ t \in Seq(S) /\ Len(t) = Len(q) + 1 /\ t # <<>>
             /\ Range(t) = Range(q) \cup {x}
             /\ t[Len(q) + 1] = x /\ \A i \in 1 .. Len(q) : t[i] = q[i]
             /\ IsInjective(q) /\ x \notin Range(q) => IsInjective(t)
<1> DEFINE n == Len(q)
           t == Append(q, x)
<1>1. n \in Nat /\ DOMAIN q = 1 .. n
  OBVIOUS
<1>2. /\ t \in Seq(S) /\ Len(t) = n + 1 /\ DOMAIN t = 1 .. n + 1 /\ t # <<>>
      /\ t[n + 1] = x /\ \A i \in 1 .. n : t[i] = q[i]
  OBVIOUS
<1> HIDE DEF n, t
<1>3. \A i \in 1 .. n + 1 : i = n + 1 \/ i \in 1 .. n
  BY <1>1
<1>4. Range(t) = Range(q) \cup {x}
  <2>1. n + 1 \in 1 .. n + 1 /\ \A i \in 1 .. n : i \in 1 .. n + 1
    BY <1>1
  <2>2. \A y \in Range(t) : y \in Range(q) \cup {x}
    BY <1>1, <1>2, <1>3 DEF Range
  <2>3. \A y \in Range(q) \cup {x} : y \in Range(t)
    BY <1>1, <1>2, <2>1 DEF Range
  <2> QED
    BY <2>2, <2>3
<1>5. ASSUME IsInjective(q), x \notin Range(q) PROVE IsInjective(t)
  <2>1. \A i, j \in 1 .. n : q[i] = q[j] => i = j
    BY <1>1, <1>5 DEF IsInjective
  <2>2. \A i \in 1 .. n : q[i] # x
    BY <1>1, <1>5 DEF Range
  <2>3. \A i, j \in 1 .. n + 1 : t[i] = t[j] => i = j
    BY <1>2, <1>3, <2>1, <2>2
  <2> QED
    BY <1>2, <2>3 DEF IsInjective
<1> QED
  BY <1>2, <1>4, <1>5 DEF n, t

\* A heap stays one while the places of its cursors do.
LEMMA HeapStays ==
  ASSUME NEW s, NEW t, HeapOf(s, s.heap), \A i \in Range(s.heap) : t.pos[i] = s.pos[i]
  PROVE  /\ HeapOf(t, s.heap)
         /\ \A i \in Range(s.heap) : KeyAt(t, i) = KeyAt(s, i)
<1>1. \A i \in Range(s.heap) : KeyAt(t, i) = KeyAt(s, i)
  BY DEF KeyAt, CurrentOf
<1>2. /\ Len(s.heap) \in Nat
      /\ \A k \in 1 .. Len(s.heap) : s.heap[k] \in Range(s.heap)
      /\ \A k \in 2 .. Len(s.heap) : k \in 1 .. Len(s.heap) /\ k \div 2 \in 1 .. Len(s.heap)
  BY DEF HeapOf, Range
<1> QED
  BY <1>1, <1>2 DEF HeapOf

\* The heap of a merge is one.
LEMMA MergingHeap ==
  ASSUME IsConfiguration(config), NEW s \in Record, NEW n \in 0 .. Len(files), Merging(s, n)
  PROVE  /\ HeapOf(s, s.heap)
         /\ \A i \in Range(s.heap) \cup Range(s.active) :
              i \in File /\ i \in 1 .. n /\ s.pos[i] \in 1 .. Len(files[i])
              /\ CurrentOf(s, i) \in All /\ KeyAt(s, i) \in Nat
<1>1. n \in Nat /\ 1 .. n \subseteq File
  BY FilesFacts
<1>2. ASSUME NEW i \in Range(s.heap) \cup Range(s.active)
      PROVE  /\ i \in File /\ i \in 1 .. n /\ s.pos[i] \in 1 .. Len(files[i])
             /\ CurrentOf(s, i) \in All /\ KeyAt(s, i) \in Nat
  <2>1. i \in File /\ i \in 1 .. n /\ s.pos[i] \in 1 .. Len(files[i])
    BY <1>1 DEF Merging
  <2> QED
    BY <2>1, FilesFacts DEF KeyAt, CurrentOf
<1>3. /\ s.heap \in Seq(File)
      /\ \A k \in 1 .. Len(s.heap) : s.heap[k] \in Range(s.heap)
  BY DEF Record, Range
<1> QED
  BY <1>2, <1>3 DEF HeapOf, Merging

\* Only the places of the cursors change, and with Keeps the current records.
Keeps(s, t) ==
  /\ t.file = s.file /\ t.advance = s.advance /\ t.counted = s.counted /\ t.again = s.again
  /\ t.num_current = s.num_current /\ t.current_tmp = s.current_tmp
  /\ t.num_current_tmp = s.num_current_tmp /\ t.record_num = s.record_num
Moves(s, t) == Keeps(s, t) /\ t.current = s.current

\* What is read depends on the places and the heap.
LEMMA ReadByStays ==
  ASSUME IsConfiguration(config), NEW s, NEW t,
         \A i \in File : \A p \in Nat :
           (p < s.pos[i] \/ (p = s.pos[i] /\ i \notin Range(s.heap)))
             <=> (p < t.pos[i] \/ (p = t.pos[i] /\ i \notin Range(t.heap)))
  PROVE  ReadBy(s) = ReadBy(t)
<1>1. \A r \in All : r[1] \in File /\ r[2] \in Nat
  BY FilesFacts
<1> QED
  BY <1>1 DEF ReadBy

\* MoveFirst reads on in one file, and nothing is lost.
LEMMA MoveFirstLemma ==
  ASSUME IsConfiguration(config), NEW s \in Record, NEW n \in 0 .. Len(files), Merging(s, n),
         s.active # <<>>
  PROVE  LET t == MoveFirst(s)
         IN  /\ t \in Record /\ Moves(s, t) /\ Merging(t, n)
             /\ Len(t.active) = Len(s.active) - 1 /\ ReadBy(t) = ReadBy(s)
<1> DEFINE i == Head(s.active)
           rest == [s EXCEPT !.active = Tail(@)]
           next == [rest EXCEPT !.pos[i] = @ + 1]
<1>1. /\ i \in File /\ i \in Range(s.active)
      /\ Tail(s.active) \in Seq(File) /\ Len(Tail(s.active)) = Len(s.active) - 1
      /\ IsInjective(Tail(s.active)) /\ Range(Tail(s.active)) = Range(s.active) \ {i}
  <2>1. s.active \in Seq(File) /\ IsInjective(s.active)
    BY DEF Record, Merging
  <2> QED
    BY <2>1, WithoutHead
<1>2. /\ HeapOf(s, s.heap) /\ i \in 1 .. n /\ s.pos[i] \in 1 .. Len(files[i])
      /\ i \notin Range(s.heap) /\ Len(files[i]) \in Nat
  BY <1>1, MergingHeap, FilesFacts DEF Merging
<1>3. /\ rest \in Record /\ rest.heap = s.heap /\ rest.active = Tail(s.active)
      /\ rest.pos = s.pos /\ Moves(s, rest)
  BY <1>1 DEF Record, Moves, Keeps
<1>4. /\ next \in Record /\ next.heap = s.heap /\ next.active = Tail(s.active)
      /\ next.pos = [s.pos EXCEPT ![i] = @ + 1] /\ Moves(s, next)
  <2> DEFINE np == [s.pos EXCEPT ![i] = @ + 1]
  <2>1. np \in [File -> Nat]
    <3>1. s.pos \in [File -> Nat]
      BY DEF Record
    <3> QED
      BY <1>1, <3>1
  <2>2. next = [rest EXCEPT !.pos = np]
    BY <1>3
  <2> HIDE DEF np, rest, next
  <2>3. next \in Record /\ next.heap = rest.heap /\ next.active = rest.active
        /\ next.pos = np /\ Moves(rest, next)
    BY <1>3, <2>1, <2>2 DEF Record, Moves, Keeps
  <2> QED
    BY <1>3, <2>3 DEF Moves, Keeps, np
<1>5. s.pos \in [File -> Nat] /\ 1 .. n \subseteq File
  BY FilesFacts DEF Record
<1> HIDE DEF i, rest, next
<1>6. CASE s.pos[i] < Len(files[i])
  <2> DEFINE t == Push(next, i)
  <2>1. MoveFirst(s) = t
    BY <1>6 DEF MoveFirst, next, rest, i
  <2>2. HeapOf(next, next.heap)
    <3>1. \A j \in Range(s.heap) : next.pos[j] = s.pos[j]
      <4>1. \A j \in Range(s.heap) : j \in File /\ j # i
        BY <1>2, MergingHeap
      <4> QED
        BY <1>4, <1>5, <4>1
    <3> QED
      BY <1>2, <1>4, <3>1, HeapStays
  <2>3. KeyAt(next, i) \in Nat /\ i \in File \ Range(next.heap)
    <3>1. next.pos[i] = s.pos[i] + 1
      BY <1>1, <1>4, <1>5
    <3>2. next.pos[i] \in 1 .. Len(files[i])
      BY <1>2, <1>6, <3>1
    <3> QED
      BY <1>1, <1>2, <1>4, <3>2, FilesFacts DEF KeyAt, CurrentOf
  <2>4. /\ t \in Record /\ t = [next EXCEPT !.heap = t.heap]
        /\ HeapOf(t, t.heap) /\ Range(t.heap) = Range(s.heap) \cup {i}
    <3>1. /\ t \in Record /\ t = [next EXCEPT !.heap = t.heap]
          /\ HeapOf(next, t.heap) /\ Range(t.heap) = Range(s.heap) \cup {i}
      BY <1>4, <2>2, <2>3, PushHeap
    <3> HIDE DEF t
    <3>2. t.pos = next.pos
      BY <1>4, <3>1 DEF Record
    <3>3. HeapOf(t, t.heap)
      BY <3>1, <3>2 DEF HeapOf, KeyAt, CurrentOf
    <3> QED
      BY <3>1, <3>3
  <2> HIDE DEF t
  <2>5. t.active = Tail(s.active) /\ t.pos = [s.pos EXCEPT ![i] = @ + 1] /\ Moves(s, t)
    <3>1. t.active = next.active /\ t.pos = next.pos /\ Moves(next, t)
      BY <1>4, <2>4 DEF Record, Moves, Keeps
    <3> QED
      BY <1>4, <3>1 DEF Moves, Keeps
  <2>6. Merging(t, n)
    <3>1. \A j \in 1 .. n : IF j \in Range(t.heap) \cup Range(t.active)
                            THEN t.pos[j] \in 1 .. Len(files[j]) ELSE t.pos[j] = Len(files[j])
      <4>1. \A j \in 1 .. n : j \in Range(t.heap) \cup Range(t.active)
                                <=> j \in Range(s.heap) \cup Range(s.active)
        BY <1>1, <2>4, <2>5
      <4>2. \A j \in 1 .. n : t.pos[j] = IF j = i THEN s.pos[i] + 1 ELSE s.pos[j]
        BY <1>1, <1>5, <2>5
      <4> QED
        BY <1>1, <1>2, <1>6, <4>1, <4>2, SMTT(30) DEF Merging
    <3>2. /\ IsInjective(t.active) /\ Range(t.heap) \cap Range(t.active) = {}
          /\ Range(t.heap) \cup Range(t.active) \subseteq 1 .. n
      BY <1>1, <1>2, <2>4, <2>5 DEF Merging
    <3> QED
      BY <2>4, <3>1, <3>2 DEF Merging, HeapOf
  <2>7. ReadBy(s) = ReadBy(t)
    <3>1. ASSUME NEW j \in File, NEW p \in Nat
          PROVE  (p < s.pos[j] \/ (p = s.pos[j] /\ j \notin Range(s.heap)))
                   <=> (p < t.pos[j] \/ (p = t.pos[j] /\ j \notin Range(t.heap)))
      BY <1>1, <1>2, <1>5, <2>4, <2>5
    <3> QED
      BY <3>1, ReadByStays
  <2> QED
    BY <1>1, <2>1, <2>4, <2>5, <2>6, <2>7
<1>7. CASE ~(s.pos[i] < Len(files[i]))
  <2>1. MoveFirst(s) = rest
    BY <1>7 DEF MoveFirst, rest, i
  <2>2. s.pos[i] = Len(files[i])
    BY <1>2, <1>7
  <2>3. \A j \in File : KeyAt(rest, j) = KeyAt(s, j)
    BY <1>3 DEF KeyAt, CurrentOf
  <2>4. HeapOf(rest, rest.heap)
    BY <1>2, <1>3 DEF HeapOf, KeyAt, CurrentOf
  <2>5. Merging(rest, n)
    <3>1. \A j \in 1 .. n : IF j \in Range(rest.heap) \cup Range(rest.active)
                            THEN rest.pos[j] \in 1 .. Len(files[j]) ELSE rest.pos[j] = Len(files[j])
      BY <1>1, <1>3, <2>2 DEF Merging
    <3>2. /\ IsInjective(rest.active) /\ Range(rest.heap) \cap Range(rest.active) = {}
          /\ Range(rest.heap) \cup Range(rest.active) \subseteq 1 .. n
      BY <1>1, <1>3 DEF Merging
    <3> QED
      BY <2>4, <3>1, <3>2 DEF Merging, HeapOf
  <2>6. ReadBy(rest) = ReadBy(s)
    BY <1>3 DEF ReadBy
  <2> QED
    BY <1>1, <1>3, <2>1, <2>5, <2>6
<1> QED
  BY <1>6, <1>7

\* move_active_to_heap: no cursor is active, and nothing is lost.
LEMMA MoveActiveLemma ==
  ASSUME IsConfiguration(config), NEW s \in Record, NEW n \in 0 .. Len(files), Merging(s, n)
  PROVE  LET t == MoveActiveToHeap(s)
         IN  /\ t \in Record /\ Moves(s, t) /\ Merging(t, n)
             /\ t.active = <<>> /\ ReadBy(t) = ReadBy(s)
<1> DEFINE L == Len(s.active)
           Is(f, m) == f = [k \in 0 .. m |-> IF k = 0 THEN s ELSE MoveFirst(f[k - 1])]
           S == {m \in Nat : \E f : Is(f, m)}
           moved == CHOOSE f : Is(f, L)
           Good(t, k) == /\ t \in Record /\ Moves(s, t) /\ Merging(t, n)
                         /\ Len(t.active) = L - k /\ ReadBy(t) = ReadBy(s)
           T == {k \in Nat : k <= L => Good(moved[k], k)}
<1>1. L \in Nat
  BY DEF Record
<1>2. 0 \in S
  <2> DEFINE f == [k \in 0 .. 0 |-> s]
  <2>1. Is(f, 0)
    OBVIOUS
  <2> QED
    BY <2>1
<1>3. ASSUME NEW m \in Nat, m \in S PROVE m + 1 \in S
  <2>1. PICK f : Is(f, m)
    BY <1>3
  <2> DEFINE g == [k \in 0 .. m + 1 |-> IF k = m + 1 THEN MoveFirst(f[m]) ELSE f[k]]
  <2>2. ASSUME NEW k \in 0 .. m + 1
        PROVE  g[k] = IF k = 0 THEN s ELSE MoveFirst(g[k - 1])
    <3>1. CASE k = m + 1
      BY <3>1
    <3>2. CASE k \in 0 .. m
      <4>1. f[k] = IF k = 0 THEN s ELSE MoveFirst(f[k - 1])
        BY <2>1, <3>2
      <4>2. g[k] = f[k] /\ (k # 0 => g[k - 1] = f[k - 1])
        BY <3>2
      <4> QED
        BY <4>1, <4>2
    <3> QED
      BY <3>1, <3>2
  <2>3. Is(g, m + 1)
    <3> HIDE DEF Is
    <3>1. g = [k \in 0 .. m + 1 |-> g[k]]
      OBVIOUS
    <3> HIDE DEF g
    <3> QED
      BY <2>2, <3>1 DEF Is
  <2> HIDE DEF Is
  <2> QED
    BY <2>3
<1>4. Is(moved, L)
  <2> HIDE DEF Is
  <2>1. L \in S
    <3> HIDE DEF S, L
    <3> QED
      BY <1>1, <1>2, <1>3, SetInduction
  <2> QED
    BY <2>1
<1>5. MoveActiveToHeap(s) = moved[L]
  BY DEF MoveActiveToHeap
<1> HIDE DEF moved
<1>6. moved[0] = s /\ \A k \in 1 .. L : moved[k] = MoveFirst(moved[k - 1])
  BY <1>1, <1>4
<1> HIDE DEF Is, L
<1>7. 0 \in T
  BY <1>1, <1>6 DEF Moves, Keeps, L
<1>8. ASSUME NEW k \in Nat, k \in T PROVE k + 1 \in T
  <2> SUFFICES ASSUME k + 1 <= L PROVE Good(moved[k + 1], k + 1)
    OBVIOUS
  <2> DEFINE t == moved[k]
             u == moved[k + 1]
  <2>1. Good(t, k) /\ k + 1 \in 1 .. L
    BY <1>1, <1>8
  <2>2. u = MoveFirst(t)
    BY <1>6, <2>1
  <2>3. t.active # <<>>
    <3>1. Len(t.active) = L - k /\ L - k # 0
      BY <1>1, <2>1
    <3> HIDE DEF t
    <3> QED
      BY <3>1
  <2> HIDE DEF t, u
  <2>4. /\ u \in Record /\ Moves(t, u) /\ Merging(u, n)
        /\ Len(u.active) = Len(t.active) - 1 /\ ReadBy(u) = ReadBy(t)
    BY <2>1, <2>2, <2>3, MoveFirstLemma
  <2>5. Good(u, k + 1)
    BY <1>1, <2>1, <2>4 DEF Moves, Keeps
  <2> QED
    BY <2>5 DEF u
<1>9. Good(moved[L], L)
  <2> HIDE DEF Good
  <2>1. Nat \subseteq T
    <3> HIDE DEF T
    <3> QED
      BY <1>7, <1>8, SetInduction
  <2> QED
    BY <1>1, <2>1
<1>10. moved[L].active = <<>>
  <2>1. Len(moved[L].active) = 0 /\ moved[L].active \in Seq(File)
    BY <1>1, <1>9 DEF Record
  <2> QED
    BY <2>1
<1> QED
  BY <1>5, <1>9, <1>10

\* Activate reads one record.
LEMMA ActivateLemma ==
  ASSUME IsConfiguration(config), NEW s \in Record, NEW n \in 0 .. Len(files), Merging(s, n),
         s.heap # <<>>
  PROVE  LET t == Activate(s)
             i == Head(s.heap)
             r == CurrentOf(s, i)
         IN  /\ t \in Record /\ Keeps(s, t) /\ Merging(t, n) /\ t.pos = s.pos
             /\ Len(t.heap) = Len(s.heap) - 1
             /\ i \in Range(s.heap) /\ Range(t.heap) = Range(s.heap) \ {i}
             /\ t.active = Append(s.active, i) /\ t.current = Append(s.current, r)
             /\ r \in All /\ r \notin ReadBy(s) /\ ReadBy(t) = ReadBy(s) \cup {r}
<1> DEFINE p == Pop(s)
           t == Activate(s)
           i == Head(s.heap)
           r == CurrentOf(s, i)
<1>1. /\ p \in Record /\ p = [s EXCEPT !.heap = p.heap]
      /\ HeapOf(s, p.heap) /\ Len(p.heap) = Len(s.heap) - 1
      /\ Range(p.heap) = Range(s.heap) \ {i}
      /\ i \in Range(s.heap) /\ i \in File
  <2>1. HeapOf(s, s.heap)
    BY MergingHeap
  <2> QED
    BY <2>1, PopHeap, HeapHead
<1>2. /\ i \in File /\ i \in 1 .. n /\ s.pos[i] \in 1 .. Len(files[i]) /\ r \in All
      /\ i \notin Range(s.active) /\ s.active \in Seq(File) /\ s.current \in Seq(All)
  BY <1>1, MergingHeap DEF Merging, Record
<1>3. t = [p EXCEPT !.active = Append(@, i), !.current = Append(@, r)]
  BY DEF Activate
<1> HIDE DEF p, t, i, r
<1>4. /\ p.active = s.active /\ p.current = s.current /\ p.pos = s.pos
      /\ Keeps(s, p)
  BY <1>1 DEF Record, Keeps
<1>5. /\ Append(s.active, i) \in Seq(File) /\ Range(Append(s.active, i)) = Range(s.active) \cup {i}
      /\ IsInjective(Append(s.active, i)) /\ Append(s.current, r) \in Seq(All)
  <2>1. IsInjective(s.active)
    BY DEF Merging
  <2> QED
    BY <1>2, <2>1, WithOneMore
<1>6. /\ t \in Record /\ t.heap = p.heap /\ t.pos = s.pos /\ Keeps(s, t)
      /\ t.active = Append(s.active, i) /\ t.current = Append(s.current, r)
  <2> DEFINE a == Append(s.active, i)
             c == Append(s.current, r)
  <2>1. t = [p EXCEPT !.active = a, !.current = c] /\ a \in Seq(File) /\ c \in Seq(All)
    BY <1>3, <1>4, <1>5
  <2> HIDE DEF a, c
  <2>2. /\ t \in Record /\ t.heap = p.heap /\ t.pos = p.pos /\ Keeps(p, t)
        /\ t.active = a /\ t.current = c
    BY <1>1, <2>1 DEF Record, Keeps
  <2> QED
    BY <1>4, <2>2 DEF Keeps, a, c
<1>7. Merging(t, n)
  <2>1. \A j \in 1 .. n : IF j \in Range(t.heap) \cup Range(t.active)
                          THEN t.pos[j] \in 1 .. Len(files[j]) ELSE t.pos[j] = Len(files[j])
    BY <1>1, <1>5, <1>6 DEF Merging
  <2>2. /\ IsInjective(t.active) /\ Range(t.heap) \cap Range(t.active) = {}
        /\ Range(t.heap) \cup Range(t.active) \subseteq 1 .. n
    BY <1>1, <1>5, <1>6 DEF Merging
  <2>3. HeapOf(t, t.heap)
    BY <1>1, <1>6 DEF HeapOf, KeyAt, CurrentOf
  <2> QED
    BY <2>1, <2>2, <2>3 DEF Merging, HeapOf
<1>8. r[1] = i /\ r[2] = s.pos[i] /\ r \notin ReadBy(s)
  BY <1>1, <1>2 DEF r, CurrentOf, ReadBy
<1>9. ASSUME NEW q \in All PROVE q \in ReadBy(t) <=> q \in ReadBy(s) \cup {r}
  <2>1. q = <<q[1], q[2]>> /\ q[1] \in File /\ q[2] \in Nat
    BY FilesFacts
  <2>2. q = r <=> q[1] = i /\ q[2] = s.pos[i]
    BY <2>1, <1>8 DEF r, CurrentOf
  <2>3. q \in ReadBy(s) <=> \/ q[2] < s.pos[q[1]]
                            \/ q[2] = s.pos[q[1]] /\ q[1] \notin Range(s.heap)
    BY DEF ReadBy
  <2>4. q \in ReadBy(t) <=> \/ q[2] < s.pos[q[1]]
                            \/ q[2] = s.pos[q[1]] /\ q[1] \notin Range(s.heap) \ {i}
    BY <1>1, <1>6 DEF ReadBy
  <2> QED
    BY <2>2, <2>3, <2>4
<1>10. ReadBy(t) = ReadBy(s) \cup {r}
  BY <1>2, <1>9 DEF ReadBy
<1> QED
  BY <1>1, <1>2, <1>6, <1>7, <1>8, <1>10 DEF t, i, r

\* What is still to come is in a file of the heap, or behind an active cursor.
LEMMA UnreadLemma ==
  ASSUME IsConfiguration(config), config.kind = "ext", NEW s \in Record,
         Merging(s, Len(files)), NEW q \in All \ ReadBy(s)
  PROVE  /\ q[1] \in Range(s.heap) \cup Range(s.active)
         /\ q[1] \in Range(s.heap) => s.heap # <<>> /\ KeyAt(s, Head(s.heap)) <= KeyOf(q)
         /\ q[1] \in Range(s.active) /\ (config.reduce \/ config.style = "unique") =>
              KeyAt(s, q[1]) < KeyOf(q)
<1> DEFINE i == q[1]
           p == q[2]
           n == Len(files)
<1>1. i \in 1 .. n /\ i \in File /\ p \in 1 .. Len(files[i]) /\ Len(files[i]) \in Nat /\ n \in Nat
      /\ DOMAIN files[i] = 1 .. Len(files[i]) /\ KeyOf(q) \in Nat /\ KeyOf(q) = files[i][p]
  BY FilesFacts DEF KeyOf
<1>2. ~(p < s.pos[i]) /\ ~(p = s.pos[i] /\ i \notin Range(s.heap))
  BY DEF ReadBy
<1>3. i \in Range(s.heap) \cup Range(s.active)
  BY <1>1, <1>2 DEF Merging
<1>4. /\ n \in 0 .. Len(files) /\ s.pos[i] \in 1 .. Len(files[i]) /\ KeyAt(s, i) = files[i][s.pos[i]]
      /\ HeapOf(s, s.heap) /\ KeyAt(s, i) \in Nat
  <2>1. n \in 0 .. Len(files)
    BY <1>1
  <2>2. HeapOf(s, s.heap) /\ s.pos[i] \in 1 .. Len(files[i]) /\ KeyAt(s, i) \in Nat
    BY <1>3, <2>1, MergingHeap
  <2> QED
    BY <2>1, <2>2 DEF KeyAt, CurrentOf, KeyOf
<1>5. /\ Ascends(files[i])
      /\ config.reduce \/ config.style = "unique" => StrictlyAscends(files[i])
  BY <1>1, SMTT(30) DEF IsConfiguration, files
<1>6. ASSUME i \in Range(s.heap)
      PROVE  s.heap # <<>> /\ KeyAt(s, Head(s.heap)) <= KeyOf(q)
  <2>1. s.heap # <<>>
    BY <1>6 DEF Range
  <2>2. KeyAt(s, Head(s.heap)) <= KeyAt(s, i) /\ KeyAt(s, Head(s.heap)) \in Nat
    BY <1>4, <1>6, <2>1, HeapHead, MergingHeap
  <2>3. s.pos[i] <= p
    <3>1. s.pos[i] \in Nat /\ p \in Nat
      BY <1>1, <1>4
    <3> HIDE DEF i, p
    <3> QED
      BY <1>2, <3>1
  <2>4. KeyAt(s, i) <= KeyOf(q)
    BY <1>1, <1>4, <1>5, <2>3, SMTT(30) DEF Ascends
  <2> QED
    BY <1>1, <1>4, <2>1, <2>2, <2>4, SMTT(30)
<1>7. ASSUME i \in Range(s.active), config.reduce \/ config.style = "unique"
      PROVE  KeyAt(s, i) < KeyOf(q)
  <2>1. i \notin Range(s.heap)
    BY <1>7 DEF Merging
  <2>2. s.pos[i] < p
    BY <1>1, <1>2, <1>4, <2>1
  <2> QED
    BY <1>1, <1>4, <1>5, <1>7, <2>2 DEF StrictlyAscends
<1> QED
  BY <1>3, <1>6, <1>7

-----------------------------------------------------------------------------
(* What a round of h->advance does *)

\* Nothing is left, or may be returned.
Ended(s, t) ==
  /\ t \in Record /\ Placed(t) /\ ReadBy(t) = ReadBy(s)
  /\ t.advance = "empty" /\ t.current = <<>> /\ t.current_tmp = <<>> /\ t.num_current = 0
  /\ t.counted => s.counted
  /\ ~t.again

\* Records that were not read are returned, and of the sorted ones the least.
Yields(s, t) ==
  /\ t \in Record /\ Placed(t)
  /\ t.advance = s.advance /\ t.counted = s.counted /\ t.again = s.again
  /\ t.current_tmp = s.current_tmp /\ t.record_num = s.record_num
  /\ t.current # <<>> /\ Range(t.current) \cap ReadBy(s) = {}
  /\ ReadBy(t) = ReadBy(s) \cup Range(t.current)
  /\ Keyed => \A r \in Range(t.current), q \in All \ ReadBy(s) : KeyOf(r) <= KeyOf(q)

\* Those that are still to come have other keys.
YieldsWhole(s, t) ==
  /\ Yields(s, t)
  /\ t.num_current = Len(t.current)
  /\ \A r \in Range(t.current), q \in All \ ReadBy(t) : KeyOf(r) # KeyOf(q)

\* _ac_in_empty returns nothing.
LEMMA EmptyLemma ==
  ASSUME NEW s \in Record, Placed(s)
  PROVE  Ended(s, Empty(s))
<1> DEFINE t == Empty(s)
<1>1. <<>> \in Seq(All)
  OBVIOUS
<1>2. /\ t \in Record /\ t.heap = s.heap /\ t.active = s.active /\ t.pos = s.pos /\ t.file = s.file
      /\ t.advance = "empty" /\ t.current = <<>> /\ t.current_tmp = <<>> /\ t.num_current = 0
      /\ ~t.counted /\ ~t.again
  BY <1>1 DEF Empty, Record
<1> HIDE DEF t
<1>3. Placed(t) /\ ReadBy(t) = ReadBy(s)
  BY <1>2 DEF Placed, Merging, ReadBy, KeyAt, CurrentOf
<1>4. Ended(s, t)
  BY <1>2, <1>3 DEF Ended
<1> QED
  BY <1>4 DEF t

\* ac_in_ext_advance: the least record, or the end.
LEMMA ExtAdvanceLemma ==
  ASSUME IsConfiguration(config), config.kind = "ext", NEW s \in Record, Placed(s)
  PROVE  LET t == ExtAdvance(s)
         IN  \/ Ended(s, t) /\ ReadBy(s) = All
             \/ /\ Yields(s, t) /\ Len(t.current) = 1
                /\ t.num_current = s.num_current
                /\ t.active = <<t.current[1][1]>> /\ CurrentOf(t, t.active[1]) = t.current[1]
<1> DEFINE n == Len(files)
           m == MoveActiveToHeap(s)
           t == ExtAdvance(s)
<1>1. n \in Nat /\ n \in 0 .. Len(files) /\ Merging(s, n) /\ File = 1 .. n
  BY FilesFacts DEF Placed
<1>2. /\ m \in Record /\ Moves(s, m) /\ Merging(m, n)
      /\ m.active = <<>> /\ ReadBy(m) = ReadBy(s)
  BY <1>1, MoveActiveLemma
<1>3. Range(m.active) = {}
  BY <1>2 DEF Range
<1> HIDE DEF m
<1>4. CASE m.heap = <<>>
  <2>1. t = Empty(m) /\ Placed(m)
    BY <1>2, <1>4 DEF ExtAdvance, m, Placed
  <2>2. Ended(m, t)
    BY <1>2, <2>1, EmptyLemma
  <2>3. Ended(s, t)
    BY <1>2, <2>2 DEF Ended, Moves, Keeps
  <2>4. Range(m.heap) = {}
    BY <1>4 DEF Range
  <2>5. \A q \in All : q \in ReadBy(m)
    BY <1>1, <1>2, <1>3, <2>4, UnreadLemma
  <2> QED
    BY <1>2, <2>3, <2>5 DEF ReadBy
<1>5. CASE m.heap # <<>>
  <2> DEFINE c == [m EXCEPT !.current = <<>>]
             i == Head(m.heap)
             r == CurrentOf(m, i)
  <2>1. t = Activate(c)
    BY <1>5 DEF ExtAdvance, m
  <2>2. <<>> \in Seq(All)
    OBVIOUS
  <2>3. /\ c \in Record /\ c.heap = m.heap /\ c.active = <<>> /\ c.pos = m.pos
        /\ c.current = <<>> /\ Keeps(s, c)
    BY <1>2, <2>2 DEF Record, Keeps, Moves
  <2> HIDE DEF c, t
  <2>4. Merging(c, n) /\ ReadBy(c) = ReadBy(s) /\ CurrentOf(c, i) = r
    BY <1>2, <2>3 DEF Merging, ReadBy, KeyAt, CurrentOf
  <2>5. /\ t \in Record /\ Keeps(c, t) /\ Merging(t, n) /\ t.pos = c.pos
        /\ t.active = Append(<<>>, i) /\ t.current = Append(<<>>, r)
        /\ r \in All /\ r \notin ReadBy(s) /\ ReadBy(t) = ReadBy(s) \cup {r}
    BY <1>1, <1>5, <2>1, <2>3, <2>4, ActivateLemma
  <2>6. t.active = <<i>> /\ t.current = <<r>>
    BY <2>5
  <2>7. /\ t.active[1] = i /\ t.current[1] = r /\ Len(t.current) = 1 /\ t.current # <<>>
        /\ Range(t.current) = {r}
    BY <2>6 DEF Range
  <2>8. r[1] = i /\ CurrentOf(t, i) = r
    BY <2>3, <2>5 DEF CurrentOf
  <2>9. \A q \in All \ ReadBy(s) : KeyOf(r) <= KeyOf(q)
    BY <1>1, <1>2, <1>3, UnreadLemma DEF KeyAt
  <2>10. Yields(s, t)
    BY <1>1, <2>3, <2>5, <2>7, <2>9 DEF Yields, Keeps, Placed
  <2> QED
    BY <2>3, <2>5, <2>6, <2>7, <2>8, <2>10 DEF Keeps, t
<1> QED
  BY <1>4, <1>5

\* Cursors that have left the heap, all with the key of the first; their records are the
\* current ones.
Popped(s, a, u) ==
  /\ u \in Record /\ Keeps(a, u) /\ Merging(u, Len(files))
  /\ u.current # <<>> /\ u.current[1] = a.current[1] /\ Len(u.current) = Len(u.active)
  /\ \A i \in Range(u.active) : KeyAt(u, i) = KeyOf(a.current[1])
  /\ \A r \in Range(u.current) : KeyOf(r) = KeyOf(a.current[1])
  /\ Range(u.current) \cap ReadBy(s) = {}
  /\ ReadBy(u) = ReadBy(s) \cup Range(u.current)
AllPopped(a, u) == u.heap = <<>> \/ KeyAt(u, Head(u.heap)) # KeyOf(a.current[1])

\* One more is popped, if there is one.
LEMMA PopEqualLemma ==
  ASSUME IsConfiguration(config), NEW s, NEW a, NEW u, Popped(s, a, u)
  PROVE  LET t == PopEqual(u)
         IN  /\ Popped(s, a, t)
             /\ AllPopped(a, u) => t = u
             /\ ~AllPopped(a, u) => Len(t.heap) = Len(u.heap) - 1
<1> DEFINE t == PopEqual(u)
           n == Len(files)
           i == Head(u.heap)
           r == CurrentOf(u, i)
<1>1. u \in Record /\ Merging(u, n) /\ n \in 0 .. Len(files)
  BY FilesFacts DEF Popped
<1>2. CASE AllPopped(a, u)
  <2>1. t = u
    BY <1>2 DEF PopEqual, AllPopped, Popped
  <2> QED
    BY <1>2, <2>1
<1>3. CASE ~AllPopped(a, u)
  <2>1. u.heap # <<>> /\ KeyAt(u, i) = KeyOf(a.current[1]) /\ t = Activate(u)
    BY <1>3 DEF PopEqual, AllPopped, Popped
  <2>2. /\ t \in Record /\ Keeps(u, t) /\ Merging(t, n) /\ t.pos = u.pos
        /\ Len(t.heap) = Len(u.heap) - 1 /\ i \in Range(u.heap)
        /\ t.active = Append(u.active, i) /\ t.current = Append(u.current, r)
        /\ r \in All /\ r \notin ReadBy(u) /\ ReadBy(t) = ReadBy(u) \cup {r}
    BY <1>1, <2>1, ActivateLemma
  <2>3. i \in File
    BY <1>1, <2>2, MergingHeap
  <2> HIDE DEF t, i
  <2>4. /\ Range(t.active) = Range(u.active) \cup {i} /\ Len(t.active) = Len(u.active) + 1
        /\ Range(t.current) = Range(u.current) \cup {r} /\ Len(t.current) = Len(u.current) + 1
        /\ t.current # <<>> /\ \A k \in 1 .. Len(u.current) : t.current[k] = u.current[k]
    <3>1. u.active \in Seq(File) /\ u.current \in Seq(All)
      BY <1>1 DEF Record
    <3> HIDE DEF r
    <3>2. Range(t.active) = Range(u.active) \cup {i} /\ Len(t.active) = Len(u.active) + 1
      BY <2>2, <2>3, <3>1, WithOneMore
    <3>3. /\ Range(t.current) = Range(u.current) \cup {r} /\ Len(t.current) = Len(u.current) + 1
          /\ t.current # <<>> /\ \A k \in 1 .. Len(u.current) : t.current[k] = u.current[k]
      BY <2>2, <3>1, WithOneMore
    <3> QED
      BY <3>2, <3>3
  <2>5. t.current[1] = u.current[1]
    <3>1. u.current \in Seq(All) /\ u.current # <<>>
      BY <1>1 DEF Record, Popped
    <3>2. 1 \in 1 .. Len(u.current)
      BY <3>1
    <3> QED
      BY <2>4, <3>2
  <2>6. \A j \in File : KeyAt(t, j) = KeyAt(u, j)
    BY <2>2 DEF KeyAt, CurrentOf
  <2>7. KeyOf(r) = KeyAt(u, i)
    BY DEF KeyAt, r
  <2>8. Range(u.active) \subseteq File
    BY <1>1, MergingHeap
  <2> HIDE DEF r
  <2>9. Keeps(a, t)
    BY <2>2 DEF Popped, Keeps
  <2>10. /\ \A j \in Range(t.active) : KeyAt(t, j) = KeyOf(a.current[1])
         /\ \A q \in Range(t.current) : KeyOf(q) = KeyOf(a.current[1])
    BY <2>1, <2>3, <2>4, <2>6, <2>7, <2>8 DEF Popped
  <2>11. Range(t.current) \cap ReadBy(s) = {} /\ ReadBy(t) = ReadBy(s) \cup Range(t.current)
    BY <2>2, <2>4 DEF Popped
  <2>12. Popped(s, a, t)
    BY <2>2, <2>4, <2>5, <2>9, <2>10, <2>11 DEF Popped
  <2> QED
    BY <1>3, <2>2, <2>12 DEF t
<1> QED
  BY <1>2, <1>3

\* What was popped too much is pushed back.
LEMMA PushBackLemma ==
  ASSUME IsConfiguration(config), NEW u \in Record, NEW n \in 0 .. Len(files), Merging(u, n)
  PROVE  LET t == PushBack(u)
         IN  /\ t \in Record /\ Moves(u, t) /\ Merging(t, n)
             /\ t.pos = u.pos /\ t.active = u.active /\ Range(t.heap) = Range(u.heap)
<1> DEFINE i == Head(u.heap)
           p == Pop(u)
           t == Push(p, i)
<1>1. CASE u.heap = <<>>
  BY <1>1 DEF PushBack, Moves, Keeps
<1>2. CASE u.heap # <<>>
  <2>1. PushBack(u) = t
    BY <1>2 DEF PushBack
  <2>2. HeapOf(u, u.heap) /\ \A j \in Range(u.heap) : j \in File /\ KeyAt(u, j) \in Nat
    BY MergingHeap
  <2>3. /\ p \in Record /\ p = [u EXCEPT !.heap = p.heap] /\ HeapOf(u, p.heap)
        /\ Range(p.heap) = Range(u.heap) \ {i} /\ i \in Range(u.heap)
    BY <1>2, <2>2, PopHeap, HeapHead
  <2> HIDE DEF p, i
  <2>4. p.pos = u.pos /\ p.active = u.active /\ Moves(u, p)
    BY <2>3 DEF Record, Moves, Keeps
  <2>5. HeapOf(p, p.heap) /\ i \in File \ Range(p.heap) /\ KeyAt(p, i) \in Nat
    BY <2>2, <2>3, <2>4 DEF HeapOf, KeyAt, CurrentOf
  <2>6. /\ t \in Record /\ t = [p EXCEPT !.heap = t.heap] /\ HeapOf(p, t.heap)
        /\ Range(t.heap) = Range(p.heap) \cup {i}
    BY <2>3, <2>5, PushHeap
  <2> HIDE DEF t
  <2>7. t.pos = u.pos /\ t.active = u.active /\ Moves(u, t)
    BY <2>3, <2>4, <2>6 DEF Record, Moves, Keeps
  <2>8. Range(t.heap) = Range(u.heap)
    BY <2>3, <2>6
  <2>9. HeapOf(t, t.heap)
    BY <2>4, <2>6, <2>7 DEF HeapOf, KeyAt, CurrentOf
  <2>10. Merging(t, n)
    BY <2>7, <2>8, <2>9 DEF Merging, HeapOf
  <2> QED
    BY <2>1, <2>6, <2>7, <2>8, <2>10
<1> QED
  BY <1>1, <1>2

\* ac_in_advance_unique: all the records with the least key, or the end.
LEMMA ExtAdvanceUniqueLemma ==
  ASSUME IsConfiguration(config), config.kind = "ext", config.reduce \/ config.style = "unique",
         NEW s \in Record, Placed(s)
  PROVE  LET t == ExtAdvanceUnique(s)
         IN  \/ Ended(s, t) /\ ReadBy(s) = All
             \/ YieldsWhole(s, t)
<1> DEFINE a == ExtAdvance(s)
           n == Len(files)
           L == Len(a.heap)
           Is(f, m) == f = [k \in 0 .. m |-> IF k = 0 THEN a ELSE PopEqual(f[k - 1])]
           S == {m \in Nat : \E f : Is(f, m)}
           popped == CHOOSE f : Is(f, L)
           Good(u, k) == Popped(s, a, u) /\ (AllPopped(a, u) \/ Len(u.heap) <= L - k)
           T == {k \in Nat : k <= L => Good(popped[k], k)}
<1>1. \/ Ended(s, a) /\ ReadBy(s) = All
      \/ /\ Yields(s, a) /\ Len(a.current) = 1
         /\ a.active = <<a.current[1][1]>> /\ CurrentOf(a, a.active[1]) = a.current[1]
  BY ExtAdvanceLemma
<1>2. CASE a.current = <<>>
  BY <1>1, <1>2 DEF ExtAdvanceUnique, Yields
<1>3. CASE a.current # <<>>
  <2>1. /\ Yields(s, a) /\ Len(a.current) = 1
        /\ a.active = <<a.current[1][1]>> /\ CurrentOf(a, a.active[1]) = a.current[1]
    BY <1>1, <1>3 DEF Ended
  <2>2. /\ a \in Record /\ Merging(a, n) /\ n \in 0 .. Len(files)
        /\ a.heap \in Seq(File) /\ a.current \in Seq(All) /\ L \in Nat
    <3> HIDE DEF a
    <3>1. a \in Record /\ Merging(a, n) /\ n \in 0 .. Len(files)
      BY <2>1, FilesFacts DEF Yields, Placed
    <3> QED
      BY <3>1, SMTT(30) DEF Record
  <2>3. /\ Range(a.active) = {a.active[1]} /\ Len(a.active) = 1
        /\ Range(a.current) = {a.current[1]} /\ a.current[1] \in All
    <3> HIDE DEF a
    <3>1. DOMAIN a.current = 1 .. 1 /\ a.current[1] \in All
      BY <2>1, <2>2
    <3> QED
      BY <2>1, <3>1 DEF Range
  <2>4. Popped(s, a, a)
    BY <1>3, <2>1, <2>2, <2>3 DEF Popped, Keeps, Yields, KeyAt
  <2>5. 0 \in S
    <3> DEFINE f == [k \in 0 .. 0 |-> a]
    <3> HIDE DEF a
    <3>1. Is(f, 0)
      OBVIOUS
    <3> QED
      BY <3>1
  <2>6. ASSUME NEW m \in Nat, m \in S PROVE m + 1 \in S
    <3> HIDE DEF a
    <3>1. PICK f : Is(f, m)
      BY <2>6
    <3> DEFINE g == [k \in 0 .. m + 1 |-> IF k = m + 1 THEN PopEqual(f[m]) ELSE f[k]]
    <3>2. ASSUME NEW k \in 0 .. m + 1
          PROVE  g[k] = IF k = 0 THEN a ELSE PopEqual(g[k - 1])
      <4>1. CASE k = m + 1
        BY <4>1
      <4>2. CASE k \in 0 .. m
        <5>1. f[k] = IF k = 0 THEN a ELSE PopEqual(f[k - 1])
          BY <3>1, <4>2
        <5>2. g[k] = f[k] /\ (k # 0 => g[k - 1] = f[k - 1])
          BY <4>2
        <5> QED
          BY <5>1, <5>2
      <4> QED
        BY <4>1, <4>2
    <3>3. Is(g, m + 1)
      <4> HIDE DEF Is
      <4>1. g = [k \in 0 .. m + 1 |-> g[k]]
        OBVIOUS
      <4> HIDE DEF g
      <4> QED
        BY <3>2, <4>1 DEF Is
    <3> HIDE DEF Is
    <3> QED
      BY <3>3
  <2>7. Is(popped, L)
    <3> HIDE DEF Is
    <3>1. L \in S
      <4> HIDE DEF S, L
      <4> QED
        BY <2>2, <2>5, <2>6, SetInduction
    <3> QED
      BY <3>1
  <2> DEFINE u == popped[L]
             b == PushBack(u)
             t == [b EXCEPT !.num_current = Len(b.active)]
  <2>8. ExtAdvanceUnique(s) = t
    BY <1>3 DEF ExtAdvanceUnique
  <2> HIDE DEF popped, a
  <2>9. popped[0] = a /\ \A k \in 1 .. L : popped[k] = PopEqual(popped[k - 1])
    <3> HIDE DEF L
    <3>1. 0 \in 0 .. L /\ \A k \in 1 .. L : k \in 0 .. L /\ k # 0
      BY <2>2
    <3> QED
      BY <2>7, <3>1
  <2> HIDE DEF Is, L
  <2>10. 0 \in T
    BY <2>2, <2>4, <2>9 DEF L
  <2>11. ASSUME NEW k \in Nat, k \in T PROVE k + 1 \in T
    <3> SUFFICES ASSUME k + 1 <= L PROVE Good(popped[k + 1], k + 1)
      OBVIOUS
    <3> DEFINE v == popped[k]
               w == popped[k + 1]
    <3>1. Good(v, k) /\ k + 1 \in 1 .. L
      BY <2>2, <2>11
    <3>2. w = PopEqual(v)
      BY <2>9, <3>1
    <3> HIDE DEF v, w
    <3>3. /\ Popped(s, a, w)
          /\ AllPopped(a, v) => w = v
          /\ ~AllPopped(a, v) => Len(w.heap) = Len(v.heap) - 1
      BY <3>1, <3>2, PopEqualLemma
    <3>4. Len(v.heap) \in Nat
      BY <3>1 DEF Popped, Record
    <3>5. Good(w, k + 1)
      BY <2>2, <3>1, <3>3, <3>4
    <3> QED
      BY <3>5 DEF w
  <2>12. Good(u, L)
    <3> HIDE DEF Good
    <3>1. Nat \subseteq T
      <4> HIDE DEF T
      <4> QED
        BY <2>10, <2>11, SetInduction
    <3> QED
      BY <2>2, <3>1
  <2> HIDE DEF u, t, T, S
  <2>13. Popped(s, a, u) /\ AllPopped(a, u) /\ u \in Record
    <3>1. u \in Record /\ u.heap \in Seq(File)
      BY <2>12 DEF Popped, Record
    <3>2. Len(u.heap) <= 0 => u.heap = <<>>
      BY <3>1
    <3> QED
      BY <2>2, <2>12, <3>1, <3>2 DEF AllPopped
  <2>14. /\ b \in Record /\ Moves(u, b) /\ Merging(b, n)
         /\ b.pos = u.pos /\ b.active = u.active /\ Range(b.heap) = Range(u.heap)
    BY <2>2, <2>13, PushBackLemma DEF Popped
  <2> HIDE DEF b
  <2>15. /\ t \in Record /\ t.heap = b.heap /\ t.pos = u.pos /\ t.active = u.active
         /\ t.current = u.current /\ t.num_current = Len(u.active)
         /\ t.advance = u.advance /\ t.counted = u.counted /\ t.again = u.again
         /\ t.current_tmp = u.current_tmp /\ t.record_num = u.record_num
    <3>1. Len(b.active) \in Nat
      BY <2>14, SMTT(30) DEF Record
    <3> QED
      BY <2>14, <3>1 DEF t, Record, Moves, Keeps
  <2>16. Merging(t, n) /\ ReadBy(t) = ReadBy(u)
    BY <2>14, <2>15 DEF Merging, ReadBy, KeyAt, CurrentOf
  <2> DEFINE c == a.current[1]
  <2>17. c \in Range(a.current) /\ KeyOf(c) \in Nat
    <3>1. c \in Range(a.current) /\ c \in All
      BY <2>3
    <3> QED
      BY <3>1, FilesFacts
  <2>18. Yields(s, t)
    <3>1. \A r \in Range(t.current), q \in All \ ReadBy(s) : KeyOf(r) <= KeyOf(q)
      BY <2>1, <2>13, <2>15, <2>17 DEF Yields, Popped, Keyed
    <3>2. ReadBy(t) = ReadBy(s) \cup Range(t.current) /\ Range(t.current) \cap ReadBy(s) = {}
          /\ t.current # <<>>
      BY <2>13, <2>15, <2>16 DEF Popped
    <3> QED
      BY <2>1, <2>13, <2>15, <2>16, <3>1, <3>2 DEF Yields, Popped, Keeps, Placed
  <2>19. ASSUME NEW q \in All \ ReadBy(t) PROVE KeyOf(q) # KeyOf(c)
    <3>1. /\ q \in All \ ReadBy(u) /\ Merging(u, n) /\ q \in All \ ReadBy(s) /\ KeyOf(q) \in Nat
      BY <2>13, <2>16, FilesFacts DEF Popped
    <3>2. KeyOf(c) <= KeyOf(q)
      BY <2>1, <2>17, <3>1 DEF Yields, Keyed
    <3>3. CASE q[1] \in Range(u.heap)
      <4>1. u.heap # <<>> /\ KeyAt(u, Head(u.heap)) <= KeyOf(q)
        BY <2>13, <3>1, <3>3, UnreadLemma
      <4>2. HeapOf(u, u.heap)
        BY <2>2, <2>13, <3>1, MergingHeap
      <4>3. KeyAt(u, Head(u.heap)) \in Nat /\ Head(u.heap) \in Range(u.heap)
        BY <2>2, <2>13, <3>1, <4>1, <4>2, HeapHead, MergingHeap
      <4>4. /\ KeyAt(u, Head(u.heap)) # KeyOf(c)
            /\ CurrentOf(u, Head(u.heap)) \in All \ ReadBy(s)
        <5>1. CurrentOf(u, Head(u.heap)) \in All
          BY <2>2, <2>13, <3>1, <4>3, MergingHeap
        <5>2. CurrentOf(u, Head(u.heap)) \notin ReadBy(u)
          <6>1. u.pos[Head(u.heap)] \in Nat
            <7>1. Head(u.heap) \in File
              BY <2>2, <2>13, <3>1, <4>3, MergingHeap
            <7> QED
              BY <2>13, <7>1 DEF Record
          <6> QED
            BY <4>3, <6>1 DEF ReadBy, CurrentOf
        <5> QED
          BY <2>13, <4>1, <5>1, <5>2 DEF AllPopped, Popped
      <4>5. KeyOf(c) <= KeyAt(u, Head(u.heap))
        BY <2>1, <2>17, <4>4 DEF Yields, Keyed, KeyAt
      <4> QED
        BY <2>17, <3>1, <4>1, <4>3, <4>4, <4>5
    <3>4. CASE q[1] \in Range(u.active)
      <4>1. KeyAt(u, q[1]) < KeyOf(q) /\ KeyAt(u, q[1]) = KeyOf(c)
        BY <2>13, <3>1, <3>4, UnreadLemma DEF Popped
      <4> QED
        BY <2>17, <3>1, <4>1
    <3> QED
      BY <2>13, <3>1, <3>3, <3>4, UnreadLemma
  <2>20. YieldsWhole(s, t)
    BY <2>13, <2>15, <2>18, <2>19 DEF YieldsWhole, Popped
  <2> QED
    BY <2>8, <2>20
<1> QED
  BY <1>2, <1>3

\* The next records of one file, where no heap is used.
NextOf(s, i, e) == {<<i, p>> : p \in s.pos[i] + 1 .. e}

LEMMA NextLemma ==
  ASSUME IsConfiguration(config), NEW s \in Record, s.heap = <<>>, NEW i \in File,
         NEW e \in Nat, s.pos[i] <= e, e <= Len(files[i]),
         NEW t, t.heap = <<>>, t.pos = [s.pos EXCEPT ![i] = e]
  PROVE  /\ NextOf(s, i, e) \subseteq All /\ NextOf(s, i, e) \cap ReadBy(s) = {}
         /\ ReadBy(t) = ReadBy(s) \cup NextOf(s, i, e)
<1> DEFINE C == NextOf(s, i, e)
<1>1. s.pos[i] \in Nat /\ Len(files[i]) \in Nat /\ s.pos \in [File -> Nat]
  BY FilesFacts DEF Record
<1>2. C \subseteq All
  BY <1>1, FilesFacts DEF NextOf
<1>3. Range(<<>>) = {}
  BY DEF Range
<1>4. ASSUME NEW q \in All
      PROVE  /\ q \in ReadBy(s) <=> q[2] <= s.pos[q[1]]
             /\ q \in ReadBy(t) <=> q[2] <= t.pos[q[1]]
             /\ q \in C <=> q[1] = i /\ q[2] > s.pos[i] /\ q[2] <= e
  <2>1. q = <<q[1], q[2]>> /\ q[1] \in File /\ q[2] \in Nat
    BY FilesFacts
  <2>2. s.pos[q[1]] \in Nat /\ t.pos[q[1]] \in Nat
    BY <1>1, <2>1
  <2>3. q \in C <=> \E p \in s.pos[i] + 1 .. e : q[1] = i /\ q[2] = p
    BY <2>1 DEF NextOf
  <2>4. q \in C <=> q[1] = i /\ q[2] > s.pos[i] /\ q[2] <= e
    BY <1>1, <2>1, <2>3
  <2>5. q \in ReadBy(s) <=> q[2] <= s.pos[q[1]]
    BY <1>3, <2>1, <2>2 DEF ReadBy
  <2>6. q \in ReadBy(t) <=> q[2] <= t.pos[q[1]]
    BY <1>3, <2>1, <2>2 DEF ReadBy
  <2> QED
    BY <2>4, <2>5, <2>6
<1>5. \A q \in C : q \notin ReadBy(s)
  <2>1. \A q \in C : q \in All
    BY <1>2
  <2>2. \A q \in All : q[1] \in File /\ q[2] \in Nat
    BY FilesFacts
  <2> QED
    BY <1>1, <1>4, <2>1, <2>2
<1>6. ASSUME NEW q \in All PROVE q \in ReadBy(t) <=> q \in ReadBy(s) \cup C
  <2>1. q[1] \in File /\ q[2] \in Nat /\ s.pos[q[1]] \in Nat
    BY <1>1, FilesFacts
  <2>2. t.pos[q[1]] = IF q[1] = i THEN e ELSE s.pos[q[1]]
    BY <1>1, <2>1
  <2> QED
    BY <1>1, <1>4, <2>1, <2>2
<1>7. ReadBy(t) = ReadBy(s) \cup C
  <2>1. ReadBy(t) \subseteq All /\ ReadBy(s) \subseteq All
    BY DEF ReadBy
  <2> QED
    BY <1>2, <1>6, <2>1
<1> QED
  BY <1>2, <1>5, <1>7

\* Without a heap all is read when each file is.
LEMMA AllReadLemma ==
  ASSUME IsConfiguration(config), NEW s \in Record, s.heap = <<>>,
         \A i \in File : s.pos[i] = Len(files[i])
  PROVE  ReadBy(s) = All
<1>1. Range(<<>>) = {}
  BY DEF Range
<1>2. \A q \in All : q[1] \in File /\ q[2] \in Nat /\ q[2] <= Len(files[q[1]]) /\ Len(files[q[1]]) \in Nat
  BY FilesFacts
<1> QED
  BY <1>1, <1>2 DEF ReadBy

\* advance_file_list and advance_cb: the next record, or the end.
LEMMA AdvanceFileListLemma ==
  ASSUME IsConfiguration(config), config.kind \in {"list", "cb"}, NEW s \in Record, Placed(s)
  PROVE  LET t == AdvanceFileList(s)
         IN  \/ Ended(s, t) /\ ReadBy(s) = All
             \/ Yields(s, t)
<1> DEFINE t == AdvanceFileList(s)
           f == s.file
           next(i) == [s EXCEPT !.file = i, !.pos = [s.pos EXCEPT ![i] = @ + 1],
                                !.current = <<<<i, s.pos[i] + 1>>>>, !.num_current = 1]
<1>1. /\ s.heap = <<>> /\ s.active = <<>> /\ f \in File /\ f \in Nat
      /\ \A i \in File : /\ s.pos[i] <= Len(files[i]) /\ s.pos[i] \in Nat /\ Len(files[i]) \in Nat
                         /\ i < f => s.pos[i] = Len(files[i])
                         /\ i > f => s.pos[i] = 0
      /\ Len(files) \in Nat /\ File = 1 .. Len(files) /\ s.pos \in [File -> Nat]
  BY FilesFacts DEF Placed, Record
<1>2. ASSUME NEW i \in File, s.pos[i] < Len(files[i]),
             \A j \in File : j < i => s.pos[j] = Len(files[j]),
             \A j \in File : j > i => s.pos[j] = 0
      PROVE  Yields(s, next(i))
  <2> DEFINE np == [s.pos EXCEPT ![i] = @ + 1]
             r == <<i, s.pos[i] + 1>>
             c == <<r>>
             u == next(i)
  <2>1. r \in All
    BY <1>1, <1>2, FilesFacts
  <2>2. np \in [File -> Nat] /\ c \in Seq(All) /\ i \in Nat /\ c # <<>> /\ Range(c) = {r}
    BY <1>1, <2>1, SMTT(30) DEF Range
  <2>3. u = [s EXCEPT !.file = i, !.pos = np, !.current = c, !.num_current = 1]
    BY <1>2
  <2>4. \A j \in File : np[j] = IF j = i THEN s.pos[i] + 1 ELSE s.pos[j]
    BY <1>1
  <2>5. np = [s.pos EXCEPT ![i] = s.pos[i] + 1]
    BY <1>1
  <2> DEFINE e == s.pos[i] + 1
  <2>6. Range(c) = NextOf(s, i, e)
    <3>1. s.pos[i] + 1 .. e = {e}
      BY <1>1
    <3>2. Range(c) = {<<i, e>>}
      BY <2>2
    <3> HIDE DEF e, c
    <3> QED
      BY <3>1, <3>2 DEF NextOf
  <2> HIDE DEF np, c, r, u
  <2>7. /\ u \in Record /\ u.heap = s.heap /\ u.active = s.active /\ u.pos = np /\ u.file = i
        /\ u.current = c
        /\ u.advance = s.advance /\ u.counted = s.counted /\ u.again = s.again
        /\ u.current_tmp = s.current_tmp /\ u.record_num = s.record_num
    BY <2>2, <2>3 DEF Record
  <2>8. Range(c) \cap ReadBy(s) = {} /\ ReadBy(u) = ReadBy(s) \cup Range(c)
    <3>1. e \in Nat /\ s.pos[i] <= e /\ e <= Len(files[i])
      BY <1>1, <1>2
    <3>2. s.heap = <<>> /\ u.heap = <<>> /\ u.pos = [s.pos EXCEPT ![i] = e]
      BY <1>1, <2>5, <2>7
    <3> HIDE DEF e
    <3> QED
      BY <2>6, <3>1, <3>2, NextLemma
  <2>9. Placed(u)
    BY <1>1, <1>2, <2>4, <2>7, SMTT(30) DEF Placed
  <2>10. ~Keyed
    BY DEF Keyed
  <2> QED
    BY <2>2, <2>7, <2>8, <2>9, <2>10 DEF Yields, u
<1>3. CASE s.pos[f] < Len(files[f])
  <2>1. t = next(f)
    BY <1>3 DEF AdvanceFileList, Record
  <2>2. /\ f \in File /\ s.pos[f] < Len(files[f])
        /\ \A j \in File : j < f => s.pos[j] = Len(files[j])
        /\ \A j \in File : j > f => s.pos[j] = 0
    BY <1>1, <1>3
  <2> HIDE DEF f, next
  <2> QED
    BY <1>2, <2>1, <2>2, Zenon
<1>4. CASE ~(s.pos[f] < Len(files[f])) /\ f = Len(files)
  <2>1. t = Empty(s)
    BY <1>4 DEF AdvanceFileList
  <2>2. \A i \in File : s.pos[i] = Len(files[i])
    BY <1>1, <1>4
  <2> QED
    BY <1>1, <2>1, <2>2, AllReadLemma, EmptyLemma
<1>5. CASE ~(s.pos[f] < Len(files[f])) /\ f # Len(files)
  <2> DEFINE g == f + 1
  <2>1. g \in File /\ g > 1
    BY <1>1, <1>5
  <2>2. files[g] # <<>>
    BY <2>1 DEF IsConfiguration, files, File
  <2>3. s.pos[g] < Len(files[g])
    <3>1. files[g] \in Seq(Nat) /\ s.pos[g] = 0
      BY <1>1, <2>1, SMTT(30) DEF IsConfiguration, files
    <3> QED
      BY <2>2, <3>1
  <2>4. t = next(g)
    <3>1. s.pos[g] = 0
      BY <1>1, <2>1
    <3>2. [s.pos EXCEPT ![g] = 1] = [s.pos EXCEPT ![g] = @ + 1] /\ s.pos[g] + 1 = 1
      BY <3>1
    <3>3. t = [s EXCEPT !.file = g, !.pos = [s.pos EXCEPT ![g] = 1],
                        !.current = <<<<g, 1>>>>, !.num_current = 1]
      BY <1>5, <2>2 DEF AdvanceFileList, Record
    <3> HIDE DEF t, g
    <3>4. t = [s EXCEPT !.file = g, !.pos = [s.pos EXCEPT ![g] = @ + 1],
                        !.current = <<<<g, s.pos[g] + 1>>>>, !.num_current = 1]
      BY <3>2, <3>3
    <3> QED
      BY <3>4
  <2>5. /\ \A j \in File : j < g => s.pos[j] = Len(files[j])
        /\ \A j \in File : j > g => s.pos[j] = 0
    BY <1>1, <1>5, <2>1, SMTT(30)
  <2> HIDE DEF g, next
  <2> QED
    BY <1>2, <2>1, <2>3, <2>4, <2>5, Zenon
<1> QED
  BY <1>3, <1>4, <1>5

\* The array of a records cursor.
LEMMA RecordsFacts ==
  ASSUME IsConfiguration(config), config.kind = "records", NEW s \in Record, Placed(s)
  PROVE  /\ File = {1} /\ s.file = 1 /\ s.heap = <<>> /\ s.active = <<>>
         /\ s.pos \in [File -> Nat] /\ s.pos[1] <= Len(files[1]) /\ Len(files[1]) \in Nat
         /\ Ascends(files[1]) /\ DOMAIN files[1] = 1 .. Len(files[1])
         /\ \A p \in 1 .. Len(files[1]) : files[1][p] \in Nat
         /\ \A q \in All : /\ q[1] = 1 /\ q[2] \in 1 .. Len(files[1]) /\ KeyOf(q) = files[1][q[2]]
                           /\ q \in ReadBy(s) <=> q[2] <= s.pos[1]
<1>1. Len(files) = 1 /\ Ascends(files[1])
  BY DEF IsConfiguration, files
<1>2. File = {1}
  BY <1>1, FilesFacts
<1>3. /\ s.heap = <<>> /\ s.active = <<>> /\ s.file \in File /\ s.pos[1] <= Len(files[1])
      /\ s.pos \in [File -> Nat]
  BY <1>2 DEF Placed, Record
<1>4. Range(<<>>) = {}
  BY DEF Range
<1>5. ASSUME NEW q \in All
      PROVE  /\ q[1] = 1 /\ q[2] \in 1 .. Len(files[1]) /\ KeyOf(q) = files[1][q[2]]
             /\ q \in ReadBy(s) <=> q[2] <= s.pos[1]
  <2>1. q[1] = 1 /\ q[2] \in 1 .. Len(files[1]) /\ KeyOf(q) = files[1][q[2]] /\ q[2] \in Nat
    BY <1>2, FilesFacts DEF KeyOf
  <2> QED
    BY <1>2, <1>3, <1>4, <2>1 DEF ReadBy
<1> QED
  BY <1>2, <1>3, <1>5, <1>1, FilesFacts

\* ac_in_records_advance: the next record, or the end.
LEMMA RecordsAdvanceLemma ==
  ASSUME IsConfiguration(config), config.kind = "records", NEW s \in Record, Placed(s)
  PROVE  LET t == RecordsAdvance(s)
         IN  \/ Ended(s, t) /\ ReadBy(s) = All
             \/ Yields(s, t) /\ Len(t.current) = 1
<1> DEFINE t == RecordsAdvance(s)
<1>1. PICK e \in Nat : e = s.pos[1] + 1
  BY RecordsFacts
<1>2. CASE ~(s.pos[1] < Len(files[1]))
  <2>1. t = Empty(s)
    BY <1>2 DEF RecordsAdvance
  <2>2. \A i \in File : s.pos[i] = Len(files[i])
    BY <1>2, RecordsFacts
  <2> QED
    BY <2>1, <2>2, RecordsFacts, AllReadLemma, EmptyLemma
<1>3. CASE s.pos[1] < Len(files[1])
  <2> DEFINE np == [s.pos EXCEPT ![1] = e]
             c == <<<<1, e>>>>
  <2>1. <<1, e>> \in All /\ e \in Nat /\ e \in 1 .. Len(files[1]) /\ s.pos[1] \in Nat
    BY <1>3, <1>1, RecordsFacts, FilesFacts
  <2>2. /\ np \in [File -> Nat] /\ c \in Seq(All) /\ c # <<>> /\ Range(c) = {<<1, e>>}
        /\ Len(c) = 1 /\ np[1] = e
    BY <2>1, RecordsFacts DEF Range
  <2>3. t = [s EXCEPT !.pos = np, !.current = c, !.num_current = 1]
    <3>1. np = [s.pos EXCEPT ![1] = @ + 1]
      BY <1>1, RecordsFacts
    <3> QED
      BY <1>3, <1>1, <3>1 DEF RecordsAdvance
  <2>4. Range(c) = NextOf(s, 1, e)
    <3>1. s.pos[1] + 1 .. e = {e}
      BY <1>1, <2>1
    <3> HIDE DEF c
    <3> QED
      BY <2>2, <3>1 DEF NextOf
  <2> HIDE DEF t, np, c
  <2>5. /\ t \in Record /\ t.heap = s.heap /\ t.active = s.active /\ t.pos = np /\ t.file = s.file
        /\ t.current = c
        /\ t.advance = s.advance /\ t.counted = s.counted /\ t.again = s.again
        /\ t.current_tmp = s.current_tmp /\ t.record_num = s.record_num
    BY <2>2, <2>3 DEF Record
  <2>6. Range(c) \cap ReadBy(s) = {} /\ ReadBy(t) = ReadBy(s) \cup Range(c)
    <3>1. s.pos[1] <= e /\ e <= Len(files[1]) /\ 1 \in File
      BY <1>1, <2>1, RecordsFacts
    <3>2. s.heap = <<>> /\ t.heap = <<>> /\ t.pos = [s.pos EXCEPT ![1] = e]
      BY <2>4, <2>5, RecordsFacts DEF np
    <3> QED
      BY <2>4, <3>1, <3>2, NextLemma
  <2>7. Placed(t)
    BY <2>1, <2>2, <2>5, RecordsFacts DEF Placed
  <2>8. ASSUME NEW q \in All \ ReadBy(s) PROVE KeyOf(<<1, e>>) <= KeyOf(q)
    <3>1. q[2] \in 1 .. Len(files[1]) /\ KeyOf(q) = files[1][q[2]] /\ ~(q[2] <= s.pos[1])
      BY RecordsFacts
    <3>2. e <= q[2] /\ KeyOf(<<1, e>>) = files[1][e] /\ files[1][e] \in Nat
      BY <1>1, <2>1, <3>1, RecordsFacts
    <3>3. Ascends(files[1]) /\ DOMAIN files[1] = 1 .. Len(files[1]) /\ e \in 1 .. Len(files[1])
          /\ \A p \in 1 .. Len(files[1]) : files[1][p] \in Nat
      BY <2>1, RecordsFacts
    <3>4. e = q[2] \/ e < q[2]
      BY <3>1, <3>2, <3>3
    <3>5. files[1][e] <= files[1][q[2]]
      BY <3>1, <3>3, <3>4, SMTT(30) DEF Ascends
    <3> QED
      BY <3>1, <3>2, <3>5
  <2>9. Yields(s, t)
    BY <2>2, <2>5, <2>6, <2>7, <2>8 DEF Yields
  <2> QED
    BY <2>2, <2>5, <2>9 DEF t
<1> QED
  BY <1>2, <1>3

\* The records of one key are next to each other.
LEMMA SameKeyLemma ==
  ASSUME NEW from \in Nat \ {0}, NEW L \in Nat, from <= L, L = Len(files[1]),
         Ascends(files[1]), DOMAIN files[1] = 1 .. L, \A p \in 1 .. L : files[1][p] \in Nat
  PROVE  \E e \in from .. L :
           /\ SameKey(from) = from .. e /\ Cardinality(SameKey(from)) = e - from + 1
           /\ \A k \in from .. e : files[1][k] = files[1][from]
           /\ \A k \in e + 1 .. L : files[1][k] # files[1][from]
<1> DEFINE S == SameKey(from)
           f == files[1]
<1>1. \A q \in Int : q \in S <=> q \in from .. L /\ \A k \in from .. q : f[k] = f[from]
  BY DEF SameKey
<1>2. S \in SUBSET Nat /\ from \in S /\ \A q \in S : q <= L
  <2>1. S \subseteq from .. L
    BY DEF SameKey
  <2>2. from \in from .. L /\ \A k \in from .. from : k = from
    OBVIOUS
  <2>3. from \in S
    BY <2>2 DEF SameKey
  <2> HIDE DEF S
  <2> QED
    BY <2>1, <2>3
<1> HIDE DEF S
<1>3. PICK e \in S : \A q \in S : q <= e
  BY <1>2, GreatestNatural
<1>4. e \in from .. L /\ e \in Int /\ \A k \in from .. e : f[k] = f[from]
  BY <1>1, <1>2, <1>3
<1>5. S = from .. e
  <2>1. ASSUME NEW q \in from .. e PROVE q \in S
    <3>1. q \in Int /\ q \in from .. L /\ \A k \in from .. q : k \in from .. e
      BY <1>4
    <3> QED
      BY <1>1, <1>4, <3>1
  <2>2. \A q \in S : q \in from .. e
    BY <1>1, <1>2, <1>3
  <2> QED
    BY <2>1, <2>2
<1>6. Cardinality(from .. e) = e - from + 1
  <2>1. from \in Int /\ e \in Int /\ from <= e
    BY <1>4
  <2> QED
    BY <2>1, FS_Interval
<1>7. ASSUME NEW k \in e + 1 .. L, f[k] = f[from] PROVE FALSE
  <2>1. \A j \in from .. k : f[j] = f[from]
    <3> SUFFICES ASSUME NEW j \in from .. k PROVE f[j] = f[from]
      OBVIOUS
    <3>1. from \in 1 .. L /\ j \in 1 .. L /\ k \in 1 .. L
      BY <1>4
    <3>2. f[from] <= f[j] /\ f[j] <= f[k]
      <4>1. \A p, q \in 1 .. L : p < q => f[p] <= f[q]
        BY DEF Ascends
      <4>2. f[from] \in Nat /\ f[j] \in Nat /\ f[k] \in Nat
        BY <3>1
      <4> HIDE DEF f
      <4> QED
        BY <3>1, <4>1, <4>2
    <3>3. f[from] \in Nat /\ f[j] \in Nat
      BY <3>1
    <3> HIDE DEF f
    <3> QED
      BY <1>7, <3>2, <3>3
  <2>2. k \in S
    BY <1>1, <1>4, <2>1
  <2> QED
    BY <1>3, <1>4, <2>2
<1> QED
  BY <1>4, <1>5, <1>6, <1>7 DEF S

\* ac_in_records_advance_and_reduce: the records of the next key, or the end.
LEMMA RecordsGroupLemma ==
  ASSUME IsConfiguration(config), config.kind = "records", NEW s \in Record, Placed(s)
  PROVE  LET t == RecordsGroup(s)
         IN  \/ Ended(s, t) /\ ReadBy(s) = All
             \/ /\ Yields(s, t)
                /\ \A r \in Range(t.current), q \in All \ ReadBy(t) : KeyOf(r) # KeyOf(q)
<1> DEFINE t == RecordsGroup(s)
           from == s.pos[1] + 1
           L == Len(files[1])
           num == Cardinality(SameKey(from))
<1>1. /\ from \in Nat \ {0} /\ L \in Nat /\ s.pos[1] \in Nat /\ s.pos[1] <= L /\ File = {1}
      /\ Ascends(files[1]) /\ DOMAIN files[1] = 1 .. L
      /\ \A p \in 1 .. L : files[1][p] \in Nat
      /\ s.heap = <<>> /\ s.active = <<>> /\ s.file = 1 /\ s.pos \in [File -> Nat]
  BY RecordsFacts
<1>2. CASE from > L
  <2>1. SameKey(from) = {}
    BY <1>1, <1>2 DEF SameKey
  <2>2. t = Empty(s)
    BY <2>1, FS_EmptySet DEF RecordsGroup
  <2>3. \A i \in File : s.pos[i] = Len(files[i])
    BY <1>1, <1>2
  <2> QED
    BY <1>1, <2>2, <2>3, AllReadLemma, EmptyLemma
<1>3. CASE from <= L
  <2>1. PICK e \in from .. L :
          /\ SameKey(from) = from .. e /\ num = e - from + 1
          /\ \A k \in from .. e : files[1][k] = files[1][from]
          /\ \A k \in e + 1 .. L : files[1][k] # files[1][from]
    <3> HIDE DEF from, L
    <3> QED
      BY <1>1, <1>3, SameKeyLemma DEF L
  <2>2. e \in Nat /\ num \in Nat \ {0} /\ s.pos[1] + num = e /\ s.pos[1] <= e /\ e <= L
    BY <1>1, <2>1, SMTT(30)
  <2> DEFINE np == [s.pos EXCEPT ![1] = e]
             c == [k \in 1 .. num |-> <<1, from + k - 1>>]
             C == NextOf(s, 1, e)
  <2>3. t = [s EXCEPT !.pos = np, !.current = c]
    <3>1. np = [s.pos EXCEPT ![1] = @ + num]
      BY <1>1, <2>2
    <3> HIDE DEF num, np
    <3> QED
      BY <2>2, <3>1 DEF RecordsGroup, num
  <2> HIDE DEF num
  <2>4. C \subseteq All /\ Range(c) = C /\ c \in Seq(All) /\ c # <<>>
    <3>1. C \subseteq All
      BY <1>1, <2>2, FilesFacts DEF NextOf
    <3>2. ASSUME NEW k \in 1 .. num PROVE c[k] \in C
      <4>1. from + k - 1 \in s.pos[1] + 1 .. e
        BY <1>1, <2>2
      <4> QED
        BY <4>1 DEF NextOf
    <3>3. ASSUME NEW p \in s.pos[1] + 1 .. e PROVE <<1, p>> \in Range(c)
      <4>1. p - s.pos[1] \in 1 .. num /\ from + (p - s.pos[1]) - 1 = p
        <5> DEFINE z == s.pos[1]
        <5>1. z \in Nat /\ p \in z + 1 .. e /\ e \in Nat /\ num \in Nat /\ z + num = e
          BY <1>1, <2>2
        <5> HIDE DEF z
        <5>2. p - z \in 1 .. num /\ z + 1 + (p - z) - 1 = p
          BY <5>1
        <5> QED
          BY <5>2 DEF z
      <4>2. c[p - s.pos[1]] = <<1, p>> /\ p - s.pos[1] \in DOMAIN c
        BY <4>1
      <4> HIDE DEF c
      <4> QED
        BY <4>2 DEF Range
    <3>4. c \in [1 .. num -> C] /\ DOMAIN c = 1 .. num /\ 1 \in 1 .. num
      BY <2>2, <3>2
    <3> HIDE DEF c
    <3>5. c \in [1 .. num -> All] /\ num \in Nat
      BY <2>2, <3>1, <3>4
    <3>6. c \in Seq(All) /\ c # <<>>
      BY <3>4, <3>5
    <3>7. Range(c) = C
      BY <3>2, <3>3, <3>4 DEF Range, NextOf
    <3> QED
      BY <3>1, <3>6, <3>7
  <2>5. np \in [File -> Nat] /\ np[1] = e
    BY <1>1, <2>2
  <2> HIDE DEF t, np, c
  <2>6. /\ t \in Record /\ t.heap = s.heap /\ t.active = s.active /\ t.pos = np /\ t.file = s.file
        /\ t.current = c
        /\ t.advance = s.advance /\ t.counted = s.counted /\ t.again = s.again
        /\ t.current_tmp = s.current_tmp /\ t.record_num = s.record_num
    BY <2>3, <2>4, <2>5 DEF Record
  <2>7. Range(c) \cap ReadBy(s) = {} /\ ReadBy(t) = ReadBy(s) \cup Range(c)
    <3>1. s.pos[1] <= e /\ e <= Len(files[1]) /\ 1 \in File
      BY <1>1, <2>2
    <3>2. s.heap = <<>> /\ t.heap = <<>> /\ t.pos = [s.pos EXCEPT ![1] = e]
      BY <1>1, <2>6 DEF np
    <3> QED
      BY <2>2, <2>4, <3>1, <3>2, NextLemma
  <2>8. Placed(t)
    BY <1>1, <2>2, <2>5, <2>6, RecordsFacts DEF Placed
  <2>9. ASSUME NEW r \in C
        PROVE  KeyOf(r) = files[1][from] /\ files[1][from] \in Nat
    <3>1. PICK p \in s.pos[1] + 1 .. e : r = <<1, p>>
      BY DEF NextOf
    <3>2. p \in from .. e /\ from \in 1 .. L
      BY <1>1, <1>3, <2>2
    <3>3. KeyOf(r) = files[1][p]
      BY <3>1 DEF KeyOf
    <3> QED
      BY <1>1, <2>1, <3>2, <3>3
  <2>10. ASSUME NEW q \in All \ ReadBy(s)
         PROVE  /\ files[1][from] <= KeyOf(q)
                /\ q \notin ReadBy(t) => KeyOf(q) # files[1][from]
    <3>1. /\ q[1] = 1 /\ q[2] \in 1 .. L /\ KeyOf(q) = files[1][q[2]] /\ ~(q[2] <= s.pos[1])
          /\ KeyOf(q) \in Nat
      BY RecordsFacts, FilesFacts
    <3>2. from <= q[2] /\ from \in 1 .. L
      BY <1>1, <1>3, <3>1
    <3>3. files[1][from] <= KeyOf(q)
      <4> HIDE DEF from
      <4>1. CASE from < q[2]
        BY <1>1, <3>1, <3>2, <4>1 DEF Ascends
      <4>2. CASE from = q[2]
        BY <3>1, <4>2
      <4> QED
        BY <1>1, <3>1, <3>2, <4>1, <4>2
    <3>4. ASSUME q \notin ReadBy(t) PROVE q[2] \in e + 1 .. L
      <4>1. ~(q[2] <= e)
        BY <2>5, <2>6, <2>8, <3>4, RecordsFacts
      <4> QED
        BY <2>2, <3>1, <4>1
    <3> QED
      BY <2>1, <3>1, <3>3, <3>4
  <2>11. Yields(s, t)
    BY <2>4, <2>6, <2>7, <2>8, <2>9, <2>10 DEF Yields
  <2>12. \A r \in Range(t.current), q \in All \ ReadBy(t) : KeyOf(r) # KeyOf(q)
    <3>1. \A q \in All \ ReadBy(t) : q \in All \ ReadBy(s)
      BY <2>7
    <3> QED
      BY <2>4, <2>6, <2>9, <2>10, <3>1
  <2> QED
    BY <2>11, <2>12 DEF t
<1> QED
  BY <1>1, <1>2, <1>3

-----------------------------------------------------------------------------
(* How the cursors start *)

\* Nothing was returned.
Fresh(s) ==
  /\ s.current = <<>> /\ s.current_tmp = <<>> /\ s.num_current = 0 /\ s.num_current_tmp = 0
  /\ s.record_num = 0 /\ ~s.again /\ ~s.counted /\ s.active = <<>> /\ s.file = 1

\* Each of the first k files is at its first record, in the heap.
Added(s, k) ==
  /\ s \in Record /\ Fresh(s) /\ Merging(s, k)
  /\ \A i \in File : IF i <= k /\ files[i] # <<>> THEN s.pos[i] = 1 /\ i \in Range(s.heap)
                                                  ELSE s.pos[i] = 0
  /\ s.advance = IF s.heap = <<>> THEN "empty" ELSE IF config.reduce THEN "reduce" ELSE "plain"

LEMMA NewCursorLemma ==
  ASSUME IsConfiguration(config)
  PROVE  /\ NewCursor \in Record /\ Fresh(NewCursor) /\ NewCursor.heap = <<>>
         /\ NewCursor.pos = [i \in File |-> 0] /\ NewCursor.advance = "empty"
<1>1. <<>> \in Seq(File) /\ <<>> \in Seq(All) /\ [i \in File |-> 0] \in [File -> Nat]
  OBVIOUS
<1> QED
  BY <1>1 DEF NewCursor, Record, Fresh

\* ac_in_ext_add: one more file.
LEMMA ExtAddLemma ==
  ASSUME IsConfiguration(config), NEW s, NEW k \in 1 .. Len(files), Added(s, k - 1)
  PROVE  Added(ExtAdd(s, k), k)
<1>1. /\ k \in Nat \ {0} /\ k \in File /\ Len(files) \in Nat /\ File = 1 .. Len(files)
      /\ k - 1 \in 0 .. Len(files) /\ Len(files[k]) \in Nat /\ files[k] \in Seq(Nat)
  <2>1. k \in Nat \ {0} /\ k \in File /\ Len(files) \in Nat /\ File = 1 .. Len(files)
    BY FilesFacts
  <2>2. k - 1 \in 0 .. Len(files)
    BY <2>1
  <2> QED
    BY <2>1, <2>2, FilesFacts DEF IsConfiguration, files, File
<1>2. /\ s \in Record /\ Fresh(s) /\ Merging(s, k - 1) /\ s.pos[k] = 0 /\ s.active = <<>>
      /\ s.pos \in [File -> Nat] /\ HeapOf(s, s.heap)
      /\ \A i \in Range(s.heap) : i \in 1 .. k - 1
  <2>1. s.pos[k] = 0
    BY <1>1 DEF Added
  <2>2. s \in Record /\ Merging(s, k - 1) /\ Fresh(s)
    BY DEF Added
  <2>3. HeapOf(s, s.heap)
    BY <1>1, <2>2, MergingHeap
  <2> QED
    BY <2>1, <2>2, <2>3 DEF Record, Fresh, Merging
<1>3. Range(s.active) = {}
  BY <1>2 DEF Range
<1>4. CASE files[k] = <<>>
  <2>1. ExtAdd(s, k) = s
    BY <1>4 DEF ExtAdd
  <2>2. Merging(s, k)
    <3>1. \A i \in 1 .. k : i \in 1 .. k - 1 \/ i = k
      BY <1>1
    <3>2. \A i \in 1 .. k : IF i \in Range(s.heap) \cup Range(s.active)
                            THEN s.pos[i] \in 1 .. Len(files[i]) ELSE s.pos[i] = Len(files[i])
      <4>1. k \notin Range(s.heap) \cup Range(s.active) /\ Len(files[k]) = 0
        BY <1>1, <1>2, <1>3, <1>4
      <4> QED
        BY <1>2, <3>1, <4>1 DEF Merging
    <3>3. 1 .. k - 1 \subseteq 1 .. k
      BY <1>1
    <3> QED
      BY <1>2, <3>2, <3>3 DEF Merging
  <2>3. \A i \in File : IF i <= k /\ files[i] # <<>> THEN s.pos[i] = 1 /\ i \in Range(s.heap)
                                                    ELSE s.pos[i] = 0
    <3>1. \A i \in File : (i <= k /\ files[i] # <<>>) <=> (i <= k - 1 /\ files[i] # <<>>)
      BY <1>1, <1>4
    <3> QED
      BY <3>1 DEF Added
  <2> QED
    BY <2>1, <2>2, <2>3 DEF Added
<1>5. CASE files[k] # <<>>
  <2> DEFINE np == [s.pos EXCEPT ![k] = 1]
             next == [s EXCEPT !.pos = np]
             p == Push(next, k)
             mode == IF config.reduce THEN "reduce" ELSE "plain"
             t == [p EXCEPT !.advance = mode]
  <2>1. ExtAdd(s, k) = t
    <3>1. [s EXCEPT !.pos[k] = 1] = next
      BY <1>2 DEF Record
    <3> QED
      BY <1>5, <3>1 DEF ExtAdd
  <2>2. np \in [File -> Nat] /\ np[k] = 1 /\ \A i \in File : i # k => np[i] = s.pos[i]
    BY <1>1, <1>2
  <2> HIDE DEF np
  <2>3. next \in Record /\ next.heap = s.heap /\ next.pos = np /\ Fresh(next)
    BY <1>2, <2>2 DEF Record, Fresh
  <2> HIDE DEF next
  <2>4. /\ HeapOf(next, next.heap) /\ k \in File \ Range(next.heap) /\ KeyAt(next, k) \in Nat
    <3>1. \A i \in Range(s.heap) : i \in File /\ i # k
      BY <1>1, <1>2
    <3>2. \A i \in Range(s.heap) : next.pos[i] = s.pos[i]
      BY <2>2, <2>3, <3>1
    <3>3. HeapOf(next, s.heap)
      BY <1>2, <3>2, HeapStays
    <3>4. 1 \in 1 .. Len(files[k])
      BY <1>1, <1>5
    <3>5. KeyAt(next, k) \in Nat
      BY <1>1, <2>2, <2>3, <3>4, FilesFacts DEF KeyAt, CurrentOf, KeyOf
    <3> QED
      BY <1>1, <2>3, <3>1, <3>3, <3>5
  <2>5. /\ p \in Record /\ p = [next EXCEPT !.heap = p.heap]
        /\ HeapOf(next, p.heap) /\ Range(p.heap) = Range(s.heap) \cup {k}
    BY <2>3, <2>4, PushHeap
  <2> HIDE DEF p
  <2>6. /\ t \in Record /\ t.heap = p.heap /\ t.pos = np /\ Fresh(t) /\ t.advance = mode
    <3>1. mode \in {"plain", "reduce"}
      OBVIOUS
    <3> HIDE DEF mode
    <3>2. p.pos = np /\ Fresh(p)
      BY <2>3, <2>5 DEF Record, Fresh
    <3> QED
      BY <2>5, <3>1, <3>2 DEF Record, Fresh
  <2> HIDE DEF t, mode
  <2>7. HeapOf(t, t.heap) /\ t.heap # <<>> /\ t.active = <<>> /\ Range(t.active) = {}
    <3>1. HeapOf(t, t.heap)
      BY <2>3, <2>5, <2>6 DEF HeapOf, KeyAt, CurrentOf
    <3>2. t.heap # <<>>
      <4>1. k \in Range(t.heap)
        BY <2>5, <2>6
      <4> QED
        BY <4>1 DEF Range
    <3> QED
      BY <2>6, <3>1, <3>2 DEF Fresh, Range
  <2>8. Merging(t, k)
    <3>1. \A i \in 1 .. k : IF i \in Range(t.heap) \cup Range(t.active)
                            THEN t.pos[i] \in 1 .. Len(files[i]) ELSE t.pos[i] = Len(files[i])
      <4> SUFFICES ASSUME NEW i \in 1 .. k
                   PROVE  IF i \in Range(t.heap) \cup Range(t.active)
                          THEN t.pos[i] \in 1 .. Len(files[i]) ELSE t.pos[i] = Len(files[i])
        OBVIOUS
      <4>1. CASE i = k
        <5>1. 1 \in 1 .. Len(files[k])
          BY <1>1, <1>5
        <5> QED
          BY <2>2, <2>5, <2>6, <4>1, <5>1
      <4>2. CASE i # k
        <5>1. i \in 1 .. k - 1 /\ i \in File
          BY <1>1, <4>2
        <5>2. /\ t.pos[i] = s.pos[i]
              /\ i \in Range(t.heap) \cup Range(t.active) <=> i \in Range(s.heap) \cup Range(s.active)
          BY <1>3, <2>2, <2>5, <2>6, <2>7, <4>2, <5>1
        <5> QED
          BY <1>2, <5>1, <5>2 DEF Merging
      <4> QED
        BY <4>1, <4>2
    <3>2. /\ IsInjective(t.active) /\ Range(t.heap) \cap Range(t.active) = {}
          /\ Range(t.heap) \cup Range(t.active) \subseteq 1 .. k
      <4>1. 1 .. k - 1 \subseteq 1 .. k /\ k \in 1 .. k
        BY <1>1
      <4> QED
        BY <1>2, <2>5, <2>6, <2>7, <4>1 DEF IsInjective
    <3> QED
      BY <2>7, <3>1, <3>2 DEF Merging, HeapOf
  <2>9. \A i \in File : IF i <= k /\ files[i] # <<>> THEN t.pos[i] = 1 /\ i \in Range(t.heap)
                                                    ELSE t.pos[i] = 0
    <3> SUFFICES ASSUME NEW i \in File
                 PROVE  IF i <= k /\ files[i] # <<>> THEN t.pos[i] = 1 /\ i \in Range(t.heap)
                                                     ELSE t.pos[i] = 0
      OBVIOUS
    <3>1. CASE i = k
      BY <1>1, <1>5, <2>2, <2>5, <2>6, <3>1
    <3>2. CASE i # k
      <4>1. t.pos[i] = s.pos[i] /\ (i <= k <=> i <= k - 1)
            /\ (i \in Range(s.heap) => i \in Range(t.heap))
        BY <1>1, <2>2, <2>5, <2>6, <3>2
      <4> QED
        BY <4>1 DEF Added
    <3> QED
      BY <3>1, <3>2
  <2> QED
    BY <2>1, <2>6, <2>7, <2>8, <2>9 DEF Added, mode
<1> QED
  BY <1>4, <1>5

\* All files are added.
LEMMA ExtAddAllLemma ==
  ASSUME IsConfiguration(config)
  PROVE  Added(ExtAddAll, Len(files))
<1> DEFINE L == Len(files)
           Is(f, m) == f = [k \in 0 .. m |-> IF k = 0 THEN NewCursor ELSE ExtAdd(f[k - 1], k)]
           S == {m \in Nat : \E f : Is(f, m)}
           added == CHOOSE f : Is(f, L)
           T == {k \in Nat : k <= L => Added(added[k], k)}
<1>1. L \in Nat /\ File = 1 .. L
  BY FilesFacts
<1>2. 0 \in S
  <2> DEFINE f == [k \in 0 .. 0 |-> NewCursor]
  <2>1. Is(f, 0)
    OBVIOUS
  <2> QED
    BY <2>1
<1>3. ASSUME NEW m \in Nat, m \in S PROVE m + 1 \in S
  <2>1. PICK f : Is(f, m)
    BY <1>3
  <2> DEFINE g == [k \in 0 .. m + 1 |-> IF k = m + 1 THEN ExtAdd(f[m], k) ELSE f[k]]
  <2>2. ASSUME NEW k \in 0 .. m + 1
        PROVE  g[k] = IF k = 0 THEN NewCursor ELSE ExtAdd(g[k - 1], k)
    <3>1. CASE k = m + 1
      BY <3>1
    <3>2. CASE k \in 0 .. m
      <4>1. f[k] = IF k = 0 THEN NewCursor ELSE ExtAdd(f[k - 1], k)
        BY <2>1, <3>2
      <4>2. g[k] = f[k] /\ (k # 0 => g[k - 1] = f[k - 1])
        BY <3>2
      <4> QED
        BY <4>1, <4>2
    <3> QED
      BY <3>1, <3>2
  <2>3. Is(g, m + 1)
    <3> HIDE DEF Is
    <3>1. g = [k \in 0 .. m + 1 |-> g[k]]
      OBVIOUS
    <3> HIDE DEF g
    <3> QED
      BY <2>2, <3>1 DEF Is
  <2> HIDE DEF Is
  <2> QED
    BY <2>3
<1>4. Is(added, L)
  <2> HIDE DEF Is
  <2>1. L \in S
    <3> HIDE DEF S, L
    <3> QED
      BY <1>1, <1>2, <1>3, SetInduction
  <2> QED
    BY <2>1
<1>5. ExtAddAll = added[L]
  BY DEF ExtAddAll
<1> HIDE DEF added
<1>6. added[0] = NewCursor /\ \A k \in 1 .. L : added[k] = ExtAdd(added[k - 1], k)
  BY <1>1, <1>4
<1> HIDE DEF Is, L
<1>7. 0 \in T
  <2>1. Added(NewCursor, 0)
    <3>1. /\ NewCursor \in Record /\ Fresh(NewCursor) /\ NewCursor.heap = <<>>
          /\ NewCursor.pos = [i \in File |-> 0] /\ NewCursor.advance = "empty"
      BY NewCursorLemma
    <3>2. Merging(NewCursor, 0)
      <4>1. Range(<<>>) = {} /\ IsInjective(<<>>) /\ Len(<<>>) = 0 /\ 1 .. 0 = {} /\ 2 .. 0 = {}
        BY DEF Range, IsInjective
      <4> HIDE DEF IsInjective, Range
      <4> QED
        BY <3>1, <4>1 DEF Merging, Fresh
    <3>3. \A i \in File : ~(i <= 0)
      BY <1>1
    <3> QED
      BY <3>1, <3>2, <3>3 DEF Added
  <2> QED
    BY <1>6, <2>1
<1>8. ASSUME NEW k \in Nat, k \in T PROVE k + 1 \in T
  <2> SUFFICES ASSUME k + 1 <= L PROVE Added(added[k + 1], k + 1)
    OBVIOUS
  <2> DEFINE j == k + 1
  <2>1. j \in 1 .. Len(files) /\ j - 1 = k /\ Added(added[k], k)
    BY <1>1, <1>8 DEF L
  <2>2. added[j] = ExtAdd(added[j - 1], j)
    BY <1>6, <2>1 DEF L
  <2> HIDE DEF j
  <2>3. Added(ExtAdd(added[j - 1], j), j)
    BY <2>1, ExtAddLemma
  <2> QED
    BY <2>2, <2>3 DEF j
<1>9. Nat \subseteq T
  <2> HIDE DEF T
  <2> QED
    BY <1>7, <1>8, SetInduction
<1> QED
  BY <1>1, <1>5, <1>9 DEF L

\* How a cursor starts.
Started(s) ==
  /\ s \in Record /\ Placed(s) /\ ReadBy(s) = {}
  /\ s.current = <<>> /\ s.current_tmp = <<>> /\ s.num_current = 0 /\ s.record_num = 0 /\ ~s.again
  /\ s.counted <=> config.limit > 0
  /\ s.advance = "empty" => All = {}
  /\ s.advance # "empty" =>
       s.advance \in Advances /\ (s.advance \in {"reduce", "records_reduce"} <=> config.reduce)

LEMMA WorkerInLemma ==
  ASSUME IsConfiguration(config)
  PROVE  Started(WorkerIn)
<1> DEFINE Opened(s) == /\ s \in Record /\ Placed(s) /\ ReadBy(s) = {} /\ Fresh(s)
                        /\ s.advance = "empty" => All = {}
                        /\ s.advance # "empty" =>
                             /\ s.advance \in Advances
                             /\ s.advance \in {"reduce", "records_reduce"} <=> config.reduce
<1>1. ASSUME NEW s, Opened(s), WorkerIn = [s EXCEPT !.counted = config.limit > 0]
      PROVE  Started(WorkerIn)
  <2> DEFINE t == WorkerIn
  <2>1. PICK c \in BOOLEAN : c = (config.limit > 0)
    <3>1. config.limit \in Nat
      BY DEF IsConfiguration
    <3>2. (config.limit > 0) \in BOOLEAN
      BY <3>1
    <3> QED
      BY <3>2
  <2>2. t = [s EXCEPT !.counted = c]
    BY <1>1, <2>1
  <2>3. /\ t \in Record /\ t.heap = s.heap /\ t.active = s.active /\ t.pos = s.pos /\ t.file = s.file
        /\ t.current = s.current /\ t.current_tmp = s.current_tmp
        /\ t.num_current = s.num_current /\ t.record_num = s.record_num
        /\ t.again = s.again /\ t.advance = s.advance /\ t.counted = c
    <3> HIDE DEF t
    <3> QED
      BY <1>1, <2>1, <2>2 DEF Record
  <2> HIDE DEF t
  <2>4. Placed(t) /\ ReadBy(t) = ReadBy(s)
    BY <1>1, <2>3 DEF Placed, Merging, ReadBy, KeyAt, CurrentOf
  <2>5. Started(t)
    BY <1>1, <2>1, <2>3, <2>4 DEF Started, Fresh
  <2> QED
    BY <2>5 DEF t
<1>2. ASSUME NEW a, config.kind # "ext",
             \/ a \in {"list", "cb"} /\ config.kind = a
             \/ a = "records" /\ config.kind = "records" /\ ~config.reduce
             \/ a = "records_reduce" /\ config.kind = "records" /\ config.reduce
      PROVE  Opened([NewCursor EXCEPT !.advance = a])
  <2> DEFINE s == [NewCursor EXCEPT !.advance = a]
  <2>1. /\ NewCursor \in Record /\ Fresh(NewCursor) /\ NewCursor.heap = <<>>
        /\ NewCursor.pos = [i \in File |-> 0]
    BY NewCursorLemma
  <2>2. a \in {"list", "cb", "records", "records_reduce"}
    BY <1>2
  <2>3. /\ s \in Record /\ Fresh(s) /\ s.heap = <<>> /\ s.pos = [i \in File |-> 0] /\ s.advance = a
    BY <2>1, <2>2 DEF Record, Fresh
  <2> HIDE DEF s
  <2>4. 1 \in File /\ \A i \in File : i \in Nat /\ i >= 1 /\ Len(files[i]) \in Nat
    <3>1. Len(files) # 0
      BY <1>2 DEF IsConfiguration, files
    <3> QED
      BY <3>1, FilesFacts
  <2>5. Placed(s)
    BY <1>2, <2>3, <2>4 DEF Placed, Fresh
  <2>6. ReadBy(s) = {}
    <3>1. \A q \in All : q[1] \in File /\ q[2] \in Nat /\ q[2] >= 1
      BY FilesFacts
    <3> QED
      BY <2>3, <3>1 DEF ReadBy
  <2>7. /\ a \in Advances
        /\ a \in {"reduce", "records_reduce"} <=> config.reduce
    BY <1>2 DEF Advances, IsConfiguration
  <2>8. Opened(s)
    BY <2>2, <2>3, <2>5, <2>6, <2>7
  <2> QED
    BY <2>8 DEF s
<1>3. ASSUME config.kind = "ext" PROVE Opened(ExtAddAll)
  <2> DEFINE s == ExtAddAll
             n == Len(files)
  <2>1. Added(s, n) /\ n \in Nat /\ File = 1 .. n
    BY ExtAddAllLemma, FilesFacts
  <2> HIDE DEF s
  <2>2. /\ s \in Record /\ Fresh(s) /\ Placed(s)
    BY <1>3, <2>1 DEF Added, Placed
  <2>3. \A q \in All : /\ q[1] \in File /\ files[q[1]] # <<>> /\ s.pos[q[1]] = 1
                       /\ q[2] \in Nat /\ q[2] >= 1 /\ q[1] \in Range(s.heap)
    <3> SUFFICES ASSUME NEW q \in All
                 PROVE  /\ q[1] \in File /\ files[q[1]] # <<>> /\ s.pos[q[1]] = 1
                        /\ q[2] \in Nat /\ q[2] >= 1 /\ q[1] \in Range(s.heap)
      OBVIOUS
    <3>1. q[1] \in File /\ q[2] \in 1 .. Len(files[q[1]]) /\ Len(files[q[1]]) \in Nat
      BY FilesFacts
    <3>2. files[q[1]] # <<>> /\ q[2] \in Nat /\ q[2] >= 1
      BY <3>1
    <3> QED
      BY <2>1, <3>1, <3>2 DEF Added
  <2>4. ReadBy(s) = {}
    BY <2>3 DEF ReadBy
  <2>5. s.heap = <<>> => All = {}
    BY <2>3 DEF Range
  <2>6. /\ s.advance = "empty" => s.heap = <<>>
        /\ s.advance # "empty" => /\ s.advance \in Advances
                                  /\ s.advance \in {"reduce", "records_reduce"} <=> config.reduce
    BY <1>3, <2>1 DEF Added, Advances
  <2>7. Opened(s)
    BY <2>2, <2>4, <2>5, <2>6
  <2> QED
    BY <2>7 DEF s
<1>4. config.kind \in {"ext", "list", "cb", "records"} /\ config.reduce \in BOOLEAN
  BY DEF IsConfiguration
<1>5. CASE config.kind = "list"
  <2>1. WorkerIn = [FromList EXCEPT !.counted = config.limit > 0]
    BY <1>5 DEF WorkerIn
  <2>2. Opened(FromList)
    BY <1>2, <1>5 DEF FromList
  <2> HIDE DEF Opened
  <2> QED
    BY <1>1, <2>1, <2>2
<1>6. CASE config.kind = "cb"
  <2>1. WorkerIn = [FromCb EXCEPT !.counted = config.limit > 0]
    BY <1>6 DEF WorkerIn
  <2>2. Opened(FromCb)
    BY <1>2, <1>6 DEF FromCb
  <2> HIDE DEF Opened
  <2> QED
    BY <1>1, <2>1, <2>2
<1>7. CASE config.kind = "records"
  <2>1. WorkerIn = [RecordsInit EXCEPT !.counted = config.limit > 0]
    BY <1>7 DEF WorkerIn
  <2>2. Opened(RecordsInit)
    BY <1>2, <1>4, <1>7 DEF RecordsInit
  <2> HIDE DEF Opened
  <2> QED
    BY <1>1, <2>1, <2>2
<1>8. CASE config.kind = "ext"
  <2>1. WorkerIn = [ExtAddAll EXCEPT !.counted = config.limit > 0]
    BY <1>8 DEF WorkerIn
  <2>2. Opened(ExtAddAll)
    BY <1>3, <1>8
  <2> HIDE DEF Opened
  <2> QED
    BY <1>1, <2>1, <2>2
<1> QED
  BY <1>4, <1>5, <1>6, <1>7, <1>8

-----------------------------------------------------------------------------
(* The steps *)

\* The end: the limit is reached, or nothing is left.
NothingLeft(t) ==
  /\ Ended(h, t)
  /\ \/ config.limit > 0 /\ given = config.limit
     \/ got = All /\ (config.limit > 0 => given < config.limit)

\* Records that were not returned before, all of C.
NewRecords(t, C) ==
  /\ t \in Record /\ Placed(t)
  /\ h.advance # "empty" /\ t.advance = h.advance /\ ~t.again /\ t.current_tmp = <<>>
  /\ t.current # <<>> /\ Range(t.current) \subseteq C /\ C \subseteq All \ got
  /\ ReadBy(t) = got \cup C
  /\ Keyed => \A r \in C, q \in All \ got : KeyOf(r) <= KeyOf(q)
  /\ t.counted => config.limit > 0
  /\ config.limit > 0 => t.counted /\ t.record_num = given + 1 /\ t.record_num <= config.limit

\* Those that are still to come have other keys.
OtherKeys(t, C) == \A r \in C, q \in All \ ReadBy(t) : KeyOf(r) # KeyOf(q)

\* After ac_in_reset the same records are returned again.
LEMMA PostResetLemma ==
  ASSUME ReadIInv, h.again
  PROVE  LET t == PostReset(h)
         IN  /\ t \in Record /\ Placed(t) /\ ReadBy(t) = got
             /\ t.current = h.current_tmp /\ t.current # <<>> /\ ~t.again /\ t.current_tmp = <<>>
             /\ t.num_current = h.num_current_tmp
             /\ t.advance = h.advance /\ t.counted = h.counted /\ t.record_num = h.record_num
<1> DEFINE t == PostReset(h)
<1>1. h \in Record /\ Placed(h) /\ got = ReadBy(h) /\ h.current_tmp # <<>>
  BY DEF ReadIInv, CursorInv
<1>2. <<>> \in Seq(All)
  OBVIOUS
<1>3. /\ t \in Record /\ t.heap = h.heap /\ t.active = h.active /\ t.pos = h.pos /\ t.file = h.file
      /\ t.current = h.current_tmp /\ ~t.again /\ t.current_tmp = <<>>
      /\ t.num_current = h.num_current_tmp
      /\ t.advance = h.advance /\ t.counted = h.counted /\ t.record_num = h.record_num
  BY <1>1, <1>2 DEF PostReset, Record
<1> HIDE DEF t
<1>4. Placed(t) /\ ReadBy(t) = ReadBy(h)
  BY <1>1, <1>3 DEF Placed, Merging, ReadBy, KeyAt, CurrentOf
<1> QED
  BY <1>1, <1>3, <1>4 DEF t

\* A round of h->advance returns records that were not returned before, or nothing when
\* there is nothing that it may return.
LEMMA RoundLemma ==
  ASSUME ReadIInv, ~h.again
  PROVE  \/ NothingLeft(Round)
         \/ /\ NewRecords(Round, Range(Round.current))
            /\ config.reduce => OtherKeys(Round, Range(Round.current))
            /\ Keyed /\ ~config.reduce => Len(Round.current) = 1
<1> DEFINE b == Counted(h)
           t == Round
           C == Range(t.current)
<1>1. /\ IsConfiguration(config) /\ h \in Record /\ Placed(h) /\ got = ReadBy(h)
      /\ h.current_tmp = <<>> /\ given \in Nat /\ h.record_num \in Nat
      /\ looping \in BOOLEAN /\ config.limit \in Nat
      /\ h.counted \in BOOLEAN /\ (h.counted => config.limit > 0)
  BY DEF ReadIInv, CursorInv, CountInv, GroupInv, IsConfiguration, Record
<1>2. /\ b \in Record /\ b.heap = h.heap /\ b.active = h.active /\ b.pos = h.pos
      /\ b.file = h.file /\ b.advance = h.advance /\ b.counted = h.counted /\ b.again = h.again
      /\ b.current = h.current /\ b.current_tmp = h.current_tmp /\ b.num_current = h.num_current
      /\ b.record_num = IF h.counted /\ ~looping THEN h.record_num + 1 ELSE h.record_num
  <2>1. CASE h.counted /\ ~looping
    <3> DEFINE n == h.record_num + 1
    <3>1. b = [h EXCEPT !.record_num = n] /\ n \in Nat
      BY <1>1, <2>1 DEF Counted
    <3> HIDE DEF b, n
    <3>2. /\ b \in Record /\ b.heap = h.heap /\ b.active = h.active /\ b.pos = h.pos
          /\ b.file = h.file /\ b.advance = h.advance /\ b.counted = h.counted /\ b.again = h.again
          /\ b.current = h.current /\ b.current_tmp = h.current_tmp
          /\ b.num_current = h.num_current /\ b.record_num = n
      BY <1>1, <3>1 DEF Record
    <3> QED
      BY <2>1, <3>2 DEF n
  <2>2. CASE ~(h.counted /\ ~looping)
    <3>1. b = h
      BY <2>2 DEF Counted
    <3> HIDE DEF b
    <3> QED
      BY <1>1, <2>2, <3>1
  <2> QED
    BY <2>1, <2>2
<1> HIDE DEF b
<1>3. Placed(b) /\ ReadBy(b) = ReadBy(h)
  BY <1>1, <1>2 DEF Placed, Merging, ReadBy, KeyAt, CurrentOf
<1>4. h.advance # "empty" /\ config.limit > 0 =>
        /\ h.counted /\ h.record_num <= config.limit /\ b.record_num = given + 1
        /\ looping => given < config.limit
  BY <1>1, <1>2 DEF ReadIInv, CountInv
<1>5. CASE OverLimit(b)
  <2>1. t = Empty(b)
    BY <1>5 DEF Round, b
  <2>2. Ended(h, t)
    <3>1. Ended(b, t)
      BY <1>2, <1>3, <2>1, EmptyLemma
    <3> QED
      BY <1>2, <1>3, <3>1 DEF Ended
  <2>3. h.advance # "empty" => config.limit > 0 /\ given = config.limit
    BY <1>1, <1>2, <1>4, <1>5 DEF OverLimit
  <2> QED
    BY <2>2, <2>3 DEF NothingLeft, ReadIInv, CountInv
<1>6. CASE ~OverLimit(b) /\ h.advance = "empty"
  <2>1. t = b
    BY <1>2, <1>6 DEF Round, b
  <2>2. Ended(h, t)
    BY <1>1, <1>2, <1>3, <1>6, <2>1 DEF Ended, ReadIInv, CursorInv
  <2> QED
    BY <1>6, <2>2 DEF NothingLeft, ReadIInv, CountInv
<1>7. ASSUME ~OverLimit(b), h.advance # "empty", config.limit > 0 PROVE given < config.limit
  BY <1>1, <1>2, <1>4, <1>7 DEF OverLimit
<1>8. ASSUME ~OverLimit(b), h.advance # "empty", Ended(b, t), ReadBy(b) = All
      PROVE  NothingLeft(t)
  BY <1>1, <1>2, <1>3, <1>7, <1>8 DEF NothingLeft, Ended
<1>9. ASSUME ~OverLimit(b), h.advance # "empty", Yields(b, t)
      PROVE  NewRecords(t, C)
  <2>1. C \subseteq All
    BY <1>9 DEF Yields, Record, Range
  <2> HIDE DEF t
  <2> QED
    BY <1>1, <1>2, <1>3, <1>4, <1>7, <1>9, <2>1 DEF NewRecords, Yields
<1>10. CASE ~OverLimit(b) /\ h.advance # "empty"
  <2>1. t = CASE b.advance = "empty" -> b
              [] b.advance = "list" -> AdvanceFileList(b)
              [] b.advance = "cb" -> AdvanceCb(b)
              [] b.advance = "records" -> RecordsAdvance(b)
              [] b.advance = "records_reduce" -> RecordsGroup(b)
              [] b.advance = "plain" -> ExtAdvance(b)
              [] b.advance = "reduce" -> ExtAdvanceUnique(b)
    BY <1>10 DEF Round, b
  <2>2. /\ h.advance \in Advances
        /\ h.advance \in {"reduce", "records_reduce"} <=> config.reduce
    BY <1>10 DEF ReadIInv, CursorInv
  <2> HIDE DEF t
  <2>3. \/ Ended(b, t) /\ ReadBy(b) = All
        \/ /\ Yields(b, t)
           /\ config.reduce => OtherKeys(t, C)
           /\ Keyed /\ ~config.reduce => Len(t.current) = 1
    <3>1. config.kind \in {"ext", "list", "cb", "records"}
      BY <1>1 DEF IsConfiguration
    <3>2. CASE config.kind \in {"list", "cb"}
      <4>1. h.advance = config.kind /\ ~config.reduce /\ ~Keyed
        BY <2>2, <3>2 DEF Advances, Keyed
      <4>2. t = AdvanceFileList(b)
        BY <1>2, <2>1, <3>2, <4>1 DEF AdvanceCb
      <4> QED
        BY <1>1, <1>2, <1>3, <3>2, <4>1, <4>2, AdvanceFileListLemma
    <3>3. CASE config.kind = "records" /\ config.reduce
      <4>1. t = RecordsGroup(b)
        BY <1>2, <2>1, <2>2, <3>3 DEF Advances
      <4> QED
        BY <1>1, <1>2, <1>3, <3>3, <4>1, RecordsGroupLemma DEF OtherKeys
    <3>4. CASE config.kind = "records" /\ ~config.reduce
      <4>1. t = RecordsAdvance(b)
        BY <1>2, <2>1, <2>2, <3>4 DEF Advances
      <4> QED
        BY <1>1, <1>2, <1>3, <3>4, <4>1, RecordsAdvanceLemma
    <3>5. CASE config.kind = "ext" /\ config.reduce
      <4>1. t = ExtAdvanceUnique(b)
        BY <1>2, <2>1, <2>2, <3>5 DEF Advances
      <4>2. \/ Ended(b, t) /\ ReadBy(b) = All
            \/ YieldsWhole(b, t)
        BY <1>1, <1>2, <1>3, <3>5, <4>1, ExtAdvanceUniqueLemma
      <4> QED
        BY <3>5, <4>2 DEF OtherKeys, YieldsWhole
    <3>6. CASE config.kind = "ext" /\ ~config.reduce
      <4>1. t = ExtAdvance(b)
        BY <1>2, <2>1, <2>2, <3>6 DEF Advances
      <4> QED
        BY <1>1, <1>2, <1>3, <3>6, <4>1, ExtAdvanceLemma
    <3> QED
      BY <3>1, <3>2, <3>3, <3>4, <3>5, <3>6
  <2> QED
    BY <1>8, <1>9, <1>10, <2>3 DEF t
<1> QED
  BY <1>5, <1>6, <1>10

-----------------------------------------------------------------------------
(* ReadIInv of a cursor and of the other variables: with them a step is argued about   *)
(* without primes.                                                                      *)

CursorOf(s, reads, l) ==
  /\ s \in Record /\ Placed(s) /\ reads = ReadBy(s)
  /\ s.advance = "empty" => s.current = <<>> /\ ~s.again /\ s.num_current = 0
  /\ s.advance # "empty" =>
       s.advance \in Advances /\ (s.advance \in {"reduce", "records_reduce"} <=> config.reduce)
  /\ s.again <=> s.current_tmp # <<>>
  /\ s.again => s.current = <<>> /\ ~l
  /\ l => config.reduce

CountOf(s, reads, v, l, c) ==
  /\ v \in Nat
  /\ s.counted => config.limit > 0
  /\ s.advance # "empty" /\ config.limit > 0 =>
       /\ s.counted /\ s.record_num <= config.limit
       /\ s.record_num = v + (IF l THEN 1 ELSE 0)
  /\ s.advance = "empty" =>
       \/ config.limit > 0 /\ v = config.limit
       \/ reads = All /\ (config.limit > 0 => v < config.limit)
  /\ c = "ended" => s.advance = "empty"

KeysOf(s, reads, l) ==
  /\ Keyed => \A r \in reads, q \in All \ reads : KeyOf(r) <= KeyOf(q)
  /\ config.reduce \/ (config.kind = "ext" /\ config.style = "unique") =>
       \A r \in reads, q \in All \ reads : KeyOf(r) # KeyOf(q)
  /\ Keyed /\ config.style = "unique" =>
       /\ s.again => s.num_current_tmp = Len(s.current_tmp)
       /\ ~s.again /\ ~l => s.num_current = Len(s.current)

\* What ac_in_advance_group has copied, or has stepped back from.
GroupsOf(s, reads, c, gr, res) ==
  Keyed /\ config.style = "group" /\ ~config.reduce =>
    /\ c = "more" =>
         /\ Range(gr) = {r \in reads : KeyOf(r) = KeyOf(Head(gr))}
         /\ \A r \in reads : KeyOf(r) <= KeyOf(Head(gr))
    /\ c # "more" /\ s.again =>
         /\ Range(s.current_tmp) \subseteq reads
         /\ \A r \in reads \ Range(s.current_tmp),
              q \in (All \ reads) \cup Range(s.current_tmp) : KeyOf(r) < KeyOf(q)
         /\ Len(s.current_tmp) = 1
    /\ c # "more" /\ ~s.again => reads = {} \/ s.advance = "empty"
    /\ res # <<>> /\ config.limit = 0 =>
         Range(res) = {r \in All : KeyOf(r) = KeyOf(Head(res))}

CallsOf(s, l, c, gr, res) ==
  /\ c \in {"idle", "more", "ended"} /\ l \in BOOLEAN
  /\ gr \in Seq(All) /\ res \in Seq(All)
  /\ c = "more" => config.style = "group" /\ ~s.again /\ gr # <<>>

LEMMA ReadParts ==
  ReadIInv <=> /\ IsConfiguration(config)
               /\ CursorOf(h, got, looping) /\ CountOf(h, got, given, looping, call)
               /\ KeysOf(h, got, looping) /\ GroupsOf(h, got, call, group, result)
               /\ CallsOf(h, looping, call, group, result)
<1>1. CursorInv <=> CursorOf(h, got, looping)
  BY DEF CursorInv, CursorOf
<1>2. CountInv <=> CountOf(h, got, given, looping, call)
  BY DEF CountInv, CountOf
<1>3. KeysInv <=> KeysOf(h, got, looping)
  BY DEF KeysInv, KeysOf
<1>4. GroupInv <=> /\ GroupsOf(h, got, call, group, result)
                   /\ CallsOf(h, looping, call, group, result)
  BY DEF GroupInv, GroupsOf, CallsOf
<1> QED
  BY <1>1, <1>2, <1>3, <1>4 DEF ReadIInv

\* The configuration does not change.
LEMMA SameConfig ==
  ASSUME UNCHANGED config, NEW t, h' = t
  PROVE  /\ All' = All /\ (Keyed <=> Keyed') /\ Advances' = Advances
         /\ (IsConfiguration(config)' <=> IsConfiguration(config))
         /\ (h \in Record)' <=> t \in Record
         /\ Placed(h)' <=> Placed(t)
         /\ ReadBy(h)' = ReadBy(t)
<1>1. files' = files /\ config' = config
  BY DEF files
<1>2. File' = File
  BY <1>1 DEF File
<1>3. All' = All
  BY <1>1, <1>2 DEF All
<1>4. (Keyed <=> Keyed') /\ Advances' = Advances
  BY <1>1 DEF Keyed, Advances
<1>5. IsConfiguration(config)' <=> IsConfiguration(config)
  BY <1>1 DEF IsConfiguration, Ascends, StrictlyAscends
<1>6. (h \in Record)' <=> t \in Record
  BY <1>2, <1>3 DEF Record
<1>7. Placed(h)' <=> Placed(t)
  BY <1>1, <1>2 DEF Placed, Merging, KeyAt, CurrentOf, KeyOf
<1>8. ReadBy(h)' = ReadBy(t)
  BY <1>3 DEF ReadBy
<1> QED
  BY <1>3, <1>4, <1>5, <1>6, <1>7, <1>8


\* The parts of ReadIInv for the next values are those of the next state.
LEMMA NextParts ==
  ASSUME IsConfiguration(config), UNCHANGED config,
         NEW t, NEW reads, NEW v, NEW l, NEW c, NEW gr, NEW res,
         h' = t, got' = reads, given' = v, looping' = l, call' = c, group' = gr, result' = res,
         CursorOf(t, reads, l), CountOf(t, reads, v, l, c), KeysOf(t, reads, l),
         GroupsOf(t, reads, c, gr, res), CallsOf(t, l, c, gr, res)
  PROVE  ReadIInv'
<1>1. /\ All' = All /\ (Keyed <=> Keyed') /\ Advances' = Advances
      /\ IsConfiguration(config)' /\ (h \in Record)' /\ Placed(h)' /\ ReadBy(h)' = ReadBy(t)
  <2>1. t \in Record /\ Placed(t)
    BY DEF CursorOf
  <2> QED
    BY <2>1, SameConfig
<1>2. config' = config /\ files' = files
  BY DEF files
<1>3. CursorInv'
  BY <1>1, <1>2 DEF CursorInv, CursorOf
<1>4. CountInv'
  BY <1>1, <1>2 DEF CountInv, CountOf
<1>5. KeysInv'
  BY <1>1, <1>2 DEF KeysInv, KeysOf, KeyOf
<1>6. GroupInv'
  BY <1>1, <1>2 DEF GroupInv, GroupsOf, CallsOf, KeyOf
<1> QED
  BY <1>1, <1>3, <1>4, <1>5, <1>6 DEF ReadIInv

-----------------------------------------------------------------------------
(* What a call returns *)

\* What was returned before, nothing, or the records of C.
Outcome(t, C) ==
  \/ /\ h.again /\ C = {} /\ t = PostReset(h)
  \/ /\ ~h.again /\ C = {} /\ NothingLeft(t)
  \/ /\ ~h.again /\ C # {} /\ NewRecords(t, C)
     /\ config.reduce \/ (config.kind = "ext" /\ config.style = "unique") => OtherKeys(t, C)

\* In the loop of the reducer a group is dropped, and is not counted as given.
LEMMA OutcomeLemma ==
  ASSUME ReadIInv, NEW t, NEW C, Outcome(t, C), NEW l \in BOOLEAN,
         l => C # {} /\ config.reduce,
         NEW v, v = IF C = {} \/ l THEN given ELSE given + 1,
         NEW c, c = "ended" => t.advance = "empty",
         Keyed /\ config.style = "unique" /\ ~l /\ C # {} => t.num_current = Len(t.current)
  PROVE  /\ CursorOf(t, got \cup C, l) /\ CountOf(t, got \cup C, v, l, c)
         /\ KeysOf(t, got \cup C, l)
<1>1. /\ IsConfiguration(config) /\ CursorOf(h, got, looping)
      /\ CountOf(h, got, given, looping, call) /\ KeysOf(h, got, looping)
  BY ReadParts
<1>2. config.limit \in Nat /\ given \in Nat
  BY <1>1 DEF IsConfiguration, CountOf
<1>3. CASE h.again /\ C = {} /\ t = PostReset(h)
  <2>1. /\ t \in Record /\ Placed(t) /\ ReadBy(t) = got
        /\ t.current = h.current_tmp /\ t.current # <<>> /\ ~t.again /\ t.current_tmp = <<>>
        /\ t.num_current = h.num_current_tmp
        /\ t.advance = h.advance /\ t.counted = h.counted /\ t.record_num = h.record_num
    BY <1>3, PostResetLemma
  <2>2. got \cup C = got /\ ~l /\ v = given /\ ~looping /\ h.advance # "empty"
    BY <1>1, <1>3 DEF CursorOf
  <2>3. CursorOf(t, got, l)
    BY <1>1, <2>1, <2>2 DEF CursorOf
  <2>4. CountOf(t, got, v, l, c)
    BY <1>1, <1>2, <2>1, <2>2 DEF CountOf
  <2>5. KeysOf(t, got, l)
    BY <1>1, <1>3, <2>1, <2>2 DEF KeysOf
  <2> QED
    BY <2>2, <2>3, <2>4, <2>5
<1>4. CASE ~h.again /\ C = {} /\ NothingLeft(t)
  <2>1. /\ t \in Record /\ Placed(t) /\ ReadBy(t) = got
        /\ t.advance = "empty" /\ t.current = <<>> /\ t.current_tmp = <<>> /\ t.num_current = 0
        /\ t.counted => h.counted
        /\ ~t.again
    BY <1>1, <1>4 DEF NothingLeft, Ended, CursorOf
  <2>2. got \cup C = got /\ ~l /\ v = given
    BY <1>4
  <2>3. CursorOf(t, got, l)
    BY <2>1, <2>2 DEF CursorOf
  <2>4. CountOf(t, got, v, l, c)
    BY <1>1, <1>2, <1>4, <2>1, <2>2 DEF CountOf, NothingLeft
  <2>5. KeysOf(t, got, l)
    BY <1>1, <2>1, <2>2 DEF KeysOf
  <2> QED
    BY <2>2, <2>3, <2>4, <2>5
<1>5. CASE /\ ~h.again /\ C # {} /\ NewRecords(t, C)
           /\ config.reduce \/ (config.kind = "ext" /\ config.style = "unique") => OtherKeys(t, C)
  <2>1. CursorOf(t, got \cup C, l)
    BY <1>1, <1>5 DEF CursorOf, NewRecords
  <2>2. CountOf(t, got \cup C, v, l, c)
    BY <1>1, <1>2, <1>5 DEF CountOf, NewRecords
  <2>3. KeysOf(t, got \cup C, l)
    BY <1>1, <1>5 DEF KeysOf, NewRecords, OtherKeys
  <2> QED
    BY <2>1, <2>2, <2>3
<1> QED
  BY <1>3, <1>4, <1>5 DEF Outcome

LEMMA HeadInRange ==
  ASSUME NEW S, NEW f \in Seq(S), f # <<>>
  PROVE  Head(f) = f[1] /\ Head(f) \in Range(f) /\ Range(f) \subseteq S
<1>1. Head(f) = f[1] /\ 1 \in DOMAIN f
  OBVIOUS
<1> QED
  BY <1>1 DEF Range

\* What the reducer leaves of a group is its first record.
LEMMA ReturnedLemma ==
  ASSUME ReadIInv, NEW C, C = IF h.again THEN {} ELSE Range(Round.current),
         config.style = "unique" => config.kind # "ext" \/ h.advance \notin {"plain", "reduce"} \/ h.again
  PROVE  /\ Outcome(Returned, C) /\ Returned.current \in Seq(All)
         /\ Returned.current = <<>> <=> ~h.again /\ C = {}
         /\ C # {} <=> ~h.again /\ Round.current # <<>>
         /\ C # {} /\ Keyed => /\ Len(Returned.current) = 1
                               /\ config.reduce => Returned.num_current = 1
                               /\ ~config.reduce => Range(Returned.current) = C
<1> DEFINE u == Round
           t == Returned
<1>1. /\ IsConfiguration(config) /\ CursorOf(h, got, looping)
  BY ReadParts
<1>2. CASE h.again
  <2>1. t = PostReset(h)
    BY <1>2 DEF Returned, Reduces, Round
  <2>2. t.current \in Seq(All) /\ t.current # <<>>
    BY <1>2, <2>1, PostResetLemma DEF Record
  <2> QED
    BY <1>2, <2>1, <2>2 DEF Outcome
<1>3. ASSUME ~h.again, NothingLeft(u)
      PROVE  /\ Outcome(t, C) /\ t.current \in Seq(All) /\ t.current = <<>> /\ C = {} /\ u.current = <<>>
  <2>1. u.current = <<>> /\ u \in Record
    BY <1>3 DEF NothingLeft, Ended
  <2>2. t = u
    BY <2>1 DEF Returned, Reduces
  <2>3. C = {}
    BY <1>3, <2>1 DEF Range
  <2> HIDE DEF t, u
  <2> QED
    BY <1>3, <2>1, <2>2, <2>3 DEF Outcome, Record
<1>4. ASSUME ~h.again, NewRecords(u, C), config.reduce => OtherKeys(u, C),
             Keyed /\ ~config.reduce => Len(u.current) = 1
      PROVE  /\ Outcome(t, C) /\ t.current \in Seq(All) /\ t.current # <<>> /\ C # {} /\ u.current # <<>>
             /\ Keyed => /\ Len(t.current) = 1
                         /\ config.reduce => t.num_current = 1
                         /\ ~config.reduce => Range(t.current) = C
  <2>1. /\ u \in Record /\ u.current \in Seq(All) /\ u.current # <<>> /\ C = Range(u.current)
        /\ h.advance # "empty"
    BY <1>4 DEF NewRecords, Record
  <2>2. Head(u.current) \in C /\ C \subseteq All
    BY <2>1, HeadInRange
  <2>3. /\ h.advance \in Advances
        /\ h.advance \in {"reduce", "records_reduce"} <=> config.reduce
    BY <1>1, <2>1 DEF CursorOf
  <2>4. config.kind = "ext" /\ config.style = "unique" => FALSE
    BY <1>4, <2>3 DEF Advances
  <2>5. CASE config.reduce
    <3> DEFINE x == Head(u.current)
               one == <<x>>
    <3>1. t = [u EXCEPT !.current = one, !.num_current = 1]
      BY <1>4, <2>1, <2>3, <2>5 DEF Returned, Reduces
    <3>2. one \in Seq(All) /\ one # <<>> /\ Len(one) = 1 /\ Range(one) = {x}
      BY <2>2 DEF Range
    <3> HIDE DEF t, u, one
    <3>3. /\ t \in Record /\ t.heap = u.heap /\ t.active = u.active /\ t.pos = u.pos
          /\ t.file = u.file /\ t.advance = u.advance /\ t.counted = u.counted
          /\ t.again = u.again /\ t.current = one /\ t.num_current = 1
          /\ t.current_tmp = u.current_tmp /\ t.record_num = u.record_num
      BY <2>1, <3>1, <3>2 DEF Record
    <3>4. Placed(t) <=> Placed(u)
      BY <3>3 DEF Placed, Merging, KeyAt, CurrentOf
    <3>5. ReadBy(t) = ReadBy(u)
      BY <3>3 DEF ReadBy
    <3>6. NewRecords(t, C) /\ OtherKeys(t, C)
      BY <1>4, <2>2, <2>5, <3>2, <3>3, <3>4, <3>5 DEF NewRecords, OtherKeys, u, x
    <3> QED
      BY <1>4, <2>1, <2>2, <2>5, <3>2, <3>3, <3>6 DEF Outcome, u
  <2>6. CASE ~config.reduce
    <3>1. t = u
      BY <2>3, <2>6 DEF Returned, Reduces
    <3>2. C # {}
      BY <2>2
    <3> HIDE DEF t, u
    <3> QED
      BY <1>4, <2>1, <2>4, <2>6, <3>1, <3>2 DEF Outcome
  <2> QED
    BY <2>5, <2>6
<1>5. CASE ~h.again
  <2>1. C = Range(Round.current)
    BY <1>5
  <2>2. \/ NothingLeft(u)
        \/ /\ NewRecords(u, C)
           /\ config.reduce => OtherKeys(u, C)
           /\ Keyed /\ ~config.reduce => Len(u.current) = 1
    BY <1>5, <2>1, RoundLemma
  <2>3. CASE NothingLeft(u)
    BY <1>3, <1>5, <2>3
  <2>4. CASE /\ NewRecords(u, C)
             /\ config.reduce => OtherKeys(u, C)
             /\ Keyed /\ ~config.reduce => Len(u.current) = 1
    BY <1>4, <1>5, <2>4
  <2> QED
    BY <2>2, <2>3, <2>4
<1> QED
  BY <1>2, <1>5

\* ac_in_reset keeps the parts of the invariant.
LEMMA ResetLemma ==
  ASSUME NEW s, NEW reads, NEW v, NEW c,
         CursorOf(s, reads, FALSE), CountOf(s, reads, v, FALSE, c), KeysOf(s, reads, FALSE), ~s.again
  PROVE  LET t == Reset(s)
         IN  /\ CursorOf(t, reads, FALSE) /\ CountOf(t, reads, v, FALSE, c)
             /\ KeysOf(t, reads, FALSE)
             /\ s.current = <<>> => t = s
             /\ s.current # <<>> => t.again /\ t.current_tmp = s.current
<1> DEFINE t == Reset(s)
<1>1. s \in Record /\ Placed(s) /\ ReadBy(s) = reads
  BY DEF CursorOf
<1>2. CASE s.current = <<>>
  <2>1. t = s
    BY <1>2 DEF Reset
  <2> QED
    BY <1>2, <2>1
<1>3. CASE s.current # <<>>
  <2>1. <<>> \in Seq(All)
    OBVIOUS
  <2>2. /\ t \in Record /\ t.heap = s.heap /\ t.active = s.active /\ t.pos = s.pos
        /\ t.file = s.file /\ t.advance = s.advance /\ t.counted = s.counted
        /\ t.again /\ t.current = <<>> /\ t.current_tmp = s.current
        /\ t.num_current_tmp = s.num_current /\ t.record_num = s.record_num
    BY <1>1, <1>3, <2>1 DEF Reset, Record
  <2> HIDE DEF t
  <2>3. Placed(t) <=> Placed(s)
    BY <2>2 DEF Placed, Merging, KeyAt, CurrentOf
  <2>4. ReadBy(t) = ReadBy(s)
    BY <2>2 DEF ReadBy
  <2>5. CursorOf(t, reads, FALSE)
    BY <1>1, <1>3, <2>2, <2>3, <2>4 DEF CursorOf
  <2>6. CountOf(t, reads, v, FALSE, c)
    BY <2>2 DEF CountOf
  <2>7. KeysOf(t, reads, FALSE)
    BY <2>2 DEF KeysOf
  <2> QED
    BY <1>3, <2>2, <2>5, <2>6, <2>7 DEF t
<1> QED
  BY <1>2, <1>3

-----------------------------------------------------------------------------
(* The steps *)

LEMMA ReadInit == Init => ReadIInv
<1> SUFFICES ASSUME Init PROVE ReadIInv
  OBVIOUS
<1>1. IsConfiguration(config)
  BY ConfigurationsAssumption DEF Init
<1>2. /\ Started(h) /\ got = {} /\ given = 0 /\ ~looping /\ looping \in BOOLEAN /\ call = "idle"
      /\ group = <<>> /\ result = <<>>
  BY <1>1, WorkerInLemma DEF Init
<1>3. config.limit \in Nat
  BY <1>1 DEF IsConfiguration
<1>4. <<>> \in Seq(All)
  OBVIOUS
<1>5. CursorOf(h, got, looping)
  BY <1>2 DEF CursorOf, Started
<1>6. CountOf(h, got, given, looping, call)
  BY <1>2, <1>3 DEF CountOf, Started
<1>7. KeysOf(h, got, looping)
  BY <1>2 DEF KeysOf, Started
<1>8. GroupsOf(h, got, call, group, result)
  BY <1>2 DEF GroupsOf, Started
<1>9. CallsOf(h, looping, call, group, result)
  BY <1>2, <1>4 DEF CallsOf
<1> QED
  BY <1>1, <1>5, <1>6, <1>7, <1>8, <1>9, ReadParts

\* A step that calls h->advance: what the clients copy and keep is left to the calls.
LEMMA CallStep ==
  ASSUME ReadIInv, UNCHANGED config, NEW t, NEW C, Outcome(t, C), NEW l \in BOOLEAN,
         l => C # {} /\ config.reduce,
         Keyed /\ config.style = "unique" /\ ~l /\ C # {} => t.num_current = Len(t.current),
         NEW c, NEW gr, NEW res, c = "ended" => t.advance = "empty",
         h' = t, looping' = l, call' = c, group' = gr, result' = res, got' = got \cup C,
         given' = IF C = {} \/ l THEN given ELSE given + 1,
         GroupsOf(t, got \cup C, c, gr, res), CallsOf(t, l, c, gr, res)
  PROVE  ReadIInv'
<1>1. IsConfiguration(config)
  BY ReadParts
<1> DEFINE v == IF C = {} \/ l THEN given ELSE given + 1
<1>2. given' = v
  OBVIOUS
<1>3. /\ CursorOf(t, got \cup C, l) /\ CountOf(t, got \cup C, v, l, c)
      /\ KeysOf(t, got \cup C, l)
  BY OutcomeLemma
<1> HIDE DEF v
<1> QED
  BY <1>1, <1>2, <1>3, NextParts

LEMMA DropStep == ReadIInv /\ Drop => ReadIInv'
<1> SUFFICES ASSUME ReadIInv, Drop PROVE ReadIInv'
  OBVIOUS
<1> DEFINE u == Round
           C == Range(u.current)
<1>1. /\ config.style # "unique" \/ config.kind = "records"
      /\ h.advance \in {"reduce", "records_reduce"} /\ ~h.again /\ u.current # <<>>
      /\ h' = u /\ looping' = TRUE /\ got' = got \cup C /\ call' = call /\ call # "ended"
      /\ UNCHANGED <<config, group, result, given>>
  BY DEF Drop, Drops, Reduces
<1>2. CursorOf(h, got, looping) /\ CallsOf(h, looping, call, group, result)
  BY ReadParts
<1>3. config.reduce
  BY <1>1, <1>2 DEF CursorOf
<1>4. NewRecords(u, C) /\ OtherKeys(u, C)
  <2>1. ~NothingLeft(u)
    BY <1>1 DEF NothingLeft, Ended
  <2> QED
    BY <1>1, <1>3, <2>1, RoundLemma
<1>5. C # {}
  <2>1. u.current \in Seq(All) /\ u.current # <<>>
    BY <1>4 DEF NewRecords, Record
  <2> QED
    BY <2>1, HeadInRange
<1> HIDE DEF u, C
<1>6. Outcome(u, C) /\ ~u.again
  BY <1>1, <1>4, <1>5 DEF Outcome, NewRecords
<1>7. CallsOf(u, TRUE, call, group, result)
  BY <1>2, <1>6 DEF CallsOf
<1>8. GroupsOf(u, got \cup C, call, group, result)
  BY <1>3 DEF GroupsOf
<1> QED
  BY <1>1, <1>3, <1>5, <1>6, <1>7, <1>8, CallStep

\* The ghosts of a call that is not in the loop of the reducer.
LEMMA CountLemma ==
  ASSUME NEW s, Count(s), NEW C, C = IF h.again THEN {} ELSE Range(s.current),
         C # {} <=> ~h.again /\ s.current # <<>>
  PROVE  got' = got \cup C /\ given' = IF C = {} \/ FALSE THEN given ELSE given + 1
<1>1. CASE h.again
  BY <1>1 DEF Count
<1>2. CASE ~h.again
  BY <1>2 DEF Count
<1> QED
  BY <1>1, <1>2

LEMMA AdvanceStep == ReadIInv /\ Advance => ReadIInv'
<1> SUFFICES ASSUME ReadIInv, Advance PROVE ReadIInv'
  OBVIOUS
<1> DEFINE t == Returned
           C == IF h.again THEN {} ELSE Range(Round.current)
           c == IF t.current = <<>> THEN "ended" ELSE "idle"
<1>1. /\ config.style = "advance" /\ call = "idle"
      /\ h' = t /\ looping' = FALSE /\ result' = t.current /\ call' = c /\ group' = group
      /\ Count(Round) /\ UNCHANGED config
  BY DEF Advance
<1>2. /\ Outcome(t, C) /\ t.current \in Seq(All)
      /\ t.current = <<>> <=> ~h.again /\ C = {}
      /\ C # {} <=> ~h.again /\ Round.current # <<>>
  BY <1>1, ReturnedLemma
<1> HIDE DEF t
<1>3. got' = got \cup C /\ given' = IF C = {} \/ FALSE THEN given ELSE given + 1
  BY <1>1, <1>2, CountLemma
<1> HIDE DEF C
<1>4. CallsOf(h, looping, call, group, result)
  BY ReadParts
<1>5. c = "ended" => t.advance = "empty"
  BY <1>2 DEF Outcome, NothingLeft, Ended
<1>6. GroupsOf(t, got \cup C, c, group, t.current)
  BY <1>1 DEF GroupsOf
<1>7. CallsOf(t, FALSE, c, group, t.current)
  BY <1>2, <1>4 DEF CallsOf
<1> HIDE DEF c
<1> QED
  BY <1>1, <1>2, <1>3, <1>5, <1>6, <1>7, CallStep

\* Over several files neither reducer nor limit is asked.
LEMMA SeveralLemma ==
  ASSUME ReadIInv, config.style = "unique", h.advance \in {"plain", "reduce"}, ~h.again
  PROVE  LET t == ExtAdvanceUnique(h)
             C == Range(t.current)
         IN  /\ Outcome(t, C) /\ t.current \in Seq(All)
             /\ t.current = <<>> <=> C = {}
             /\ C # {} => t.num_current = Len(t.current)
<1> DEFINE t == ExtAdvanceUnique(h)
           C == Range(t.current)
<1>1. /\ IsConfiguration(config) /\ CursorOf(h, got, looping)
      /\ CountOf(h, got, given, looping, call)
  BY ReadParts
<1>2. h \in Record /\ Placed(h) /\ ReadBy(h) = got /\ h.current_tmp = <<>> /\ h.advance \in Advances
  BY <1>1 DEF CursorOf
<1>3. config.kind = "ext" /\ config.limit = 0
  BY <1>1, <1>2 DEF Advances, IsConfiguration
<1>4. \/ Ended(h, t) /\ got = All
      \/ YieldsWhole(h, t)
  BY <1>1, <1>2, <1>3, ExtAdvanceUniqueLemma
<1> HIDE DEF t
<1>5. CASE Ended(h, t) /\ got = All
  <2>1. NothingLeft(t)
    BY <1>3, <1>5 DEF NothingLeft
  <2>2. t.current = <<>> /\ C = {} /\ t.current \in Seq(All)
    BY <1>5 DEF Ended, Record, Range
  <2> HIDE DEF C
  <2>3. Outcome(t, C)
    BY <2>1, <2>2 DEF Outcome
  <2> QED
    BY <2>2, <2>3 DEF t, C
<1>6. CASE YieldsWhole(h, t)
  <2>1. t.current \in Seq(All) /\ t.current # <<>> /\ C \subseteq All /\ C # {}
    <3>1. t.current \in Seq(All) /\ t.current # <<>>
      BY <1>6 DEF YieldsWhole, Yields, Record
    <3> QED
      BY <3>1, HeadInRange
  <2>2. t.counted => config.limit > 0
    BY <1>1, <1>6 DEF YieldsWhole, Yields, CountOf
  <2>3. NewRecords(t, C)
    <3> HIDE DEF C
    <3>1. /\ t \in Record /\ Placed(t)
          /\ h.advance # "empty" /\ t.advance = h.advance /\ ~t.again /\ t.current_tmp = <<>>
      BY <1>2, <1>6 DEF YieldsWhole, Yields
    <3>2. /\ C \subseteq All \ got /\ ReadBy(t) = got \cup C
          /\ Keyed => \A r \in C, q \in All \ got : KeyOf(r) <= KeyOf(q)
      BY <1>2, <1>6, <2>1 DEF YieldsWhole, Yields, C
    <3>3. ~(config.limit > 0)
      BY <1>3
    <3> QED
      BY <2>1, <2>2, <3>1, <3>2, <3>3 DEF NewRecords, C
  <2>4. OtherKeys(t, C)
    BY <1>6 DEF YieldsWhole, OtherKeys
  <2>5. t.num_current = Len(t.current)
    BY <1>6 DEF YieldsWhole
  <2>6. Outcome(t, C)
    BY <2>1, <2>3, <2>4 DEF Outcome
  <2> QED
    BY <2>1, <2>5, <2>6 DEF t
<1> QED
  BY <1>4, <1>5, <1>6

LEMMA AdvanceUniqueStep == ReadIInv /\ AdvanceUnique => ReadIInv'
<1> SUFFICES ASSUME ReadIInv, AdvanceUnique PROVE ReadIInv'
  OBVIOUS
<1>1. config.style = "unique" /\ call = "idle" /\ UNCHANGED config
  BY DEF AdvanceUnique
<1>2. /\ IsConfiguration(config) /\ CursorOf(h, got, looping)
      /\ CallsOf(h, looping, call, group, result)
  BY ReadParts
<1>3. ASSUME NEW t, NEW s, h' = t, looping' = FALSE, result' = t.current, group' = group,
             call' = IF t.current = <<>> THEN "ended" ELSE "idle", Count(s),
             NEW C, C = IF h.again THEN {} ELSE Range(s.current),
             C # {} <=> ~h.again /\ s.current # <<>>,
             Outcome(t, C), t.current \in Seq(All),
             t.current = <<>> => C = {} /\ ~h.again,
             Keyed /\ C # {} => t.num_current = Len(t.current)
      PROVE  ReadIInv'
  <2> DEFINE c == IF t.current = <<>> THEN "ended" ELSE "idle"
  <2>1. got' = got \cup C /\ given' = IF C = {} \/ FALSE THEN given ELSE given + 1
    BY <1>3, CountLemma
  <2>2. c = "ended" => t.advance = "empty"
    BY <1>3 DEF Outcome, NothingLeft, Ended
  <2>3. GroupsOf(t, got \cup C, c, group, t.current)
    BY <1>1 DEF GroupsOf
  <2>4. CallsOf(t, FALSE, c, group, t.current)
    BY <1>2, <1>3 DEF CallsOf
  <2>5. call' = c
    BY <1>3
  <2> HIDE DEF c
  <2> QED
    BY <1>1, <1>3, <2>1, <2>2, <2>3, <2>4, <2>5, CallStep
<1>4. CASE h.advance \in {"plain", "reduce"} /\ ~h.again
  <2> DEFINE t == ExtAdvanceUnique(h)
             C == IF h.again THEN {} ELSE Range(t.current)
  <2>1. /\ h' = t /\ looping' = FALSE /\ result' = t.current /\ group' = group
        /\ call' = IF t.current = <<>> THEN "ended" ELSE "idle"
        /\ Count(t)
    BY <1>4 DEF AdvanceUnique
  <2>2. /\ Outcome(t, C) /\ t.current \in Seq(All)
        /\ t.current = <<>> <=> C = {}
        /\ C # {} => t.num_current = Len(t.current)
    BY <1>1, <1>4, SeveralLemma
  <2> HIDE DEF t
  <2> QED
    BY <1>3, <1>4, <2>1, <2>2
<1>5. CASE ~(h.advance \in {"plain", "reduce"} /\ ~h.again)
  <2> DEFINE t == Returned
             C == IF h.again THEN {} ELSE Range(Round.current)
  <2>1. /\ h' = t /\ looping' = FALSE /\ result' = t.current /\ group' = group
        /\ call' = IF t.current = <<>> THEN "ended" ELSE "idle"
        /\ Count(Round)
    BY <1>5 DEF AdvanceUnique
  <2>2. /\ Outcome(t, C) /\ t.current \in Seq(All)
        /\ t.current = <<>> <=> ~h.again /\ C = {}
        /\ C # {} <=> ~h.again /\ Round.current # <<>>
        /\ C # {} /\ Keyed => /\ Len(t.current) = 1
                              /\ config.reduce => t.num_current = 1
    BY <1>5, ReturnedLemma
  <2> HIDE DEF t
  <2>3. C = IF h.again THEN {} ELSE Range(Round.current)
    OBVIOUS
  <2> HIDE DEF C
  <2>4. Keyed /\ C # {} => config.reduce
    <3>1. ASSUME Keyed, C # {} PROVE h.advance \in Advances /\ ~h.again
      BY <1>2, <2>2, <2>3, <3>1 DEF CursorOf, Outcome, NewRecords
    <3> QED
      BY <1>1, <1>2, <1>5, <3>1 DEF Keyed, Advances, IsConfiguration
  <2> QED
    BY <1>3, <2>1, <2>2, <2>3, <2>4
<1> QED
  BY <1>4, <1>5

\* The two parts of the invariant that a new record of a group depends on.
LEMMA NewOfGroup ==
  ASSUME ReadIInv, Keyed, config.style = "group", ~config.reduce, ~h.again,
         NEW C, C # {}, C = Range(Round.current), Outcome(Returned, C), Keyed => Len(Returned.current) = 1,
         Range(Returned.current) = C
  PROVE  \E x \in All \ got :
           /\ Returned.current = <<x>> /\ C = {x} /\ h.advance # "empty"
           /\ \A q \in All \ got : KeyOf(x) <= KeyOf(q)
<1> DEFINE t == Returned
<1>1. NewRecords(t, C)
  BY DEF Outcome
<1>2. t.current \in Seq(All) /\ Len(t.current) = 1
  BY <1>1 DEF NewRecords, Record
<1> HIDE DEF t
<1> DEFINE x == Head(t.current)
<1>3. t.current = <<x>> /\ x \in Range(t.current)
  BY <1>2, HeadInRange
<1>4. C = {x}
  BY <1>3 DEF Range, t
<1> HIDE DEF x
<1>5. /\ h.advance # "empty" /\ C \subseteq All \ got
      /\ \A r \in C, q \in All \ got : KeyOf(r) <= KeyOf(q)
  BY <1>1 DEF NewRecords
<1> QED
  BY <1>3, <1>4, <1>5 DEF t

LEMMA GroupFirstStep == ReadIInv /\ GroupFirst => ReadIInv'
<1> SUFFICES ASSUME ReadIInv, GroupFirst PROVE ReadIInv'
  OBVIOUS
<1> DEFINE t == Returned
           C == IF h.again THEN {} ELSE Range(Round.current)
           c == IF t.current = <<>> THEN "ended" ELSE "more"
<1>1. /\ config.style = "group" /\ call = "idle"
      /\ h' = t /\ looping' = FALSE /\ group' = t.current /\ call' = c /\ result' = <<>>
      /\ Count(Round) /\ UNCHANGED config
  BY DEF GroupFirst
<1>2. /\ Outcome(t, C) /\ t.current \in Seq(All)
      /\ t.current = <<>> <=> ~h.again /\ C = {}
      /\ C # {} <=> ~h.again /\ Round.current # <<>>
      /\ C # {} /\ Keyed => /\ Len(t.current) = 1
                            /\ ~config.reduce => Range(t.current) = C
  BY <1>1, ReturnedLemma
<1>3. got' = got \cup C /\ given' = IF C = {} \/ FALSE THEN given ELSE given + 1
  BY <1>1, <1>2, CountLemma
<1>4. c = "ended" => t.advance = "empty"
  BY <1>2 DEF Outcome, NothingLeft, Ended
<1>5. /\ IsConfiguration(config) /\ CursorOf(h, got, looping)
      /\ GroupsOf(h, got, call, group, result)
  BY ReadParts
<1>6. ~t.again
  <2>1. CASE h.again
    BY <1>2, <2>1, PostResetLemma DEF Outcome
  <2>2. CASE ~h.again
    BY <1>2, <2>2 DEF Outcome, NothingLeft, Ended, NewRecords
  <2> QED
    BY <2>1, <2>2
<1>7. CallsOf(t, FALSE, c, t.current, <<>>)
  <2>1. <<>> \in Seq(All)
    OBVIOUS
  <2> QED
    BY <1>1, <1>2, <1>6, <2>1 DEF CallsOf
<1>8. ASSUME Keyed, ~config.reduce, t.current # <<>>
      PROVE  /\ Range(t.current) = {r \in got \cup C : KeyOf(r) = KeyOf(Head(t.current))}
             /\ \A r \in got \cup C : KeyOf(r) <= KeyOf(Head(t.current))
  <2>1. \A r \in All : KeyOf(r) \in Nat
    BY <1>5, FilesFacts
  <2>2. got \subseteq All
    BY <1>5 DEF CursorOf, ReadBy
  <2>3. CASE h.again
    <3>1. t.current = h.current_tmp /\ C = {}
      BY <1>2, <2>3, PostResetLemma DEF Outcome
    <3>2. /\ Range(h.current_tmp) \subseteq got /\ Len(h.current_tmp) = 1
          /\ \A r \in got \ Range(h.current_tmp), q \in Range(h.current_tmp) : KeyOf(r) < KeyOf(q)
      BY <1>1, <1>5, <1>8, <2>3 DEF GroupsOf
    <3> HIDE DEF t, C
    <3> DEFINE f == t.current
    <3>3. f \in Seq(All) /\ f # <<>> /\ Len(f) = 1
      BY <1>2, <1>8, <3>1, <3>2
    <3> HIDE DEF f
    <3>4. Head(f) \in Range(f) /\ Range(f) = {Head(f)}
      <4>1. f = <<Head(f)>>
        BY <3>3
      <4> QED
        BY <3>3, <4>1, HeadInRange DEF Range
    <3>5. \A r \in got : r = Head(f) \/ KeyOf(r) < KeyOf(Head(f))
      BY <3>1, <3>2, <3>4 DEF f
    <3>6. Head(f) \in got
      BY <3>1, <3>2, <3>4 DEF f
    <3> QED
      BY <2>1, <2>2, <3>1, <3>4, <3>5, <3>6 DEF f
  <2>4. CASE ~h.again
    <3>1. C # {} /\ C = Range(Round.current)
      BY <1>2, <1>8, <2>4
    <3>2. PICK x \in All \ got : t.current = <<x>> /\ C = {x} /\ h.advance # "empty"
      <4> HIDE DEF C
      <4> QED
        BY <1>1, <1>2, <1>8, <2>4, <3>1, NewOfGroup
    <3> HIDE DEF t, C
    <3>3. got = {}
      BY <1>1, <1>5, <1>8, <2>4, <3>2 DEF GroupsOf
    <3>4. Range(t.current) = {x} /\ Head(t.current) = x
      BY <3>2 DEF Range
    <3> QED
      BY <2>1, <3>2, <3>3, <3>4
  <2> QED
    BY <2>3, <2>4
<1>9. GroupsOf(t, got \cup C, c, t.current, <<>>)
  BY <1>4, <1>6, <1>8 DEF GroupsOf
<1> HIDE DEF t, C, c
<1> QED
  BY <1>1, <1>2, <1>3, <1>4, <1>7, <1>9, CallStep

LEMMA GroupMoreStep == ReadIInv /\ GroupMore => ReadIInv'
<1> SUFFICES ASSUME ReadIInv, GroupMore PROVE ReadIInv'
  OBVIOUS
<1> DEFINE t == Returned
           C == IF h.again THEN {} ELSE Range(Round.current)
           x == Head(t.current)
           gr == Append(group, x)
<1>1. /\ call = "more" /\ t.current # <<>> /\ KeyOf(x) = KeyOf(Head(group))
      /\ h' = t /\ looping' = FALSE /\ group' = gr /\ call' = call /\ result' = result
      /\ Count(Round) /\ UNCHANGED config
  BY DEF GroupMore, SameGroup
<1>2. /\ IsConfiguration(config) /\ CursorOf(h, got, looping) /\ CallsOf(h, looping, call, group, result)
      /\ GroupsOf(h, got, call, group, result)
  BY ReadParts
<1>3. config.style = "group" /\ ~h.again /\ group # <<>> /\ group \in Seq(All) /\ result \in Seq(All)
  BY <1>1, <1>2 DEF CallsOf
<1>4. /\ Outcome(t, C) /\ t.current \in Seq(All)
      /\ t.current = <<>> <=> ~h.again /\ C = {}
      /\ C # {} <=> ~h.again /\ Round.current # <<>>
      /\ C # {} /\ Keyed => /\ Len(t.current) = 1
                            /\ ~config.reduce => Range(t.current) = C
  BY <1>3, ReturnedLemma
<1>5. got' = got \cup C /\ given' = IF C = {} \/ FALSE THEN given ELSE given + 1
  BY <1>1, <1>4, CountLemma
<1>6. C # {} /\ C = Range(Round.current) /\ ~t.again /\ call # "ended"
  BY <1>1, <1>3, <1>4 DEF Outcome, NewRecords
<1>7. /\ gr \in Seq(All) /\ gr # <<>> /\ Head(gr) = Head(group)
      /\ Range(gr) = Range(group) \cup {x}
  <2>1. x \in All
    BY <1>1, <1>4
  <2> HIDE DEF x
  <2>2. /\ gr \in Seq(All) /\ gr # <<>> /\ Head(gr) = Head(group)
        /\ Len(gr) = Len(group) + 1 /\ Len(group) \in Nat /\ DOMAIN gr = 1 .. Len(group) + 1
        /\ DOMAIN group = 1 .. Len(group)
        /\ \A i \in 1 .. Len(group) : gr[i] = group[i]
        /\ gr[Len(group) + 1] = x
    BY <1>3, <2>1
  <2> HIDE DEF gr
  <2>3. DOMAIN gr = DOMAIN group \cup {Len(group) + 1}
    BY <2>2
  <2> QED
    BY <2>2, <2>3 DEF Range
<1>8. CallsOf(t, FALSE, call, gr, result)
  BY <1>1, <1>3, <1>6, <1>7 DEF CallsOf
<1>9. GroupsOf(t, got \cup C, call, gr, result)
  <2>1. ASSUME Keyed, ~config.reduce
        PROVE  /\ Range(gr) = {r \in got \cup C : KeyOf(r) = KeyOf(Head(gr))}
               /\ \A r \in got \cup C : KeyOf(r) <= KeyOf(Head(gr))
               /\ result # <<>> /\ config.limit = 0 =>
                    Range(result) = {r \in All : KeyOf(r) = KeyOf(Head(result))}
    <3>1. PICK y \in All \ got : t.current = <<y>> /\ C = {y}
      <4> HIDE DEF C
      <4> QED
        BY <1>3, <1>4, <1>6, <2>1, NewOfGroup
    <3>2. x = y
      BY <3>1
    <3>3. KeyOf(x) \in Nat
      BY <1>2, <3>1, <3>2, FilesFacts
    <3>4. /\ Range(group) = {r \in got : KeyOf(r) = KeyOf(Head(group))}
          /\ \A r \in got : KeyOf(r) <= KeyOf(Head(group))
          /\ result # <<>> /\ config.limit = 0 =>
               Range(result) = {r \in All : KeyOf(r) = KeyOf(Head(result))}
      BY <1>1, <1>2, <1>3, <2>1 DEF GroupsOf
    <3> HIDE DEF t, C, x, gr
    <3> QED
      BY <1>1, <1>7, <3>1, <3>2, <3>3, <3>4
  <2> HIDE DEF t, C, gr
  <2> QED
    BY <1>1, <2>1 DEF GroupsOf
<1> DEFINE c == call
           res == result
<1>10. /\ call' = c /\ result' = res /\ c # "ended"
       /\ CallsOf(t, FALSE, c, gr, res) /\ GroupsOf(t, got \cup C, c, gr, res)
  BY <1>1, <1>6, <1>8, <1>9
<1> HIDE DEF t, C, gr, c, res
<1> QED
  BY <1>1, <1>3, <1>4, <1>5, <1>10, CallStep

\* The record with another key was counted, and comes again.
LEMMA GroupEndStep == ReadIInv /\ GroupEnd => ReadIInv'
<1> SUFFICES ASSUME ReadIInv, GroupEnd PROVE ReadIInv'
  OBVIOUS
<1> DEFINE u == Returned
           t == Reset(u)
           C == IF h.again THEN {} ELSE Range(Round.current)
           reads == got \cup C
           v == IF C = {} \/ FALSE THEN given ELSE given + 1
<1>1. /\ call = "more" /\ ~SameGroup(u)
      /\ h' = t /\ looping' = FALSE /\ result' = group /\ group' = <<>> /\ call' = "idle"
      /\ Count(Round) /\ UNCHANGED config
  BY DEF GroupEnd
<1>2. /\ IsConfiguration(config) /\ CursorOf(h, got, looping) /\ CallsOf(h, looping, call, group, result)
      /\ KeysOf(h, got, looping) /\ GroupsOf(h, got, call, group, result)
  BY ReadParts
<1>3. config.style = "group" /\ ~h.again /\ group # <<>> /\ group \in Seq(All)
  BY <1>1, <1>2 DEF CallsOf
<1>4. /\ Outcome(u, C) /\ u.current \in Seq(All)
      /\ u.current = <<>> <=> ~h.again /\ C = {}
      /\ C # {} <=> ~h.again /\ Round.current # <<>>
      /\ C # {} /\ Keyed => /\ Len(u.current) = 1
                            /\ ~config.reduce => Range(u.current) = C
  BY <1>3, ReturnedLemma
<1>5. got' = reads /\ given' = v
  BY <1>1, <1>4, CountLemma
<1>6. C = Range(Round.current)
  BY <1>3
<1> HIDE DEF C
<1>7. ~u.again
  BY <1>3, <1>4 DEF Outcome, NewRecords, NothingLeft, Ended
<1>8. CursorOf(u, reads, FALSE) /\ CountOf(u, reads, v, FALSE, "idle") /\ KeysOf(u, reads, FALSE)
  <2> HIDE DEF u
  <2> DEFINE l == FALSE
             c == "idle"
  <2>1. /\ l \in BOOLEAN /\ (l => C # {} /\ config.reduce)
        /\ v = IF C = {} \/ l THEN given ELSE given + 1
        /\ c = "ended" => u.advance = "empty"
        /\ Keyed /\ config.style = "unique" /\ ~l /\ C # {} => u.num_current = Len(u.current)
    BY <1>3
  <2> HIDE DEF l, c, v
  <2>2. CursorOf(u, reads, l) /\ CountOf(u, reads, v, l, c) /\ KeysOf(u, reads, l)
    BY <1>4, <2>1, OutcomeLemma
  <2> QED
    BY <2>2 DEF l, c
<1> HIDE DEF v
<1>9. /\ CursorOf(t, reads, FALSE) /\ CountOf(t, reads, v, FALSE, "idle") /\ KeysOf(t, reads, FALSE)
      /\ u.current = <<>> => t = u
      /\ u.current # <<>> => t.again /\ t.current_tmp = u.current
  BY <1>7, <1>8, ResetLemma
<1>10. CallsOf(t, FALSE, "idle", <<>>, group)
  <2>1. <<>> \in Seq(All)
    OBVIOUS
  <2> QED
    BY <1>3, <2>1 DEF CallsOf
<1>11. GroupsOf(t, reads, "idle", <<>>, group)
  <2> SUFFICES ASSUME Keyed, ~config.reduce
               PROVE  /\ t.again =>
                           /\ Range(t.current_tmp) \subseteq reads
                           /\ \A r \in reads \ Range(t.current_tmp),
                                q \in (All \ reads) \cup Range(t.current_tmp) : KeyOf(r) < KeyOf(q)
                           /\ Len(t.current_tmp) = 1
                      /\ ~t.again => t.advance = "empty"
                      /\ config.limit = 0 =>
                           Range(group) = {r \in All : KeyOf(r) = KeyOf(Head(group))}
    BY DEF GroupsOf
  <2>1. /\ Range(group) = {r \in got : KeyOf(r) = KeyOf(Head(group))}
        /\ \A r \in got : KeyOf(r) <= KeyOf(Head(group))
    BY <1>1, <1>2, <1>3 DEF GroupsOf
  <2>2. Head(group) \in got
    BY <1>3, <2>1, HeadInRange
  <2>3. \A r \in All : KeyOf(r) \in Nat
    BY <1>2, FilesFacts
  <2>4. got \subseteq All /\ \A r \in got, q \in All \ got : KeyOf(r) <= KeyOf(q)
    BY <1>2 DEF CursorOf, ReadBy, KeysOf
  <2>5. CASE C = {}
    <3>1. NothingLeft(u) /\ u.current = <<>>
      BY <1>3, <1>4, <2>5 DEF Outcome
    <3>2. t = u /\ t.advance = "empty" /\ ~t.again
      BY <1>9, <3>1 DEF NothingLeft, Ended
    <3>3. config.limit = 0 => got = All
      <4>1. config.limit = 0 => ~(config.limit > 0)
        OBVIOUS
      <4> QED
        BY <3>1, <4>1 DEF NothingLeft
    <3> HIDE DEF t, u
    <3> QED
      BY <2>1, <3>2, <3>3
  <2>6. CASE C # {}
    <3>1. PICK x \in All \ got : /\ u.current = <<x>> /\ C = {x}
                                 /\ \A q \in All \ got : KeyOf(x) <= KeyOf(q)
      BY <1>3, <1>4, <1>6, <2>6, NewOfGroup
    <3>2. u.current # <<>> /\ Head(u.current) = x /\ Len(u.current) = 1 /\ Range(u.current) = {x}
      BY <3>1 DEF Range
    <3>3. KeyOf(x) # KeyOf(Head(group))
      BY <1>1, <3>2 DEF SameGroup
    <3>4. t.again /\ t.current_tmp = u.current
      BY <1>9, <3>2
    <3> HIDE DEF t, u
    <3>5. KeyOf(Head(group)) < KeyOf(x)
      BY <2>2, <2>3, <2>4, <3>1, <3>3
    <3>6. \A r \in got, q \in All \ got : KeyOf(r) < KeyOf(q)
      BY <2>1, <2>2, <2>3, <2>4, <3>1, <3>5
    <3>7. \A r \in reads \ {x}, q \in (All \ reads) \cup {x} : KeyOf(r) < KeyOf(q)
      BY <3>1, <3>6
    <3>8. \A q \in All \ got : KeyOf(q) # KeyOf(Head(group))
      BY <2>2, <2>3, <2>4, <3>6
    <3>9. Range(group) = {r \in All : KeyOf(r) = KeyOf(Head(group))}
      BY <2>1, <2>4, <3>8
    <3> QED
      BY <3>1, <3>2, <3>4, <3>7, <3>9
  <2> QED
    BY <2>5, <2>6
<1> HIDE DEF t, reads
<1> QED
  BY <1>1, <1>2, <1>5, <1>9, <1>10, <1>11, NextParts

\* The client steps back, or nothing happens.
LEMMA StepBackStep == ReadIInv /\ StepBack => ReadIInv'
<1> SUFFICES ASSUME ReadIInv, StepBack PROVE ReadIInv'
  OBVIOUS
<1> DEFINE t == Reset(h)
           reads == got
           v == given
           l == FALSE
           c == call
           gr == group
           res == result
<1>1. /\ call = "idle" /\ ~looping /\ config.style # "group" /\ h.current # <<>>
      /\ h' = t /\ UNCHANGED <<config, call, looping, group, result, got, given>>
  BY DEF StepBack
<1>2. /\ IsConfiguration(config) /\ CursorOf(h, got, looping)
      /\ CountOf(h, got, given, looping, call) /\ KeysOf(h, got, looping)
      /\ CallsOf(h, looping, call, group, result)
  BY ReadParts
<1>3. looping = FALSE
  BY <1>1, <1>2 DEF CallsOf
<1>4. ~h.again
  BY <1>1, <1>2 DEF CursorOf
<1>5. CursorOf(t, reads, l) /\ CountOf(t, reads, v, l, c) /\ KeysOf(t, reads, l)
  BY <1>2, <1>3, <1>4, ResetLemma
<1>6. CallsOf(t, l, c, gr, res)
  BY <1>1, <1>2 DEF CallsOf
<1>7. GroupsOf(t, reads, c, gr, res)
  BY <1>1 DEF GroupsOf
<1>8. got' = reads /\ given' = v /\ looping' = l /\ call' = c /\ group' = gr /\ result' = res
  BY <1>1, <1>3
<1> HIDE DEF t, reads, v, l, c, gr, res
<1> QED
  BY <1>1, <1>2, <1>5, <1>6, <1>7, <1>8, NextParts

LEMMA ReadStutter == ReadIInv /\ UNCHANGED vars => ReadIInv'
<1> SUFFICES ASSUME ReadIInv, UNCHANGED vars PROVE ReadIInv'
  OBVIOUS
<1> DEFINE t == h
           reads == got
           v == given
           l == looping
           c == call
           gr == group
           res == result
<1>1. /\ UNCHANGED config /\ h' = t /\ got' = reads /\ given' = v /\ looping' = l
      /\ call' = c /\ group' = gr /\ result' = res
  BY DEF vars
<1>2. /\ IsConfiguration(config)
      /\ CursorOf(t, reads, l) /\ CountOf(t, reads, v, l, c) /\ KeysOf(t, reads, l)
      /\ GroupsOf(t, reads, c, gr, res) /\ CallsOf(t, l, c, gr, res)
  BY ReadParts
<1> HIDE DEF t, reads, v, l, c, gr, res
<1> QED
  BY <1>1, <1>2, NextParts

\* Wherever the cursors are, what was read, the limit, the order of the keys and the groups
\* that are under way fit: ac_in_advance, its reducer, ac_in_advance_unique,
\* ac_in_advance_group and ac_in_reset keep ReadIInv.
THEOREM ReadInvariant == Spec => []ReadIInv
<1>1. Init => ReadIInv
  BY ReadInit
<1>2. ReadIInv /\ [Next]_vars => ReadIInv'
  BY DropStep, AdvanceStep, AdvanceUniqueStep, GroupFirstStep, GroupMoreStep, GroupEndStep,
     StepBackStep, ReadStutter DEF Next
<1> QED
  BY <1>1, <1>2, PTL DEF Spec

-----------------------------------------------------------------------------
(* What ReadIInv says of the records *)

LEMMA HeapOrderedLemma == ReadIInv => HeapOrdered
<1> SUFFICES ASSUME ReadIInv, config.kind = "ext", h.advance # "empty"
             PROVE  /\ \A i \in 2 .. Len(h.heap) : KeyAt(h, h.heap[i \div 2]) <= KeyAt(h, h.heap[i])
                    /\ IsInjective(h.heap \o h.active)
                    /\ \A i \in File : h.pos[i] < Len(files[i]) => i \in Range(h.heap \o h.active)
  BY DEF HeapOrdered
<1>1. IsConfiguration(config) /\ h \in Record /\ Merging(h, Len(files))
  BY DEF ReadIInv, CursorInv, Placed
<1> DEFINE a == h.heap
           b == h.active
           w == a \o b
<1>2. a \in Seq(File) /\ b \in Seq(File)
  BY <1>1 DEF Record
<1>3. \A i \in 2 .. Len(a) : KeyAt(h, a[i \div 2]) <= KeyAt(h, a[i])
  BY <1>1 DEF Merging
<1>4. IsInjective(a) /\ IsInjective(b) /\ Range(a) \cap Range(b) = {}
  BY <1>1 DEF Merging
<1>5. \A i \in File : h.pos[i] < Len(files[i]) => i \in Range(a) \cup Range(b)
  BY <1>1, FilesFacts DEF Merging, Record
<1> HIDE DEF a, b
<1>6. /\ Len(a) \in Nat /\ Len(b) \in Nat /\ DOMAIN a = 1 .. Len(a) /\ DOMAIN b = 1 .. Len(b)
      /\ DOMAIN w = 1 .. Len(a) + Len(b)
      /\ \A i \in 1 .. Len(a) : w[i] = a[i]
      /\ \A i \in Len(a) + 1 .. Len(a) + Len(b) : w[i] = b[i - Len(a)] /\ i - Len(a) \in 1 .. Len(b)
      /\ \A i \in 1 .. Len(b) : w[Len(a) + i] = b[i] /\ Len(a) + i \in DOMAIN w
  BY <1>2
<1> HIDE DEF w
<1>7. IsInjective(w)
  <2> SUFFICES ASSUME NEW i \in DOMAIN w, NEW j \in DOMAIN w, w[i] = w[j]
               PROVE  i = j
    BY DEF IsInjective
  <2>1. CASE i \in DOMAIN a /\ j \in DOMAIN a
    BY <1>4, <1>6, <2>1 DEF IsInjective
  <2>2. CASE i \notin DOMAIN a /\ j \notin DOMAIN a
    <3>1. i \in Len(a) + 1 .. Len(a) + Len(b) /\ j \in Len(a) + 1 .. Len(a) + Len(b)
      BY <1>6, <2>2
    <3>2. i - Len(a) \in DOMAIN b /\ j - Len(a) \in DOMAIN b /\ b[i - Len(a)] = b[j - Len(a)]
      BY <1>6, <3>1
    <3>3. i - Len(a) = j - Len(a)
      BY <1>4, <3>2 DEF IsInjective
    <3> QED
      BY <1>6, <3>1, <3>3
  <2>3. ASSUME NEW k \in DOMAIN a, NEW m \in DOMAIN w \ DOMAIN a PROVE w[k] # w[m]
    <3>1. m \in Len(a) + 1 .. Len(a) + Len(b)
      <4>1. m \in 1 .. Len(a) + Len(b) /\ ~(m \in 1 .. Len(a))
        BY <1>6, <2>3
      <4> QED
        BY <1>6, <4>1
    <3>2. w[k] = a[k] /\ w[m] = b[m - Len(a)] /\ m - Len(a) \in DOMAIN b
      BY <1>6, <2>3, <3>1
    <3>3. a[k] \in Range(a) /\ b[m - Len(a)] \in Range(b)
      BY <2>3, <3>2 DEF Range
    <3> QED
      BY <1>4, <3>2, <3>3
  <2> QED
    BY <2>1, <2>2, <2>3
<1>8. Range(a) \cup Range(b) \subseteq Range(w)
  <2>1. \A i \in DOMAIN a : i \in DOMAIN w /\ w[i] = a[i]
    BY <1>6
  <2> QED
    BY <1>6, <2>1, SMTT(30) DEF Range
<1> QED
  BY <1>3, <1>5, <1>7, <1>8 DEF a, b, w

LEMMA InOrderLemma == ReadIInv => InOrder
<1> SUFFICES ASSUME ReadIInv, NEW r \in got, NEW q \in All \ got PROVE Before(r, q)
  BY DEF InOrder
<1>1. IsConfiguration(config) /\ h \in Record /\ Placed(h) /\ got = ReadBy(h) /\ KeysInv
  BY DEF ReadIInv, CursorInv
<1>2. CASE config.kind = "ext"
  BY <1>1, <1>2 DEF KeysInv, Keyed, Before
<1>3. CASE config.kind # "ext"
  <2>1. /\ h.heap = <<>> /\ h.file \in File
        /\ \A i \in File : /\ h.pos[i] <= Len(files[i]) /\ h.pos[i] \in Nat
                           /\ i < h.file => h.pos[i] = Len(files[i])
                           /\ i > h.file => h.pos[i] = 0
    BY <1>1, <1>3 DEF Placed, Record
  <2>2. Range(<<>>) = {}
    BY DEF Range
  <2>3. /\ r \in All /\ q \in All /\ Len(files) \in Nat /\ File = 1 .. Len(files)
        /\ r[1] \in File /\ q[1] \in File /\ Len(files[q[1]]) \in Nat /\ Len(files[r[1]]) \in Nat
        /\ r[2] \in 1 .. Len(files[r[1]]) /\ q[2] \in 1 .. Len(files[q[1]])
    BY <1>1, FilesFacts DEF ReadBy
  <2>4. r[2] <= h.pos[r[1]] /\ h.pos[q[1]] < q[2]
    BY <1>1, <2>1, <2>2, <2>3, SMTT(30) DEF ReadBy
  <2>5. r[1] <= h.file /\ h.file <= q[1]
    <3>1. h.file \in Nat /\ r[1] \in Nat /\ q[1] \in Nat
      BY <2>1, <2>3
    <3>2. r[1] > h.file => h.pos[r[1]] = 0
      BY <2>1, <2>3
    <3>3. q[1] < h.file => h.pos[q[1]] = Len(files[q[1]])
      BY <2>1, <2>3
    <3>4. r[2] \in Nat /\ q[2] \in Nat /\ r[2] >= 1 /\ q[2] <= Len(files[q[1]])
      BY <2>3
    <3>5. ~(r[1] > h.file)
      BY <2>4, <3>2, <3>4
    <3>6. ~(q[1] < h.file)
      <4>1. Len(files[q[1]]) \in Nat
        BY <2>3
      <4> QED
        BY <2>4, <3>3, <3>4, <4>1
    <3> QED
      BY <3>1, <3>5, <3>6
  <2>6. r[1] < q[1] \/ (r[1] = q[1] /\ r[2] < q[2])
    BY <2>1, <2>3, <2>4, <2>5, SMTT(30)
  <2> QED
    BY <1>3, <2>6 DEF Before
<1> QED
  BY <1>2, <1>3

LEMMA AllReadInvLemma == ReadIInv => AllRead
<1> SUFFICES ASSUME ReadIInv, call = "ended"
             PROVE  IF config.limit > 0 THEN given = config.limit \/ (given < config.limit /\ got = All)
                    ELSE got = All
  BY DEF AllRead
<1> QED
  BY DEF ReadIInv, CountInv

LEMMA GroupsWholeLemma == ReadIInv => GroupsWhole
<1> SUFFICES ASSUME ReadIInv, config.kind \in {"ext", "records"}, call # "more", config.limit = 0
             PROVE  /\ config.style # "advance" \/ config.reduce =>
                         \A r \in got \ Ahead, q \in All \ got : KeyOf(r) # KeyOf(q)
                    /\ config.style = "unique" /\ ~h.again /\ ~looping => h.num_current = Len(h.current)
                    /\ config.style = "group" /\ ~config.reduce /\ result # <<>> =>
                         Range(result) = {r \in All : KeyOf(r) = KeyOf(Head(result))}
  BY DEF GroupsWhole
<1>1. IsConfiguration(config) /\ CursorInv /\ CountInv /\ KeysInv /\ GroupInv /\ Keyed
  BY DEF ReadIInv, Keyed
<1>2. config.style \in {"advance", "unique", "group"}
      /\ (config.kind = "records" /\ config.style = "unique" => config.reduce)
  BY <1>1 DEF IsConfiguration
<1>3. CASE config.reduce \/ config.style = "unique"
  BY <1>1, <1>2, <1>3 DEF KeysInv
<1>4. CASE config.style = "group" /\ ~config.reduce
  <2>1. \A r \in All : KeyOf(r) \in Nat
    BY <1>1, FilesFacts
  <2>2. got \subseteq All
    BY <1>1 DEF CursorInv, ReadBy
  <2>3. ASSUME NEW r \in got \ Ahead, NEW q \in All \ got PROVE KeyOf(r) # KeyOf(q)
    <3>1. Ahead = Range(h.current_tmp)
      BY <1>4 DEF Ahead
    <3>2. CASE h.again
      <4>1. KeyOf(r) < KeyOf(q)
        BY <1>1, <1>4, <2>3, <3>1, <3>2 DEF GroupInv
      <4>2. KeyOf(r) \in Nat /\ KeyOf(q) \in Nat
        BY <2>1, <2>2, <2>3
      <4> QED
        BY <4>1, <4>2
    <3>3. CASE ~h.again
      <4>1. h.advance = "empty"
        BY <1>1, <1>4, <2>3, <3>3 DEF GroupInv
      <4>2. ~(config.limit > 0)
        OBVIOUS
      <4>3. got = All
        BY <1>1, <4>1, <4>2 DEF CountInv
      <4> QED
        BY <2>3, <4>3
    <3> QED
      BY <3>2, <3>3
  <2> QED
    BY <1>1, <1>4, <2>3 DEF GroupInv
<1>5. CASE config.style = "advance" /\ ~config.reduce
  BY <1>5
<1> QED
  BY <1>2, <1>3, <1>4, <1>5

\* Every record of lists, arrays and merged files is returned once and in order, until
\* the end or the limit; groups and what a reducer joins are whole; no file of a merge is
\* lost from the heap.
THEOREM EverythingReadInOrder == Spec => []ReadInv
<1>1. ReadIInv => ReadInv
  BY HeapOrderedLemma, InOrderLemma, AllReadInvLemma, GroupsWholeLemma DEF ReadInv
<1> QED
  BY <1>1, ReadInvariant, PTL
=============================================================================
