-------------------------- MODULE AcHttpParserProofs --------------------------
(***************************************************************************)
(* What the parser makes of a request that is read in pieces.               *)
(*                                                                          *)
(* The first parts say what each callback changes; then comes what a        *)
(* request looks like, cell by cell, and in the read buffer; then what a    *)
(* span of it does to the URL, the headers and the body.  DataHanded, the   *)
(* last lemma, says what one read leaves of a request, however it is cut.   *)
(***************************************************************************)
EXTENDS AcServe, FiniteSetTheorems, SequenceTheorems, WellFoundedInduction, TLAPS

-----------------------------------------------------------------------------
(* Induction *)

\* A set of naturals has a least member.
LEMMA LeastNatural ==
  ASSUME NEW T \in SUBSET Nat, NEW n \in T
  PROVE  \E x \in T : \A y \in T : x <= y
<1> DEFINE Below(x) == 0 .. x - 1
           B == {Below(x) : x \in T}
<1>1. IsWellFoundedOn(StrictSubsetOrdering(Nat), FiniteSubsetsOf(Nat))
  BY FS_StrictSubsetOrderingWellFounded
<1>2. B \subseteq FiniteSubsetsOf(Nat) /\ Below(n) \in B
  <2>1. ASSUME NEW x \in T PROVE IsFiniteSet(Below(x)) /\ Below(x) \in SUBSET Nat
    <3>1. x \in Nat /\ x - 1 \in Int /\ 0 \in Int
      OBVIOUS
    <3>2. IsFiniteSet(0 .. x - 1)
      BY <3>1, FS_Interval
    <3> QED
      BY <3>1, <3>2
  <2> QED
    BY <2>1 DEF FiniteSubsetsOf
<1>3. PICK b \in B : \A c \in B : ~(<<c, b>> \in StrictSubsetOrdering(Nat))
  <2> HIDE DEF B
  <2> QED
    BY <1>1, <1>2, WFMin, Zenon
<1>4. PICK x \in T : b = Below(x)
  BY <1>3
<1>5. ASSUME NEW y \in T PROVE x <= y
  <2> SUFFICES ASSUME y < x PROVE FALSE
    OBVIOUS
  <2>1. Below(y) \in B
    OBVIOUS
  <2>2. Below(y) \subseteq Below(x) /\ Below(y) # Below(x)
    <3>1. y \in Below(x) /\ y \notin Below(y)
      OBVIOUS
    <3> QED
      BY <3>1
  <2>3. <<Below(y), Below(x)>> \in StrictSubsetOrdering(Nat)
    <3>1. Below(y) \in SUBSET Nat /\ Below(x) \in SUBSET Nat
      OBVIOUS
    <3> HIDE DEF Below
    <3> QED
      BY <2>2, <3>1 DEF StrictSubsetOrdering
  <2> QED
    BY <1>3, <1>4, <2>1, <2>3
<1> QED
  BY <1>5

\* A set with zero and the successors of its members has all naturals.
LEMMA SetInduction ==
  ASSUME NEW S, 0 \in S, \A n \in Nat : n \in S => n + 1 \in S
  PROVE  Nat \subseteq S
<1> SUFFICES ASSUME NEW n \in Nat \ S PROVE FALSE
  OBVIOUS
<1>1. PICK x \in Nat \ S : \A y \in Nat \ S : x <= y
  BY LeastNatural
<1>2. x # 0 /\ x - 1 \in Nat /\ x - 1 \in S
  BY <1>1
<1> QED
  BY <1>1, <1>2

-----------------------------------------------------------------------------
(* The fields of the parser that a callback changes *)

\* What a callback that changes only http leaves.
Only(h, s) ==
  /\ IsParser(s) /\ s.llhttp = h.llhttp /\ s.read_buf = h.read_buf /\ s.handed = h.handed

\* A new http leaves the rest of a parser.
LEMMA HttpReplaced ==
  ASSUME NEW h, NEW q, IsParser(h), IsHttp(q)
  PROVE  LET s == [h EXCEPT !.http = q] IN Only(h, s) /\ s.http = q
BY DEF IsParser, Only

\* on_url changes the URL.
LEMMA OnUrlLemma ==
  ASSUME NEW h, NEW from, NEW to, IsParser(h)
  PROVE  LET s == OnUrl(h, from, to)
         IN  /\ Only(h, s)
             /\ s.http = [h.http EXCEPT !.url =
                  IF h.http.url.len = 0 THEN CopyBuf(h, from, to) ELSE SetBuf(h, h.http.url, from, to)]
<1> DEFINE x == IF h.http.url.len = 0 THEN CopyBuf(h, from, to) ELSE SetBuf(h, h.http.url, from, to)
           q == [h.http EXCEPT !.url = x]
<1>1. OnUrl(h, from, to) = [h EXCEPT !.http = q]
  BY DEF OnUrl
<1> HIDE DEF x
<1>2. IsHttp(q)
  BY DEF IsParser, IsHttp
<1> HIDE DEF q
<1> QED
  BY <1>1, <1>2, HttpReplaced DEF x, q

IsBuf(b) == b = [at |-> b.at, len |-> b.len, cells |-> b.cells]

\* A buffer that points to the read buffer.
Pointer(from, to) == [at |-> from, len |-> to - from + 1, cells |-> <<>>]

\* The fields of http that on_header_key and on_header_value set.
LEMMA FlagSet ==
  ASSUME NEW q, NEW b, IsHttp(q)
  PROVE  LET s == [q EXCEPT !.last_was_value = b]
         IN  /\ IsHttp(s) /\ s.last_was_value = b
             /\ s.headers = q.headers /\ s.url = q.url /\ s.body = q.body
             /\ s.content_length = q.content_length /\ s.header_key = q.header_key
             /\ s.header_value = q.header_value /\ s.body_len = q.body_len
BY DEF IsHttp

LEMMA KeySet ==
  ASSUME NEW q, NEW x, IsHttp(q)
  PROVE  LET s == [q EXCEPT !.header_key = x]
         IN  /\ IsHttp(s) /\ s.header_key = x
             /\ s.headers = q.headers /\ s.url = q.url /\ s.body = q.body
             /\ s.header_value = q.header_value
BY DEF IsHttp

\* save_current_header adds the header to the others.
LEMMA SaveLemma ==
  ASSUME NEW h, IsParser(h)
  PROVE  LET s == SaveCurrentHeader(h)
         IN  /\ Only(h, s)
             /\ s.http = [h.http EXCEPT !.headers =
                  Append(@, [key |-> h.http.header_key, value |-> h.http.header_value])]
<1> DEFINE x == Append(h.http.headers, [key |-> h.http.header_key, value |-> h.http.header_value])
           q == [h.http EXCEPT !.headers = x]
<1>1. SaveCurrentHeader(h) = [h EXCEPT !.http = q]
  BY DEF SaveCurrentHeader
<1>2. x \in Seq(Range(x))
  <2> DEFINE e == [key |-> h.http.header_key, value |-> h.http.header_value]
             S == Range(h.http.headers) \cup {e}
  <2>1. h.http.headers \in Seq(S) /\ e \in S
    <3>1. h.http.headers \in Seq(Range(h.http.headers)) /\ Range(h.http.headers) \subseteq S
      BY DEF IsParser, IsHttp
    <3> HIDE DEF e, S
    <3>2. h.http.headers \in Seq(S)
      BY <3>1, SeqMonotonic
    <3> QED
      BY <3>2 DEF S
  <2>2. x = Append(h.http.headers, e)
    OBVIOUS
  <2> HIDE DEF e, S, x
  <2>3. x \in Seq(S)
    BY <2>1, <2>2, AppendProperties
  <2> QED
    BY <2>3, SeqOfRange
<1> HIDE DEF x
<1>3. IsHttp(q)
  <2>1. IsHttp(h.http)
    BY DEF IsParser
  <2> QED
    BY <1>2, <2>1 DEF IsHttp
<1> HIDE DEF q
<1>4. Only(h, [h EXCEPT !.http = q]) /\ [h EXCEPT !.http = q].http = q
  BY <1>3, HttpReplaced, Zenon
<1> QED
  BY <1>1, <1>4, Zenon DEF x, q

\* on_header_value points to a value, if it is the first piece.
WithValue(q, x) == [q EXCEPT !.header_value = x, !.last_was_value = TRUE]

LEMMA OnHeaderValueLemma ==
  ASSUME NEW h, NEW from, NEW to, IsParser(h)
  PROVE  LET s == OnHeaderValue(h, from, to)
         IN  /\ Only(h, s)
             /\ s.http = WithValue(h.http, SetBuf(h, h.http.header_value, from, to))
<1> DEFINE x == SetBuf(h, h.http.header_value, from, to)
           q == WithValue(h.http, x)
<1>1. OnHeaderValue(h, from, to) = [h EXCEPT !.http = q]
  BY DEF OnHeaderValue, IsParser, WithValue
<1> HIDE DEF x
<1>2. IsHttp(q)
  <2> DEFINE p == [h.http EXCEPT !.header_value = x]
  <2>1. IsHttp(p)
    BY DEF IsParser, IsHttp
  <2> HIDE DEF p
  <2>2. IsHttp([p EXCEPT !.last_was_value = TRUE])
    BY <2>1, FlagSet
  <2> QED
    BY <2>2 DEF p, WithValue
<1> HIDE DEF q
<1> QED
  BY <1>1, <1>2, HttpReplaced DEF x, q

\* on_header_key saves the header before, if it has a value.
KeyTaken(h, s, from, to) ==
  LET ends == h.http.last_was_value /\ h.http.header_key.len > 0
  IN  /\ Only(h, s)
      /\ s.http.url = h.http.url /\ s.http.body = h.http.body
      /\ s.http.headers = IF ends THEN SaveCurrentHeader(h).http.headers ELSE h.http.headers
      /\ IsBuf(h.http.header_value) => s.http.header_value.len = 0 /\ IsBuf(s.http.header_value)
      /\ IsBuf(h.http.header_key) /\ (ends \/ h.http.header_key.len = 0) =>
           s.http.header_key = Pointer(from, to)

\* That is what it does.
LEMMA OnHeaderKeyLemma ==
  ASSUME NEW h, NEW from, NEW to, IsParser(h)
  PROVE  KeyTaken(h, OnHeaderKey(h, from, to), from, to)
<1> DEFINE ends == h.http.last_was_value /\ h.http.header_key.len > 0
           g == SaveCurrentHeader(h)
           k == [g.http.header_key EXCEPT !.len = 0]
           p == [g.http EXCEPT !.header_key = k]
           c == IF ends THEN [g EXCEPT !.http = p] ELSE h
           x == SetBuf(c, c.http.header_key, from, to)
           v == [c.http.header_value EXCEPT !.len = 0]
           q == [c.http EXCEPT !.header_key = x, !.last_was_value = FALSE, !.header_value = v]
<1>1. Only(h, g) /\ g.http.header_key = h.http.header_key /\ g.http.header_value = h.http.header_value
      /\ g.http.url = h.http.url /\ g.http.body = h.http.body
  <2> DEFINE w == Append(h.http.headers, [key |-> h.http.header_key, value |-> h.http.header_value])
  <2>1. Only(h, g) /\ g.http = [h.http EXCEPT !.headers = w]
    BY SaveLemma
  <2> HIDE DEF w, g
  <2> QED
    BY <2>1 DEF IsParser, IsHttp
<1>2. [g EXCEPT !.http.header_key.len = 0] = [g EXCEPT !.http = p]
  OBVIOUS
<1> HIDE DEF g
<1>3. IsHttp(p) /\ p.header_value = h.http.header_value /\ p.header_key = k
      /\ p.url = h.http.url /\ p.body = h.http.body /\ p.headers = g.http.headers
  <2> HIDE DEF k
  <2> QED
    BY <1>1 DEF Only, IsParser, IsHttp
<1> HIDE DEF p
<1>4. /\ Only(h, c) /\ c.http.header_value = h.http.header_value
      /\ c.http.header_key = (IF ends THEN k ELSE h.http.header_key)
      /\ c.http.url = h.http.url /\ c.http.body = h.http.body
      /\ c.http.headers = IF ends THEN g.http.headers ELSE h.http.headers
  <2>1. Only(g, [g EXCEPT !.http = p]) /\ [g EXCEPT !.http = p].http = p
    BY <1>1, <1>3, HttpReplaced DEF Only
  <2> HIDE DEF k
  <2>2. CASE ends
    BY <1>1, <1>3, <2>1, <2>2 DEF Only
  <2>3. CASE ~ends
    BY <2>3 DEF Only
  <2> QED
    BY <2>2, <2>3
<1>5. OnHeaderKey(h, from, to) = [c EXCEPT !.http.header_key = x, !.http.last_was_value = FALSE,
                                           !.http.header_value.len = 0]
  <2> HIDE DEF p
  <2>1. c = IF ends THEN [SaveCurrentHeader(h) EXCEPT !.http.header_key.len = 0] ELSE h
    BY <1>2 DEF g
  <2> HIDE DEF c
  <2> QED
    BY <2>1 DEF OnHeaderKey
<1> HIDE DEF c, ends
<1>6. OnHeaderKey(h, from, to) = [c EXCEPT !.http = q]
  <2> HIDE DEF x
  <2> QED
    BY <1>4, <1>5 DEF Only, IsParser, IsHttp
<1> HIDE DEF x, v
<1>7. /\ IsHttp(q) /\ q.header_key = x /\ q.last_was_value = FALSE /\ q.header_value = v
      /\ q.url = c.http.url /\ q.body = c.http.body /\ q.headers = c.http.headers
  <2> DEFINE d == [c.http EXCEPT !.header_key = x]
             e == [d EXCEPT !.last_was_value = FALSE]
             f == [e EXCEPT !.header_value = v]
  <2>1. /\ IsHttp(d) /\ d.header_key = x
        /\ d.url = c.http.url /\ d.body = c.http.body /\ d.headers = c.http.headers
    BY <1>4, KeySet DEF Only, IsParser
  <2> HIDE DEF d
  <2>2. /\ IsHttp(e) /\ e.header_key = x /\ e.last_was_value = FALSE
        /\ e.url = c.http.url /\ e.body = c.http.body /\ e.headers = c.http.headers
    BY <2>1, FlagSet
  <2> HIDE DEF e
  <2>3. /\ IsHttp(f) /\ f.header_key = x /\ f.last_was_value = FALSE /\ f.header_value = v
        /\ f.url = c.http.url /\ f.body = c.http.body /\ f.headers = c.http.headers
    BY <2>2 DEF IsHttp
  <2> QED
    BY <2>3, Zenon DEF d, e, f
<1> HIDE DEF q
<1>9. Only(c, OnHeaderKey(h, from, to)) /\ OnHeaderKey(h, from, to).http = q
  BY <1>4, <1>6, <1>7, HttpReplaced DEF Only
<1>8. IsBuf(h.http.header_value) => v.len = 0 /\ IsBuf(v)
  BY <1>4 DEF v, IsBuf
<1>10. ASSUME IsBuf(h.http.header_key), ends \/ h.http.header_key.len = 0
       PROVE  x = Pointer(from, to)
  <2>1. c.http.header_key.len = 0
    BY <1>1, <1>4, <1>10 DEF IsBuf
  <2> QED
    BY <2>1 DEF x, SetBuf, Pointer
<1> QED
  BY <1>4, <1>7, <1>8, <1>9, <1>10 DEF KeyTaken, Only, g, ends

\* No piece of a URL or a header changes more than http.
LEMMA EmitLemma ==
  ASSUME NEW h, NEW part, NEW from, NEW to, IsParser(h)
  PROVE  Only(h, Emit(h, part, from, to))
<1>1. Only(h, h)
  BY DEF Only
<1>2. Only(h, OnHeaderKey(h, from, to))
  BY OnHeaderKeyLemma, Zenon DEF KeyTaken
<1> QED
  BY <1>1, <1>2, OnUrlLemma, OnHeaderValueLemma, Zenon DEF Emit

-----------------------------------------------------------------------------
(* The end of the headers *)

\* Nothing but cells of the read buffer is changed, and those only in E.
Ends(h, t, E) ==
  /\ IsParser(t) /\ t.http = h.http /\ t.llhttp = h.llhttp /\ t.handed = h.handed
  /\ Len(t.read_buf) = Len(h.read_buf)
  /\ \A k \in 1 .. Len(h.read_buf) : k \in E \/ t.read_buf[k] = h.read_buf[k]

\* The byte behind a string is all that its terminator changes.
LEMMA TerminateLemma ==
  ASSUME NEW h, NEW buf, NEW E, IsParser(h), buf.at > 0 => buf.at + buf.len \in E
  PROVE  Ends(h, Terminate(h, buf), E)
<1>1. h.read_buf \in Seq(AnyCell) /\ Nul \in AnyCell
  BY DEF IsParser, Nul, AnyCell
<1> DEFINE cond == buf.at > 0 /\ buf.at + buf.len <= Len(h.read_buf)
           e == buf.at + buf.len
           b == [h.read_buf EXCEPT ![e] = Nul]
           t == [h EXCEPT !.read_buf = b]
<1>2. CASE cond
  <2>1. Terminate(h, buf) = t
    BY <1>2 DEF Terminate
  <2>2. /\ b \in Seq(AnyCell) /\ Len(b) = Len(h.read_buf)
        /\ \A k \in 1 .. Len(h.read_buf) : k = e \/ b[k] = h.read_buf[k]
    <3>1. h.read_buf \in [1 .. Len(h.read_buf) -> AnyCell] /\ Len(h.read_buf) \in Nat
      BY <1>1, LenProperties
    <3> HIDE DEF e
    <3>2. b \in [1 .. Len(h.read_buf) -> AnyCell] /\ \A k \in 1 .. Len(h.read_buf) : k = e \/ b[k] = h.read_buf[k]
      BY <1>1, <3>1
    <3> HIDE DEF b
    <3>3. b \in Seq(AnyCell)
      BY <3>1, <3>2, SeqDef
    <3>4. DOMAIN b = 1 .. Len(b) /\ Len(b) \in Nat /\ DOMAIN b = 1 .. Len(h.read_buf)
      BY <3>2, <3>3, LenProperties
    <3>5. Len(b) = Len(h.read_buf)
      BY <3>1, <3>4
    <3> QED
      BY <3>2, <3>3, <3>5
  <2>3. e \in E
    BY <1>2
  <2> HIDE DEF b, e
  <2>4. /\ IsParser(t) /\ t.http = h.http /\ t.llhttp = h.llhttp /\ t.handed = h.handed
        /\ t.read_buf = b
    BY <2>2, SMTT(30) DEF IsParser
  <2> HIDE DEF t
  <2> QED
    BY <2>1, <2>2, <2>3, <2>4 DEF Ends
<1>3. CASE ~cond
  <2>1. Terminate(h, buf) = h
    BY <1>3 DEF Terminate
  <2> QED
    BY <2>1 DEF Ends
<1> QED
  BY <1>2, <1>3

\* One terminator after another.
LEMMA EndsTwice ==
  ASSUME NEW h, NEW s, NEW t, NEW E, Ends(h, s, E), Ends(s, t, E)
  PROVE  Ends(h, t, E)
BY DEF Ends

\* The terminators of all headers.
LEMMA TerminateHeadersLemma ==
  ASSUME NEW h, NEW E, IsParser(h),
         \A i \in 1 .. Len(h.http.headers) :
           LET x == h.http.headers[i]
           IN  /\ x.key.at > 0 => x.key.at + x.key.len \in E
               /\ x.value.at > 0 => x.value.at + x.value.len \in E
  PROVE  Ends(h, TerminateHeaders(h), E)
<1> DEFINE L == Len(h.http.headers)
           x(k) == h.http.headers[k]
           Is(f, m) == f = [k \in 0 .. m |-> IF k = 0 THEN h ELSE TerminateHeader(f[k - 1], x(k))]
           S == {m \in Nat : \E f : Is(f, m)}
           ended == CHOOSE f : Is(f, L)
           T == {k \in Nat : k <= L => Ends(h, ended[k], E)}
<1>1. L \in Nat
  BY LenProperties DEF IsParser, IsHttp
<1>2. 0 \in S
  <2> DEFINE f == [k \in 0 .. 0 |-> h]
  <2>1. Is(f, 0)
    OBVIOUS
  <2> QED
    BY <2>1
<1>3. ASSUME NEW m \in Nat, m \in S PROVE m + 1 \in S
  <2>1. PICK f : Is(f, m)
    BY <1>3
  <2> DEFINE g == [k \in 0 .. m + 1 |-> IF k = m + 1 THEN TerminateHeader(f[m], x(k)) ELSE f[k]]
  <2> HIDE DEF x
  <2>2. ASSUME NEW k \in 0 .. m + 1
        PROVE  g[k] = IF k = 0 THEN h ELSE TerminateHeader(g[k - 1], x(k))
    <3>1. CASE k = m + 1
      BY <3>1
    <3>2. CASE k \in 0 .. m
      <4>1. f[k] = IF k = 0 THEN h ELSE TerminateHeader(f[k - 1], x(k))
        BY <2>1, <3>2
      <4>2. g[k] = f[k] /\ (k # 0 => g[k - 1] = f[k - 1])
        BY <3>2
      <4> QED
        BY <4>1, <4>2
    <3> QED
      BY <3>1, <3>2
  <2>3. Is(g, m + 1)
    <3> HIDE DEF Is
    <3>1. g = [k \in 0 .. m + 1 |-> g[k]]
      OBVIOUS
    <3> HIDE DEF g
    <3> QED
      BY <2>2, <3>1 DEF Is
  <2> HIDE DEF Is
  <2> QED
    BY <2>3
<1>4. Is(ended, L)
  <2> HIDE DEF Is
  <2>1. L \in S
    <3> HIDE DEF S, L
    <3> QED
      BY <1>1, <1>2, <1>3, SetInduction
  <2> QED
    BY <2>1
<1>5. TerminateHeaders(h) = ended[L]
  BY DEF TerminateHeaders
<1> HIDE DEF ended
<1>6. ended[0] = h /\ \A k \in 1 .. L : ended[k] = TerminateHeader(ended[k - 1], x(k))
  <2> HIDE DEF x, L
  <2>1. \A k \in 0 .. L : ended[k] = IF k = 0 THEN h ELSE TerminateHeader(ended[k - 1], x(k))
    BY <1>4
  <2>2. 0 \in 0 .. L /\ \A k \in 1 .. L : k \in 0 .. L /\ k # 0
    BY <1>1
  <2> HIDE DEF Is
  <2> QED
    BY <2>1, <2>2
<1> HIDE DEF Is
<1>7. 0 \in T
  BY <1>1, <1>6 DEF Ends
<1>8. ASSUME NEW k \in Nat, k \in T PROVE k + 1 \in T
  <2> SUFFICES ASSUME k + 1 <= L PROVE Ends(h, ended[k + 1], E)
    OBVIOUS
  <2> DEFINE s == ended[k]
             y == x(k + 1)
             t == Terminate(s, y.key)
  <2>1. Ends(h, s, E) /\ k + 1 \in 1 .. L
    BY <1>1, <1>8
  <2>2. ended[k + 1] = Terminate(t, y.value)
    <3>1. ended[k + 1] = TerminateHeader(ended[(k + 1) - 1], x(k + 1)) /\ (k + 1) - 1 = k
      BY <1>6, <2>1
    <3> HIDE DEF x
    <3>2. ended[k + 1] = TerminateHeader(ended[k], x(k + 1))
      BY <3>1
    <3> QED
      BY <3>2 DEF TerminateHeader
  <2>3. /\ y.key.at > 0 => y.key.at + y.key.len \in E
        /\ y.value.at > 0 => y.value.at + y.value.len \in E
    BY <2>1
  <2> HIDE DEF s, x, y, L
  <2>4. Ends(s, t, E)
    BY <2>1, <2>3, TerminateLemma DEF Ends
  <2> HIDE DEF t
  <2>5. Ends(t, Terminate(t, y.value), E)
    BY <2>3, <2>4, TerminateLemma DEF Ends
  <2> QED
    BY <2>1, <2>2, <2>4, <2>5, EndsTwice
<1>9. L \in T
  <2> HIDE DEF T, L
  <2>1. Nat \subseteq T
    BY <1>7, <1>8, SetInduction
  <2> QED
    BY <1>1, <2>1
<1> QED
  BY <1>1, <1>5, <1>9

\* The fields that on_headers_complete and on_body set.
LEMMA ValueSet ==
  ASSUME NEW q, NEW x, IsHttp(q)
  PROVE  LET s == [q EXCEPT !.header_value = x]
         IN  IsHttp(s) /\ s.headers = q.headers /\ s.url = q.url /\ s.body = q.body
BY DEF IsHttp

LEMMA BodySet ==
  ASSUME NEW q, NEW x, IsHttp(q)
  PROVE  LET s == [q EXCEPT !.body = x]
         IN  /\ IsHttp(s) /\ s.headers = q.headers /\ s.url = q.url /\ s.body = x
             /\ s.content_length = q.content_length /\ s.body_len = q.body_len
BY DEF IsHttp

LEMMA BodyLenSet ==
  ASSUME NEW q, NEW x, IsHttp(q)
  PROVE  LET s == [q EXCEPT !.body_len = x]
         IN  /\ IsHttp(s) /\ s.headers = q.headers /\ s.url = q.url /\ s.body = q.body
             /\ s.content_length = q.content_length /\ s.body_len = x
BY DEF IsHttp

LEMMA LengthSet ==
  ASSUME NEW q, NEW x, IsHttp(q)
  PROVE  LET s == [q EXCEPT !.content_length = x]
         IN  /\ IsHttp(s) /\ s.headers = q.headers /\ s.url = q.url /\ s.body = q.body
             /\ s.content_length = x
BY DEF IsHttp

LEMMA KeepSet ==
  ASSUME NEW q, NEW x, IsHttp(q)
  PROVE  LET s == [q EXCEPT !.keep_alive = x]
         IN  /\ IsHttp(s) /\ s.headers = q.headers /\ s.url = q.url /\ s.body = q.body
             /\ s.content_length = q.content_length
BY DEF IsHttp

\* The headers that on_headers_complete ends.
AllHeaders(h) ==
  IF h.http.header_key.len > 0 /\ h.http.header_value.len > 0
  THEN SaveCurrentHeader(h).http.headers ELSE h.http.headers

\* They end in E.
EndIn(headers, E) ==
  \A i \in 1 .. Len(headers) :
    LET x == headers[i]
    IN  /\ x.key.at > 0 => x.key.at + x.key.len \in E
        /\ x.value.at > 0 => x.value.at + x.value.len \in E

\* What on_headers_complete leaves.
Completed(h, r, length, E) ==
  /\ IsParser(r) /\ r.llhttp = h.llhttp /\ r.handed = h.handed
  /\ Len(r.read_buf) = Len(h.read_buf)
  /\ \A k \in 1 .. Len(h.read_buf) : k \in E \/ r.read_buf[k] = h.read_buf[k]
  /\ r.http.url = h.http.url /\ r.http.headers = AllHeaders(h)
  /\ r.http.content_length = length
  /\ IsBuf(h.http.body) => r.http.body.len = 0

\* on_headers_complete saves the last header and ends the strings.
LEMMA OnHeadersCompleteLemma ==
  ASSUME NEW h, NEW end, NEW E, IsParser(h), EndIn(AllHeaders(h), E)
  PROVE  Completed(h, OnHeadersComplete(h, end), end.length, E)
<1> DEFINE saves == h.http.header_key.len > 0 /\ h.http.header_value.len > 0
           s == IF saves THEN SaveCurrentHeader(h) ELSE h
           t == TerminateHeaders(s)
           u0 == t.http
           u1 == [u0 EXCEPT !.header_key = [u0.header_key EXCEPT !.len = 0]]
           u2 == [u1 EXCEPT !.header_value = [u1.header_value EXCEPT !.len = 0]]
           v3 == [u2.body EXCEPT !.len = 0]
           u3 == [u2 EXCEPT !.body = v3]
           u4 == [u3 EXCEPT !.body_len = 0]
           u5 == [u4 EXCEPT !.content_length = end.length]
           u6 == [u5 EXCEPT !.keep_alive = end.keep]
           r == OnHeadersComplete(h, end)
<1>1. /\ IsParser(s) /\ s.llhttp = h.llhttp /\ s.handed = h.handed /\ s.read_buf = h.read_buf
      /\ s.http.headers = AllHeaders(h) /\ s.http.url = h.http.url /\ s.http.body = h.http.body
  <2>1. CASE saves
    <3>1. s = SaveCurrentHeader(h)
      BY <2>1
    <3> DEFINE x == Append(h.http.headers, [key |-> h.http.header_key, value |-> h.http.header_value])
    <3> HIDE DEF s
    <3>2. Only(h, s) /\ s.http = [h.http EXCEPT !.headers = x]
      BY <3>1, SaveLemma
    <3> HIDE DEF x
    <3>3. s.http.url = h.http.url /\ s.http.body = h.http.body
      BY <3>2 DEF IsParser, IsHttp
    <3> QED
      BY <2>1, <3>1, <3>2, <3>3 DEF Only, AllHeaders
  <2>2. CASE ~saves
    BY <2>2 DEF AllHeaders
  <2> QED
    BY <2>1, <2>2
<1>2. r = [t EXCEPT !.http.header_key.len = 0, !.http.header_value.len = 0,
                    !.http.body.len = 0, !.http.body_len = 0,
                    !.http.content_length = end.length, !.http.keep_alive = end.keep]
  BY DEF OnHeadersComplete
<1> HIDE DEF s, r
<1>3. Ends(s, t, E)
  BY <1>1, TerminateHeadersLemma DEF EndIn
<1> HIDE DEF t
<1>4. r = [t EXCEPT !.http = u6]
  BY <1>2, <1>3 DEF Ends, IsParser, IsHttp
<1>5. IsHttp(u0) /\ u0.headers = AllHeaders(h) /\ u0.url = h.http.url /\ u0.body = h.http.body
  BY <1>1, <1>3 DEF Ends, IsParser
<1> HIDE DEF u0
<1>6. IsHttp(u1) /\ u1.headers = u0.headers /\ u1.url = u0.url /\ u1.body = u0.body
  BY <1>5, KeySet
<1> HIDE DEF u1
<1>7. IsHttp(u2) /\ u2.headers = u1.headers /\ u2.url = u1.url /\ u2.body = u1.body
  BY <1>6, ValueSet
<1> HIDE DEF u2
<1>8. /\ IsHttp(u3) /\ u3.headers = u2.headers /\ u3.url = u2.url
      /\ u3.body = v3
  <2> HIDE DEF v3
  <2> QED
    BY <1>7, BodySet
<1> HIDE DEF u3
<1>9. IsHttp(u4) /\ u4.headers = u3.headers /\ u4.url = u3.url /\ u4.body = u3.body
  BY <1>8, BodyLenSet
<1> HIDE DEF u4
<1>10. /\ IsHttp(u5) /\ u5.headers = u4.headers /\ u5.url = u4.url /\ u5.body = u4.body
       /\ u5.content_length = end.length
  BY <1>9, LengthSet
<1> HIDE DEF u5
<1>11. /\ IsHttp(u6) /\ u6.headers = u5.headers /\ u6.url = u5.url /\ u6.body = u5.body
       /\ u6.content_length = u5.content_length
  BY <1>10, KeepSet
<1> HIDE DEF u6
<1>12. Only(t, r) /\ r.http = u6
  BY <1>3, <1>4, <1>11, HttpReplaced DEF Ends
<1>13. IsBuf(h.http.body) => u3.body.len = 0
  BY <1>5, <1>6, <1>7, <1>8 DEF IsBuf
<1>14. /\ u6.url = h.http.url /\ u6.headers = AllHeaders(h) /\ u6.content_length = end.length
       /\ u6.body = u3.body
  BY <1>5, <1>6, <1>7, <1>8, <1>9, <1>10, <1>11
<1>15. /\ IsParser(r) /\ r.llhttp = h.llhttp /\ r.handed = h.handed
       /\ Len(r.read_buf) = Len(h.read_buf)
       /\ \A k \in 1 .. Len(h.read_buf) : k \in E \/ r.read_buf[k] = h.read_buf[k]
  <2>1. IsParser(r) /\ r.llhttp = t.llhttp /\ r.handed = t.handed /\ r.read_buf = t.read_buf
    BY <1>12 DEF Only
  <2> QED
    BY <1>1, <1>3, <2>1 DEF Ends
<1>16. Completed(h, r, end.length, E)
  BY <1>12, <1>13, <1>14, <1>15, Zenon DEF Completed
<1> QED
  BY <1>16 DEF r

-----------------------------------------------------------------------------
(* The body, and the end of the request *)

\* on_body: a body that comes in one span points to the read buffer; of any other the first
\* span is copied, and the next ones behind it.
BodyStored(h, s, from, to) ==
  LET length == to - from + 1
      n == IF length < h.http.body_len THEN length ELSE h.http.body_len
  IN  /\ Only(h, s) /\ s.http.headers = h.http.headers /\ s.http.url = h.http.url
      /\ s.http.content_length = h.http.content_length
      /\ IF h.http.body.len > 0
         THEN /\ s.http.body = [h.http.body EXCEPT !.cells =
                   @ \o SubSeq(h.read_buf, from, from + n - 1)]
              /\ s.http.body_len = h.http.body_len - n
         ELSE IF h.http.content_length > length
         THEN /\ s.http.body = [CopyBuf(h, from, to) EXCEPT !.len = h.http.content_length]
              /\ s.http.body_len = h.http.content_length - length
         ELSE s.http.body = [at |-> from, len |-> h.http.content_length, cells |-> <<>>]

\* on_body does that.
LEMMA OnBodyLemma ==
  ASSUME NEW h, NEW from, NEW to, IsParser(h)
  PROVE  BodyStored(h, OnBody(h, from, to), from, to)
<1> DEFINE length == to - from + 1
           n == IF length < h.http.body_len THEN length ELSE h.http.body_len
           s == OnBody(h, from, to)
           b == s.http.body
<1>1. ASSUME NEW x, NEW y, s = [h EXCEPT !.http.body = x, !.http.body_len = y]
      PROVE  /\ Only(h, s) /\ s.http.headers = h.http.headers /\ s.http.url = h.http.url
             /\ s.http.content_length = h.http.content_length
             /\ s.http.body = x /\ s.http.body_len = y
  <2> DEFINE p == [h.http EXCEPT !.body = x]
             q == [p EXCEPT !.body_len = y]
  <2> HIDE DEF s
  <2>1. s = [h EXCEPT !.http = q]
    BY <1>1 DEF IsParser
  <2>2. /\ IsHttp(p) /\ p.headers = h.http.headers /\ p.url = h.http.url /\ p.body = x
        /\ p.content_length = h.http.content_length
    <3>1. IsHttp(h.http)
      BY DEF IsParser
    <3> QED
      BY <3>1, BodySet, ZenonT(60)
  <2> HIDE DEF p
  <2>3. /\ IsHttp(q) /\ q.headers = p.headers /\ q.url = p.url /\ q.body = p.body
        /\ q.content_length = p.content_length /\ q.body_len = y
    BY <2>2, BodyLenSet
  <2> HIDE DEF q
  <2>4. Only(h, s) /\ s.http = q
    BY <2>1, <2>3, HttpReplaced
  <2> QED
    BY <2>2, <2>3, <2>4
<1>2. CASE h.http.body.len > 0
  <2> DEFINE x == [h.http.body EXCEPT !.cells = @ \o SubSeq(h.read_buf, from, from + n - 1)]
             y == h.http.body_len - n
  <2>1. s = [h EXCEPT !.http.body = x, !.http.body_len = y]
    <3> DEFINE z == h.http.body.cells \o SubSeq(h.read_buf, from, from + n - 1)
    <3>1. s = [h EXCEPT !.http.body.cells = z, !.http.body_len = y]
      BY <1>2 DEF OnBody
    <3> HIDE DEF z, y, s
    <3>2. x = [h.http.body EXCEPT !.cells = z]
      BY DEF z
    <3> HIDE DEF x
    <3>3. [h EXCEPT !.http.body.cells = z] = [h EXCEPT !.http.body = x]
      BY <3>2
    <3> QED
      BY <3>1, <3>3
  <2> HIDE DEF s, x, y
  <2>2. /\ Only(h, s) /\ s.http.headers = h.http.headers /\ s.http.url = h.http.url
        /\ s.http.content_length = h.http.content_length
        /\ s.http.body = x /\ s.http.body_len = y
    BY <1>1, <2>1
  <2>3. /\ x = [h.http.body EXCEPT !.cells = @ \o SubSeq(h.read_buf, from, from + n - 1)]
        /\ y = h.http.body_len - n
    BY DEF x, y
  <2>4. s = OnBody(h, from, to)
    BY DEF s
  <2> QED
    BY <1>2, <2>2, <2>3, <2>4, Zenon DEF BodyStored
<1>3. CASE ~(h.http.body.len > 0) /\ h.http.content_length > length
  <2> DEFINE x == [CopyBuf(h, from, to) EXCEPT !.len = h.http.content_length]
             y == h.http.content_length - length
  <2>1. s = [h EXCEPT !.http.body = x, !.http.body_len = y]
    BY <1>3 DEF OnBody
  <2> HIDE DEF s, x, y
  <2> QED
    BY <1>1, <1>3, <2>1, Zenon DEF BodyStored, x, y, s
<1>4. CASE ~(h.http.body.len > 0) /\ ~(h.http.content_length > length)
  <2> DEFINE x == [at |-> from, len |-> h.http.content_length, cells |-> <<>>]
  <2>1. s = [h EXCEPT !.http.body = x, !.http.body_len = 0]
    BY <1>4 DEF OnBody
  <2> HIDE DEF s, x
  <2> QED
    BY <1>1, <1>4, <2>1, Zenon DEF BodyStored, x, s
<1> QED
  BY <1>2, <1>3, <1>4, Zenon

\* What on_url gets of a parser.
Handed(h) ==
  [url |-> Value(h.http.url, h.read_buf),
   headers |-> [i \in DOMAIN h.http.headers |->
                  <<Value(h.http.headers[i].key, h.read_buf),
                    Value(h.http.headers[i].value, h.read_buf)>>],
   body |-> IF h.http.body.len > 0 THEN Value(h.http.body, h.read_buf) ELSE <<>>]

\* on_message_complete hands over what http has.
LEMMA OnMessageCompleteLemma ==
  ASSUME NEW h, IsParser(h)
  PROVE  LET s == OnMessageComplete(h)
         IN  /\ IsParser(s) /\ s.http = h.http /\ s.llhttp = h.llhttp /\ s.read_buf = h.read_buf
             /\ s.handed = Append(h.handed, Handed(h))
<1> DEFINE x == Append(h.handed, Handed(h))
<1>1. OnMessageComplete(h) = [h EXCEPT !.handed = x]
  BY DEF OnMessageComplete, Handed
<1> HIDE DEF x
<1> QED
  BY <1>1 DEF IsParser, x

-----------------------------------------------------------------------------
(* llhttp *)

IsLlhttp(q) == q = [lex |-> q.lex, left |-> q.left, error |-> q.error]

\* The fields of llhttp.
LEMMA LlhttpReplaced ==
  ASSUME NEW h, NEW q, IsParser(h), IsLlhttp(q)
  PROVE  LET s == [h EXCEPT !.llhttp = q]
         IN  /\ IsParser(s) /\ s.http = h.http /\ s.llhttp = q /\ s.read_buf = h.read_buf
             /\ s.handed = h.handed
BY DEF IsParser, IsLlhttp

\* s is h, with llhttp in another state.
LlhttpIs(h, s, lex, left, error) ==
  /\ IsParser(s) /\ s.http = h.http /\ s.read_buf = h.read_buf /\ s.handed = h.handed
  /\ s.llhttp.lex = lex /\ s.llhttp.left = left /\ s.llhttp.error = error

LEMMA LexSet ==
  ASSUME NEW h, NEW x, IsParser(h)
  PROVE  LlhttpIs(h, [h EXCEPT !.llhttp.lex = x], x, h.llhttp.left, h.llhttp.error)
<1> DEFINE q == [h.llhttp EXCEPT !.lex = x]
           s == [h EXCEPT !.llhttp.lex = x]
<1>1. IsLlhttp(q) /\ q.lex = x /\ q.left = h.llhttp.left /\ q.error = h.llhttp.error
  BY DEF IsParser, IsLlhttp
<1>2. s = [h EXCEPT !.llhttp = q]
  BY DEF IsParser
<1> HIDE DEF q
<1>3. /\ IsParser(s) /\ s.http = h.http /\ s.llhttp = q /\ s.read_buf = h.read_buf
      /\ s.handed = h.handed
  <2> HIDE DEF s
  <2> QED
    BY <1>1, <1>2, LlhttpReplaced
<1> HIDE DEF s
<1>4. LlhttpIs(h, s, x, h.llhttp.left, h.llhttp.error)
  BY <1>1, <1>3, Zenon DEF LlhttpIs
<1> QED
  BY <1>4 DEF s

LEMMA LeftSet ==
  ASSUME NEW h, NEW x, IsParser(h)
  PROVE  LlhttpIs(h, [h EXCEPT !.llhttp.left = x], h.llhttp.lex, x, h.llhttp.error)
<1> DEFINE q == [h.llhttp EXCEPT !.left = x]
           s == [h EXCEPT !.llhttp.left = x]
<1>1. IsLlhttp(q) /\ q.left = x /\ q.lex = h.llhttp.lex /\ q.error = h.llhttp.error
  BY DEF IsParser, IsLlhttp
<1>2. s = [h EXCEPT !.llhttp = q]
  BY DEF IsParser
<1> HIDE DEF q
<1>3. /\ IsParser(s) /\ s.http = h.http /\ s.llhttp = q /\ s.read_buf = h.read_buf
      /\ s.handed = h.handed
  <2> HIDE DEF s
  <2> QED
    BY <1>1, <1>2, LlhttpReplaced
<1> HIDE DEF s
<1>4. LlhttpIs(h, s, h.llhttp.lex, x, h.llhttp.error)
  BY <1>1, <1>3, Zenon DEF LlhttpIs
<1> QED
  BY <1>4 DEF s

LEMMA ErrorSet ==
  ASSUME NEW h, NEW x, IsParser(h)
  PROVE  LlhttpIs(h, [h EXCEPT !.llhttp.error = x], h.llhttp.lex, h.llhttp.left, x)
<1> DEFINE q == [h.llhttp EXCEPT !.error = x]
           s == [h EXCEPT !.llhttp.error = x]
<1>1. IsLlhttp(q) /\ q.error = x /\ q.lex = h.llhttp.lex /\ q.left = h.llhttp.left
  BY DEF IsParser, IsLlhttp
<1>2. s = [h EXCEPT !.llhttp = q]
  BY DEF IsParser
<1> HIDE DEF q
<1>3. /\ IsParser(s) /\ s.http = h.http /\ s.llhttp = q /\ s.read_buf = h.read_buf
      /\ s.handed = h.handed
  <2> HIDE DEF s
  <2> QED
    BY <1>1, <1>2, LlhttpReplaced
<1> HIDE DEF s
<1>4. LlhttpIs(h, s, h.llhttp.lex, h.llhttp.left, x)
  BY <1>1, <1>3, Zenon DEF LlhttpIs
<1> QED
  BY <1>4 DEF s

\* A span of the body.
LEMMA BodySpan ==
  ASSUME NEW h, NEW from, NEW to, IsParser(h), ~h.llhttp.error, h.llhttp.lex = "body"
  PROVE  LET s == Span(h, from, to)
             b == OnBody(h, from, to)
             left == h.llhttp.left - (to - from + 1)
         IN  /\ IsParser(s) /\ s.http = b.http /\ s.read_buf = h.read_buf /\ ~s.llhttp.error
             /\ IF left = 0
                THEN s.llhttp.lex = "start" /\ s.handed = Append(h.handed, Handed(b))
                ELSE s.llhttp.lex = "body" /\ s.llhttp.left = left /\ s.handed = h.handed
<1> DEFINE b == OnBody(h, from, to)
           left == h.llhttp.left - (to - from + 1)
           d == [b EXCEPT !.llhttp.left = left]
           e == [d EXCEPT !.llhttp.lex = "start"]
           s == Span(h, from, to)
<1>1. Only(h, b)
  <2>1. BodyStored(h, OnBody(h, from, to), from, to)
    BY OnBodyLemma, Zenon
  <2> QED
    BY <2>1, Zenon DEF BodyStored
<1>2. s = IF d.llhttp.left = 0 THEN OnMessageComplete(e) ELSE d
  <2>1. b.llhttp.left = h.llhttp.left
    BY <1>1 DEF Only
  <2> QED
    BY <2>1 DEF Span
<1> HIDE DEF b, s
<1>3. /\ IsParser(d) /\ d.http = b.http /\ d.read_buf = h.read_buf /\ d.handed = h.handed
      /\ d.llhttp.lex = "body" /\ d.llhttp.left = left /\ ~d.llhttp.error
  <2> HIDE DEF left
  <2>1. /\ IsParser(b) /\ b.llhttp.lex = "body" /\ ~b.llhttp.error /\ b.read_buf = h.read_buf
        /\ b.handed = h.handed
    BY <1>1 DEF Only
  <2>2. /\ IsParser(d) /\ d.http = b.http /\ d.read_buf = b.read_buf /\ d.handed = b.handed
        /\ d.llhttp.lex = b.llhttp.lex /\ d.llhttp.left = left /\ d.llhttp.error = b.llhttp.error
    <3>1. LlhttpIs(b, d, b.llhttp.lex, left, b.llhttp.error)
      BY <2>1, LeftSet, Zenon
    <3> HIDE DEF d
    <3> QED
      BY <3>1, Zenon DEF LlhttpIs
  <2> HIDE DEF d
  <2> QED
    BY <2>1, <2>2, Zenon
<1> HIDE DEF d, left
<1>4. /\ IsParser(e) /\ e.http = b.http /\ e.read_buf = h.read_buf /\ e.handed = h.handed
      /\ e.llhttp.lex = "start" /\ ~e.llhttp.error
  <2>1. /\ IsParser(e) /\ e.http = d.http /\ e.read_buf = d.read_buf /\ e.handed = d.handed
        /\ e.llhttp.lex = "start" /\ e.llhttp.error = d.llhttp.error
    <3>1. LlhttpIs(d, e, "start", d.llhttp.left, d.llhttp.error)
      BY <1>3, LexSet, Zenon
    <3> HIDE DEF e
    <3> QED
      BY <3>1, Zenon DEF LlhttpIs
  <2> HIDE DEF e
  <2> QED
    BY <1>3, <2>1, Zenon
<1> HIDE DEF e
<1>5. Handed(e) = Handed(b)
  BY <1>1, <1>4 DEF Handed, Only
<1>6. CASE left = 0
  BY <1>2, <1>3, <1>4, <1>5, <1>6, OnMessageCompleteLemma DEF b, s, left
<1>7. CASE left # 0
  BY <1>2, <1>3, <1>7 DEF b, s, left
<1> QED
  BY <1>6, <1>7

\* The end of the headers.
LEMMA EndSpan ==
  ASSUME NEW h, NEW from, NEW to, IsParser(h), ~h.llhttp.error, h.llhttp.lex = "line",
         h.read_buf[from].part = "end", IsParser(OnHeadersComplete(h, h.read_buf[from])),
         OnHeadersComplete(h, h.read_buf[from]).llhttp = h.llhttp
  PROVE  LET s == Span(h, from, to)
             cell == h.read_buf[from]
             e == OnHeadersComplete(h, cell)
         IN  /\ IsParser(s) /\ s.http = e.http /\ s.read_buf = e.read_buf /\ ~s.llhttp.error
             /\ IF cell.length = 0
                THEN s.llhttp.lex = "start" /\ s.handed = Append(e.handed, Handed(e))
                ELSE s.llhttp.lex = "body" /\ s.llhttp.left = cell.length /\ s.handed = e.handed
<1> DEFINE cell == h.read_buf[from]
           e == OnHeadersComplete(h, cell)
           s == Span(h, from, to)
           d == [e EXCEPT !.llhttp.lex = "start"]
           f == [e EXCEPT !.llhttp.lex = "body"]
           length == cell.length
           g == [f EXCEPT !.llhttp.left = length]
<1>1. s = IF cell.length = 0 THEN OnMessageComplete(d) ELSE g
  <2>1. cell.part = "end" /\ h.llhttp.lex = "line" /\ h.llhttp.lex # "body" /\ ~h.llhttp.error
    OBVIOUS
  <2> HIDE DEF cell
  <2>2. s = IF cell.length = 0 THEN OnMessageComplete([e EXCEPT !.llhttp.lex = "start"])
            ELSE [e EXCEPT !.llhttp.lex = "body", !.llhttp.left = cell.length]
    BY <2>1 DEF Span, cell
  <2> QED
    BY <2>2
<1> HIDE DEF s
<1>2. IsParser(e) /\ ~e.llhttp.error
  OBVIOUS
<1> HIDE DEF e, cell, length
<1>3. /\ IsParser(d) /\ d.http = e.http /\ d.read_buf = e.read_buf /\ d.handed = e.handed
      /\ d.llhttp.lex = "start" /\ d.llhttp.error = e.llhttp.error
  <2>1. /\ IsParser(d) /\ d.http = e.http /\ d.read_buf = e.read_buf /\ d.handed = e.handed
        /\ d.llhttp.lex = "start" /\ d.llhttp.left = e.llhttp.left
        /\ d.llhttp.error = e.llhttp.error
    <3>1. LlhttpIs(e, d, "start", e.llhttp.left, e.llhttp.error)
      BY <1>2, LexSet, Zenon
    <3> HIDE DEF d
    <3> QED
      BY <3>1, Zenon DEF LlhttpIs
  <2> HIDE DEF d
  <2> QED
    BY <2>1
<1>4. /\ IsParser(f) /\ f.http = e.http /\ f.read_buf = e.read_buf /\ f.handed = e.handed
      /\ f.llhttp.lex = "body" /\ f.llhttp.error = e.llhttp.error
  <2>1. /\ IsParser(f) /\ f.http = e.http /\ f.read_buf = e.read_buf /\ f.handed = e.handed
        /\ f.llhttp.lex = "body" /\ f.llhttp.left = e.llhttp.left
        /\ f.llhttp.error = e.llhttp.error
    <3>1. LlhttpIs(e, f, "body", e.llhttp.left, e.llhttp.error)
      BY <1>2, LexSet, Zenon
    <3> HIDE DEF f
    <3> QED
      BY <3>1, Zenon DEF LlhttpIs
  <2> HIDE DEF f
  <2> QED
    BY <2>1
<1> HIDE DEF d, f
<1>5. /\ IsParser(g) /\ g.http = e.http /\ g.read_buf = e.read_buf /\ g.handed = e.handed
      /\ g.llhttp.lex = "body" /\ g.llhttp.left = length
      /\ g.llhttp.error = e.llhttp.error
  <2>2. IsParser(f)
    BY <1>4
  <2>1. /\ IsParser(g) /\ g.http = f.http /\ g.read_buf = f.read_buf /\ g.handed = f.handed
        /\ g.llhttp.lex = f.llhttp.lex /\ g.llhttp.left = length /\ g.llhttp.error = f.llhttp.error
    <3>1. LlhttpIs(f, g, f.llhttp.lex, length, f.llhttp.error)
      BY <2>2, LeftSet, Zenon
    <3> HIDE DEF g
    <3> QED
      BY <3>1, Zenon DEF LlhttpIs
  <2> HIDE DEF g
  <2> QED
    BY <1>4, <2>1
<1> HIDE DEF g
<1>6. Handed(d) = Handed(e)
  BY <1>3 DEF Handed
<1>7. CASE cell.length = 0
  BY <1>1, <1>3, <1>6, <1>7, OnMessageCompleteLemma DEF s, e, cell
<1>8. CASE cell.length # 0
  BY <1>1, <1>5, <1>8 DEF s, e, cell, length
<1> QED
  BY <1>7, <1>8

\* Any other span, in the head.
LEMMA HeadSpan ==
  ASSUME NEW h, NEW from, NEW to, IsParser(h), ~h.llhttp.error, h.llhttp.lex # "body",
         ~(h.llhttp.lex = "line" /\ h.read_buf[from].part = "end")
  PROVE  LET s == Span(h, from, to)
             part == h.read_buf[from].part
         IN  /\ IsParser(s) /\ s.read_buf = h.read_buf
             /\ \/ s.llhttp.error
                \/ /\ s.llhttp.lex # "body" /\ s.http = Emit(h, part, from, to).http
                   /\ s.handed = h.handed /\ part \in {"url", "sep", "key", "value"}
                   /\ ~s.llhttp.error
<1> DEFINE part == h.read_buf[from].part
           m == Moves(h, part)
           e == Emit(h, part, from, to)
           s == Span(h, from, to)
<1>1. s = IF m = {} THEN [h EXCEPT !.llhttp.error = TRUE]
          ELSE [e EXCEPT !.llhttp.lex = (CHOOSE t \in m : TRUE)[3]]
  <2> HIDE DEF m, e
  <2> QED
    BY DEF Span, m, e
<1>2. m = {} => IsParser(s) /\ s.read_buf = h.read_buf /\ s.llhttp.error
  <2> HIDE DEF m, e, s
  <2> SUFFICES ASSUME m = {} PROVE IsParser(s) /\ s.read_buf = h.read_buf /\ s.llhttp.error
    OBVIOUS
  <2>1. s = [h EXCEPT !.llhttp.error = TRUE]
    BY <1>1
  <2>2. LlhttpIs(h, [h EXCEPT !.llhttp.error = TRUE], h.llhttp.lex, h.llhttp.left, TRUE)
    BY ErrorSet, Zenon
  <2> QED
    BY <2>1, <2>2, Zenon DEF LlhttpIs
<1>3. ASSUME m # {}
      PROVE  /\ IsParser(s) /\ s.read_buf = h.read_buf /\ s.llhttp.lex # "body"
             /\ s.http = e.http /\ s.handed = h.handed /\ ~s.llhttp.error
             /\ part \in {"url", "sep", "key", "value"}
  <2> DEFINE t == CHOOSE t \in m : TRUE
  <2>1. t \in Lexer /\ t[2] = part
    <3>1. t \in m
      BY <1>3
    <3> HIDE DEF t
    <3> QED
      BY <3>1 DEF Moves
  <2>2. t[3] # "body" /\ part \in {"url", "sep", "key", "value"}
    <3> HIDE DEF t
    <3> QED
      BY <2>1 DEF Lexer
  <2> HIDE DEF t
  <2>3. s = [e EXCEPT !.llhttp.lex = t[3]]
    BY <1>1, <1>3 DEF t
  <2>4. Only(h, e)
    BY EmitLemma
  <2> HIDE DEF s, e
  <2>5. /\ IsParser(s) /\ s.http = e.http /\ s.read_buf = e.read_buf /\ s.handed = e.handed
        /\ s.llhttp.lex = t[3] /\ s.llhttp.error = e.llhttp.error
    <3>1. IsParser(e)
      BY <2>4, Zenon DEF Only
    <3>2. LlhttpIs(e, [e EXCEPT !.llhttp.lex = t[3]], t[3], e.llhttp.left, e.llhttp.error)
      BY <3>1, LexSet, Zenon
    <3> QED
      BY <2>3, <3>2, Zenon DEF LlhttpIs
  <2> QED
    BY <2>2, <2>4, <2>5 DEF Only
<1> QED
  BY <1>2, <1>3

\* Whatever the read buffer holds, a parser stays one.
LEMMA SpanShape ==
  ASSUME NEW h, NEW from, NEW to, IsParser(h)
  PROVE  IsParser(Span(h, from, to))
<1> DEFINE cell == h.read_buf[from]
           s == Span(h, from, to)
<1>1. CASE h.llhttp.error
  <2>1. s = h
    BY <1>1 DEF Span
  <2> QED
    BY <2>1
<1>2. CASE ~h.llhttp.error /\ h.llhttp.lex = "body"
  BY <1>2, BodySpan, Zenon
<1>3. CASE ~h.llhttp.error /\ h.llhttp.lex = "line" /\ cell.part = "end"
  <2> DEFINE A == AllHeaders(h)
             K == {A[i].key.at + A[i].key.len : i \in 1 .. Len(A)}
             V == {A[i].value.at + A[i].value.len : i \in 1 .. Len(A)}
             E == K \cup V
             e == OnHeadersComplete(h, cell)
  <2>1. EndIn(A, E)
    BY DEF EndIn
  <2> HIDE DEF E, cell
  <2>2. IsParser(e) /\ e.llhttp = h.llhttp
    BY <2>1, OnHeadersCompleteLemma DEF Completed
  <2> QED
    BY <1>3, <2>2, EndSpan, Zenon DEF cell
<1>4. CASE ~h.llhttp.error /\ h.llhttp.lex # "body" /\ ~(h.llhttp.lex = "line" /\ cell.part = "end")
  BY <1>4, HeadSpan, Zenon
<1> QED
  BY <1>1, <1>2, <1>3, <1>4

\* llhttp_execute, span after span.
Walks(h, n, w) ==
  \A i \in 1 .. n :
    w[i] = IF w[i - 1].done >= i THEN w[i - 1]
           ELSE [h |-> Span(w[i - 1].h, i, SpanEnd(w[i - 1].h, i, n)),
                 done |-> SpanEnd(w[i - 1].h, i, n)]

\* Data is such a walk.
LEMMA WalkLemma ==
  ASSUME NEW h, NEW piece, Len(piece) \in Nat
  PROVE  LET n == Len(piece)
             read == [h EXCEPT !.read_buf = piece \o SubSeq(@, n + 1, Len(@))]
         IN  \E w : /\ w[0] = [h |-> read, done |-> 0]
                    /\ Walks(h, n, w)
                    /\ Data(h, piece) = w[n].h
<1> DEFINE n == Len(piece)
           read == [h EXCEPT !.read_buf = piece \o SubSeq(@, n + 1, Len(@))]
           First == [h |-> read, done |-> 0]
           Step(v, i) == IF v.done >= i THEN v
                         ELSE LET to == SpanEnd(v.h, i, n) IN [h |-> Span(v.h, i, to), done |-> to]
           Is(f, m) == f = [i \in 0 .. m |-> IF i = 0 THEN First ELSE Step(f[i - 1], i)]
           S == {m \in Nat : \E f : Is(f, m)}
           walk == CHOOSE f : Is(f, n)
<1>1. 0 \in S
  <2> DEFINE f == [i \in 0 .. 0 |-> First]
  <2> HIDE DEF First, Step
  <2>1. Is(f, 0)
    OBVIOUS
  <2> QED
    BY <2>1
<1>2. ASSUME NEW m \in Nat, m \in S PROVE m + 1 \in S
  <2> HIDE DEF First, Step
  <2>1. PICK f : Is(f, m)
    BY <1>2
  <2> DEFINE g == [i \in 0 .. m + 1 |-> IF i = m + 1 THEN Step(f[m], i) ELSE f[i]]
  <2>2. ASSUME NEW i \in 0 .. m + 1 PROVE g[i] = IF i = 0 THEN First ELSE Step(g[i - 1], i)
    <3>1. CASE i = m + 1
      BY <3>1
    <3>2. CASE i \in 0 .. m
      <4>1. f[i] = IF i = 0 THEN First ELSE Step(f[i - 1], i)
        BY <2>1, <3>2
      <4>2. g[i] = f[i] /\ (i # 0 => g[i - 1] = f[i - 1])
        BY <3>2
      <4> QED
        BY <4>1, <4>2
    <3> QED
      BY <3>1, <3>2
  <2>3. Is(g, m + 1)
    <3> HIDE DEF Is
    <3>1. g = [i \in 0 .. m + 1 |-> g[i]]
      OBVIOUS
    <3> HIDE DEF g
    <3> QED
      BY <2>2, <3>1 DEF Is
  <2> HIDE DEF Is
  <2> QED
    BY <2>3
<1>3. Is(walk, n)
  <2> HIDE DEF Is
  <2>1. n \in S
    <3> HIDE DEF S, n
    <3>1. Nat \subseteq S
      BY <1>1, <1>2, SetInduction
    <3> QED
      BY <3>1 DEF n
  <2> QED
    BY <2>1
<1>4. Data(h, piece) = walk[n].h
  BY DEF Data
<1> HIDE DEF walk
<1>5. walk[0] = First /\ \A i \in 1 .. n : walk[i] = Step(walk[i - 1], i)
  <2> HIDE DEF First, Step, n
  <2> QED
    BY <1>3 DEF n
<1>6. Walks(h, n, walk)
  BY <1>5 DEF Walks
<1> QED
  BY <1>4, <1>5, <1>6

\* The read buffer with a piece at its start.
ReadInto(h, piece) ==
  [h EXCEPT !.read_buf = piece \o SubSeq(@, Len(piece) + 1, Len(@))]

\* It begins with the piece, and what was behind stays there.
LEMMA ReadIntoLemma ==
  ASSUME NEW h, NEW piece \in Seq(AnyCell), IsParser(h)
  PROVE  LET r == ReadInto(h, piece)
         IN  /\ IsParser(r) /\ r.http = h.http /\ r.llhttp = h.llhttp /\ r.handed = h.handed
             /\ Len(r.read_buf) >= Len(piece)
             /\ \A k \in 1 .. Len(piece) : r.read_buf[k] = piece[k]
<1> DEFINE rest == SubSeq(h.read_buf, Len(piece) + 1, Len(h.read_buf))
           b == piece \o rest
<1>1. rest \in Seq(AnyCell)
  <2>1. h.read_buf \in Seq(AnyCell) /\ Len(piece) \in Nat /\ Len(h.read_buf) \in Nat
    BY LenProperties DEF IsParser
  <2>2. \A i \in Len(piece) + 1 .. Len(h.read_buf) : h.read_buf[i] \in AnyCell
    BY <2>1, ElementOfSeq
  <2> QED
    BY <2>1, <2>2, SubSeqProperties
<1> HIDE DEF rest
<1>2. /\ b \in Seq(AnyCell) /\ Len(b) >= Len(piece)
      /\ \A k \in 1 .. Len(piece) : b[k] = piece[k]
  <2>1. Len(piece) \in Nat /\ Len(rest) \in Nat
    BY <1>1, LenProperties
  <2>2. b \in Seq(AnyCell) /\ Len(b) = Len(piece) + Len(rest)
    BY <1>1, ConcatProperties
  <2>3. \A k \in 1 .. Len(piece) : b[k] = piece[k]
    BY <1>1, <2>1, ConcatProperties
  <2> QED
    BY <2>1, <2>2, <2>3
<1>3. ReadInto(h, piece) = [h EXCEPT !.read_buf = b]
  BY DEF ReadInto, rest
<1> HIDE DEF b
<1> QED
  BY <1>2, <1>3 DEF IsParser

\* llhttp_execute leaves a parser.
LEMMA DataShape ==
  ASSUME NEW h, NEW piece \in Seq(AnyCell), IsParser(h)
  PROVE  IsParser(Data(h, piece))
<1> DEFINE n == Len(piece)
<1>1. n \in Nat
  BY LenProperties
<1>2. PICK w : /\ w[0] = [h |-> ReadInto(h, piece), done |-> 0]
               /\ Walks(h, n, w) /\ Data(h, piece) = w[n].h
  BY <1>1, WalkLemma DEF ReadInto
<1> DEFINE T == {i \in Nat : i <= n => IsParser(w[i].h)}
<1> HIDE DEF n
<1>3. 0 \in T
  BY <1>2, ReadIntoLemma
<1>4. ASSUME NEW i \in Nat, i \in T PROVE i + 1 \in T
  <2> SUFFICES ASSUME i + 1 <= n PROVE IsParser(w[i + 1].h)
    OBVIOUS
  <2> DEFINE to == SpanEnd(w[i].h, i + 1, n)
             s == Span(w[i].h, i + 1, to)
  <2>1. IsParser(w[i].h) /\ i + 1 \in 1 .. n /\ (i + 1) - 1 = i
    BY <1>1, <1>4
  <2>2. w[i + 1] = IF w[i].done >= i + 1 THEN w[i] ELSE [h |-> s, done |-> to]
    BY <1>2, <2>1 DEF Walks
  <2>3. IsParser(s)
    <3> HIDE DEF to
    <3> QED
      BY <2>1, SpanShape
  <2> HIDE DEF s, to
  <2> QED
    BY <2>1, <2>2, <2>3
<1> HIDE DEF T
<1>5. n \in T
  BY <1>1, <1>3, <1>4, SetInduction
<1> QED
  BY <1>1, <1>2, <1>5 DEF T

-----------------------------------------------------------------------------
(* What a request looks like *)

\* The cell between two parts.
LEMMA SepIsCell == Sep = [part |-> "sep", id |-> 0, length |-> 0, keep |-> FALSE] /\ Sep \in AnyCell
<1>1. Sep = [part |-> "sep", id |-> 0, length |-> 0, keep |-> FALSE]
  BY DEF Sep, Cell
<1> QED
  BY <1>1 DEF AnyCell

\* A text has cells of its part only.
LEMMA TextLemma ==
  ASSUME NEW part \in {"url", "key", "value", "body"}, NEW t \in Text(part)
  PROVE  /\ t \in Seq(AnyCell) /\ Len(t) \in Nat
         /\ \A k \in 1 .. Len(t) : t[k] \in AnyCell /\ t[k].part = part
<1> DEFINE S == [part : {part}, id : Nat, length : {0}, keep : {FALSE}]
<1>1. t \in Seq(S)
  BY DEF Text
<1>2. ASSUME NEW c \in S PROVE c \in AnyCell /\ c.part = part
  <2>1. /\ c = [part |-> c.part, id |-> c.id, length |-> c.length, keep |-> c.keep]
        /\ c.part = part /\ c.id \in Nat /\ c.length = 0 /\ c.keep = FALSE
    OBVIOUS
  <2>2. c.part \in {"url", "key", "value", "body", "sep", "end", "bad", "nul"}
    BY <2>1
  <2>3. [part |-> c.part, id |-> c.id, length |-> c.length, keep |-> c.keep] \in AnyCell
    <3> DEFINE x == c.keep
    <3>1. x \in BOOLEAN /\ c.length \in Nat
      <4>1. x \in {FALSE} /\ {FALSE} \subseteq BOOLEAN
        OBVIOUS
      <4> HIDE DEF S, x
      <4>2. x \in BOOLEAN
        BY <4>1, Zenon
      <4> QED
        BY <2>1, <4>2
    <3> HIDE DEF x
    <3>2. [part |-> c.part, id |-> c.id, length |-> c.length, keep |-> x] \in AnyCell
      BY <2>1, <2>2, <3>1 DEF AnyCell
    <3> QED
      BY <3>2 DEF x
  <2> QED
    BY <2>1, <2>3
<1> HIDE DEF S
<1>3. t \in Seq(AnyCell)
  BY <1>1, <1>2, SeqMonotonic
<1>4. Len(t) \in Nat /\ \A k \in 1 .. Len(t) : t[k] \in S
  BY <1>1, LenProperties, ElementOfSeq
<1> QED
  BY <1>2, <1>3, <1>4

\* The fields of a request.
LEMMA RequestLemma ==
  ASSUME NEW m \in Request
  PROVE  /\ m.url \in Text("url") /\ m.body \in Text("body") /\ m.keep \in BOOLEAN /\ m.bad \in Nat
         /\ m.headers \in Seq(Text("key") \X Text("value")) /\ Len(m.headers) \in Nat
         /\ Len(m.url) > 0 /\ m.bad < Len(Head_(m))
         /\ \A i \in 1 .. Len(m.headers) :
              /\ m.headers[i] = <<m.headers[i][1], m.headers[i][2]>>
              /\ m.headers[i][1] \in Text("key") /\ m.headers[i][2] \in Text("value")
              /\ Len(m.headers[i][1]) > 0 /\ Len(m.headers[i][2]) > 0
<1>1. /\ m.url \in Text("url") /\ m.body \in Text("body") /\ m.keep \in BOOLEAN /\ m.bad \in Nat
      /\ m.headers \in Seq(Text("key") \X Text("value"))
      /\ m.url # <<>> /\ m.bad < Len(Head_(m))
      /\ \A i \in DOMAIN m.headers : m.headers[i][1] # <<>> /\ m.headers[i][2] # <<>>
  BY DEF Request
<1>2. \A part, t : t \in Text(part) /\ t # <<>> => Len(t) > 0
  BY EmptySeq, LenProperties DEF Text
<1>3. DOMAIN m.headers = 1 .. Len(m.headers) /\ Len(m.headers) \in Nat
  BY <1>1, LenProperties
<1>4. \A i \in 1 .. Len(m.headers) : m.headers[i] \in Text("key") \X Text("value")
  BY <1>1, ElementOfSeq
<1>5. \A i \in 1 .. Len(m.headers) :
        /\ m.headers[i] = <<m.headers[i][1], m.headers[i][2]>>
        /\ m.headers[i][1] \in Text("key") /\ m.headers[i][2] \in Text("value")
  BY <1>4
<1> QED
  BY <1>1, <1>2, <1>3, <1>5

\* The cells of a line of the headers.
LineCell == {c \in AnyCell : c.part \in {"key", "value", "sep"}}

\* A header is a line of a key and a value.
LEMMA HeaderCellsLemma ==
  ASSUME NEW key \in Text("key"), NEW value \in Text("value")
  PROVE  LET c == HeaderCells(<<key, value>>)
         IN  /\ c \in Seq(LineCell) /\ Len(c) = Len(key) + Len(value) + 2
             /\ \A k \in 1 .. Len(key) : c[k] = key[k]
             /\ c[Len(key) + 1] = Sep
             /\ \A k \in 1 .. Len(value) : c[Len(key) + 1 + k] = value[k]
             /\ c[Len(key) + Len(value) + 2] = Sep
<1> DEFINE a == key \o <<Sep>>
           b == a \o value
           c == b \o <<Sep>>
<1>1. /\ Len(key) \in Nat /\ Len(value) \in Nat
      /\ \A k \in 1 .. Len(key) : key[k] \in LineCell
      /\ \A k \in 1 .. Len(value) : value[k] \in LineCell
  BY TextLemma DEF LineCell
<1>2. key \in Seq(LineCell) /\ value \in Seq(LineCell)
  <2>1. key \in Seq(AnyCell) /\ value \in Seq(AnyCell)
    BY TextLemma
  <2>2. key = [k \in 1 .. Len(key) |-> key[k]] /\ value = [k \in 1 .. Len(value) |-> value[k]]
    BY <2>1, LenProperties
  <2> QED
    BY <1>1, <2>2, IsASeq
<1>3. Sep \in LineCell
  BY SepIsCell DEF LineCell
<1>4. <<Sep>> \in Seq(LineCell) /\ Len(<<Sep>>) = 1 /\ <<Sep>>[1] = Sep
  BY <1>3
<1>5. /\ a \in Seq(LineCell) /\ Len(a) = Len(key) + 1
      /\ \A k \in 1 .. Len(key) : a[k] = key[k]
      /\ a[Len(key) + 1] = Sep
  BY <1>1, <1>2, <1>4, ConcatProperties
<1> HIDE DEF a
<1>6. /\ b \in Seq(LineCell) /\ Len(b) = Len(key) + 1 + Len(value)
      /\ \A k \in 1 .. Len(key) : b[k] = key[k]
      /\ b[Len(key) + 1] = Sep
      /\ \A k \in 1 .. Len(value) : b[Len(key) + 1 + k] = value[k]
  <2>1. /\ b \in Seq(LineCell) /\ Len(b) = Len(a) + Len(value)
        /\ \A i \in 1 .. Len(a) + Len(value) :
             b[i] = IF i <= Len(a) THEN a[i] ELSE value[i - Len(a)]
    BY <1>2, <1>5, ConcatProperties
  <2> HIDE DEF b
  <2>2. \A k \in 1 .. Len(key) + 1 : b[k] = a[k]
    BY <1>1, <1>5, <2>1
  <2>3. ASSUME NEW k \in 1 .. Len(value) PROVE b[Len(key) + 1 + k] = value[k]
    <3>1. Len(key) + 1 + k \in 1 .. Len(a) + Len(value) /\ Len(key) + 1 + k > Len(a)
          /\ Len(key) + 1 + k - Len(a) = k
      BY <1>1, <1>5
    <3> QED
      BY <2>1, <3>1
  <2> QED
    BY <1>1, <1>5, <2>1, <2>2, <2>3
<1> HIDE DEF b
<1>7. /\ c \in Seq(LineCell) /\ Len(c) = Len(key) + Len(value) + 2
      /\ \A k \in 1 .. Len(key) : c[k] = key[k]
      /\ c[Len(key) + 1] = Sep
      /\ \A k \in 1 .. Len(value) : c[Len(key) + 1 + k] = value[k]
      /\ c[Len(key) + Len(value) + 2] = Sep
  BY <1>1, <1>4, <1>6, ConcatProperties
<1>8. HeaderCells(<<key, value>>) = c
  BY DEF HeaderCells, b, a
<1> HIDE DEF c
<1> QED
  BY <1>7, <1>8

\* The lines of the headers, one after another.
LEMMA LinesLemma ==
  ASSUME NEW hs, Len(hs) \in Nat
  PROVE  /\ HeaderLines(hs)[0] = <<>>
         /\ \A k \in 1 .. Len(hs) :
              HeaderLines(hs)[k] = HeaderLines(hs)[k - 1] \o HeaderCells(hs[k])
<1> DEFINE n == Len(hs)
           x(l, k) == l \o HeaderCells(hs[k])
           Is(f, m) == f = [k \in 0 .. m |-> IF k = 0 THEN <<>> ELSE x(f[k - 1], k)]
           S == {m \in Nat : \E f : Is(f, m)}
           lines == CHOOSE f : Is(f, n)
<1>1. 0 \in S
  <2> DEFINE f == [k \in 0 .. 0 |-> <<>>]
  <2>1. Is(f, 0)
    OBVIOUS
  <2> QED
    BY <2>1
<1>2. ASSUME NEW m \in Nat, m \in S PROVE m + 1 \in S
  <2> HIDE DEF x
  <2>1. PICK f : Is(f, m)
    BY <1>2
  <2> DEFINE g == [k \in 0 .. m + 1 |-> IF k = m + 1 THEN x(f[m], k) ELSE f[k]]
  <2>2. ASSUME NEW k \in 0 .. m + 1 PROVE g[k] = IF k = 0 THEN <<>> ELSE x(g[k - 1], k)
    <3>1. CASE k = m + 1
      BY <3>1
    <3>2. CASE k \in 0 .. m
      <4>1. f[k] = IF k = 0 THEN <<>> ELSE x(f[k - 1], k)
        BY <2>1, <3>2
      <4>2. g[k] = f[k] /\ (k # 0 => g[k - 1] = f[k - 1])
        BY <3>2
      <4> QED
        BY <4>1, <4>2
    <3> QED
      BY <3>1, <3>2
  <2>3. Is(g, m + 1)
    <3> HIDE DEF Is
    <3>1. g = [k \in 0 .. m + 1 |-> g[k]]
      OBVIOUS
    <3> HIDE DEF g
    <3> QED
      BY <2>2, <3>1 DEF Is
  <2> HIDE DEF Is
  <2> QED
    BY <2>3
<1>3. Is(lines, n)
  <2> HIDE DEF Is
  <2>1. n \in S
    <3> HIDE DEF S, n
    <3>1. Nat \subseteq S
      BY <1>1, <1>2, SetInduction
    <3> QED
      BY <3>1 DEF n
  <2> QED
    BY <2>1
<1>4. HeaderLines(hs) = lines
  BY DEF HeaderLines
<1> HIDE DEF lines
<1>5. lines[0] = <<>> /\ \A k \in 1 .. n : lines[k] = x(lines[k - 1], k)
  <2> HIDE DEF x, n
  <2> QED
    BY <1>3 DEF n
<1> QED
  BY <1>4, <1>5

\* Nothing else is in them.
LEMMA LinesTyped ==
  ASSUME NEW m \in Request, NEW k \in 0 .. Len(m.headers)
  PROVE  HeaderLines(m.headers)[k] \in Seq(LineCell)
<1> DEFINE L == HeaderLines(m.headers)
           n == Len(m.headers)
           T == {i \in Nat : i <= n => L[i] \in Seq(LineCell)}
<1>1. /\ n \in Nat /\ L[0] = <<>>
      /\ \A i \in 1 .. n : L[i] = L[i - 1] \o HeaderCells(m.headers[i])
  BY RequestLemma, LinesLemma
<1> HIDE DEF L, n
<1>2. 0 \in T
  <2>1. <<>> \in Seq(LineCell)
    OBVIOUS
  <2>2. L[0] \in Seq(LineCell)
    BY <1>1, <2>1, Zenon
  <2> QED
    BY <2>2
<1>3. ASSUME NEW i \in Nat, i \in T PROVE i + 1 \in T
  <2> SUFFICES ASSUME i + 1 <= n PROVE L[i + 1] \in Seq(LineCell)
    OBVIOUS
  <2>1. i + 1 \in 1 .. n /\ (i + 1) - 1 = i /\ L[i] \in Seq(LineCell)
    BY <1>1, <1>3
  <2>2. L[i + 1] = L[i] \o HeaderCells(m.headers[i + 1])
    BY <1>1, <2>1
  <2>3. HeaderCells(m.headers[i + 1]) \in Seq(LineCell)
    <3> DEFINE x == m.headers[i + 1]
    <3>1. x = <<x[1], x[2]>> /\ x[1] \in Text("key") /\ x[2] \in Text("value")
      BY <2>1, RequestLemma DEF n
    <3> HIDE DEF x
    <3>2. HeaderCells(<<x[1], x[2]>>) \in Seq(LineCell)
      BY <3>1, HeaderCellsLemma
    <3> QED
      BY <3>1, <3>2 DEF x
  <2> QED
    BY <2>1, <2>2, <2>3, ConcatProperties
<1> HIDE DEF T
<1>4. k \in T
  <2>1. Nat \subseteq T
    BY <1>2, <1>3, SetInduction
  <2> QED
    BY <2>1
<1>5. k <= n
  BY DEF n
<1> QED
  BY <1>4, <1>5 DEF T, L

\* The line of a header is behind a in b.
LineAt(a, b, key, value) ==
  /\ Len(a) \in Nat /\ Len(key) \in Nat \ {0} /\ Len(value) \in Nat \ {0}
  /\ Len(b) = Len(a) + Len(key) + Len(value) + 2
  /\ \A i \in 1 .. Len(a) : b[i] = a[i]
  /\ \A i \in 1 .. Len(key) : b[Len(a) + i] = key[i]
  /\ b[Len(a) + Len(key) + 1] = Sep
  /\ \A i \in 1 .. Len(value) : b[Len(a) + Len(key) + 1 + i] = value[i]
  /\ b[Len(b)] = Sep

\* So it is for every header.
LEMMA LineLayout ==
  ASSUME NEW m \in Request, NEW k \in 1 .. Len(m.headers)
  PROVE  LineAt(HeaderLines(m.headers)[k - 1], HeaderLines(m.headers)[k],
                m.headers[k][1], m.headers[k][2])
<1> DEFINE a == HeaderLines(m.headers)[k - 1]
           b == HeaderLines(m.headers)[k]
           key == m.headers[k][1]
           value == m.headers[k][2]
           c == HeaderCells(<<key, value>>)
<1>1. /\ Len(m.headers) \in Nat /\ m.headers[k] = <<key, value>>
      /\ key \in Text("key") /\ value \in Text("value") /\ Len(key) > 0 /\ Len(value) > 0
  BY RequestLemma
<1>2. b = a \o c /\ a \in Seq(LineCell)
  <2>1. k \in 1 .. Len(m.headers) /\ k - 1 \in 0 .. Len(m.headers)
    BY <1>1
  <2>2. b = a \o HeaderCells(m.headers[k])
    BY <1>1, LinesLemma
  <2>3. a \in Seq(LineCell)
    BY <2>1, LinesTyped
  <2> QED
    BY <1>1, <2>2, <2>3
<1> HIDE DEF a, b, key, value
<1>3. /\ c \in Seq(LineCell) /\ Len(c) = Len(key) + Len(value) + 2
      /\ \A i \in 1 .. Len(key) : c[i] = key[i]
      /\ c[Len(key) + 1] = Sep
      /\ \A i \in 1 .. Len(value) : c[Len(key) + 1 + i] = value[i]
      /\ c[Len(key) + Len(value) + 2] = Sep
  BY <1>1, HeaderCellsLemma
<1>4. Len(a) \in Nat /\ Len(key) \in Nat \ {0} /\ Len(value) \in Nat \ {0}
  <2>1. Len(key) \in Nat /\ Len(value) \in Nat
    BY <1>1, TextLemma
  <2> QED
    BY <1>1, <1>2, <2>1, LenProperties
<1> HIDE DEF c
<1>5. /\ Len(b) = Len(a) + Len(c)
      /\ \A i \in 1 .. Len(a) + Len(c) : b[i] = IF i <= Len(a) THEN a[i] ELSE c[i - Len(a)]
  BY <1>2, <1>3, ConcatProperties, ZenonT(60)
<1>6. \A i \in 1 .. Len(a) : b[i] = a[i]
  BY <1>3, <1>4, <1>5
<1>7. ASSUME NEW i \in 1 .. Len(c) PROVE b[Len(a) + i] = c[i]
  <2>1. Len(c) \in Nat
    BY <1>3, <1>4
  <2>2. Len(a) + i \in 1 .. Len(a) + Len(c) /\ ~(Len(a) + i <= Len(a)) /\ Len(a) + i - Len(a) = i
    BY <1>4, <2>1
  <2> QED
    BY <1>5, <2>2
<1>8. \A i \in 1 .. Len(key) : b[Len(a) + i] = key[i]
  BY <1>3, <1>4, <1>7
<1>9. b[Len(a) + Len(key) + 1] = Sep
  <2>1. Len(key) + 1 \in 1 .. Len(c) /\ Len(a) + (Len(key) + 1) = Len(a) + Len(key) + 1
    BY <1>3, <1>4
  <2> QED
    BY <1>3, <1>7, <2>1
<1>10. ASSUME NEW i \in 1 .. Len(value) PROVE b[Len(a) + Len(key) + 1 + i] = value[i]
  <2>1. /\ Len(key) + 1 + i \in 1 .. Len(c)
        /\ Len(a) + (Len(key) + 1 + i) = Len(a) + Len(key) + 1 + i
    BY <1>3, <1>4
  <2> QED
    BY <1>3, <1>7, <2>1
<1>11. b[Len(b)] = Sep
  <2>1. /\ Len(c) \in 1 .. Len(c) /\ Len(b) = Len(a) + Len(c)
        /\ Len(key) + Len(value) + 2 = Len(c)
    BY <1>3, <1>4, <1>5
  <2> QED
    BY <1>3, <1>7, <2>1
<1>12. Len(b) = Len(a) + Len(key) + Len(value) + 2
  BY <1>3, <1>4, <1>5
<1>13. LineAt(a, b, key, value)
  BY <1>4, <1>6, <1>8, <1>9, <1>10, <1>11, <1>12 DEF LineAt
<1> QED
  BY <1>13 DEF a, b, key, value

\* The lines of all headers begin with those of the first.
LEMMA LinesPrefix ==
  ASSUME NEW m \in Request, NEW j \in 0 .. Len(m.headers), NEW n \in j .. Len(m.headers)
  PROVE  LET a == HeaderLines(m.headers)[j]
             b == HeaderLines(m.headers)[n]
         IN  Len(a) <= Len(b) /\ \A i \in 1 .. Len(a) : b[i] = a[i]
<1> DEFINE L == HeaderLines(m.headers)
           Prefix(a, b) == Len(a) <= Len(b) /\ \A i \in 1 .. Len(a) : b[i] = a[i]
           T == {i \in Nat : j + i <= Len(m.headers) => Prefix(L[j], L[j + i])}
<1>1. Len(m.headers) \in Nat /\ \A i \in 0 .. Len(m.headers) : Len(L[i]) \in Nat
  BY RequestLemma, LinesTyped, LenProperties
<1>2. 0 \in T
  BY <1>1
<1>3. ASSUME NEW i \in Nat, i \in T PROVE i + 1 \in T
  <2> SUFFICES ASSUME j + (i + 1) <= Len(m.headers) PROVE Prefix(L[j], L[j + (i + 1)])
    OBVIOUS
  <2>1. /\ j + (i + 1) \in 1 .. Len(m.headers) /\ (j + (i + 1)) - 1 = j + i
        /\ j + i \in 0 .. Len(m.headers) /\ j + i <= Len(m.headers)
    BY <1>1
  <2> HIDE DEF L
  <2>2. Prefix(L[j], L[j + i])
    BY <1>3, <2>1
  <2>3. Prefix(L[j + i], L[j + (i + 1)])
    <3> DEFINE k == j + (i + 1)
               x == m.headers[k][1]
               y == m.headers[k][2]
    <3>1. LineAt(L[k - 1], L[k], x, y)
      <4> HIDE DEF k
      <4> QED
        BY <2>1, LineLayout DEF k, L
    <3> HIDE DEF k, x, y
    <3>2. Prefix(L[k - 1], L[k])
      BY <3>1, SMTT(30) DEF LineAt
    <3>3. k - 1 = j + i
      BY <2>1 DEF k
    <3> QED
      BY <3>2, <3>3 DEF k
  <2>4. Len(L[j]) \in Nat /\ Len(L[j + i]) \in Nat /\ Len(L[j + (i + 1)]) \in Nat
    BY <1>1, <2>1
  <2> QED
    BY <2>2, <2>3, <2>4
<1> HIDE DEF T
<1>4. n - j \in T
  <2>1. Nat \subseteq T /\ n - j \in Nat
    BY <1>1, <1>2, <1>3, SetInduction, SMTT(30)
  <2> QED
    BY <2>1
<1>5. j + (n - j) <= Len(m.headers) /\ j + (n - j) = n
  BY <1>1
<1> QED
  BY <1>4, <1>5 DEF T

\* What a concatenation holds.
LEMMA ConcatLemma ==
  ASSUME NEW S, NEW s \in Seq(S), NEW t \in Seq(S)
  PROVE  /\ s \o t \in Seq(S) /\ Len(s) \in Nat /\ Len(t) \in Nat
         /\ Len(s \o t) = Len(s) + Len(t)
         /\ \A k \in 1 .. Len(s) : (s \o t)[k] = s[k]
         /\ \A k \in 1 .. Len(t) : (s \o t)[Len(s) + k] = t[k]
<1> DEFINE c == s \o t
<1>1. /\ c \in Seq(S) /\ Len(c) = Len(s) + Len(t)
      /\ \A i \in 1 .. Len(s) + Len(t) : c[i] = IF i <= Len(s) THEN s[i] ELSE t[i - Len(s)]
      /\ Len(s) \in Nat /\ Len(t) \in Nat
  BY ConcatProperties, LenProperties
<1> HIDE DEF c
<1>2. ASSUME NEW k \in 1 .. Len(s) PROVE c[k] = s[k]
  <2>1. k \in 1 .. Len(s) + Len(t) /\ k <= Len(s)
    BY <1>1
  <2> QED
    BY <1>1, <2>1
<1>3. ASSUME NEW k \in 1 .. Len(t) PROVE c[Len(s) + k] = t[k]
  <2>1. Len(s) + k \in 1 .. Len(s) + Len(t) /\ ~(Len(s) + k <= Len(s)) /\ Len(s) + k - Len(s) = k
    BY <1>1
  <2> QED
    BY <1>1, <2>1
<1> QED
  BY <1>1, <1>2, <1>3 DEF c

\* The cell at the end of the headers.
LEMMA EndCell ==
  ASSUME NEW y \in Nat, NEW x \in BOOLEAN
  PROVE  LET end == [Cell("end", 0) EXCEPT !.length = y, !.keep = x]
         IN  end \in AnyCell /\ end.part = "end" /\ end.length = y
<1> DEFINE d == [Cell("end", 0) EXCEPT !.length = y]
           e == [d EXCEPT !.keep = x]
           no == FALSE
<1>1. d = [part |-> "end", id |-> 0, length |-> y, keep |-> FALSE]
  <2>1. d = [[part |-> "end", id |-> 0, length |-> 0, keep |-> no] EXCEPT !.length = y]
    BY DEF Cell
  <2> HIDE DEF no, d
  <2>2. d = [part |-> "end", id |-> 0, length |-> y, keep |-> no]
    BY <2>1
  <2> QED
    BY <2>2 DEF no
<1> HIDE DEF d
<1>2. e = [part |-> "end", id |-> 0, length |-> y, keep |-> x]
  <2>1. d = [part |-> "end", id |-> 0, length |-> y, keep |-> no]
    BY <1>1
  <2> HIDE DEF no
  <2> QED
    BY <2>1
<1>3. e = [Cell("end", 0) EXCEPT !.length = y, !.keep = x]
  BY DEF d
<1> HIDE DEF e
<1>4. e \in AnyCell
  BY <1>2 DEF AnyCell
<1>5. e.part = "end" /\ e.length = y
  BY <1>2
<1> QED
  BY <1>3, <1>4, <1>5

\* How many cells come before a header and those before it.
Off(m, j) == Len(m.url) + 1 + Len(HeaderLines(m.headers)[j])

\* The head is the URL, the lines of the headers and the end.
LEMMA HeadLayout ==
  ASSUME NEW m \in Request
  PROVE  LET head == Head_(m)
             n == Len(m.headers)
         IN  /\ head \in Seq(AnyCell) /\ Off(m, n) \in Nat /\ Len(head) = Off(m, n) + 1
             /\ \A k \in 1 .. Len(m.url) : head[k] = m.url[k]
             /\ head[Len(m.url) + 1] = Sep
             /\ \A k \in 1 .. Len(HeaderLines(m.headers)[n]) :
                  head[Len(m.url) + 1 + k] = HeaderLines(m.headers)[n][k]
             /\ head[Len(head)].part = "end" /\ head[Len(head)].length = Len(m.body)
<1> DEFINE u == m.url
           l == HeaderLines(m.headers)[Len(m.headers)]
           end == [Cell("end", 0) EXCEPT !.length = Len(m.body), !.keep = m.keep]
           a == u \o <<Sep>>
           b == a \o l
           head == b \o <<end>>
<1>1. end \in AnyCell /\ end.part = "end" /\ end.length = Len(m.body)
  <2>1. m.body \in Text("body") /\ m.keep \in BOOLEAN
    BY RequestLemma
  <2>2. Len(m.body) \in Nat
    BY <2>1, TextLemma
  <2> QED
    BY <2>1, <2>2, EndCell, Zenon
<1>2. /\ u \in Seq(AnyCell) /\ l \in Seq(AnyCell) /\ Len(u) \in Nat /\ Len(l) \in Nat
      /\ Len(m.headers) \in Nat
  <2>1. m.url \in Text("url") /\ Len(m.headers) \in Nat
    BY RequestLemma
  <2>2. m.url \in Seq(AnyCell) /\ Len(m.url) \in Nat
    BY <2>1, TextLemma
  <2>3. l \in Seq(LineCell) /\ LineCell \subseteq AnyCell
    <3>1. Len(m.headers) \in 0 .. Len(m.headers)
      BY <2>1
    <3> QED
      BY <3>1, LinesTyped DEF LineCell
  <2>4. l \in Seq(AnyCell)
    BY <2>3, SeqMonotonic
  <2> QED
    BY <2>1, <2>2, <2>4, LenProperties
<1>3. <<Sep>> \in Seq(AnyCell) /\ Len(<<Sep>>) = 1 /\ <<Sep>>[1] = Sep
  BY SepIsCell
<1>4. <<end>> \in Seq(AnyCell) /\ Len(<<end>>) = 1 /\ <<end>>[1] = end
  <2> HIDE DEF end
  <2> QED
    BY <1>1
<1>5. Head_(m) = head
  BY DEF Head_
<1>6. Off(m, Len(m.headers)) = Len(u) + 1 + Len(l)
  BY DEF Off
<1> HIDE DEF u, l, end
<1>7. /\ a \in Seq(AnyCell) /\ Len(a) = Len(u) + 1
      /\ \A k \in 1 .. Len(u) : a[k] = u[k]
      /\ a[Len(u) + 1] = Sep
  BY <1>2, <1>3, ConcatProperties
<1> HIDE DEF a
<1>8. /\ b \in Seq(AnyCell) /\ Len(b) = Len(u) + 1 + Len(l)
      /\ \A k \in 1 .. Len(u) + 1 : b[k] = a[k]
      /\ \A k \in 1 .. Len(l) : b[Len(u) + 1 + k] = l[k]
  <2>1. /\ b \in Seq(AnyCell) /\ Len(b) = Len(a) + Len(l)
        /\ \A k \in 1 .. Len(a) : b[k] = a[k]
        /\ \A k \in 1 .. Len(l) : b[Len(a) + k] = l[k]
    <3>1. a \in Seq(AnyCell) /\ l \in Seq(AnyCell)
      BY <1>2, <1>7
    <3> QED
      BY <3>1, ConcatLemma
  <2> HIDE DEF b
  <2> QED
    BY <1>7, <2>1
<1> HIDE DEF b
<1>9. /\ head \in Seq(AnyCell) /\ Len(head) = Len(b) + 1
      /\ \A k \in 1 .. Len(b) : head[k] = b[k]
      /\ head[Len(b) + 1] = end
  BY <1>4, <1>8, ConcatLemma
<1> HIDE DEF head
<1>10. /\ \A k \in 1 .. Len(u) : head[k] = u[k]
       /\ head[Len(u) + 1] = Sep
       /\ \A k \in 1 .. Len(l) : head[Len(u) + 1 + k] = l[k]
       /\ head[Len(head)] = end
       /\ Len(head) = Len(u) + 1 + Len(l) + 1
  <2>1. /\ \A k \in 1 .. Len(u) : k \in 1 .. Len(b) /\ k \in 1 .. Len(u) + 1
        /\ Len(u) + 1 \in 1 .. Len(b) /\ Len(u) + 1 \in 1 .. Len(u) + 1
        /\ \A k \in 1 .. Len(l) : Len(u) + 1 + k \in 1 .. Len(b)
    BY <1>2, <1>8
  <2> QED
    BY <1>7, <1>8, <1>9, <2>1
<1>11. Off(m, Len(m.headers)) \in Nat /\ Len(head) = Off(m, Len(m.headers)) + 1
  BY <1>2, <1>6, <1>10
<1> QED
  BY <1>1, <1>5, <1>9, <1>10, <1>11, Zenon DEF u, l

\* A request is its head and its body; a malformed one ends in its head.
LEMMA CellsLayout ==
  ASSUME NEW m \in Request
  PROVE  LET cells == Cells(m)
             head == Head_(m)
         IN  /\ cells \in Seq(AnyCell) /\ Len(head) \in Nat /\ Len(m.body) \in Nat /\ m.bad \in Nat
             /\ m.bad = 0 => /\ Len(cells) = Len(head) + Len(m.body)
                             /\ \A k \in 1 .. Len(head) : cells[k] = head[k]
                             /\ \A k \in 1 .. Len(m.body) : cells[Len(head) + k] = m.body[k]
             /\ m.bad # 0 => /\ Len(cells) = m.bad + 1 /\ m.bad < Len(head)
                             /\ \A k \in 1 .. m.bad : cells[k] = head[k]
                             /\ cells[m.bad + 1].part = "bad"
<1> DEFINE head == Head_(m)
           cells == Cells(m)
           bad == Cell("bad", 0)
           s == SubSeq(head, 1, m.bad)
<1>1. /\ head \in Seq(AnyCell) /\ Len(head) \in Nat /\ m.bad \in Nat /\ m.bad < Len(head)
      /\ m.body \in Seq(AnyCell) /\ Len(m.body) \in Nat
  <2>1. m.body \in Text("body") /\ m.bad \in Nat /\ m.bad < Len(head)
    BY RequestLemma
  <2>2. head \in Seq(AnyCell)
    BY HeadLayout
  <2> QED
    BY <2>1, <2>2, TextLemma, LenProperties
<1>2. CASE m.bad = 0
  <2>1. cells = head \o m.body
    BY <1>2 DEF Cells
  <2> HIDE DEF head, cells
  <2>2. /\ cells \in Seq(AnyCell) /\ Len(cells) = Len(head) + Len(m.body)
        /\ \A i \in 1 .. Len(head) + Len(m.body) :
             cells[i] = IF i <= Len(head) THEN head[i] ELSE m.body[i - Len(head)]
    BY <1>1, <2>1, ConcatProperties
  <2>3. \A k \in 1 .. Len(head) : cells[k] = head[k]
    BY <1>1, <2>2
  <2>4. ASSUME NEW k \in 1 .. Len(m.body) PROVE cells[Len(head) + k] = m.body[k]
    <3>1. /\ Len(head) + k \in 1 .. Len(head) + Len(m.body) /\ ~(Len(head) + k <= Len(head))
          /\ Len(head) + k - Len(head) = k
      BY <1>1
    <3> QED
      BY <2>2, <3>1
  <2> QED
    BY <1>1, <1>2, <2>2, <2>3, <2>4 DEF head, cells
<1>3. CASE m.bad # 0
  <2>1. cells = s \o <<bad>>
    BY <1>3 DEF Cells
  <2>2. bad \in AnyCell /\ bad.part = "bad"
    BY DEF Cell, AnyCell
  <2> HIDE DEF head, cells, bad
  <2>3. s \in Seq(AnyCell) /\ Len(s) = m.bad /\ \A k \in 1 .. m.bad : s[k] = head[k]
    <3>1. \A i \in 1 .. m.bad : head[i] \in AnyCell
      BY <1>1, ElementOfSeq
    <3>2. /\ s \in Seq(AnyCell)
          /\ Len(s) = IF 1 <= m.bad THEN m.bad - 1 + 1 ELSE 0
          /\ \A i \in 1 .. m.bad - 1 + 1 : s[i] = head[1 + i - 1]
      BY <1>1, <3>1, SubSeqProperties
    <3> QED
      BY <1>1, <1>3, <3>2
  <2> HIDE DEF s
  <2>4. <<bad>> \in Seq(AnyCell) /\ Len(<<bad>>) = 1 /\ <<bad>>[1] = bad
    BY <2>2
  <2>5. /\ cells \in Seq(AnyCell) /\ Len(cells) = m.bad + 1
        /\ \A k \in 1 .. m.bad : cells[k] = s[k]
        /\ cells[m.bad + 1] = bad
    BY <1>1, <2>1, <2>3, <2>4, ConcatProperties
  <2> QED
    BY <1>1, <1>3, <2>2, <2>3, <2>5 DEF head, cells
<1> QED
  BY <1>2, <1>3

\* Where the parts of a request are.
LEMMA HeadPart ==
  ASSUME NEW m \in Request, NEW k \in 1 .. Len(Head_(m))
  PROVE  LET c == Head_(m)[k]
         IN  /\ Len(m.url) \in Nat \ {0} /\ Len(m.url) + 1 < Len(Head_(m)) /\ Len(Head_(m)) \in Nat
             /\ k <= Len(m.url) => c = m.url[k] /\ c.part = "url"
             /\ k > Len(m.url) /\ k < Len(Head_(m)) => c.part \in {"key", "value", "sep"}
             /\ k = Len(Head_(m)) => c.part = "end" /\ c.length = Len(m.body)
<1> DEFINE l == HeaderLines(m.headers)[Len(m.headers)]
           u == Len(m.url)
           head == Head_(m)
           c == head[k]
<1>1. u \in Nat \ {0} /\ \A i \in 1 .. u : m.url[i].part = "url"
  <2>1. m.url \in Text("url") /\ Len(m.url) > 0
    BY RequestLemma
  <2>2. Len(m.url) \in Nat /\ \A i \in 1 .. Len(m.url) : m.url[i].part = "url"
    BY <2>1, TextLemma
  <2> QED
    BY <2>1, <2>2
<1>2. l \in Seq(LineCell) /\ Len(l) \in Nat /\ \A i \in 1 .. Len(l) : l[i] \in LineCell
  <2>1. Len(m.headers) \in 0 .. Len(m.headers)
    BY RequestLemma
  <2>2. l \in Seq(LineCell)
    BY <2>1, LinesTyped
  <2> HIDE DEF l
  <2> QED
    BY <2>2, LenProperties, ElementOfSeq
<1>3. /\ Len(head) = u + 1 + Len(l) + 1
      /\ \A i \in 1 .. u : head[i] = m.url[i]
      /\ head[u + 1] = Sep
      /\ \A i \in 1 .. Len(l) : head[u + 1 + i] = l[i]
      /\ head[Len(head)].part = "end" /\ head[Len(head)].length = Len(m.body)
  BY HeadLayout DEF Off
<1> HIDE DEF l, u
<1>4. ASSUME k <= u PROVE c = m.url[k] /\ c.part = "url"
  BY <1>1, <1>3, <1>4
<1>5. ASSUME k > u, k < Len(head) PROVE c.part \in {"key", "value", "sep"}
  <2>1. CASE k = u + 1
    BY <1>3, <2>1, SepIsCell
  <2>2. CASE k # u + 1
    <3> DEFINE i == k - (u + 1)
    <3>1. i \in 1 .. Len(l) /\ u + 1 + i = k
      BY <1>1, <1>2, <1>3, <1>5, <2>2
    <3> HIDE DEF i
    <3>2. c = l[i]
      BY <1>3, <3>1
    <3>3. l[i] \in LineCell
      BY <1>2, <3>1
    <3> QED
      BY <3>2, <3>3 DEF LineCell
  <2> QED
    BY <2>1, <2>2
<1>6. ASSUME k = Len(head) PROVE c.part = "end" /\ c.length = Len(m.body)
  BY <1>3, <1>6
<1>7. Len(head) \in Nat /\ u + 1 < Len(head)
  BY <1>1, <1>2, <1>3
<1> QED
  BY <1>1, <1>4, <1>5, <1>6, <1>7 DEF u

\* Which part a cell of a request is of.
LEMMA CellPart ==
  ASSUME NEW m \in Request, NEW k \in 1 .. Len(Cells(m))
  PROVE  LET c == Cells(m)[k]
             H == Len(Head_(m))
         IN  /\ c.part = "url" => k <= Len(m.url) /\ c = m.url[k]
             /\ k <= Len(m.url) => c.part \in {"url", "bad"}
             /\ c.part = "end" => m.bad = 0 /\ k = H /\ c.length = Len(m.body)
             /\ m.bad = 0 /\ k = H => c.part = "end"
             /\ m.bad = 0 /\ k > H => c = m.body[k - H] /\ c.part = "body"
             /\ m.bad = 0 /\ k <= H => c = Head_(m)[k]
             /\ m.bad # 0 => k <= H /\ (k = Len(Cells(m)) => c.part = "bad")
<1> DEFINE head == Head_(m)
           H == Len(head)
           C == Cells(m)
           c == C[k]
           U == Len(m.url)
<1>1. /\ H \in Nat /\ Len(m.body) \in Nat /\ m.bad \in Nat
      /\ m.bad = 0 => /\ Len(C) = H + Len(m.body)
                      /\ \A i \in 1 .. H : C[i] = head[i]
                      /\ \A i \in 1 .. Len(m.body) : C[H + i] = m.body[i]
      /\ m.bad # 0 => /\ Len(C) = m.bad + 1 /\ m.bad < H
                      /\ \A i \in 1 .. m.bad : C[i] = head[i]
                      /\ C[m.bad + 1].part = "bad"
  BY CellsLayout
<1>2. U \in Nat \ {0} /\ U + 1 < H
  <2>1. H \in 1 .. H
    <3>1. Len(Head_(m)) = Off(m, Len(m.headers)) + 1 /\ Off(m, Len(m.headers)) \in Nat
      BY HeadLayout
    <3> QED
      BY <1>1, <3>1
  <2> QED
    BY <2>1, HeadPart
<1>3. \A i \in 1 .. H :
        /\ i <= U => head[i] = m.url[i] /\ head[i].part = "url"
        /\ i > U /\ i < H => head[i].part \in {"key", "value", "sep"}
        /\ i = H => head[i].part = "end" /\ head[i].length = Len(m.body)
  BY HeadPart
<1>4. \A i \in 1 .. Len(m.body) : m.body[i].part = "body"
  <2>1. m.body \in Text("body")
    BY RequestLemma
  <2> QED
    BY <2>1, TextLemma
<1>8. k \in 1 .. Len(C)
  OBVIOUS
<1> HIDE DEF head, H, C, U
<1>5. CASE m.bad = 0 /\ k <= H
  <2>1. k \in 1 .. H /\ c = head[k]
    BY <1>1, <1>5
  <2> HIDE DEF c
  <2>2. /\ k <= U => c = m.url[k] /\ c.part = "url"
        /\ k > U /\ k < H => c.part \in {"key", "value", "sep"}
        /\ k = H => c.part = "end" /\ c.length = Len(m.body)
    BY <1>3, <2>1
  <2>3. k <= U \/ (k > U /\ k < H) \/ (k > U /\ k = H)
    BY <1>1, <1>2, <2>1
  <2>4. k <= U => k # H
    BY <1>2
  <2>5. /\ c.part = "url" => k <= U /\ c = m.url[k]
        /\ k <= U => c.part \in {"url", "bad"}
        /\ c.part = "end" => k = H /\ c.length = Len(m.body)
        /\ k = H => c.part = "end"
    BY <2>2, <2>3, <2>4
  <2>6. ~(k > H)
    BY <1>1, <1>5
  <2> QED
    BY <1>5, <2>1, <2>5, <2>6 DEF c, C, H, head, U
<1>6. CASE m.bad = 0 /\ k > H
  <2>1. k - H \in 1 .. Len(m.body) /\ H + (k - H) = k /\ ~(k <= U) /\ k # H /\ ~(k <= H)
    BY <1>1, <1>2, <1>6, <1>8
  <2>2. c = m.body[k - H]
    BY <1>1, <1>6, <2>1
  <2>3. c.part = "body"
    BY <1>4, <2>1, <2>2
  <2> HIDE DEF c
  <2> QED
    BY <1>6, <2>1, <2>2, <2>3 DEF c, C, H, head, U
<1>7. CASE m.bad # 0
  <2>1. k <= H
    BY <1>1, <1>7, <1>8
  <2>2. CASE k = Len(C)
    <3>1. c.part = "bad"
      BY <1>1, <1>7, <2>2
    <3> HIDE DEF c
    <3> QED
      BY <1>7, <2>1, <2>2, <3>1 DEF c, C, H, head, U
  <2>3. CASE k # Len(C)
    <3>1. k \in 1 .. m.bad /\ k \in 1 .. H /\ k < H /\ m.bad < H
      BY <1>1, <1>7, <1>8, <2>3
    <3>2. c = head[k]
      BY <1>1, <1>7, <3>1
    <3> HIDE DEF c
    <3>3. /\ k <= U => c = m.url[k] /\ c.part = "url"
          /\ k > U => c.part \in {"key", "value", "sep"}
      BY <1>3, <3>1, <3>2
    <3>4. k <= U \/ k > U
      BY <1>2
    <3> QED
      BY <1>7, <2>1, <2>3, <3>3, <3>4 DEF c, C, H, head, U
  <2> QED
    BY <2>2, <2>3
<1> QED
  BY <1>1, <1>5, <1>6, <1>7

\* Where the headers are.
LEMMA OffLemma ==
  ASSUME NEW m \in Request, NEW j \in 0 .. Len(m.headers)
  PROVE  /\ Off(m, 0) = Len(m.url) + 1 /\ Off(m, j) \in Nat /\ Len(m.url) \in Nat
         /\ Len(m.headers) \in Nat /\ Len(m.url) < Off(m, j)
         /\ Off(m, j) <= Off(m, Len(m.headers))
         /\ Len(Head_(m)) = Off(m, Len(m.headers)) + 1
<1> DEFINE L == HeaderLines(m.headers)
<1>1. Len(m.headers) \in Nat /\ m.url \in Text("url")
  BY RequestLemma
<1>2. Len(m.url) \in Nat
  BY <1>1, TextLemma
<1>3. Len(L[0]) = 0
  BY <1>1, LinesLemma, EmptySeq
<1>4. Len(L[j]) <= Len(L[Len(m.headers)])
  BY <1>1, LinesPrefix
<1>5. Len(L[j]) \in Nat /\ Len(L[Len(m.headers)]) \in Nat
  BY <1>1, LinesTyped, LenProperties
<1>6. Len(Head_(m)) = Off(m, Len(m.headers)) + 1
  BY HeadLayout
<1> DEFINE n == Len(m.headers)
           U == Len(m.url)
<1>7. Off(m, 0) = U + 1 + Len(L[0]) /\ Off(m, j) = U + 1 + Len(L[j]) /\ Off(m, n) = U + 1 + Len(L[n])
  BY DEF Off
<1> HIDE DEF L, n, U
<1>8. U \in Nat /\ Len(L[0]) = 0 /\ Len(L[j]) \in Nat /\ Len(L[n]) \in Nat /\ Len(L[j]) <= Len(L[n])
  BY <1>2, <1>3, <1>4, <1>5 DEF n, U
<1>9. ASSUME NEW x, NEW y, NEW z, x = Len(L[0]), y = Len(L[j]), z = Len(L[n])
      PROVE  Off(m, 0) = U + 1 /\ Off(m, j) \in Nat /\ U < Off(m, j) /\ Off(m, j) <= Off(m, n)
  <2>1. x = 0 /\ y \in Nat /\ z \in Nat /\ y <= z /\ U \in Nat
    BY <1>8, <1>9
  <2>2. Off(m, 0) = U + 1 + x /\ Off(m, j) = U + 1 + y /\ Off(m, n) = U + 1 + z
    BY <1>7, <1>9
  <2>3. Off(m, 0) = U + 1
    BY <2>1, <2>2
  <2>4. Off(m, j) \in Nat
    BY <2>1, <2>2
  <2>5. U < Off(m, j) /\ Off(m, j) <= Off(m, n)
    BY <2>1, <2>2
  <2> QED
    BY <2>3, <2>4, <2>5
<1>10. Off(m, 0) = U + 1 /\ Off(m, j) \in Nat /\ U < Off(m, j) /\ Off(m, j) <= Off(m, n)
  BY <1>9
<1> QED
  BY <1>1, <1>2, <1>6, <1>10 DEF n, U

\* A header is between the cells o and e of a request.
HeaderAt(C, o, e, key, value) ==
  /\ o \in Nat /\ Len(key) \in Nat \ {0} /\ Len(value) \in Nat \ {0}
  /\ e = o + Len(key) + Len(value) + 2
  /\ \A i \in 1 .. Len(key) : C[o + i] = key[i] /\ key[i].part = "key"
  /\ C[o + Len(key) + 1] = Sep
  /\ \A i \in 1 .. Len(value) : C[o + Len(key) + 1 + i] = value[i] /\ value[i].part = "value"
  /\ C[e] = Sep

\* Every header lies behind those before it.
LEMMA HeaderLayout ==
  ASSUME NEW m \in Request, m.bad = 0, NEW j \in 1 .. Len(m.headers)
  PROVE  HeaderAt(Cells(m), Off(m, j - 1), Off(m, j), m.headers[j][1], m.headers[j][2])
<1> DEFINE L == HeaderLines(m.headers)
           n == Len(m.headers)
           C == Cells(m)
           U == Len(m.url)
           a == L[j - 1]
           b == L[j]
           l == L[n]
           key == m.headers[j][1]
           value == m.headers[j][2]
           head == Head_(m)
<1>1. /\ n \in Nat /\ U \in Nat /\ Len(l) \in Nat /\ Off(m, j) = U + 1 + Len(b)
      /\ Off(m, j - 1) = U + 1 + Len(a) /\ Len(head) = U + 1 + Len(l) + 1
  <2>1. n \in Nat /\ n \in 0 .. n
    BY RequestLemma
  <2>2. Len(l) \in Nat
    <3>1. l \in Seq(LineCell)
      BY <2>1, LinesTyped
    <3> QED
      BY <3>1, LenProperties
  <2>3. U \in Nat
    BY <2>1, OffLemma
  <2>4. Len(head) = Off(m, n) + 1
    BY HeadLayout
  <2> QED
    BY <2>1, <2>2, <2>3, <2>4 DEF Off
<1>2. ASSUME NEW i \in 1 .. Len(l) PROVE C[U + 1 + i] = l[i]
  <2>1. head[U + 1 + i] = l[i]
    BY HeadLayout
  <2>2. \A k \in 1 .. Len(head) : C[k] = head[k]
    BY CellsLayout
  <2> HIDE DEF head, U, l
  <2>3. U + 1 + i \in 1 .. Len(head)
    BY <1>1
  <2> QED
    BY <2>1, <2>2, <2>3
<1>3. Len(b) <= Len(l) /\ \A i \in 1 .. Len(b) : l[i] = b[i]
  <2>1. j \in 0 .. n /\ n \in j .. n
    BY <1>1
  <2> QED
    BY <2>1, LinesPrefix
<1>4. LineAt(a, b, key, value)
  BY LineLayout
<1>5. /\ \A i \in 1 .. Len(key) : key[i].part = "key"
      /\ \A i \in 1 .. Len(value) : value[i].part = "value"
  <2>1. key \in Text("key") /\ value \in Text("value")
    BY RequestLemma
  <2> HIDE DEF key, value
  <2> QED
    BY <2>1, TextLemma
<1> HIDE DEF L, C, n, U, a, b, l, key, value, head
<1>6. ASSUME NEW i \in 1 .. Len(b) PROVE C[U + 1 + i] = b[i]
  <2>1. i \in 1 .. Len(l)
    BY <1>1, <1>3, <1>4 DEF LineAt
  <2> QED
    BY <1>2, <1>3, <2>1
<1>7. ASSUME NEW i \in 1 .. Len(key) PROVE C[U + 1 + Len(a) + i] = key[i]
  <2>1. Len(a) + i \in 1 .. Len(b) /\ U + 1 + (Len(a) + i) = U + 1 + Len(a) + i
    BY <1>1, <1>4 DEF LineAt
  <2> QED
    BY <1>4, <1>6, <2>1 DEF LineAt
<1>8. C[U + 1 + Len(a) + Len(key) + 1] = Sep
  <2>1. /\ Len(a) + Len(key) + 1 \in 1 .. Len(b)
        /\ U + 1 + (Len(a) + Len(key) + 1) = U + 1 + Len(a) + Len(key) + 1
    BY <1>1, <1>4 DEF LineAt
  <2> QED
    BY <1>4, <1>6, <2>1 DEF LineAt
<1>9. ASSUME NEW i \in 1 .. Len(value) PROVE C[U + 1 + Len(a) + Len(key) + 1 + i] = value[i]
  <2>1. /\ Len(a) + Len(key) + 1 + i \in 1 .. Len(b)
        /\ U + 1 + (Len(a) + Len(key) + 1 + i) = U + 1 + Len(a) + Len(key) + 1 + i
    BY <1>1, <1>4 DEF LineAt
  <2> QED
    BY <1>4, <1>6, <2>1 DEF LineAt
<1>10. C[U + 1 + Len(b)] = Sep
  <2>1. Len(b) \in 1 .. Len(b)
    BY <1>4 DEF LineAt
  <2> QED
    BY <1>4, <1>6, <2>1 DEF LineAt
<1>11. HeaderAt(C, U + 1 + Len(a), U + 1 + Len(b), key, value)
  BY <1>1, <1>4, <1>5, <1>7, <1>8, <1>9, <1>10 DEF LineAt, HeaderAt
<1> QED
  BY <1>1, <1>11 DEF C, key, value

-----------------------------------------------------------------------------
(* Spans *)

\* A run of cells of one part.
Run(R, i, j, n) ==
  /\ j \in i .. n
  /\ \A k \in i .. j : R[k].part = R[i].part
  /\ j = n \/ R[j + 1].part # R[i].part

\* Every cell of a piece is in a run.
LEMMA RunExists ==
  ASSUME NEW R, NEW n \in Nat, NEW i \in 1 .. n
  PROVE  \E j \in i .. n : Run(R, i, j, n)
<1> DEFINE T == {j \in i .. n : j = n \/ R[j + 1].part # R[i].part}
<1>1. T \subseteq Nat /\ n \in T
  OBVIOUS
<1>2. PICK j \in T : \A k \in T : j <= k
  BY <1>1, LeastNatural, Zenon
<1> DEFINE S == {k \in Nat : i + k <= j => R[i + k].part = R[i].part}
<1>3. 0 \in S
  OBVIOUS
<1>4. ASSUME NEW k \in Nat, k \in S PROVE k + 1 \in S
  <2> SUFFICES ASSUME i + (k + 1) <= j PROVE R[i + (k + 1)].part = R[i].part
    OBVIOUS
  <2>1. i + k \in i .. n /\ ~(j <= i + k) /\ i + k # n /\ (i + k) + 1 = i + (k + 1)
    BY <1>1
  <2>2. i + k \notin T
    BY <1>2, <2>1
  <2> QED
    BY <2>1, <2>2
<1>5. ASSUME NEW k \in i .. j PROVE R[k].part = R[i].part
  <2> HIDE DEF S
  <2>1. k - i \in S
    <3>1. Nat \subseteq S
      BY <1>3, <1>4, SetInduction
    <3> QED
      BY <1>1, <3>1
  <2>2. i + (k - i) = k /\ i + (k - i) <= j
    BY <1>1
  <2> QED
    BY <2>1, <2>2 DEF S
<1> QED
  BY <1>5 DEF Run

\* A span of the head is a run.
LEMMA RunEnd ==
  ASSUME NEW h, h.llhttp.lex # "body", NEW n \in Nat, NEW i \in 1 .. n
  PROVE  /\ Run(h.read_buf, i, SpanEnd(h, i, n), n)
         /\ \A j : Run(h.read_buf, i, j, n) => j = SpanEnd(h, i, n)
<1> DEFINE R == h.read_buf
           e == SpanEnd(h, i, n)
<1>1. e = CHOOSE j \in i .. n : /\ \A k \in i .. j : R[k].part = R[i].part
                                /\ j = n \/ R[j + 1].part # R[i].part
  BY DEF SpanEnd
<1>2. PICK j \in i .. n : Run(R, i, j, n)
  BY RunExists
<1> HIDE DEF e, R
<1>3. Run(R, i, e, n)
  <2>1. \E x \in i .. n : /\ \A k \in i .. x : R[k].part = R[i].part
                          /\ x = n \/ R[x + 1].part # R[i].part
    BY <1>2 DEF Run
  <2> QED
    BY <1>1, <2>1 DEF Run
<1>4. ASSUME NEW x, Run(R, i, x, n) PROVE x = e
  <2>1. x \in i .. n /\ e \in i .. n
    BY <1>3, <1>4 DEF Run
  <2>2. CASE x < e
    <3>1. x + 1 \in i .. e /\ x # n
      BY <2>1, <2>2
    <3> QED
      BY <1>3, <1>4, <3>1 DEF Run
  <2>3. CASE e < x
    <3>1. e + 1 \in i .. x /\ e # n
      BY <2>1, <2>3
    <3> QED
      BY <1>3, <1>4, <3>1 DEF Run
  <2> QED
    BY <2>1, <2>2, <2>3
<1> QED
  BY <1>3, <1>4 DEF e, R

\* The buffers of the headers of a request that was read whole.
KeyEnd(m, j) == Off(m, j - 1) + Len(m.headers[j][1])
KeyPart(m, j) == Pointer(Off(m, j - 1) + 1, KeyEnd(m, j))
ValuePart(m, j) == Pointer(KeyEnd(m, j) + 2, Off(m, j) - 1)
Bufs(m, j) == [i \in 1 .. j |-> [key |-> KeyPart(m, i), value |-> ValuePart(m, i)]]

\* The saved headers with one more.
LEMMA BufsLemma ==
  ASSUME NEW m \in Request, NEW j \in 1 .. Len(m.headers)
  PROVE  /\ Bufs(m, 0) = <<>>
         /\ Append(Bufs(m, j - 1), [key |-> KeyPart(m, j), value |-> ValuePart(m, j)]) = Bufs(m, j)
<1> DEFINE x(i) == [key |-> KeyPart(m, i), value |-> ValuePart(m, i)]
           S == {x(i) : i \in Nat}
           a == Bufs(m, j - 1)
           b == Bufs(m, j)
<1>1. j \in Nat \ {0} /\ j - 1 \in Nat
  BY RequestLemma
<1>2. a = [i \in 1 .. j - 1 |-> x(i)] /\ b = [i \in 1 .. j |-> x(i)]
  BY DEF Bufs
<1>3. \A i \in Nat : x(i) \in S
  OBVIOUS
<1>4. Bufs(m, 0) = <<>>
  BY DEF Bufs
<1> HIDE DEF x, S, a, b
<1>5. a \in Seq(S) /\ Len(a) = j - 1 /\ \A i \in 1 .. j - 1 : a[i] = x(i)
  <2>1. \A i \in 1 .. j - 1 : x(i) \in S
    BY <1>1, <1>3
  <2> QED
    BY <1>1, <1>2, <2>1, IsASeq
<1>6. b \in Seq(S) /\ Len(b) = j /\ \A i \in 1 .. j : b[i] = x(i)
  <2>1. \A i \in 1 .. j : x(i) \in S
    BY <1>1, <1>3
  <2> QED
    BY <1>1, <1>2, <2>1, IsASeq
<1> DEFINE c == Append(a, x(j))
<1>7. /\ c \in Seq(S) /\ Len(c) = Len(a) + 1
      /\ \A i \in 1 .. Len(a) : c[i] = a[i]
      /\ c[Len(a) + 1] = x(j)
  BY <1>1, <1>3, <1>5, AppendProperties
<1> HIDE DEF c
<1>8. ASSUME NEW i \in 1 .. j PROVE c[i] = b[i]
  <2>1. CASE i = j
    <3>1. i = Len(a) + 1
      BY <1>1, <1>5, <2>1
    <3> QED
      BY <1>6, <1>7, <2>1, <3>1
  <2>2. CASE i # j
    <3>1. i \in 1 .. j - 1 /\ i \in 1 .. Len(a)
      BY <1>1, <1>5, <2>2
    <3> QED
      BY <1>5, <1>6, <1>7, <3>1
  <2> QED
    BY <2>1, <2>2
<1>9. c = b
  <2>1. Len(c) = Len(b) /\ Len(b) = j
    BY <1>1, <1>5, <1>6, <1>7
  <2> QED
    BY <1>6, <1>7, <1>8, <2>1, SeqEqual
<1> QED
  BY <1>4, <1>9 DEF a, b, c, x

\* How far the headers are, when d cells were read with all of the head.
BeforeHeaders(q, m, d) ==
  /\ d \in {0, Len(m.url), Len(m.url) + 1}
  /\ q.headers = Bufs(m, 0) /\ q.header_key.len = 0 /\ q.header_value.len = 0

KeyRead(q, m, j, d) ==
  /\ d \in {KeyEnd(m, j), KeyEnd(m, j) + 1}
  /\ q.headers = Bufs(m, j - 1) /\ q.header_key = KeyPart(m, j) /\ q.header_value.len = 0

ValueRead(q, m, j, d) ==
  /\ d \in {Off(m, j) - 1, Off(m, j)}
  /\ q.headers = Bufs(m, j - 1) /\ q.header_key = KeyPart(m, j)
  /\ q.header_value = ValuePart(m, j) /\ q.last_was_value

HeadersRead(q, m, d) ==
  /\ IsBuf(q.body) /\ IsBuf(q.header_key) /\ IsBuf(q.header_value)
  /\ \/ BeforeHeaders(q, m, d)
     \/ \E j \in 1 .. Len(m.headers) : KeyRead(q, m, j, d) \/ ValueRead(q, m, j, d)

\* What is known of the read buffer.
HeadIn(m, R, n) ==
  /\ m \in Request /\ m.bad = 0 /\ n \in Nat /\ Len(Head_(m)) <= n /\ n <= Len(Cells(m))
  /\ \A k \in 1 .. n : R[k] = Cells(m)[k]

\* Every part of the head is a run.
LEMMA HeadRuns ==
  ASSUME NEW m, NEW R, NEW n, HeadIn(m, R, n)
  PROVE  LET U == Len(m.url)
             H == Len(Head_(m))
         IN  /\ U \in Nat \ {0} /\ H \in Nat /\ U + 1 < H /\ Len(m.headers) \in Nat
             /\ H = Off(m, Len(m.headers)) + 1
             /\ R[1].part = "url" /\ Run(R, 1, U, n)
             /\ R[U + 1].part = "sep" /\ Run(R, U + 1, U + 1, n)
             /\ R[H].part = "end" /\ Run(R, H, H, n)
<1> DEFINE U == Len(m.url)
           H == Len(Head_(m))
           C == Cells(m)
           head == Head_(m)
<1>1. /\ m \in Request /\ m.bad = 0 /\ n \in Nat /\ H <= n /\ n <= Len(C)
      /\ \A k \in 1 .. n : R[k] = C[k]
  BY DEF HeadIn
<1>2. /\ H \in Nat /\ Len(m.body) \in Nat /\ Len(C) = H + Len(m.body)
      /\ \A k \in 1 .. H : C[k] = head[k]
  BY <1>1, CellsLayout
<1>3. Len(m.headers) \in Nat /\ H = Off(m, Len(m.headers)) + 1 /\ head[U + 1] = Sep
  BY <1>1, HeadLayout, RequestLemma
<1>4. U \in Nat \ {0} /\ U + 1 < H
  <2>1. H \in 1 .. H
    <3>1. Off(m, Len(m.headers)) \in Nat
      BY <1>1, HeadLayout
    <3> QED
      BY <1>2, <1>3, <3>1
  <2> QED
    BY <1>1, <2>1, HeadPart
<1>5. /\ \A k \in 1 .. U : head[k].part = "url"
      /\ \A k \in U + 1 .. H - 1 : head[k].part \in {"key", "value", "sep"}
      /\ head[H].part = "end"
  <2>1. \A k \in 1 .. H : /\ k <= U => head[k].part = "url"
                          /\ k > U /\ k < H => head[k].part \in {"key", "value", "sep"}
                          /\ k = H => head[k].part = "end"
    BY <1>1, HeadPart
  <2> HIDE DEF U, H, head
  <2> QED
    BY <1>2, <1>4, <2>1
<1>6. \A k \in H + 1 .. Len(C) : C[k].part = "body"
  <2> SUFFICES ASSUME NEW k \in H + 1 .. Len(C) PROVE C[k].part = "body"
    OBVIOUS
  <2>1. k \in 1 .. Len(C) /\ k > H
    BY <1>2
  <2> QED
    BY <1>1, <2>1, CellPart
<1> HIDE DEF U, H, C, head
<1>7. \A k \in 1 .. H : R[k] = head[k]
  BY <1>1, <1>2, <1>4
<1>8. /\ \A k \in 1 .. U : R[k].part = "url"
      /\ R[U + 1].part = "sep"
      /\ R[H].part = "end"
      /\ R[U + 2].part # "sep" \/ U + 2 < H
      /\ H = n \/ R[H + 1].part = "body"
  <2>1. \A k \in 1 .. U : k \in 1 .. H
    BY <1>2, <1>4
  <2>2. U + 1 \in 1 .. H /\ H \in 1 .. H /\ U + 2 \in 1 .. H
    BY <1>2, <1>4
  <2>3. H = n \/ (H + 1 \in 1 .. n /\ H + 1 \in H + 1 .. Len(C))
    BY <1>1, <1>2, <1>4
  <2>4. U + 2 = H \/ U + 2 < H
    BY <1>2, <1>4
  <2> QED
    BY <1>1, <1>3, <1>5, <1>6, <1>7, <2>1, <2>2, <2>3, <2>4, SepIsCell, SMTT(30)
<1>9. R[U + 2].part # "sep"
  <2>1. CASE U + 2 = H
    BY <1>8, <2>1
  <2>2. CASE U + 2 # H
    <3> DEFINE key == m.headers[1][1]
               value == m.headers[1][2]
    <3>1. 1 \in 1 .. Len(m.headers) /\ 1 - 1 = 0 /\ Off(m, 0) = U + 1
      <4>1. Off(m, 0) = U + 1 /\ Len(m.headers) \in Nat
        <5>1. 0 \in 0 .. Len(m.headers)
          BY <1>3
        <5> QED
          BY <1>1, <1>3, <5>1, OffLemma DEF U
      <4>2. Len(m.headers) # 0
        BY <1>3, <1>4, <2>2, <4>1
      <4> QED
        BY <4>1, <4>2
    <3>2. HeaderAt(C, Off(m, 0), Off(m, 1), key, value)
      BY <1>1, <3>1, HeaderLayout DEF C
    <3> HIDE DEF key, value
    <3>3. 1 \in 1 .. Len(key) /\ Off(m, 0) + 1 = U + 2
      BY <1>4, <3>1, <3>2 DEF HeaderAt
    <3>4. C[U + 2].part = "key"
      BY <3>2, <3>3 DEF HeaderAt
    <3>5. U + 2 \in 1 .. n
      BY <1>1, <1>2, <1>4
    <3> QED
      BY <1>1, <3>4, <3>5
  <2> QED
    BY <2>1, <2>2
<1>10. Run(R, 1, U, n)
  <2>1. U \in 1 .. n /\ 1 \in 1 .. U
    BY <1>1, <1>2, <1>4
  <2> QED
    BY <1>8, <2>1 DEF Run
<1>11. Run(R, U + 1, U + 1, n)
  <2>1. U + 1 \in U + 1 .. n /\ (U + 1) + 1 = U + 2 /\ \A k \in U + 1 .. U + 1 : k = U + 1
    BY <1>1, <1>2, <1>4
  <2> QED
    BY <1>8, <1>9, <2>1 DEF Run
<1>12. Run(R, H, H, n)
  <2>1. H \in H .. n /\ \A k \in H .. H : k = H
    BY <1>1, <1>2
  <2> QED
    BY <1>8, <2>1 DEF Run
<1>13. 1 \in 1 .. U
  BY <1>4
<1> QED
  BY <1>2, <1>3, <1>4, <1>8, <1>10, <1>11, <1>12, <1>13 DEF U, H

\* So is every part of a header.
HeaderRuns(R, o, k, e, n) ==
  /\ R[o + 1].part = "key" /\ Run(R, o + 1, o + k, n)
  /\ R[o + k + 1].part = "sep" /\ Run(R, o + k + 1, o + k + 1, n)
  /\ R[o + k + 2].part = "value" /\ Run(R, o + k + 2, e - 1, n)
  /\ R[e].part = "sep" /\ Run(R, e, e, n)

LEMMA HeaderRunsLemma ==
  ASSUME NEW R, NEW o, NEW e, NEW key, NEW value, NEW n \in Nat, HeaderAt(R, o, e, key, value),
         e < n, R[e + 1].part # "sep"
  PROVE  HeaderRuns(R, o, Len(key), e, n)
<1> DEFINE k == Len(key)
           v == Len(value)
<1>1. /\ o \in Nat /\ k \in Nat \ {0} /\ v \in Nat \ {0} /\ e = o + k + v + 2
      /\ \A i \in 1 .. k : R[o + i].part = "key"
      /\ \A i \in 1 .. v : R[o + k + 1 + i].part = "value"
      /\ R[o + k + 1].part = "sep" /\ R[e].part = "sep"
  <2>1. /\ o \in Nat /\ k \in Nat \ {0} /\ v \in Nat \ {0} /\ e = o + k + v + 2
    BY DEF HeaderAt
  <2>2. \A i \in 1 .. k : R[o + i].part = "key"
    BY DEF HeaderAt
  <2>3. \A i \in 1 .. v : R[o + k + 1 + i].part = "value"
    BY DEF HeaderAt
  <2>4. R[o + k + 1] = Sep /\ R[e] = Sep
    BY DEF HeaderAt
  <2>5. Sep.part = "sep"
    BY SepIsCell
  <2> HIDE DEF k, v
  <2> QED
    BY <2>1, <2>2, <2>3, <2>4, <2>5
<1> HIDE DEF k, v
<1>2. \A i \in o + 1 .. o + k : R[i].part = "key"
  <2> SUFFICES ASSUME NEW i \in o + 1 .. o + k PROVE R[i].part = "key"
    OBVIOUS
  <2>1. i - o \in 1 .. k /\ o + (i - o) = i
    BY <1>1
  <2> QED
    BY <1>1, <2>1
<1>3. \A i \in o + k + 2 .. e - 1 : R[i].part = "value"
  <2> SUFFICES ASSUME NEW i \in o + k + 2 .. e - 1 PROVE R[i].part = "value"
    OBVIOUS
  <2>1. i - (o + k + 1) \in 1 .. v /\ o + k + 1 + (i - (o + k + 1)) = i
    BY <1>1
  <2> QED
    BY <1>1, <2>1
<1>4. R[o + 1].part = "key" /\ R[o + k + 2].part = "value" /\ R[e - 1].part = "value"
  <2>1. o + 1 \in o + 1 .. o + k /\ o + k + 2 \in o + k + 2 .. e - 1 /\ e - 1 \in o + k + 2 .. e - 1
    BY <1>1
  <2> QED
    BY <1>2, <1>3, <2>1
<1>5. Run(R, o + 1, o + k, n)
  <2>1. o + k \in o + 1 .. n /\ (o + k) + 1 = o + k + 1
    BY <1>1
  <2> QED
    BY <1>1, <1>2, <1>4, <2>1 DEF Run
<1>6. Run(R, o + k + 1, o + k + 1, n)
  <2>1. o + k + 1 \in o + k + 1 .. n /\ (o + k + 1) + 1 = o + k + 2
        /\ \A i \in o + k + 1 .. o + k + 1 : i = o + k + 1
    BY <1>1
  <2> QED
    BY <1>1, <1>4, <2>1 DEF Run
<1>7. Run(R, o + k + 2, e - 1, n)
  <2>1. e - 1 \in o + k + 2 .. n /\ (e - 1) + 1 = e
    BY <1>1
  <2> QED
    BY <1>1, <1>3, <1>4, <2>1 DEF Run
<1>8. Run(R, e, e, n)
  <2>1. e \in e .. n /\ \A i \in e .. e : i = e
    BY <1>1
  <2> QED
    BY <1>1, <2>1 DEF Run
<1> QED
  BY <1>1, <1>4, <1>5, <1>6, <1>7, <1>8 DEF HeaderRuns, k

\* The line of a header in the read buffer.
LEMMA LineRuns ==
  ASSUME NEW m, NEW R, NEW n, HeadIn(m, R, n), NEW j \in 1 .. Len(m.headers)
  PROVE  LET o == Off(m, j - 1)
             k == Len(m.headers[j][1])
             e == Off(m, j)
         IN  /\ o \in Nat /\ k \in Nat \ {0} /\ e \in Nat /\ o + k + 2 < e
             /\ Len(Head_(m)) \in Nat /\ e < Len(Head_(m))
             /\ HeaderRuns(R, o, k, e, n)
<1> DEFINE o == Off(m, j - 1)
           e == Off(m, j)
           key == m.headers[j][1]
           value == m.headers[j][2]
           C == Cells(m)
           H == Len(Head_(m))
           N == Len(m.headers)
<1>1. /\ m \in Request /\ m.bad = 0 /\ n \in Nat /\ H <= n /\ n <= Len(C)
      /\ \A i \in 1 .. n : R[i] = C[i]
  BY DEF HeadIn
<1>2. HeaderAt(C, o, e, key, value)
  BY <1>1, HeaderLayout
<1>3. N \in Nat /\ e \in Nat /\ e <= Off(m, N) /\ H = Off(m, N) + 1 /\ Off(m, N) \in Nat
  <2>1. j \in 0 .. N /\ N \in 0 .. N
    BY <1>1, RequestLemma
  <2> QED
    BY <1>1, <2>1, OffLemma
<1>4. R[H].part = "end"
  BY HeadRuns
<1>5. C[e + 1].part # "sep"
  <2>1. CASE j = N
    <3>1. e + 1 = H /\ H \in 1 .. n
      BY <1>1, <1>3, <2>1
    <3> HIDE DEF C, H
    <3>2. C[e + 1].part = "end"
      BY <1>1, <1>4, <3>1
    <3> QED
      BY <3>2
  <2>2. CASE j # N
    <3> DEFINE k2 == m.headers[j + 1][1]
               v2 == m.headers[j + 1][2]
               e2 == Off(m, j + 1)
    <3>1. j + 1 \in 1 .. N /\ (j + 1) - 1 = j
      BY <1>3, <2>2
    <3>2. HeaderAt(C, Off(m, (j + 1) - 1), e2, k2, v2)
      <4> HIDE DEF e
      <4> QED
        BY <1>1, <3>1, HeaderLayout
    <3>3. HeaderAt(C, e, e2, k2, v2)
      BY <3>1, <3>2
    <3> HIDE DEF C, e, e2, k2, v2
    <3>4. 1 \in 1 .. Len(k2)
      BY <3>3 DEF HeaderAt
    <3>5. C[e + 1].part = "key"
      BY <3>3, <3>4, SMTT(30) DEF HeaderAt
    <3> QED
      BY <3>5
  <2> QED
    BY <2>1, <2>2
<1> HIDE DEF o, e, key, value, C, H, N
<1>6. e < n /\ R[e + 1].part # "sep"
  <2>1. e < n /\ e + 1 \in 1 .. n
    BY <1>1, <1>3
  <2> QED
    BY <1>1, <1>5, <2>1
<1>7. HeaderAt(R, o, e, key, value)
  <2>1. /\ o \in Nat /\ Len(key) \in Nat \ {0} /\ Len(value) \in Nat \ {0}
        /\ e = o + Len(key) + Len(value) + 2
    BY <1>2 DEF HeaderAt
  <2>2. \A i \in 1 .. e : R[i] = C[i]
    BY <1>1, <1>3, <1>6
  <2>3. \A i \in 1 .. Len(key) : o + i \in 1 .. e
    BY <2>1
  <2>4. o + Len(key) + 1 \in 1 .. e /\ e \in 1 .. e
    BY <2>1
  <2>5. \A i \in 1 .. Len(value) : o + Len(key) + 1 + i \in 1 .. e
    BY <2>1
  <2> QED
    BY <1>2, <2>2, <2>3, <2>4, <2>5 DEF HeaderAt
<1>8. HeaderRuns(R, o, Len(key), e, n)
  BY <1>1, <1>6, <1>7, HeaderRunsLemma
<1>9. o \in Nat /\ Len(key) \in Nat \ {0} /\ o + Len(key) + 2 < e
  BY <1>2, <1>3 DEF HeaderAt
<1>10. H \in Nat /\ e < H
  BY <1>1, <1>3
<1> QED
  BY <1>3, <1>8, <1>9, <1>10 DEF o, e, key, H

-----------------------------------------------------------------------------
(* The headers of a request whose head is read at once *)

\* Which callback a part has.
LEMMA EmitPart ==
  ASSUME NEW h, NEW from, NEW to
  PROVE  /\ Emit(h, "url", from, to) = OnUrl(h, from, to)
         /\ Emit(h, "key", from, to) = OnHeaderKey(h, from, to)
         /\ Emit(h, "value", from, to) = OnHeaderValue(h, from, to)
         /\ Emit(h, "sep", from, to) = h
BY DEF Emit

\* The URL, before the headers.
LEMMA UrlStep ==
  ASSUME NEW h, NEW m, NEW from, NEW to, IsParser(h),
         HeadersRead(h.http, m, 0), BeforeHeaders(h.http, m, 0), to = Len(m.url)
  PROVE  HeadersRead(OnUrl(h, from, to).http, m, to)
<1> DEFINE q == h.http
           x == IF q.url.len = 0 THEN CopyBuf(h, from, to) ELSE SetBuf(h, q.url, from, to)
           s == [q EXCEPT !.url = x]
<1>1. OnUrl(h, from, to).http = s
  BY OnUrlLemma
<1> HIDE DEF x
<1>2. /\ s.headers = q.headers /\ s.header_key = q.header_key /\ s.header_value = q.header_value
      /\ s.body = q.body
  BY DEF IsParser, IsHttp
<1> HIDE DEF s, q
<1>3. BeforeHeaders(s, m, to)
  BY <1>2 DEF BeforeHeaders, q
<1>4. IsBuf(s.body) /\ IsBuf(s.header_key) /\ IsBuf(s.header_value)
  BY <1>2 DEF HeadersRead, q
<1> QED
  BY <1>1, <1>3, <1>4 DEF HeadersRead

\* The key of header j, with the headers before it saved or about to be.
LEMMA KeyStep ==
  ASSUME NEW h, NEW m, NEW from, NEW to, NEW j \in 1 .. Len(m.headers), IsParser(h),
         IsBuf(h.http.body), IsBuf(h.http.header_key), IsBuf(h.http.header_value),
         from = Off(m, j - 1) + 1, to = KeyEnd(m, j),
         LET ends == h.http.last_was_value /\ h.http.header_key.len > 0
         IN  /\ ends \/ h.http.header_key.len = 0
             /\ Bufs(m, j - 1) =
                  IF ends THEN SaveCurrentHeader(h).http.headers ELSE h.http.headers
  PROVE  HeadersRead(OnHeaderKey(h, from, to).http, m, to)
<1> DEFINE s == OnHeaderKey(h, from, to)
<1>1. /\ s.http.headers = Bufs(m, j - 1) /\ s.http.body = h.http.body
      /\ s.http.header_value.len = 0 /\ IsBuf(s.http.header_value)
      /\ s.http.header_key = Pointer(from, to)
  <2>1. KeyTaken(h, s, from, to)
    BY OnHeaderKeyLemma, Zenon
  <2> HIDE DEF s
  <2> QED
    BY <2>1 DEF KeyTaken
<1> HIDE DEF s
<1>2. s.http.header_key = KeyPart(m, j) /\ IsBuf(s.http.header_key)
  BY <1>1 DEF KeyPart, Pointer, IsBuf
<1>3. KeyRead(s.http, m, j, to)
  BY <1>1, <1>2 DEF KeyRead
<1> QED
  BY <1>1, <1>2, <1>3 DEF HeadersRead, s

\* The first piece of a value is pointed to.
LEMMA FirstValue ==
  ASSUME NEW h, NEW from, NEW to, IsParser(h), h.http.header_value.len = 0
  PROVE  LET s == OnHeaderValue(h, from, to).http
         IN  /\ s.last_was_value /\ s.header_value = Pointer(from, to)
             /\ s.headers = h.http.headers /\ s.header_key = h.http.header_key
             /\ s.body = h.http.body
<1> DEFINE q == h.http
           x == SetBuf(h, h.http.header_value, from, to)
           s == OnHeaderValue(h, from, to).http
           p == [h.http EXCEPT !.header_value = x]
           r == [p EXCEPT !.last_was_value = TRUE]
<1>1. s = WithValue(h.http, x)
  BY OnHeaderValueLemma
<1>2. x = Pointer(from, to)
  BY DEF SetBuf, Pointer
<1> HIDE DEF x
<1>3. /\ IsHttp(p) /\ p.header_value = x
      /\ p.headers = q.headers /\ p.header_key = q.header_key /\ p.body = q.body
  BY DEF IsParser, IsHttp
<1>4. s = r
  BY <1>1 DEF WithValue
<1> HIDE DEF p, s
<1>5. /\ r.last_was_value = TRUE /\ r.header_value = p.header_value
      /\ r.headers = p.headers /\ r.header_key = p.header_key /\ r.body = p.body
  BY <1>3, FlagSet
<1> HIDE DEF r
<1> QED
  BY <1>2, <1>3, <1>4, <1>5 DEF s

\* The value of header j, behind its key.
LEMMA ValueStep ==
  ASSUME NEW h, NEW m, NEW from, NEW to, NEW j \in 1 .. Len(m.headers), IsParser(h),
         IsBuf(h.http.body), IsBuf(h.http.header_key),
         from = KeyEnd(m, j) + 2, to = Off(m, j) - 1, NEW d, KeyRead(h.http, m, j, d)
  PROVE  HeadersRead(OnHeaderValue(h, from, to).http, m, to)
<1> DEFINE s == OnHeaderValue(h, from, to).http
<1>1. h.http.header_value.len = 0
  BY DEF KeyRead
<1>2. /\ s.last_was_value /\ s.header_value = Pointer(from, to)
      /\ s.headers = h.http.headers /\ s.header_key = h.http.header_key
      /\ s.body = h.http.body
  BY <1>1, FirstValue
<1> HIDE DEF s
<1>3. s.header_value = ValuePart(m, j) /\ IsBuf(s.header_value)
  BY <1>2 DEF ValuePart, Pointer, IsBuf
<1>4. ValueRead(s, m, j, to)
  BY <1>2, <1>3 DEF ValueRead, KeyRead
<1> QED
  BY <1>2, <1>3, <1>4 DEF HeadersRead, s

\* What stands between the parts.
LEMMA SepStep ==
  ASSUME NEW q, NEW m, NEW d, NEW to, HeadersRead(q, m, d),
         \/ BeforeHeaders(q, m, d) /\ to = Len(m.url) + 1
         \/ \E j \in 1 .. Len(m.headers) :
              \/ KeyRead(q, m, j, d) /\ to = KeyEnd(m, j) + 1
              \/ ValueRead(q, m, j, d) /\ to = Off(m, j)
  PROVE  HeadersRead(q, m, to)
<1>1. CASE BeforeHeaders(q, m, d) /\ to = Len(m.url) + 1
  <2>1. BeforeHeaders(q, m, to)
    BY <1>1 DEF BeforeHeaders
  <2> QED
    BY <2>1 DEF HeadersRead
<1>2. ASSUME NEW j \in 1 .. Len(m.headers), KeyRead(q, m, j, d),
             to = KeyEnd(m, j) + 1
      PROVE  HeadersRead(q, m, to)
  <2>1. KeyRead(q, m, j, to)
    BY <1>2 DEF KeyRead
  <2> QED
    BY <2>1 DEF HeadersRead
<1>3. ASSUME NEW j \in 1 .. Len(m.headers), ValueRead(q, m, j, d), to = Off(m, j)
      PROVE  HeadersRead(q, m, to)
  <2>1. ValueRead(q, m, j, to)
    BY <1>3 DEF ValueRead
  <2> QED
    BY <2>1 DEF HeadersRead
<1> QED
  BY <1>1, <1>2, <1>3

HeadersStepped(h, m, n, d) ==
  LET to == SpanEnd(h, d + 1, n)
  IN  HeadersRead(Emit(h, h.read_buf[d + 1].part, d + 1, to).http, m, to)

\* One span further.
LEMMA HeadersStep ==
  ASSUME NEW h, NEW m, NEW n, NEW d, IsParser(h), h.llhttp.lex # "body",
         HeadIn(m, h.read_buf, n), HeadersRead(h.http, m, d), h.read_buf[d + 1].part # "end"
  PROVE  HeadersStepped(h, m, n, d)
<1> DEFINE R == h.read_buf
           q == h.http
           U == Len(m.url)
           H == Len(Head_(m))
           N == Len(m.headers)
           Goal == LET to == SpanEnd(h, d + 1, n)
                   IN  HeadersRead(Emit(h, R[d + 1].part, d + 1, to).http, m, to)
<1>1. /\ U \in Nat \ {0} /\ H \in Nat /\ U + 1 < H /\ N \in Nat /\ H = Off(m, N) + 1
      /\ R[1].part = "url" /\ Run(R, 1, U, n)
      /\ R[U + 1].part = "sep" /\ Run(R, U + 1, U + 1, n)
      /\ R[H].part = "end"
  BY HeadRuns
<1>2. m \in Request /\ m.bad = 0 /\ n \in Nat /\ H <= n
  BY DEF HeadIn
<1>3. Off(m, 0) = U + 1
  <2>1. 0 \in 0 .. N
    BY <1>1
  <2> QED
    BY <1>2, <2>1, OffLemma
<1>4. ASSUME NEW i \in 1 .. n, NEW j, Run(R, i, j, n) PROVE j = SpanEnd(h, i, n)
  BY <1>2, <1>4, RunEnd
<1>5. ASSUME NEW j \in 1 .. N
      PROVE  /\ Off(m, j - 1) \in Nat /\ KeyEnd(m, j) \in Nat /\ Off(m, j - 1) < KeyEnd(m, j)
             /\ Off(m, j) \in Nat
             /\ KeyEnd(m, j) + 2 < Off(m, j) /\ Off(m, j) < H
             /\ R[Off(m, j - 1) + 1].part = "key" /\ Run(R, Off(m, j - 1) + 1, KeyEnd(m, j), n)
             /\ R[KeyEnd(m, j) + 1].part = "sep" /\ Run(R, KeyEnd(m, j) + 1, KeyEnd(m, j) + 1, n)
             /\ R[KeyEnd(m, j) + 2].part = "value" /\ Run(R, KeyEnd(m, j) + 2, Off(m, j) - 1, n)
             /\ R[Off(m, j)].part = "sep" /\ Run(R, Off(m, j), Off(m, j), n)
  <2> DEFINE o == Off(m, j - 1)
             k == Len(m.headers[j][1])
             e == Off(m, j)
  <2>1. /\ o \in Nat /\ k \in Nat \ {0} /\ e \in Nat /\ o + k + 2 < e /\ e < H
        /\ HeaderRuns(R, o, k, e, n)
    BY LineRuns
  <2>2. KeyEnd(m, j) = o + k
    BY DEF KeyEnd
  <2> HIDE DEF o, k, e, H, R
  <2>3. KeyEnd(m, j) \in Nat /\ o < KeyEnd(m, j)
    BY <2>1, <2>2
  <2> QED
    BY <2>1, <2>2, <2>3 DEF HeaderRuns, o, e
<1>6. IsBuf(q.body) /\ IsBuf(q.header_key) /\ IsBuf(q.header_value)
  BY DEF HeadersRead
<1>7. R[d + 1].part # "end" /\ HeadersRead(q, m, d)
  OBVIOUS
<1> HIDE DEF R, U, H, N
<1>8. ASSUME BeforeHeaders(q, m, d), d = 0 PROVE Goal
  <2> DEFINE f == d + 1
  <2>1. f \in 1 .. n /\ f = 1
    BY <1>1, <1>2, <1>8
  <2>2. R[f].part = "url" /\ Run(R, f, U, n)
    BY <1>1, <2>1
  <2>3. BeforeHeaders(q, m, 0) /\ HeadersRead(q, m, 0)
    BY <1>7, <1>8
  <2> HIDE DEF f
  <2>4. SpanEnd(h, f, n) = U
    BY <1>4, <2>1, <2>2
  <2>5. HeadersRead(OnUrl(h, f, U).http, m, U)
    BY <2>3, UrlStep DEF U
  <2>6. OnUrl(h, f, U) = Emit(h, R[f].part, f, U)
    BY <2>2, EmitPart
  <2> QED
    BY <2>4, <2>5, <2>6 DEF f
<1>9. ASSUME BeforeHeaders(q, m, d), d = U PROVE Goal
  <2> DEFINE f == d + 1
  <2>1. f \in 1 .. n /\ f = U + 1
    BY <1>1, <1>2, <1>9
  <2>2. R[f].part = "sep" /\ Run(R, f, f, n)
    BY <1>1, <2>1
  <2>3. f = Len(m.url) + 1
    BY <2>1 DEF U
  <2> HIDE DEF f
  <2>4. SpanEnd(h, f, n) = f
    BY <1>4, <2>1, <2>2
  <2>5. HeadersRead(q, m, f)
    BY <1>7, <1>9, <2>3, SepStep
  <2>6. h = Emit(h, R[f].part, f, f)
    BY <2>2, EmitPart
  <2> QED
    BY <2>4, <2>5, <2>6 DEF f
<1>10. ASSUME NEW j \in 1 .. N, d = Off(m, j - 1),
              LET ends == q.last_was_value /\ q.header_key.len > 0
              IN  /\ ends \/ q.header_key.len = 0
                  /\ Bufs(m, j - 1) = IF ends THEN SaveCurrentHeader(h).http.headers ELSE q.headers
       PROVE  Goal
  <2> DEFINE f == d + 1
             t == KeyEnd(m, j)
  <2>1. f \in 1 .. n /\ f = Off(m, j - 1) + 1
    BY <1>1, <1>2, <1>5, <1>10
  <2>2. R[f].part = "key" /\ Run(R, f, t, n)
    BY <1>5, <2>1
  <2> HIDE DEF f, t
  <2>3. SpanEnd(h, f, n) = t
    BY <1>4, <2>1, <2>2
  <2>4. HeadersRead(OnHeaderKey(h, f, t).http, m, t)
    BY <1>6, <1>10, <2>1, KeyStep DEF t, N
  <2>5. OnHeaderKey(h, f, t) = Emit(h, R[f].part, f, t)
    BY <2>2, EmitPart
  <2> QED
    BY <2>3, <2>4, <2>5 DEF f
<1>11. ASSUME NEW j \in 1 .. N, KeyRead(q, m, j, d), d = KeyEnd(m, j) PROVE Goal
  <2> DEFINE f == d + 1
  <2>1. f \in 1 .. n /\ f = KeyEnd(m, j) + 1
    BY <1>1, <1>2, <1>5, <1>11
  <2>2. R[f].part = "sep" /\ Run(R, f, f, n)
    BY <1>5, <2>1
  <2> HIDE DEF f
  <2>3. SpanEnd(h, f, n) = f
    BY <1>4, <2>1, <2>2
  <2>4. HeadersRead(q, m, f)
    BY <1>7, <1>11, <2>1, SepStep DEF N
  <2>5. h = Emit(h, R[f].part, f, f)
    BY <2>2, EmitPart
  <2> QED
    BY <2>3, <2>4, <2>5 DEF f
<1>12. ASSUME NEW j \in 1 .. N, KeyRead(q, m, j, d), d = KeyEnd(m, j) + 1 PROVE Goal
  <2> DEFINE f == d + 1
             t == Off(m, j) - 1
  <2>1. f \in 1 .. n /\ f = KeyEnd(m, j) + 2
    BY <1>1, <1>2, <1>5, <1>12
  <2>2. R[f].part = "value" /\ Run(R, f, t, n)
    BY <1>5, <2>1
  <2> HIDE DEF f, t
  <2>3. SpanEnd(h, f, n) = t
    BY <1>4, <2>1, <2>2
  <2>4. HeadersRead(OnHeaderValue(h, f, t).http, m, t)
    BY <1>6, <1>12, <2>1, ValueStep DEF t, N
  <2>5. OnHeaderValue(h, f, t) = Emit(h, R[f].part, f, t)
    BY <2>2, EmitPart
  <2> QED
    BY <2>3, <2>4, <2>5 DEF f
<1>13. ASSUME NEW j \in 1 .. N, ValueRead(q, m, j, d), d = Off(m, j) - 1 PROVE Goal
  <2> DEFINE f == d + 1
  <2>1. f \in 1 .. n /\ f = Off(m, j)
    BY <1>1, <1>2, <1>5, <1>13
  <2>2. R[f].part = "sep" /\ Run(R, f, f, n)
    BY <1>5, <2>1
  <2> HIDE DEF f
  <2>3. SpanEnd(h, f, n) = f
    BY <1>4, <2>1, <2>2
  <2>4. HeadersRead(q, m, f)
    BY <1>7, <1>13, <2>1, SepStep DEF N
  <2>5. h = Emit(h, R[f].part, f, f)
    BY <2>2, EmitPart
  <2> QED
    BY <2>3, <2>4, <2>5 DEF f
<1>14. ASSUME BeforeHeaders(q, m, d), d = U + 1 PROVE Goal
  <2>1. N # 0
    BY <1>1, <1>3, <1>7, <1>14
  <2>2. 1 \in 1 .. N /\ 1 - 1 = 0 /\ d = Off(m, 0)
    BY <1>1, <1>3, <1>14, <2>1
  <2>3. q.header_key.len = 0 /\ q.headers = Bufs(m, 0)
    BY <1>14 DEF BeforeHeaders
  <2> DEFINE i == 1
  <2>4. i \in 1 .. N /\ d = Off(m, i - 1) /\ q.headers = Bufs(m, i - 1)
    BY <2>2, <2>3
  <2> HIDE DEF i, Goal
  <2>5. ~(q.header_key.len > 0)
    BY <2>3
  <2> QED
    BY <1>10, <2>3, <2>4, <2>5
<1>15. ASSUME NEW j \in 1 .. N, ValueRead(q, m, j, d), d = Off(m, j) PROVE Goal
  <2>1. q.last_was_value /\ q.header_key = KeyPart(m, j) /\ q.header_value = ValuePart(m, j)
        /\ q.headers = Bufs(m, j - 1)
    BY <1>15 DEF ValueRead
  <2>2. j # N
    BY <1>1, <1>7, <1>15
  <2>3. j + 1 \in 1 .. N /\ (j + 1) - 1 = j
    BY <1>1, <2>2
  <2>4. q.header_key.len > 0
    <3>1. q.header_key.len = KeyEnd(m, j) - (Off(m, j - 1) + 1) + 1
      BY <2>1 DEF KeyPart, Pointer
    <3>2. /\ Off(m, j - 1) \in Nat /\ KeyEnd(m, j) \in Nat /\ Off(m, j - 1) < KeyEnd(m, j)
      BY <1>5
    <3> QED
      BY <3>1, <3>2
  <2>5. SaveCurrentHeader(h).http.headers = Bufs(m, j)
    <3> DEFINE x == Append(q.headers, [key |-> q.header_key, value |-> q.header_value])
               g == SaveCurrentHeader(h).http
    <3>1. g = [q EXCEPT !.headers = x]
      BY SaveLemma DEF q
    <3>2. x = Bufs(m, j)
      <4>1. Append(Bufs(m, j - 1), [key |-> KeyPart(m, j), value |-> ValuePart(m, j)]) = Bufs(m, j)
        BY <1>2, BufsLemma DEF N
      <4> QED
        BY <2>1, <4>1
    <3> HIDE DEF x, g
    <3>3. g.headers = x
      BY <3>1 DEF IsParser, IsHttp, q
    <3> QED
      BY <3>2, <3>3 DEF g
  <2> DEFINE i == j + 1
  <2>6. i \in 1 .. N /\ d = Off(m, i - 1) /\ SaveCurrentHeader(h).http.headers = Bufs(m, i - 1)
    BY <1>15, <2>3, <2>5
  <2> HIDE DEF i, Goal
  <2> QED
    BY <1>10, <2>1, <2>4, <2>6
<1> HIDE DEF Goal, q
<1>16. ASSUME BeforeHeaders(q, m, d) PROVE Goal
  <2>1. d \in {0, U, U + 1}
    BY <1>16 DEF BeforeHeaders, U
  <2> QED
    BY <1>8, <1>9, <1>14, <1>16, <2>1
<1>17. ASSUME NEW j \in 1 .. N, KeyRead(q, m, j, d) PROVE Goal
  <2>1. d \in {KeyEnd(m, j), KeyEnd(m, j) + 1}
    BY <1>17 DEF KeyRead
  <2> QED
    BY <1>11, <1>12, <1>17, <2>1
<1>18. ASSUME NEW j \in 1 .. N, ValueRead(q, m, j, d) PROVE Goal
  <2>1. d \in {Off(m, j) - 1, Off(m, j)}
    BY <1>18 DEF ValueRead
  <2> QED
    BY <1>13, <1>15, <1>18, <2>1
<1>19. Goal
  <2>1. \/ BeforeHeaders(q, m, d)
        \/ \E j \in 1 .. N : KeyRead(q, m, j, d) \/ ValueRead(q, m, j, d)
    BY <1>7 DEF HeadersRead, N
  <2> QED
    BY <1>16, <1>17, <1>18, <2>1
<1> QED
  BY <1>19 DEF Goal, R, HeadersStepped

-----------------------------------------------------------------------------
(* A read of a request *)

\* What is known of a read of n cells, of which p were read before.
InPiece(m, p, n, R) ==
  /\ m \in Request /\ p \in Nat /\ n \in Nat \ {0} /\ p + n <= Len(Cells(m))
  /\ R \in Seq(AnyCell) /\ n <= Len(R)
  /\ \A k \in 1 .. n : R[k] = Cells(m)[p + k]

\* Behind the first a cells of s come those of R from i to j, and then there are b.
Follows(R, i, j, s, a, b) ==
  /\ s \in Seq(AnyCell) /\ R \in Seq(AnyCell) /\ a \in Nat /\ b \in Nat /\ a <= b /\ b <= Len(s)
  /\ i \in Nat \ {0} /\ j \in Nat /\ j <= Len(R) /\ j - i + 1 = b - a
  /\ \A k \in i .. j : R[k] = s[a + 1 + (k - i)]

Joined(R, i, j, s, a, b) ==
  /\ SubSeq(s, 1, a) \o SubSeq(R, i, j) = SubSeq(s, 1, b)
  /\ a = 0 => SubSeq(R, i, j) = SubSeq(s, 1, b)

\* Then they are the next cells of s.
LEMMA SubSeqNext ==
  ASSUME NEW s, NEW R, NEW a, NEW b, NEW i, NEW j, Follows(R, i, j, s, a, b)
  PROVE  Joined(R, i, j, s, a, b)
<1> DEFINE x == SubSeq(s, 1, a)
           y == SubSeq(R, i, j)
           z == SubSeq(s, 1, b)
           c == x \o y
<1>0. /\ s \in Seq(AnyCell) /\ R \in Seq(AnyCell) /\ a \in Nat /\ b \in Nat /\ a <= b /\ b <= Len(s)
      /\ i \in Nat \ {0} /\ j \in Nat /\ j <= Len(R) /\ j - i + 1 = b - a
      /\ \A k \in i .. j : R[k] = s[a + 1 + (k - i)]
  BY DEF Follows
<1>1. Len(s) \in Nat /\ Len(R) \in Nat
  BY <1>0, LenProperties
<1>2. \A k \in 1 .. b : s[k] \in AnyCell
  BY <1>0, <1>1, ElementOfSeq
<1>3. x \in Seq(AnyCell) /\ Len(x) = a /\ \A k \in 1 .. a : x[k] = s[k]
  <2>1. \A k \in 1 .. a : s[k] \in AnyCell
    BY <1>0, <1>2
  <2> QED
    BY <1>0, <1>1, <2>1, SubSeqProperties
<1>4. z \in Seq(AnyCell) /\ Len(z) = b /\ \A k \in 1 .. b : z[k] = s[k]
  BY <1>0, <1>1, <1>2, SubSeqProperties
<1>5. y \in Seq(AnyCell) /\ Len(y) = b - a /\ \A k \in 1 .. b - a : y[k] = R[i + k - 1]
  <2>1. \A k \in i .. j : R[k] \in AnyCell
    BY <1>0, <1>1, ElementOfSeq
  <2>2. y \in Seq(AnyCell) /\ Len(y) = (IF i <= j THEN j - i + 1 ELSE 0)
        /\ \A k \in 1 .. Len(y) : y[k] = R[i + k - 1]
    BY <1>0, <1>1, <2>1, SubSeqProperties
  <2> HIDE DEF y
  <2>3. Len(y) = b - a
    BY <1>0, <2>2
  <2> QED
    BY <2>2, <2>3
<1> HIDE DEF x, y, z
<1>6. \A k \in 1 .. b - a : y[k] = s[a + k]
  <2> SUFFICES ASSUME NEW k \in 1 .. b - a PROVE y[k] = s[a + k]
    OBVIOUS
  <2>1. i + k - 1 \in i .. j /\ a + 1 + ((i + k - 1) - i) = a + k
    BY <1>0
  <2> QED
    BY <1>0, <1>5, <2>1
<1>7. /\ c \in Seq(AnyCell) /\ Len(c) = b
      /\ \A k \in 1 .. b : c[k] = IF k <= a THEN x[k] ELSE y[k - a]
  <2>0. x \in Seq(AnyCell) /\ y \in Seq(AnyCell)
    BY <1>3, <1>5
  <2>1. c \in Seq(AnyCell) /\ Len(c) = Len(x) + Len(y)
        /\ \A k \in 1 .. Len(x) + Len(y) : c[k] = IF k <= Len(x) THEN x[k] ELSE y[k - Len(x)]
    BY <2>0, ConcatProperties
  <2> HIDE DEF c
  <2>2. Len(x) + Len(y) = b
    BY <1>0, <1>3, <1>5
  <2> QED
    BY <1>3, <2>1, <2>2
<1> HIDE DEF c
<1>8. c = z
  <2>1. ASSUME NEW k \in 1 .. b PROVE c[k] = z[k]
    <3>1. CASE k <= a
      <4>1. k \in 1 .. a
        BY <1>0, <3>1
      <4> QED
        BY <1>3, <1>4, <1>7, <3>1, <4>1
    <3>2. CASE ~(k <= a)
      <4>1. k - a \in 1 .. b - a /\ a + (k - a) = k
        BY <1>0, <3>2
      <4> QED
        BY <1>4, <1>6, <1>7, <3>2, <4>1
    <3> QED
      BY <3>1, <3>2
  <2> QED
    BY <1>4, <1>7, <2>1, SeqEqual
<1>9. a = 0 => y = z
  <2> SUFFICES ASSUME a = 0 PROVE y = z
    OBVIOUS
  <2>1. Len(y) = b /\ \A k \in 1 .. b : y[k] = z[k]
    BY <1>4, <1>5, <1>6
  <2> QED
    BY <1>4, <1>5, <2>1, SeqEqual
<1> QED
  BY <1>8, <1>9 DEF x, y, z, c, Joined

\* The next piece of the URL.
LEMMA UrlSpan ==
  ASSUME NEW h, NEW m, NEW p, NEW n, NEW d \in Nat, NEW to \in d + 1 .. n,
         IsParser(h), InPiece(m, p, n, h.read_buf), UrlRead(h, m, p + d),
         \A k \in d + 1 .. to : h.read_buf[k].part = "url"
  PROVE  /\ p + to <= Len(m.url) /\ Len(m.url) \in Nat
         /\ OnUrl(h, d + 1, to).http.url =
              [at |-> 0, len |-> p + to, cells |-> SubSeq(m.url, 1, p + to)]
<1> DEFINE R == h.read_buf
           U == Len(m.url)
           C == Cells(m)
           u == m.url
           i == d + 1
           a == p + d
           b == p + to
           q == h.http.url
<1>1. /\ m \in Request /\ p \in Nat /\ n \in Nat \ {0} /\ p + n <= Len(C) /\ R \in Seq(AnyCell)
      /\ n <= Len(R) /\ \A k \in 1 .. n : R[k] = C[p + k]
  BY DEF InPiece
<1>2. Len(C) \in Nat /\ Len(R) \in Nat
  BY <1>1, CellsLayout, LenProperties
<1>3. u \in Seq(AnyCell) /\ U \in Nat
  <2>1. u \in Text("url")
    BY <1>1, RequestLemma
  <2> QED
    BY <2>1, TextLemma
<1>4. ASSUME NEW k \in i .. to PROVE p + k <= U /\ R[k] = u[p + k]
  <2>1. k \in 1 .. n /\ p + k \in 1 .. Len(C) /\ k \in d + 1 .. to
    BY <1>1, <1>2
  <2>2. R[k] = C[p + k] /\ R[k].part = "url"
    BY <1>1, <2>1
  <2> QED
    BY <1>1, <2>1, <2>2, CellPart
<1>5. /\ a \in Nat /\ b \in Nat /\ a <= b /\ b <= U /\ a < U /\ i \in Nat \ {0} /\ to \in Nat
      /\ to <= Len(R) /\ to - i + 1 = b - a
  <2>1. to \in i .. to /\ to \in Nat /\ a \in Nat /\ b \in Nat /\ a < b /\ to <= Len(R)
    BY <1>1, <1>2
  <2>2. b <= U
    BY <1>4, <2>1
  <2>3. a < U
    BY <1>3, <2>1, <2>2
  <2>4. to - i + 1 = b - a
    BY <1>1
  <2>5. i \in Nat \ {0} /\ a <= b
    BY <2>1
  <2> QED
    BY <2>1, <2>2, <2>3, <2>4, <2>5
<1>6. Follows(R, i, to, u, a, b)
  <2>1. ASSUME NEW k \in i .. to PROVE R[k] = u[a + 1 + (k - i)]
    <3>1. a + 1 + (k - i) = p + k
      <4>1. p \in Nat /\ d \in Nat /\ k \in Int
        BY <1>1
      <4> HIDE DEF R, U, C, u, q
      <4> QED
        BY <4>1
    <3> QED
      BY <1>4, <3>1
  <2> QED
    BY <1>1, <1>3, <1>5, <2>1 DEF Follows
<1>7. q = [at |-> 0, len |-> a, cells |-> SubSeq(u, 1, a)]
  BY <1>5 DEF UrlRead
<1> DEFINE x == SubSeq(R, i, to)
<1> HIDE DEF R, U, C, u, i, a, b, q
<1>8. /\ SubSeq(u, 1, a) \o x = SubSeq(u, 1, b)
      /\ a = 0 => x = SubSeq(u, 1, b)
  <2>1. Joined(R, i, to, u, a, b)
    BY <1>6, SubSeqNext
  <2> QED
    BY <2>1 DEF Joined, x
<1>9. OnUrl(h, i, to).http.url = IF q.len = 0 THEN CopyBuf(h, i, to) ELSE SetBuf(h, q, i, to)
  <2> DEFINE y == IF q.len = 0 THEN CopyBuf(h, i, to) ELSE SetBuf(h, q, i, to)
             s == OnUrl(h, i, to).http
  <2>1. s = [h.http EXCEPT !.url = y]
    BY OnUrlLemma DEF q
  <2> HIDE DEF y, s
  <2>2. s.url = y
    BY <2>1 DEF IsParser, IsHttp
  <2> QED
    BY <2>2 DEF s, y
<1>10. q.len = a /\ q.at = 0 /\ q.cells = SubSeq(u, 1, a)
  BY <1>7
<1>11. Value(q, R) = SubSeq(u, 1, a)
  BY <1>10 DEF Value
<1>12. CopyBuf(h, i, to) = [at |-> 0, len |-> b - a, cells |-> x]
  BY <1>5 DEF CopyBuf, R
<1>13. q.len > 0 => SetBuf(h, q, i, to) = [at |-> 0, len |-> b, cells |-> SubSeq(u, 1, a) \o x]
  <2>1. a + to - i + 1 = b
    BY <1>5
  <2>2. q.len + to - i + 1 = b
    BY <1>10, <2>1
  <2> QED
    BY <1>11, <2>2 DEF SetBuf, R
<1> HIDE DEF x
<1>14. OnUrl(h, i, to).http.url = [at |-> 0, len |-> b, cells |-> SubSeq(u, 1, b)]
  <2>1. CASE a = 0
    <3>1. b - a = b /\ q.len = 0 /\ x = SubSeq(u, 1, b)
      BY <1>5, <1>8, <1>10, <2>1
    <3> QED
      BY <1>9, <1>12, <3>1
  <2>2. CASE a # 0
    <3> DEFINE y == SubSeq(u, 1, a) \o x
    <3>1. q.len > 0 /\ ~(q.len = 0)
      BY <1>5, <1>10, <2>2
    <3>2. y = SubSeq(u, 1, b) /\ (q.len > 0 => SetBuf(h, q, i, to) = [at |-> 0, len |-> b, cells |-> y])
      BY <1>8, <1>13
    <3> HIDE DEF y
    <3> QED
      BY <1>9, <3>1, <3>2
  <2> QED
    BY <2>1, <2>2
<1> QED
  BY <1>3, <1>5, <1>14 DEF u, U, i, b

\* What follows leaves the URL as it is.
LEMMA EmitKeepsUrl ==
  ASSUME NEW h, NEW part \in {"sep", "key", "value"}, NEW from, NEW to, IsParser(h)
  PROVE  Emit(h, part, from, to).http.url = h.http.url
<1>1. OnHeaderKey(h, from, to).http.url = h.http.url
  BY OnHeaderKeyLemma, SMTT(30) DEF KeyTaken
<1>2. OnHeaderValue(h, from, to).http.url = h.http.url
  <2> DEFINE x == SetBuf(h, h.http.header_value, from, to)
             p == [h.http EXCEPT !.header_value = x]
             r == [p EXCEPT !.last_was_value = TRUE]
  <2>1. OnHeaderValue(h, from, to).http = r
    <3>1. OnHeaderValue(h, from, to).http = WithValue(h.http, x)
      BY OnHeaderValueLemma
    <3> HIDE DEF x
    <3> QED
      BY <3>1 DEF WithValue
  <2> HIDE DEF x
  <2>2. IsHttp(p) /\ p.url = h.http.url
    BY DEF IsParser, IsHttp
  <2> HIDE DEF p
  <2>3. r.url = p.url
    BY <2>2, FlagSet
  <2> HIDE DEF r
  <2> QED
    BY <2>1, <2>2, <2>3
<1>3. /\ Emit(h, "key", from, to) = OnHeaderKey(h, from, to)
      /\ Emit(h, "value", from, to) = OnHeaderValue(h, from, to)
      /\ Emit(h, "sep", from, to) = h
  BY EmitPart
<1> QED
  BY <1>1, <1>2, <1>3

\* In the head of a request, d cells of the piece were parsed.
InHead(h, m, p, R, d) ==
  /\ IsParser(h) /\ ~h.llhttp.error /\ h.llhttp.lex # "body" /\ h.handed = <<>> /\ h.read_buf = R
  /\ UrlRead(h, m, p + d)
  /\ d \in Nat /\ p + d < Len(Head_(m)) /\ p + d < Len(Cells(m))

\* A span before the end of the head.
HeadStepped(h, m, p, n, R, d) ==
  LET to == SpanEnd(h, d + 1, n)
      s == Span(h, d + 1, to)
      part == R[d + 1].part
  IN  /\ to \in d + 1 .. n /\ IsParser(s)
      /\ \/ s.llhttp.error
         \/ /\ InHead(s, m, p, R, to) /\ part # "end"
            /\ s.http = Emit(h, part, d + 1, to).http

\* Each span before the end of the head is one of the URL or leaves it.
LEMMA HeadStep ==
  ASSUME NEW h, NEW m, NEW p, NEW n, NEW R, NEW d, InPiece(m, p, n, R), InHead(h, m, p, R, d), d < n,
         ~(h.llhttp.lex = "line" /\ R[d + 1].part = "end")
  PROVE  HeadStepped(h, m, p, n, R, d)
<1> DEFINE i == d + 1
           to == SpanEnd(h, i, n)
           s == Span(h, i, to)
           part == R[i].part
           C == Cells(m)
           H == Len(Head_(m))
           U == Len(m.url)
<1>1. /\ m \in Request /\ p \in Nat /\ n \in Nat \ {0} /\ p + n <= Len(C) /\ R \in Seq(AnyCell)
      /\ n <= Len(R) /\ \A k \in 1 .. n : R[k] = C[p + k]
  BY DEF InPiece
<1>2. /\ Len(C) \in Nat /\ H \in Nat /\ U \in Nat /\ m.bad \in Nat
      /\ m.bad = 0 => H <= Len(C)
      /\ m.bad # 0 => Len(C) <= H
  <2>1. /\ C \in Seq(AnyCell) /\ H \in Nat /\ m.bad \in Nat /\ Len(m.body) \in Nat
        /\ m.bad = 0 => Len(C) = H + Len(m.body)
        /\ m.bad # 0 => Len(C) = m.bad + 1 /\ m.bad < H
    BY <1>1, CellsLayout
  <2>2. U \in Nat
    <3>1. 0 \in 0 .. Len(m.headers)
      BY <1>1, RequestLemma
    <3> QED
      BY <1>1, <3>1, OffLemma
  <2>3. Len(C) \in Nat
    BY <2>1, LenProperties
  <2> HIDE DEF C, H
  <2> QED
    BY <2>1, <2>2, <2>3
<1>3. /\ IsParser(h) /\ ~h.llhttp.error /\ h.llhttp.lex # "body" /\ h.handed = <<>> /\ h.read_buf = R
      /\ UrlRead(h, m, p + d) /\ d \in Nat /\ p + d < H /\ p + d < Len(C)
  BY DEF InHead
<1>4. i \in 1 .. n /\ i \in Nat /\ p + i \in 1 .. Len(C)
  BY <1>1, <1>2, <1>3
<1>5. Run(R, i, to, n)
  <2> HIDE DEF i
  <2> QED
    BY <1>1, <1>3, <1>4, RunEnd
<1>6. \A k \in 1 .. Len(C) :
        LET c == C[k]
        IN  /\ k <= U => c.part \in {"url", "bad"}
            /\ m.bad = 0 /\ k = H => c.part = "end"
            /\ m.bad # 0 => k <= H /\ (k = Len(C) => c.part = "bad")
  BY <1>1, CellPart
<1> HIDE DEF to, s, C, H, U
<1>7. to \in i .. n /\ \A k \in i .. to : R[k].part = part
  BY <1>5 DEF Run
<1>8. /\ IsParser(s) /\ s.read_buf = R
      /\ \/ s.llhttp.error
         \/ /\ s.llhttp.lex # "body" /\ s.http = Emit(h, part, i, to).http
            /\ s.handed = <<>> /\ part \in {"url", "sep", "key", "value"} /\ ~s.llhttp.error
  <2> HIDE DEF i
  <2>1. ~(h.llhttp.lex = "line" /\ h.read_buf[i].part = "end")
    BY <1>3 DEF i
  <2> QED
    BY <1>3, <2>1, HeadSpan DEF s
<1>9. ASSUME ~s.llhttp.error
      PROVE  InHead(s, m, p, R, to) /\ part # "end" /\ s.http = Emit(h, part, i, to).http
  <2>1. /\ s.llhttp.lex # "body" /\ s.http = Emit(h, part, i, to).http
        /\ s.handed = <<>> /\ part \in {"url", "sep", "key", "value"}
    BY <1>8, <1>9
  <2>2. \A k \in p + i .. p + to : C[k].part = part
    <3> SUFFICES ASSUME NEW k \in p + i .. p + to PROVE C[k].part = part
      OBVIOUS
    <3>1. k - p \in i .. to /\ k - p \in 1 .. n /\ p + (k - p) = k
      <4>1. k \in Int /\ p \in Int /\ i \in Int /\ to \in Int /\ n \in Int /\ 1 <= i /\ to <= n
        BY <1>1, <1>4, <1>7
      <4> HIDE DEF i
      <4> QED
        BY <4>1
    <3> QED
      BY <1>1, <1>7, <3>1, SMTT(30)
  <2>3. /\ p + i \in Nat /\ p + to \in Nat /\ p + i <= p + to /\ p + to <= Len(C) /\ to \in Nat
        /\ p + i = p + d + 1
    <3>1. p \in Nat /\ n \in Nat /\ p + n <= Len(C) /\ Len(C) \in Nat /\ d \in Nat
      BY <1>1, <1>2, <1>3
    <3>2. to \in i .. n /\ i \in Nat
      BY <1>4, <1>7
    <3> QED
      BY <3>1, <3>2
  <2>4. p + to < H /\ p + to < Len(C)
    <3>1. CASE m.bad = 0
      <4>1. ~(H \in p + i .. p + to)
        <5> SUFFICES ASSUME H \in p + i .. p + to PROVE FALSE
          OBVIOUS
        <5>1. H \in 1 .. Len(C)
          BY <1>2, <1>4, <2>3
        <5> QED
          BY <1>6, <2>1, <2>2, <3>1, <5>1
      <4>2. p + to < H
        BY <1>1, <1>2, <1>3, <2>3, <4>1
      <4> QED
        BY <1>2, <2>3, <3>1, <4>2
    <3>2. CASE m.bad # 0
      <4>1. ~(Len(C) \in p + i .. p + to)
        <5> SUFFICES ASSUME Len(C) \in p + i .. p + to PROVE FALSE
          OBVIOUS
        <5>1. Len(C) \in 1 .. Len(C)
          BY <1>2, <1>4, <2>3
        <5> QED
          BY <1>6, <2>1, <2>2, <3>2, <5>1
      <4>2. p + to < Len(C)
        BY <1>2, <1>3, <2>3, <4>1
      <4> QED
        BY <1>2, <2>3, <3>2, <4>2
    <3> QED
      BY <3>1, <3>2
  <2>5. UrlRead(s, m, p + to)
    <3>1. CASE part = "url"
      <4>1. \A k \in d + 1 .. to : h.read_buf[k].part = "url"
        BY <1>3, <1>7, <3>1
      <4>2. InPiece(m, p, n, h.read_buf) /\ to \in d + 1 .. n
        BY <1>3, <1>7
      <4>3. /\ p + to <= U /\ U \in Nat
            /\ OnUrl(h, i, to).http.url =
                 [at |-> 0, len |-> p + to, cells |-> SubSeq(m.url, 1, p + to)]
        <5> HIDE DEF part
        <5> QED
          BY <1>3, <4>1, <4>2, UrlSpan DEF U
      <4>4. s.http.url = OnUrl(h, i, to).http.url
        BY <2>1, <3>1, EmitPart
      <4> DEFINE y == p + to
                 z == IF y < U THEN y ELSE U
      <4>5. z = y
        BY <2>3, <4>3
      <4> HIDE DEF y, z, i
      <4>6. s.http.url = [at |-> 0, len |-> z, cells |-> SubSeq(m.url, 1, z)]
        BY <4>3, <4>4, <4>5 DEF y
      <4> QED
        BY <4>6 DEF UrlRead, z, y, U
    <3>2. CASE part # "url"
      <4>1. ~(p + i <= U)
        <5>1. C[p + i].part = part
          BY <2>2, <2>3
        <5> QED
          BY <1>4, <1>6, <2>1, <3>2, <5>1
      <4>2. s.http.url = h.http.url
        <5>1. part \in {"sep", "key", "value"}
          BY <2>1, <3>2
        <5> HIDE DEF part, i
        <5> QED
          BY <1>3, <2>1, <5>1, EmitKeepsUrl
      <4> DEFINE y == IF p + d < U THEN p + d ELSE U
                 z == IF p + to < U THEN p + to ELSE U
      <4>3. y = U /\ z = U
        BY <1>1, <1>2, <1>3, <2>3, <4>1
      <4>4. h.http.url = [at |-> 0, len |-> y, cells |-> SubSeq(m.url, 1, y)]
        BY <1>3 DEF UrlRead, U
      <4> HIDE DEF y, z
      <4>5. s.http.url = [at |-> 0, len |-> z, cells |-> SubSeq(m.url, 1, z)]
        BY <4>2, <4>3, <4>4
      <4> QED
        BY <4>5 DEF UrlRead, z, U
    <3> QED
      BY <3>1, <3>2
  <2> QED
    BY <1>8, <1>9, <2>1, <2>3, <2>4, <2>5 DEF InHead, C, H
<1> QED
  BY <1>7, <1>8, <1>9 DEF to, s, HeadStepped

\* At the end of the headers all are there.
LEMMA HeadersEnd ==
  ASSUME NEW h, NEW m, NEW n, IsParser(h), HeadIn(m, h.read_buf, n),
         HeadersRead(h.http, m, Len(Head_(m)) - 1)
  PROVE  AllHeaders(h) = Bufs(m, Len(m.headers))
<1> DEFINE q == h.http
           N == Len(m.headers)
           R == h.read_buf
           d == Len(Head_(m)) - 1
           U == Len(m.url)
<1>1. m \in Request /\ N \in Nat /\ U \in Nat /\ d = Off(m, N) /\ d \in Nat
      /\ Off(m, 0) = U + 1 /\ U \in Nat \ {0}
  <2>1. U \in Nat \ {0} /\ N \in Nat /\ Len(Head_(m)) = Off(m, N) + 1 /\ m \in Request
    BY HeadRuns DEF HeadIn
  <2>2. 0 \in 0 .. N /\ N \in 0 .. N
    BY <2>1
  <2>3. Off(m, N) \in Nat /\ Off(m, 0) = U + 1
    BY <2>1, <2>2, OffLemma
  <2> QED
    BY <2>1, <2>3
<1>2. ASSUME NEW j \in 1 .. N
      PROVE  /\ Off(m, j - 1) \in Nat /\ KeyEnd(m, j) \in Nat /\ Off(m, j) \in Nat
             /\ U < Off(m, j - 1)
             /\ Off(m, j - 1) < KeyEnd(m, j) /\ KeyEnd(m, j) + 2 < Off(m, j) /\ Off(m, j) <= d
             /\ j < N => Off(m, j) < d
  <2> DEFINE o == Off(m, j - 1)
             k == Len(m.headers[j][1])
             e == Off(m, j)
  <2>1. o \in Nat /\ k \in Nat \ {0} /\ e \in Nat /\ o + k + 2 < e /\ e < Len(Head_(m))
        /\ Len(Head_(m)) \in Nat
    BY LineRuns
  <2>2. KeyEnd(m, j) = o + k
    BY DEF KeyEnd
  <2>3. U < o
    <3>1. j - 1 \in 0 .. N
      BY <1>1
    <3> HIDE DEF N
    <3>2. U < Off(m, j - 1)
      <4> DEFINE i == j - 1
      <4>1. i \in 0 .. N
        BY <3>1
      <4> HIDE DEF i
      <4>2. U < Off(m, i)
        BY <1>1, <4>1, OffLemma DEF N
      <4> QED
        BY <4>2 DEF i
    <3> QED
      BY <3>2
  <2>4. ASSUME j < N PROVE e < d
    <3> DEFINE i == j + 1
               k2 == Len(m.headers[i][1])
               e2 == Off(m, i)
    <3>1. i \in 1 .. N /\ i - 1 = j
      BY <1>1, <2>4
    <3> HIDE DEF i
    <3>2. Off(m, i - 1) \in Nat /\ k2 \in Nat \ {0} /\ e2 \in Nat /\ Off(m, i - 1) + k2 + 2 < e2
          /\ e2 < Len(Head_(m)) /\ Len(Head_(m)) \in Nat
      BY <3>1, LineRuns
    <3>3. Off(m, i - 1) = e
      BY <3>1
    <3> HIDE DEF k2, e2, e, d
    <3> QED
      BY <3>2, <3>3 DEF d
  <2> HIDE DEF o, k, e
  <2>5. e <= d
    BY <2>1
  <2>6. KeyEnd(m, j) \in Nat /\ o < KeyEnd(m, j) /\ KeyEnd(m, j) + 2 < e
    BY <2>1, <2>2
  <2> QED
    BY <2>1, <2>3, <2>4, <2>5, <2>6 DEF o, e
<1>3. \/ BeforeHeaders(q, m, d)
      \/ \E j \in 1 .. N : KeyRead(q, m, j, d) \/ ValueRead(q, m, j, d)
  BY DEF HeadersRead
<1>4. CASE BeforeHeaders(q, m, d)
  <2>1. d \in {0, U, U + 1} /\ q.headers = Bufs(m, 0) /\ q.header_key.len = 0
    BY <1>4 DEF BeforeHeaders
  <2>2. N = 0
    <3> SUFFICES ASSUME N # 0 PROVE FALSE
      OBVIOUS
    <3>1. N \in 1 .. N
      BY <1>1
    <3> HIDE DEF d, N, U
    <3> QED
      BY <1>1, <1>2, <2>1, <3>1
  <2> HIDE DEF N, d
  <2> QED
    BY <2>1, <2>2 DEF AllHeaders, N
<1>5. ASSUME NEW j \in 1 .. N, KeyRead(q, m, j, d) PROVE FALSE
  <2>1. d \in {KeyEnd(m, j), KeyEnd(m, j) + 1}
    BY <1>5 DEF KeyRead
  <2> HIDE DEF d, N, U
  <2> QED
    BY <1>1, <1>2, <2>1
<1>6. ASSUME NEW j \in 1 .. N, ValueRead(q, m, j, d) PROVE AllHeaders(h) = Bufs(m, N)
  <2>1. /\ d \in {Off(m, j) - 1, Off(m, j)}
        /\ q.headers = Bufs(m, j - 1) /\ q.header_key = KeyPart(m, j)
        /\ q.header_value = ValuePart(m, j)
    BY <1>6 DEF ValueRead
  <2>2. q.header_key.len = KeyEnd(m, j) - (Off(m, j - 1) + 1) + 1
    BY <2>1 DEF KeyPart, Pointer
  <2>3. q.header_value.len = (Off(m, j) - 1) - (KeyEnd(m, j) + 2) + 1
    BY <2>1 DEF ValuePart, Pointer
  <2> HIDE DEF d, U
  <2>4. j = N
    <3>1. j < N => Off(m, j) < d
      BY <1>2
    <3>2. Off(m, j) \in Nat /\ Off(m, j) <= d
      BY <1>2
    <3>3. j \in 1 .. N
      OBVIOUS
    <3> HIDE DEF N
    <3> QED
      BY <1>1, <2>1, <3>1, <3>2, <3>3
  <2>5. q.header_key.len > 0
    BY <1>2, <2>2
  <2>6. q.header_value.len > 0
    BY <1>2, <2>3
  <2> DEFINE x == Append(q.headers, [key |-> q.header_key, value |-> q.header_value])
             g == SaveCurrentHeader(h).http
  <2>7. g = [q EXCEPT !.headers = x]
    BY SaveLemma DEF q
  <2>8. x = Bufs(m, j)
    <3>1. Append(Bufs(m, j - 1), [key |-> KeyPart(m, j), value |-> ValuePart(m, j)]) = Bufs(m, j)
      BY <1>1, BufsLemma DEF N
    <3> QED
      BY <2>1, <3>1
  <2> HIDE DEF x, g
  <2>9. g.headers = x
    BY <2>7 DEF IsParser, IsHttp, q
  <2> QED
    BY <2>4, <2>5, <2>6, <2>8, <2>9 DEF AllHeaders, g
<1> HIDE DEF q, N, d
<1>7. AllHeaders(h) = Bufs(m, N)
  BY <1>3, <1>4, <1>5, <1>6 DEF N
<1> QED
  BY <1>7 DEF N

\* A header in the read buffer.
LEMMA HeaderIn ==
  ASSUME NEW m, NEW R, NEW n, HeadIn(m, R, n), NEW j \in 1 .. Len(m.headers)
  PROVE  HeaderAt(R, Off(m, j - 1), Off(m, j), m.headers[j][1], m.headers[j][2])
<1> DEFINE o == Off(m, j - 1)
           e == Off(m, j)
           key == m.headers[j][1]
           value == m.headers[j][2]
           C == Cells(m)
           H == Len(Head_(m))
<1>1. m \in Request /\ m.bad = 0 /\ n \in Nat /\ H <= n /\ \A i \in 1 .. n : R[i] = C[i]
  BY DEF HeadIn
<1>2. HeaderAt(C, o, e, key, value)
  BY <1>1, HeaderLayout
<1>3. H \in Nat /\ e \in Nat /\ e < H
  BY LineRuns
<1> HIDE DEF o, e, key, value, C, H
<1>4. \A i \in 1 .. e : R[i] = C[i]
  BY <1>1, <1>3
<1>5. /\ o \in Nat /\ Len(key) \in Nat \ {0} /\ Len(value) \in Nat \ {0}
      /\ e = o + Len(key) + Len(value) + 2
  BY <1>2 DEF HeaderAt
<1>6. \A i \in 1 .. Len(key) : o + i \in 1 .. e
  BY <1>5
<1>7. o + Len(key) + 1 \in 1 .. e /\ e \in 1 .. e
  BY <1>5
<1>8. \A i \in 1 .. Len(value) : o + Len(key) + 1 + i \in 1 .. e
  BY <1>5
<1>9. HeaderAt(R, o, e, key, value)
  BY <1>2, <1>4, <1>5, <1>6, <1>7, <1>8 DEF HeaderAt
<1> QED
  BY <1>9 DEF o, e, key, value

\* All of a sequence.
LEMMA WholeSeq ==
  ASSUME NEW s \in Seq(AnyCell)
  PROVE  SubSeq(s, 1, Len(s)) = s
<1> DEFINE t == SubSeq(s, 1, Len(s))
<1>1. Len(s) \in Nat /\ \A k \in 1 .. Len(s) : s[k] \in AnyCell
  BY LenProperties, ElementOfSeq
<1>2. t \in Seq(AnyCell) /\ Len(t) = Len(s) /\ \A k \in 1 .. Len(s) : t[k] = s[k]
  BY <1>1, SubSeqProperties
<1> HIDE DEF t
<1>3. t = s
  BY <1>2, SeqEqual
<1> QED
  BY <1>3 DEF t

\* A pointer to the cells from i to j, where s is.
LEMMA PointerValue ==
  ASSUME NEW s \in Seq(AnyCell), NEW B \in Seq(AnyCell), NEW i \in Nat \ {0}, NEW j \in Nat,
         j <= Len(B), j - i + 1 = Len(s), \A k \in 1 .. Len(s) : B[i + k - 1] = s[k]
  PROVE  Value(Pointer(i, j), B) = s
<1>1. Len(s) \in Nat
  BY LenProperties
<1> DEFINE b == Len(s)
<1>2. Follows(B, i, j, s, 0, b)
  <2>1. ASSUME NEW k \in i .. j PROVE B[k] = s[0 + 1 + (k - i)]
    <3> DEFINE l == k - i + 1
    <3>1. l \in 1 .. Len(s) /\ 0 + 1 + (k - i) = l /\ i + l - 1 = k
      BY <1>1
    <3> HIDE DEF l
    <3> QED
      BY <3>1
  <2>2. s \in Seq(AnyCell) /\ B \in Seq(AnyCell) /\ 0 \in Nat /\ b \in Nat /\ 0 <= b /\ b <= Len(s)
    BY <1>1
  <2>3. i \in Nat \ {0} /\ j \in Nat /\ j <= Len(B) /\ j - i + 1 = b - 0
    BY <1>1
  <2> HIDE DEF b
  <2> QED
    BY <2>1, <2>2, <2>3 DEF Follows
<1>3. SubSeq(B, i, j) = SubSeq(s, 1, b)
  BY <1>2, SubSeqNext DEF Joined
<1>4. SubSeq(s, 1, b) = s
  BY WholeSeq
<1> DEFINE p == Pointer(i, j)
<1>5. p.at = i /\ p.len = j - i + 1
  BY DEF Pointer
<1>6. p.at # 0 /\ p.at + p.len - 1 = j
  BY <1>5
<1> HIDE DEF p
<1>7. Value(p, B) = SubSeq(B, i, j)
  BY <1>5, <1>6 DEF Value
<1> QED
  BY <1>3, <1>4, <1>7 DEF p

\* What on_url gets of the headers, as long as no cell of theirs is overwritten.
Kept(B, R, n) ==
  /\ B \in Seq(AnyCell) /\ n <= Len(B)
  /\ \A k \in 1 .. n : R[k].part # "sep" => B[k] = R[k]

\* What a saved header points to.
LEMMA HeaderHanded ==
  ASSUME NEW m, NEW R, NEW n, HeadIn(m, R, n), NEW B, Kept(B, R, n), NEW j \in 1 .. Len(m.headers)
  PROVE  /\ Value(KeyPart(m, j), B) = m.headers[j][1]
         /\ Value(ValuePart(m, j), B) = m.headers[j][2]
         /\ m.headers[j] = <<m.headers[j][1], m.headers[j][2]>>
<1> DEFINE o == Off(m, j - 1)
           e == Off(m, j)
           key == m.headers[j][1]
           value == m.headers[j][2]
           H == Len(Head_(m))
           f == KeyEnd(m, j)
<1>1. m \in Request /\ n \in Nat /\ H <= n
  BY DEF HeadIn
<1>2. /\ m.headers[j] = <<key, value>> /\ key \in Text("key") /\ value \in Text("value")
  BY <1>1, RequestLemma
<1>3. H \in Nat /\ e \in Nat /\ e < H
  BY LineRuns
<1>4. HeaderAt(R, o, e, key, value)
  BY HeaderIn
<1>5. f = o + Len(key)
  BY DEF KeyEnd
<1>6. KeyPart(m, j) = Pointer(o + 1, f) /\ ValuePart(m, j) = Pointer(f + 2, e - 1)
  BY DEF KeyPart, ValuePart
<1> HIDE DEF o, e, key, value, H, f
<1>7. key \in Seq(AnyCell) /\ value \in Seq(AnyCell)
  BY <1>2, TextLemma
<1>8. B \in Seq(AnyCell) /\ n <= Len(B) /\ Len(B) \in Nat
  BY LenProperties DEF Kept
<1>9. /\ o \in Nat /\ Len(key) \in Nat \ {0} /\ Len(value) \in Nat \ {0}
      /\ e = o + Len(key) + Len(value) + 2
  BY <1>4 DEF HeaderAt
<1>10. ASSUME NEW k \in 1 .. Len(key) PROVE B[o + 1 + k - 1] = key[k]
  <2>1. o + k \in 1 .. n /\ o + 1 + k - 1 = o + k
    BY <1>1, <1>3, <1>9
  <2>2. R[o + k] = key[k] /\ key[k].part = "key"
    BY <1>4 DEF HeaderAt
  <2>3. B[o + k] = R[o + k]
    BY <2>1, <2>2 DEF Kept
  <2> QED
    BY <2>1, <2>2, <2>3
<1>11. ASSUME NEW k \in 1 .. Len(value) PROVE B[f + 2 + k - 1] = value[k]
  <2> DEFINE l == o + Len(key) + 1 + k
  <2>1. l \in 1 .. n /\ f + 2 + k - 1 = l
    BY <1>1, <1>3, <1>5, <1>9
  <2>2. R[l] = value[k] /\ value[k].part = "value"
    BY <1>4 DEF HeaderAt
  <2> HIDE DEF l
  <2>3. B[l] = R[l]
    BY <2>1, <2>2 DEF Kept
  <2> QED
    BY <2>1, <2>2, <2>3
<1>12. Value(Pointer(o + 1, f), B) = key
  <2> DEFINE i == o + 1
  <2>1. i \in Nat \ {0} /\ f \in Nat /\ f <= Len(B) /\ f - i + 1 = Len(key)
    BY <1>1, <1>3, <1>5, <1>8, <1>9
  <2>2. \A k \in 1 .. Len(key) : B[i + k - 1] = key[k]
    BY <1>10
  <2> HIDE DEF i
  <2>3. Value(Pointer(i, f), B) = key
    BY <1>7, <1>8, <2>1, <2>2, PointerValue
  <2> QED
    BY <2>3 DEF i
<1>13. Value(Pointer(f + 2, e - 1), B) = value
  <2> DEFINE i == f + 2
             l == e - 1
  <2>1. i \in Nat \ {0} /\ l \in Nat /\ l <= Len(B) /\ l - i + 1 = Len(value)
    BY <1>1, <1>3, <1>5, <1>8, <1>9
  <2>2. \A k \in 1 .. Len(value) : B[i + k - 1] = value[k]
    BY <1>11
  <2> HIDE DEF i, l
  <2>3. Value(Pointer(i, l), B) = value
    BY <1>7, <1>8, <2>1, <2>2, PointerValue
  <2> QED
    BY <2>3 DEF i, l
<1> QED
  BY <1>2, <1>6, <1>12, <1>13 DEF key, value

\* All headers are handed over as they were sent.
LEMMA HeadersHanded ==
  ASSUME NEW h, NEW m, NEW R, NEW n, HeadIn(m, R, n), Kept(h.read_buf, R, n),
         h.http.headers = Bufs(m, Len(m.headers))
  PROVE  Handed(h).headers = m.headers
<1> DEFINE N == Len(m.headers)
           q == h.http.headers
           B == h.read_buf
           got == [i \in DOMAIN q |-> <<Value(q[i].key, B), Value(q[i].value, B)>>]
<1>1. Handed(h).headers = got
  BY DEF Handed
<1>2. N \in Nat /\ m.headers = [i \in 1 .. N |-> m.headers[i]]
  <2>1. m.headers \in Seq(Text("key") \X Text("value"))
    BY RequestLemma DEF HeadIn
  <2> QED
    BY <2>1, LenProperties
<1>3. ASSUME NEW j \in 1 .. N PROVE <<Value(q[j].key, B), Value(q[j].value, B)>> = m.headers[j]
  <2>1. q[j].key = KeyPart(m, j) /\ q[j].value = ValuePart(m, j)
    BY DEF Bufs
  <2> DEFINE x == m.headers[j][1]
             y == m.headers[j][2]
             z == m.headers[j]
  <2>2. Value(KeyPart(m, j), B) = x /\ Value(ValuePart(m, j), B) = y /\ z = <<x, y>>
    BY HeaderHanded
  <2> HIDE DEF x, y, z
  <2> QED
    BY <2>1, <2>2 DEF z
<1>4. DOMAIN q = 1 .. N
  BY DEF Bufs
<1> HIDE DEF q, N, B
<1>5. got = [i \in 1 .. N |-> m.headers[i]]
  BY <1>3, <1>4
<1> HIDE DEF got
<1>6. got = m.headers
  BY <1>2, <1>5
<1> QED
  BY <1>1, <1>6

\* In the body of a request, p cells of the request were parsed.
InBody(h, m, p) ==
  /\ IsParser(h) /\ ~h.llhttp.error /\ h.llhttp.lex = "body" /\ h.handed = <<>>
  /\ h.llhttp.left = Len(Cells(m)) - p
  /\ UrlRead(h, m, p) /\ m.bad = 0
  /\ p \in Nat /\ Len(Head_(m)) <= p /\ p < Len(Cells(m))

\* All of a request was parsed.
Done(h, m) ==
  /\ IsParser(h) /\ ~h.llhttp.error /\ h.llhttp.lex = "start" /\ m.bad = 0
  /\ h.handed = <<Handed(h)>> /\ Handed(h).url = m.url

\* The whole URL is handed over.
LEMMA UrlHanded ==
  ASSUME NEW h, NEW m \in Request, NEW p, ~(p < Len(m.url)), UrlRead(h, m, p)
  PROVE  /\ Handed(h).url = m.url
         /\ \A s, b : ~(b < Len(m.url)) /\ s.http.url = h.http.url => UrlRead(s, m, b)
<1> DEFINE U == Len(m.url)
           u == m.url
<1>1. h.http.url = [at |-> 0, len |-> U, cells |-> SubSeq(u, 1, U)]
  BY DEF UrlRead
<1>2. SubSeq(u, 1, U) = u
  <2>1. u \in Text("url")
    BY RequestLemma
  <2>2. u \in Seq(AnyCell)
    BY <2>1, TextLemma
  <2> QED
    BY <2>2, WholeSeq
<1> HIDE DEF u, U
<1>3. h.http.url.at = 0 /\ h.http.url.cells = u
  BY <1>1, <1>2
<1>4. Handed(h).url = u
  BY <1>3 DEF Handed, Value
<1>5. ASSUME NEW s, NEW b, ~(b < U), s.http.url = h.http.url PROVE UrlRead(s, m, b)
  <2> DEFINE q == IF b < Len(m.url) THEN b ELSE Len(m.url)
  <2>1. q = U
    BY <1>5 DEF U
  <2> HIDE DEF q
  <2>2. s.http.url = [at |-> 0, len |-> q, cells |-> SubSeq(m.url, 1, q)]
    BY <1>1, <1>5, <2>1 DEF u
  <2> QED
    BY <2>2 DEF UrlRead, q
<1> QED
  BY <1>4, <1>5 DEF u, U

\* The end of the headers, and of the request if it has no body.
EndStepped(h, m, p, n, R, d, E) ==
  LET to == SpanEnd(h, d + 1, n)
      s == Span(h, d + 1, to)
  IN  /\ to = d + 1 /\ p + to = Len(Head_(m)) /\ m.bad = 0
      /\ IF Len(Cells(m)) = p + to THEN Done(s, m) /\ Len(m.body) = 0 ELSE InBody(s, m, p + to)
      /\ s.http.headers = AllHeaders(h) /\ s.http.content_length = Len(m.body)
      /\ IsBuf(h.http.body) => s.http.body.len = 0
      /\ Len(s.read_buf) = Len(R)
      /\ \A k \in 1 .. Len(R) : k \in E \/ s.read_buf[k] = R[k]

\* on_headers_complete, and on_message_complete if there is no body.
LEMMA EndStep ==
  ASSUME NEW h, NEW m, NEW p, NEW n, NEW R, NEW d, InPiece(m, p, n, R), InHead(h, m, p, R, d), d < n,
         h.llhttp.lex = "line", R[d + 1].part = "end", NEW E, EndIn(AllHeaders(h), E)
  PROVE  EndStepped(h, m, p, n, R, d, E)
<1> DEFINE i == d + 1
           to == SpanEnd(h, i, n)
           s == Span(h, i, to)
           C == Cells(m)
           H == Len(Head_(m))
           U == Len(m.url)
           L == Len(C)
           cell == R[i]
           e == OnHeadersComplete(h, cell)
           b == Len(m.body)
<1>1. /\ m \in Request /\ p \in Nat /\ n \in Nat \ {0} /\ p + n <= L /\ R \in Seq(AnyCell)
      /\ n <= Len(R) /\ \A k \in 1 .. n : R[k] = C[p + k]
  BY DEF InPiece
<1>2. /\ IsParser(h) /\ ~h.llhttp.error /\ h.llhttp.lex # "body" /\ h.handed = <<>> /\ h.read_buf = R
      /\ UrlRead(h, m, p + d) /\ d \in Nat /\ p + d < H /\ p + d < L
  BY DEF InHead
<1>3. L \in Nat /\ H \in Nat /\ U \in Nat /\ b \in Nat /\ U + 1 < H
  <2>1. C \in Seq(AnyCell) /\ H \in Nat /\ b \in Nat
    BY <1>1, CellsLayout
  <2>2. U \in Nat /\ U + 1 < H
    <3>1. H \in 1 .. H
      BY <1>1, <1>2, <2>1
    <3> QED
      BY <1>1, <3>1, HeadPart
  <2>3. L \in Nat
    BY <2>1, LenProperties
  <2> QED
    BY <2>1, <2>2, <2>3
<1>4. i \in 1 .. n /\ i \in Nat /\ p + i \in 1 .. L
  BY <1>1, <1>2, <1>3
<1>5. m.bad = 0 /\ p + i = H /\ cell.length = b /\ cell.part = "end"
  <2>1. cell = C[p + i] /\ cell.part = "end"
    BY <1>1, <1>4
  <2> HIDE DEF i, cell
  <2> QED
    BY <1>1, <1>4, <2>1, CellPart
<1>6. L = H + b
  BY <1>1, <1>5, CellsLayout
<1>7. to = i
  <2>1. Run(R, i, i, n)
    <3>1. i \in i .. n /\ \A k \in i .. i : k = i
      BY <1>1, <1>4
    <3>2. i = n \/ R[i + 1].part # "end"
      <4> SUFFICES ASSUME i # n PROVE R[i + 1].part # "end"
        OBVIOUS
      <4>1. i + 1 \in 1 .. n /\ p + (i + 1) \in 1 .. L /\ p + (i + 1) = H + 1
        <5> HIDE DEF i, L, H, C
        <5>1. i + 1 \in 1 .. n
          BY <1>1, <1>4
        <5>2. p + (i + 1) \in 1 .. L
          BY <1>1, <1>3, <1>4, <5>1
        <5>3. p + (i + 1) = H + 1
          BY <1>1, <1>4, <1>5
        <5> QED
          BY <5>1, <5>2, <5>3
      <4>2. R[i + 1] = C[H + 1] /\ H + 1 \in 1 .. L /\ H + 1 > H
        BY <1>1, <1>3, <4>1, SMTT(30)
      <4>3. C[H + 1].part = "body"
        BY <1>1, <1>5, <4>2, CellPart
      <4> QED
        BY <4>2, <4>3
    <3> QED
      BY <1>5, <3>1, <3>2 DEF Run
  <2> HIDE DEF i
  <2> QED
    BY <1>1, <1>2, <1>4, <2>1, RunEnd
<1> HIDE DEF to, C, H, U, L, b
<1>8. /\ IsParser(e) /\ e.llhttp = h.llhttp /\ e.handed = h.handed /\ Len(e.read_buf) = Len(R)
      /\ \A k \in 1 .. Len(R) : k \in E \/ e.read_buf[k] = R[k]
      /\ e.http.url = h.http.url /\ e.http.headers = AllHeaders(h)
      /\ e.http.content_length = cell.length
      /\ IsBuf(h.http.body) => e.http.body.len = 0
  <2> HIDE DEF cell
  <2>1. h.read_buf = R
    BY <1>2
  <2>2. Completed(h, e, cell.length, E)
    BY <1>2, OnHeadersCompleteLemma
  <2> HIDE DEF e
  <2> QED
    BY <2>1, <2>2 DEF Completed
<1>9. /\ IsParser(s) /\ s.http = e.http /\ s.read_buf = e.read_buf /\ ~s.llhttp.error
      /\ IF b = 0
         THEN s.llhttp.lex = "start" /\ s.handed = Append(e.handed, Handed(e))
         ELSE s.llhttp.lex = "body" /\ s.llhttp.left = b /\ s.handed = e.handed
  <2>1. h.read_buf[i] = cell
    BY <1>2
  <2> HIDE DEF cell, i
  <2>2. IsParser(OnHeadersComplete(h, h.read_buf[i])) /\ OnHeadersComplete(h, h.read_buf[i]).llhttp = h.llhttp
    BY <1>8, <2>1
  <2>3. /\ IsParser(Span(h, i, to)) /\ Span(h, i, to).http = e.http
        /\ Span(h, i, to).read_buf = e.read_buf /\ ~Span(h, i, to).llhttp.error
        /\ IF cell.length = 0
           THEN Span(h, i, to).llhttp.lex = "start" /\ Span(h, i, to).handed = Append(e.handed, Handed(e))
           ELSE /\ Span(h, i, to).llhttp.lex = "body" /\ Span(h, i, to).llhttp.left = cell.length
                /\ Span(h, i, to).handed = e.handed
    <3>1. h.read_buf[i].part = "end"
      BY <1>5, <2>1
    <3> QED
      BY <1>2, <2>1, <2>2, <3>1, EndSpan
  <2> QED
    BY <1>5, <2>3
<1> HIDE DEF s, e, cell
<1>10. s.http.url = h.http.url
  BY <1>8, <1>9
<1>11. /\ ~(p + d < Len(m.url)) /\ ~(H < Len(m.url)) /\ H \in Nat /\ ~(p + to < Len(m.url))
       /\ p + to = H
  BY <1>1, <1>2, <1>3, <1>5, <1>7, SMTT(30) DEF U
<1>12. Handed(h).url = m.url /\ UrlRead(s, m, p + to)
  BY <1>1, <1>2, <1>10, <1>11, UrlHanded
<1>13. Handed(s).url = m.url
  BY <1>1, <1>11, <1>12, UrlHanded
<1>14. CASE L = p + to
  <2>1. b = 0
    BY <1>3, <1>6, <1>11, <1>14
  <2>2. Handed(s) = Handed(e)
    BY <1>9 DEF Handed
  <2>3. s.handed = <<Handed(s)>>
    <3>1. s.handed = Append(<<>>, Handed(s))
      BY <1>2, <1>8, <1>9, <2>1, <2>2
    <3> DEFINE x == Handed(s)
    <3> HIDE DEF x
    <3>2. Append(<<>>, x) = <<x>>
      OBVIOUS
    <3> QED
      BY <3>1, <3>2 DEF x
  <2>4. Done(s, m)
    BY <1>5, <1>9, <1>13, <2>1, <2>3 DEF Done
  <2> QED
    BY <1>5, <1>7, <1>8, <1>9, <1>11, <1>14, <2>1, <2>4 DEF EndStepped, s, to, i, L, C, H, b
<1>15. CASE L # p + to
  <2>1. b # 0 /\ b = L - (p + to) /\ p + to \in Nat /\ H <= p + to /\ p + to < L
    BY <1>3, <1>6, <1>11, <1>15
  <2>2. InBody(s, m, p + to)
    BY <1>2, <1>5, <1>8, <1>9, <1>12, <2>1 DEF InBody, L, C, H
  <2> QED
    BY <1>5, <1>7, <1>8, <1>9, <1>11, <1>15, <2>2 DEF EndStepped, s, to, i, L, C, H, b
<1> QED
  BY <1>14, <1>15

\* The next cells of the body, in the read buffer B.
LEMMA BodyCells ==
  ASSUME NEW m, NEW p, NEW n, NEW R, NEW d \in Nat, InPiece(m, p, n, R), d < n, m.bad = 0,
         Len(Head_(m)) <= p + d, NEW B, Kept(B, R, n)
  PROVE  LET H == Len(Head_(m))
         IN  /\ H \in Nat /\ Len(m.body) \in Nat /\ Len(Cells(m)) = H + Len(m.body)
             /\ m.body \in Seq(AnyCell)
             /\ Follows(B, d + 1, n, m.body, p + d - H, p + n - H)
<1> DEFINE C == Cells(m)
           H == Len(Head_(m))
           w == m.body
           b == Len(m.body)
           i == d + 1
           a == p + d - H
           z == p + n - H
<1>1. /\ m \in Request /\ p \in Nat /\ n \in Nat \ {0} /\ p + n <= Len(C) /\ R \in Seq(AnyCell)
      /\ n <= Len(R) /\ \A k \in 1 .. n : R[k] = C[p + k]
  BY DEF InPiece
<1>2. H \in Nat /\ b \in Nat /\ Len(C) = H + b
  BY <1>1, CellsLayout
<1>3. w \in Seq(AnyCell)
  <2>1. w \in Text("body")
    BY <1>1, RequestLemma
  <2> QED
    BY <2>1, TextLemma
<1>4. ASSUME NEW k \in i .. n PROVE B[k] = w[p + k - H]
  <2>1. k \in 1 .. n /\ p + k \in 1 .. Len(C) /\ p + k > H
    BY <1>1, <1>2, SMTT(30)
  <2>2. C[p + k] = w[p + k - H] /\ C[p + k].part = "body"
    BY <1>1, <2>1, CellPart
  <2>3. R[k] = C[p + k]
    BY <1>1, <2>1
  <2> QED
    BY <2>1, <2>2, <2>3 DEF Kept
<1>5. B \in Seq(AnyCell) /\ n <= Len(B)
  BY DEF Kept
<1> HIDE DEF C, H, w
<1>6. /\ a \in Nat /\ z \in Nat /\ a <= z /\ z <= b /\ i \in Nat \ {0} /\ n \in Nat
      /\ n - i + 1 = z - a
  <2>1. a \in Nat
    BY <1>1, <1>2 DEF H
  <2>2. z \in Nat /\ a <= z
    BY <1>1, <1>2 DEF H
  <2>3. z <= b
    BY <1>1, <1>2
  <2>4. n - i + 1 = z - a
    BY <1>1, <1>2
  <2> QED
    BY <1>1, <2>1, <2>2, <2>3, <2>4
<1>7. ASSUME NEW k \in i .. n PROVE B[k] = w[a + 1 + (k - i)]
  <2>1. a + 1 + (k - i) = p + k - H
    BY <1>1, <1>2
  <2> QED
    BY <1>4, <2>1
<1>8. b = Len(w)
  BY DEF w
<1> HIDE DEF i, a, z, b
<1>9. Follows(B, i, n, w, a, z)
  BY <1>3, <1>5, <1>6, <1>7, <1>8 DEF Follows
<1> QED
  BY <1>2, <1>3, <1>9 DEF i, w, a, z, b, C, H

\* What http, q, keeps of the first a cells of a body, w.
BodySo(q, w, a) ==
  /\ q.content_length = Len(w)
  /\ a = 0 => q.body.len = 0
  /\ a > 0 => /\ q.body = [at |-> 0, len |-> Len(w), cells |-> SubSeq(w, 1, a)]
              /\ q.body_len = Len(w) - a

\* on_body makes t of q.
BodyNext(q, t, B, i, n) ==
  LET length == n - i + 1
      k == IF length < q.body_len THEN length ELSE q.body_len
  IN  /\ t.content_length = q.content_length
      /\ IF q.body.len > 0
         THEN /\ t.body = [q.body EXCEPT !.cells = @ \o SubSeq(B, i, i + k - 1)]
              /\ t.body_len = q.body_len - k
         ELSE IF q.content_length > length
         THEN /\ t.body = [at |-> 0, len |-> q.content_length, cells |-> SubSeq(B, i, n)]
              /\ t.body_len = q.content_length - length
         ELSE t.body = [at |-> i, len |-> q.content_length, cells |-> <<>>]

\* One more piece of a body.
LEMMA BodyMore ==
  ASSUME NEW q, NEW t, NEW B, NEW w, NEW i, NEW n, NEW a, NEW z, Follows(B, i, n, w, a, z),
         a < z, BodySo(q, w, a), BodyNext(q, t, B, i, n), a > 0
  PROVE  BodySo(t, w, z)
<1> DEFINE x == SubSeq(B, i, n)
           old == SubSeq(w, 1, a)
           new == SubSeq(w, 1, z)
           b == Len(w)
           length == n - i + 1
           k == IF length < q.body_len THEN length ELSE q.body_len
           v == SubSeq(B, i, i + k - 1)
           y == old \o v
<1>1. /\ w \in Seq(AnyCell) /\ a \in Nat /\ z \in Nat /\ z <= b /\ i \in Nat \ {0} /\ n \in Nat
      /\ n - i + 1 = z - a
  BY DEF Follows
<1>2. b \in Nat
  BY <1>1, LenProperties
<1>3. old \o x = new
  <2>1. Joined(B, i, n, w, a, z)
    BY SubSeqNext
  <2> QED
    BY <2>1 DEF Joined
<1>4. q.content_length = b /\ q.body = [at |-> 0, len |-> b, cells |-> old] /\ q.body_len = b - a
  BY DEF BodySo
<1>5. q.body.len > 0
  BY <1>1, <1>2, <1>4
<1>6. /\ t.content_length = q.content_length /\ t.body = [q.body EXCEPT !.cells = @ \o v]
      /\ t.body_len = q.body_len - k
  BY <1>5 DEF BodyNext
<1> HIDE DEF b, old, new, x, v
<1>7. q.body.cells = old
  BY <1>4
<1>8. t.body = [q.body EXCEPT !.cells = y]
  BY <1>6, <1>7
<1> HIDE DEF y
<1>9. k = z - a /\ i + k - 1 = n
  BY <1>1, <1>2, <1>4
<1>10. v = x
  BY <1>9 DEF v, x
<1>11. y = new
  BY <1>3, <1>10 DEF y
<1>12. t.body = [at |-> 0, len |-> b, cells |-> new]
  BY <1>4, <1>8, <1>11
<1>13. t.body_len = b - z
  BY <1>1, <1>2, <1>4, <1>6, <1>9
<1>14. t.content_length = b /\ ~(z = 0)
  BY <1>1, <1>4, <1>6
<1> QED
  BY <1>12, <1>13, <1>14 DEF BodySo, b, new

\* The first piece of a body.
LEMMA BodyFirst ==
  ASSUME NEW q, NEW t, NEW B, NEW w, NEW i, NEW n, NEW z, Follows(B, i, n, w, 0, z),
         0 < z, BodySo(q, w, 0), BodyNext(q, t, B, i, n)
  PROVE  IF z = Len(w) THEN t.body.len > 0 /\ Value(t.body, B) = w ELSE BodySo(t, w, z)
<1> DEFINE x == SubSeq(B, i, n)
           new == SubSeq(w, 1, z)
           b == Len(w)
           length == n - i + 1
<1>1. /\ w \in Seq(AnyCell) /\ z \in Nat /\ z <= b /\ i \in Nat \ {0} /\ n \in Nat
      /\ n - i + 1 = z - 0
  BY DEF Follows
<1>2. b \in Nat /\ length = z
  BY <1>1, LenProperties
<1>3. x = new
  <2>1. Joined(B, i, n, w, 0, z)
    BY SubSeqNext
  <2> QED
    BY <2>1 DEF Joined
<1>4. q.content_length = b /\ q.body.len = 0
  BY DEF BodySo
<1>5. ~(q.body.len > 0)
  BY <1>4
<1>6. /\ t.content_length = b
      /\ IF b > length
         THEN t.body = [at |-> 0, len |-> b, cells |-> x] /\ t.body_len = b - length
         ELSE t.body = [at |-> i, len |-> b, cells |-> <<>>]
  BY <1>4, <1>5 DEF BodyNext
<1>7. SubSeq(w, 1, b) = w
  BY <1>1, WholeSeq
<1> HIDE DEF b, new, x, length
<1>8. CASE z = b
  <2>1. t.body = [at |-> i, len |-> b, cells |-> <<>>]
    BY <1>1, <1>2, <1>6, <1>8
  <2>2. t.body.at = i /\ t.body.len = b /\ i + b - 1 = n /\ i # 0 /\ b > 0
    BY <1>1, <1>2, <1>8, <2>1
  <2>3. Value(t.body, B) = x
    BY <2>2 DEF Value, x
  <2>4. x = w
    BY <1>3, <1>7, <1>8 DEF new
  <2> QED
    BY <1>8, <2>2, <2>3, <2>4 DEF b
<1>9. CASE z # b
  <2>1. t.body = [at |-> 0, len |-> b, cells |-> new] /\ t.body_len = b - z /\ ~(z = 0)
    BY <1>1, <1>2, <1>3, <1>6, <1>9
  <2> QED
    BY <1>6, <1>9, <2>1 DEF BodySo, b, new
<1> QED
  BY <1>8, <1>9

\* A whole body that was put together.
LEMMA BodyAll ==
  ASSUME NEW t, NEW B, NEW w, w \in Seq(AnyCell), Len(w) > 0, BodySo(t, w, Len(w))
  PROVE  t.body.len > 0 /\ Value(t.body, B) = w
<1> DEFINE b == Len(w)
           new == SubSeq(w, 1, b)
<1>1. t.body = [at |-> 0, len |-> b, cells |-> new]
  BY DEF BodySo
<1>2. new = w
  BY WholeSeq
<1> HIDE DEF new, b
<1>3. t.body.at = 0 /\ t.body.len = b /\ t.body.cells = new
  BY <1>1
<1> QED
  BY <1>2, <1>3 DEF Value, b

\* on_body does that.
LEMMA BodyTaken ==
  ASSUME NEW h, NEW i, NEW n, IsParser(h)
  PROVE  BodyNext(h.http, OnBody(h, i, n).http, h.read_buf, i, n)
<1> DEFINE t == OnBody(h, i, n).http
           q == h.http
           B == h.read_buf
           length == n - i + 1
           k == IF length < q.body_len THEN length ELSE q.body_len
<1>1. /\ t.content_length = q.content_length
      /\ IF q.body.len > 0
         THEN /\ t.body = [q.body EXCEPT !.cells = @ \o SubSeq(B, i, i + k - 1)]
              /\ t.body_len = q.body_len - k
         ELSE IF q.content_length > length
         THEN /\ t.body = [CopyBuf(h, i, n) EXCEPT !.len = q.content_length]
              /\ t.body_len = q.content_length - length
         ELSE t.body = [at |-> i, len |-> q.content_length, cells |-> <<>>]
  <2>1. BodyStored(h, OnBody(h, i, n), i, n)
    BY OnBodyLemma, Zenon
  <2> QED
    BY <2>1, Zenon DEF BodyStored
<1> DEFINE c == CopyBuf(h, i, n)
           x == SubSeq(B, i, n)
           y == q.content_length
<1>2. c = [at |-> 0, len |-> length, cells |-> x]
  BY DEF CopyBuf
<1> HIDE DEF c, x, y, length
<1>3. [c EXCEPT !.len = y] = [at |-> 0, len |-> y, cells |-> x]
  BY <1>2
<1> USE DEF c, x, y
<1> HIDE DEF t, q, B
<1>4. BodyNext(q, t, B, i, n)
  BY <1>1, <1>3, Zenon DEF BodyNext, length
<1> QED
  BY <1>4 DEF t, q, B

\* The rest of a piece goes to the body, at its place.
LEMMA BodyExact ==
  ASSUME NEW h, NEW m, NEW p, NEW n, NEW R, NEW d \in Nat, IsParser(h), InPiece(m, p, n, R), d < n,
         m.bad = 0, Len(Head_(m)) <= p + d, Kept(h.read_buf, R, n), BodyRead(h, m, p + d),
         NEW s, s.http = OnBody(h, d + 1, n).http, s.read_buf = h.read_buf
  PROVE  IF p + n = Len(Cells(m)) THEN Handed(s).body = m.body ELSE BodyRead(s, m, p + n)
<1> DEFINE B == h.read_buf
           H == Len(Head_(m))
           L == Len(Cells(m))
           w == m.body
           i == d + 1
           a == p + d - H
           z == p + n - H
           q == h.http
           t == s.http
<1>1. /\ H \in Nat /\ Len(w) \in Nat /\ L = H + Len(w) /\ w \in Seq(AnyCell)
      /\ Follows(B, i, n, w, a, z)
  BY BodyCells
<1>2. p \in Nat /\ n \in Nat \ {0} /\ p + n <= L
  BY DEF InPiece
<1> DEFINE c == (p + d) - H
           y == (p + n) - H
<1>3. BodySo(q, w, c)
  BY DEF BodyRead, BodySo
<1>4. BodyNext(q, t, B, i, n)
  BY BodyTaken
<1>5. s.read_buf = B
  OBVIOUS
<1> HIDE DEF q, t, B, w, L, H
<1>6. a \in Nat /\ z \in Nat /\ a < z /\ (p + n = L <=> z = Len(w)) /\ c = a /\ y = z
  <2>1. a \in Nat
    BY <1>1, <1>2 DEF H
  <2>2. z \in Nat /\ a < z
    BY <1>1, <1>2 DEF H
  <2>3. p + n = L <=> z = Len(w)
    BY <1>1, <1>2
  <2>4. c = a /\ y = z
    BY <1>1, <1>2
  <2> QED
    BY <2>1, <2>2, <2>3, <2>4
<1> HIDE DEF a, c, y, z, i
<1>7. IF z = Len(w) THEN t.body.len > 0 /\ Value(t.body, B) = w ELSE BodySo(t, w, z)
  <2>1. CASE a = 0
    <3>1. Follows(B, i, n, w, 0, z) /\ BodySo(q, w, 0) /\ 0 < z
      BY <1>1, <1>3, <1>6, <2>1
    <3> QED
      BY <1>4, <3>1, BodyFirst
  <2>2. CASE a > 0
    <3>1. BodySo(t, w, z)
      BY <1>1, <1>3, <1>4, <1>6, <2>2, BodyMore
    <3>2. CASE z = Len(w)
      <4>1. Len(w) > 0 /\ BodySo(t, w, Len(w))
        BY <1>6, <3>1, <3>2
      <4> QED
        BY <1>1, <3>2, <4>1, BodyAll
    <3> QED
      BY <3>1, <3>2
  <2> QED
    BY <1>6, <2>1, <2>2
<1>8. CASE p + n = L
  <2>1. t.body.len > 0 /\ Value(t.body, B) = w
    BY <1>6, <1>7, <1>8
  <2>2. Handed(s).body = IF t.body.len > 0 THEN Value(t.body, s.read_buf) ELSE <<>>
    BY DEF Handed, t
  <2> QED
    BY <1>5, <1>8, <2>1, <2>2 DEF L, w
<1>9. CASE p + n # L
  <2>1. BodySo(t, w, z)
    BY <1>6, <1>7, <1>9
  <2>2. BodyRead(s, m, p + n)
    <3>1. BodySo(t, w, y)
      BY <1>6, <2>1
    <3> QED
      BY <3>1 DEF BodySo, BodyRead, t, w, y, H
  <2> QED
    BY <1>9, <2>2 DEF L
<1> QED
  BY <1>8, <1>9

\* on_body leaves the headers and the URL.
LEMMA OnBodyOnly ==
  ASSUME NEW h, NEW i, NEW n, IsParser(h)
  PROVE  LET b == OnBody(h, i, n)
         IN  Only(h, b) /\ b.http.headers = h.http.headers /\ b.http.url = h.http.url
<1>1. BodyStored(h, OnBody(h, i, n), i, n)
  BY OnBodyLemma, Zenon
<1> QED
  BY <1>1, Zenon DEF BodyStored

\* llhttp gives all of the rest of a piece to the body, and hands over after its end.
LEMMA BodyStep ==
  ASSUME NEW h, NEW m, NEW p, NEW n, NEW R, NEW d \in Nat, InPiece(m, p, n, R), d < n,
         InBody(h, m, p + d)
  PROVE  LET to == SpanEnd(h, d + 1, n)
             s == Span(h, d + 1, to)
         IN  /\ to = n /\ IsParser(s) /\ s.read_buf = h.read_buf
             /\ s.http = OnBody(h, d + 1, n).http /\ s.http.headers = h.http.headers
             /\ IF p + n = Len(Cells(m)) THEN Done(s, m) ELSE InBody(s, m, p + n)
<1> DEFINE L == Len(Cells(m))
           H == Len(Head_(m))
           i == d + 1
           s == Span(h, i, n)
           b == OnBody(h, i, n)
           x == Handed(s)
<1>1. /\ m \in Request /\ p \in Nat /\ n \in Nat \ {0} /\ p + n <= L
  BY DEF InPiece
<1>2. /\ IsParser(h) /\ ~h.llhttp.error /\ h.llhttp.lex = "body" /\ h.handed = <<>>
      /\ h.llhttp.left = L - (p + d) /\ UrlRead(h, m, p + d) /\ m.bad = 0
      /\ H <= p + d /\ p + d < L
  BY DEF InBody
<1>3. L \in Nat /\ H \in Nat
  <2>1. Cells(m) \in Seq(AnyCell) /\ H \in Nat
    BY <1>1, CellsLayout
  <2> QED
    BY <2>1, LenProperties
<1>4. ~(p + d < Len(m.url)) /\ ~(p + n < Len(m.url))
  <2>1. Len(m.url) < H /\ Len(m.url) \in Nat
    <3>1. 0 \in 0 .. Len(m.headers)
      BY <1>1, RequestLemma
    <3>2. /\ Off(m, 0) \in Nat /\ Len(m.url) \in Nat /\ Len(m.url) < Off(m, 0)
          /\ Off(m, 0) <= Off(m, Len(m.headers)) /\ H = Off(m, Len(m.headers)) + 1
      BY <1>1, <3>1, OffLemma
    <3>3. Len(m.headers) \in 0 .. Len(m.headers)
      BY <1>1, RequestLemma
    <3>4. Off(m, Len(m.headers)) \in Nat
      BY <1>1, <3>3, OffLemma
    <3> QED
      BY <3>2, <3>4
  <2> QED
    BY <1>1, <1>2, <1>3, <2>1
<1> HIDE DEF L, H
<1>5. SpanEnd(h, i, n) = n
  <2>1. ~(i + h.llhttp.left - 1 < n)
    BY <1>1, <1>2, <1>3
  <2> HIDE DEF i
  <2> QED
    BY <1>2, <2>1 DEF SpanEnd
<1>6. h.llhttp.left - (n - i + 1) = L - (p + n) /\ (L - (p + n) = 0 <=> p + n = L)
  BY <1>1, <1>2, <1>3
<1>7. Only(h, b) /\ b.http.headers = h.http.headers /\ b.http.url = h.http.url
  BY <1>2, OnBodyOnly
<1>8. /\ IsParser(s) /\ s.http = b.http /\ s.read_buf = h.read_buf /\ ~s.llhttp.error
      /\ IF h.llhttp.left - (n - i + 1) = 0
         THEN s.llhttp.lex = "start" /\ s.handed = Append(h.handed, Handed(b))
         ELSE s.llhttp.lex = "body" /\ s.llhttp.left = h.llhttp.left - (n - i + 1) /\ s.handed = h.handed
  <2>1. IsParser(h) /\ ~h.llhttp.error /\ h.llhttp.lex = "body"
    BY <1>2
  <2> HIDE DEF i
  <2> QED
    BY <2>1, BodySpan
<1> HIDE DEF s, b, i, x
<1>9. s.http.headers = h.http.headers /\ s.http.url = h.http.url
  BY <1>7, <1>8
<1>10. UrlRead(s, m, p + n) /\ UrlRead(s, m, p + d)
  BY <1>1, <1>2, <1>4, <1>9, UrlHanded
<1>11. Handed(s).url = m.url
  BY <1>1, <1>4, <1>10, UrlHanded
<1>12. ASSUME p + n = L PROVE Done(s, m)
  <2>1. s.llhttp.lex = "start" /\ s.handed = Append(<<>>, Handed(b))
    BY <1>2, <1>6, <1>8, <1>12
  <2>2. Handed(b) = x
    BY <1>7, <1>8 DEF Only, Handed, x
  <2>3. Append(<<>>, x) = <<x>>
    OBVIOUS
  <2>4. s.handed = <<Handed(s)>>
    BY <2>1, <2>2, <2>3 DEF x
  <2> QED
    BY <1>2, <1>8, <1>11, <2>1, <2>4 DEF Done
<1>13. ASSUME p + n # L PROVE InBody(s, m, p + n)
  <2>1. s.llhttp.lex = "body" /\ s.llhttp.left = L - (p + n) /\ s.handed = <<>>
    BY <1>2, <1>6, <1>8, <1>13
  <2>2. p + n \in Nat /\ H <= p + n /\ p + n < L
    BY <1>1, <1>2, <1>3, <1>13
  <2> QED
    BY <1>2, <1>8, <1>10, <2>1, <2>2 DEF InBody, L, H
<1> QED
  BY <1>5, <1>8, <1>9, <1>12, <1>13 DEF s, b, i, L

-----------------------------------------------------------------------------
(* A walk over a read *)

At(h, m, p, R, d) ==
  \/ InHead(h, m, p, R, d)
  \/ InBody(h, m, p + d)
  \/ Done(h, m) /\ p + d = Len(Cells(m))

\* The headers, when the head is in this read.
HeadersTo(h, m, d) ==
  IF d < Len(Head_(m)) THEN HeadersRead(h.http, m, d)
  ELSE h.http.headers = Bufs(m, Len(m.headers))

\* The body.
BodyTo(h, m, x, R, n) ==
  Len(Head_(m)) <= x =>
    /\ Kept(h.read_buf, R, n)
    /\ IF x = Len(Cells(m)) THEN Handed(h).body = m.body ELSE BodyRead(h, m, x)

\* A read is the first and has the head; or it has cells of the body, of which all of the
\* earlier ones were kept; or nothing is known of it.
Kind(k, m, p, n) ==
  /\ k = "first" => p = 0 /\ m.bad = 0 /\ Len(Head_(m)) <= n
  /\ k = "body" => Len(Head_(m)) <= p

Good(k, h, m, p, n, R, d) ==
  /\ At(h, m, p, R, d)
  /\ k = "first" => HeadersTo(h, m, d)
  /\ k \in {"first", "body"} => BodyTo(h, m, p + d, R, n)

\* A span in the head keeps what is known.
LEMMA GoodHead ==
  ASSUME NEW k, NEW h, NEW m, NEW p, NEW n, NEW R, NEW d \in Nat, InPiece(m, p, n, R), d < n,
         Kind(k, m, p, n), Good(k, h, m, p, n, R, d), InHead(h, m, p, R, d),
         ~(h.llhttp.lex = "line" /\ R[d + 1].part = "end")
  PROVE  LET to == SpanEnd(h, d + 1, n)
             s == Span(h, d + 1, to)
         IN  to \in d + 1 .. n /\ (s.llhttp.error \/ Good(k, s, m, p, n, R, to))
<1> DEFINE to == SpanEnd(h, d + 1, n)
           s == Span(h, d + 1, to)
           part == R[d + 1].part
           H == Len(Head_(m))
<1>1. /\ to \in d + 1 .. n /\ IsParser(s)
      /\ \/ s.llhttp.error
         \/ /\ InHead(s, m, p, R, to) /\ part # "end"
            /\ s.http = Emit(h, part, d + 1, to).http
  <2>1. HeadStepped(h, m, p, n, R, d)
    BY HeadStep
  <2> QED
    BY <2>1 DEF HeadStepped
<1>2. /\ m \in Request /\ p \in Nat /\ n \in Nat \ {0} /\ p + n <= Len(Cells(m))
      /\ \A j \in 1 .. n : R[j] = Cells(m)[p + j]
  BY DEF InPiece
<1>3. IsParser(h) /\ h.read_buf = R /\ p + d < H
  BY DEF InHead
<1>4. H \in Nat
  BY <1>2, CellsLayout
<1> HIDE DEF part
<1>5. ASSUME ~s.llhttp.error PROVE Good(k, s, m, p, n, R, to)
  <2>1. InHead(s, m, p, R, to) /\ part # "end" /\ s.http = Emit(h, part, d + 1, to).http
    BY <1>1, <1>5
  <2>2. At(s, m, p, R, to)
    BY <2>1 DEF At
  <2>3. to \in Nat /\ p + to < H
    BY <2>1 DEF InHead, H
  <2>4. BodyTo(s, m, p + to, R, n)
    <3>1. p + to \in Nat
      BY <1>2, <2>3
    <3> HIDE DEF to
    <3>2. ~(H <= p + to)
      BY <1>4, <2>3, <3>1
    <3> QED
      BY <3>2 DEF BodyTo, H
  <2>5. ASSUME k = "first" PROVE HeadersTo(s, m, to)
    <3>1. p = 0 /\ m.bad = 0 /\ H <= n
      BY <2>5 DEF Kind, H
    <3>2. d < H /\ to < H
      BY <1>2, <1>3, <2>3, <3>1
    <3>3. HeadersRead(h.http, m, d)
      BY <2>5, <3>2 DEF Good, HeadersTo, H
    <3>4. \A j \in 1 .. n : R[j] = Cells(m)[j]
      BY <1>2, <3>1
    <3>5. HeadIn(m, R, n)
      BY <1>2, <3>1, <3>4 DEF HeadIn, H
    <3>6. HeadersRead(Emit(h, part, d + 1, to).http, m, to)
      <4>1. R[d + 1].part # "end" /\ HeadIn(m, h.read_buf, n) /\ h.read_buf[d + 1].part # "end"
        BY <1>3, <2>1, <3>5 DEF part
      <4> QED
        <5>1. HeadersStepped(h, m, n, d)
          BY <1>3, <3>3, <4>1, HeadersStep DEF InHead
        <5> QED
          BY <1>3, <5>1 DEF HeadersStepped, part, to
    <3> HIDE DEF s, to, H
    <3>7. HeadersRead(s.http, m, to)
      BY <2>1, <3>6
    <3> QED
      BY <3>2, <3>7 DEF HeadersTo, H
  <2> QED
    BY <2>2, <2>4, <2>5 DEF Good
<1> QED
  BY <1>1, <1>5

\* So does one of the body.
LEMMA GoodBody ==
  ASSUME NEW k, NEW h, NEW m, NEW p, NEW n, NEW R, NEW d \in Nat, InPiece(m, p, n, R), d < n,
         Kind(k, m, p, n), Good(k, h, m, p, n, R, d), InBody(h, m, p + d)
  PROVE  LET to == SpanEnd(h, d + 1, n)
             s == Span(h, d + 1, to)
         IN  to \in d + 1 .. n /\ (s.llhttp.error \/ Good(k, s, m, p, n, R, to))
<1> DEFINE to == SpanEnd(h, d + 1, n)
           s == Span(h, d + 1, to)
           H == Len(Head_(m))
           L == Len(Cells(m))
<1>1. /\ to = n /\ IsParser(s) /\ s.read_buf = h.read_buf
      /\ s.http = OnBody(h, d + 1, n).http /\ s.http.headers = h.http.headers
      /\ IF p + n = L THEN Done(s, m) ELSE InBody(s, m, p + n)
  BY BodyStep, Zenon
<1>2. m \in Request /\ p \in Nat /\ n \in Nat \ {0} /\ p + n <= L
  BY DEF InPiece
<1>3. IsParser(h) /\ H <= p + d /\ p + d < L /\ m.bad = 0
  BY DEF InBody
<1>4. H \in Nat
  BY <1>2, CellsLayout
<1> HIDE DEF s, to, H, L
<1>5. At(s, m, p, R, n)
  <2>1. CASE p + n = L
    BY <1>1, <2>1 DEF At, L
  <2>2. CASE p + n # L
    BY <1>1, <2>2 DEF At
  <2> QED
    BY <2>1, <2>2
<1>6. ASSUME k = "first" PROVE HeadersTo(s, m, n)
  <2>1. p = 0 /\ H <= n
    BY <1>6 DEF Kind, H
  <2>2. ~(d < H) /\ ~(n < H)
    BY <1>2, <1>3, <1>4, <2>1
  <2>3. h.http.headers = Bufs(m, Len(m.headers))
    BY <1>6, <2>2 DEF Good, HeadersTo, H
  <2> QED
    BY <1>1, <2>2, <2>3 DEF HeadersTo, H
<1>7. ASSUME k \in {"first", "body"} PROVE BodyTo(s, m, p + n, R, n)
  <2>1. Kept(h.read_buf, R, n) /\ BodyRead(h, m, p + d)
    <3>1. BodyTo(h, m, p + d, R, n)
      BY <1>7 DEF Good
    <3>2. p + d # L
      BY <1>2, <1>3
    <3> QED
      BY <1>3, <3>1, <3>2 DEF BodyTo, H, L
  <2>2. IF p + n = L THEN Handed(s).body = m.body ELSE BodyRead(s, m, p + n)
    BY <1>1, <1>3, <2>1, BodyExact, Zenon DEF H, L
  <2>3. Kept(s.read_buf, R, n)
    BY <1>1, <2>1
  <2> QED
    BY <2>2, <2>3 DEF BodyTo, L
<1>8. n \in d + 1 .. n
  BY <1>2
<1>9. Good(k, s, m, p, n, R, n)
  BY <1>5, <1>6, <1>7 DEF Good
<1> QED
  BY <1>1, <1>8, <1>9 DEF s, to

\* The separators are where a key or a value ends.
LEMMA SepsEnd ==
  ASSUME NEW m, NEW R, NEW n, HeadIn(m, R, n)
  PROVE  EndIn(Bufs(m, Len(m.headers)), {k \in 1 .. n : R[k].part = "sep"})
<1> DEFINE N == Len(m.headers)
           A == Bufs(m, N)
           E == {k \in 1 .. n : R[k].part = "sep"}
<1>1. m \in Request /\ n \in Nat /\ Len(Head_(m)) <= n
  BY DEF HeadIn
<1>2. N \in Nat
  BY <1>1, RequestLemma
<1>3. Len(A) = N
  BY <1>2 DEF Bufs
<1>4. ASSUME NEW i \in 1 .. N
      PROVE  /\ A[i].key.at + A[i].key.len \in E
             /\ A[i].value.at + A[i].value.len \in E
  <2> DEFINE o == Off(m, i - 1)
             k == Len(m.headers[i][1])
             e == Off(m, i)
             f == KeyEnd(m, i)
  <2>1. /\ o \in Nat /\ k \in Nat \ {0} /\ e \in Nat /\ o + k + 2 < e
        /\ Len(Head_(m)) \in Nat /\ e < Len(Head_(m))
        /\ HeaderRuns(R, o, k, e, n)
    BY LineRuns
  <2>2. A[i].key = Pointer(o + 1, f) /\ A[i].value = Pointer(f + 2, e - 1)
    BY <1>2 DEF Bufs, KeyPart, ValuePart
  <2>3. f = o + k
    BY DEF KeyEnd
  <2> HIDE DEF A, o, k, e, f, N
  <2>4. A[i].key.at = o + 1 /\ A[i].key.len = f - (o + 1) + 1
    BY <2>2 DEF Pointer
  <2>5. A[i].value.at = f + 2 /\ A[i].value.len = (e - 1) - (f + 2) + 1
    BY <2>2 DEF Pointer
  <2>6. A[i].key.at + A[i].key.len = o + k + 1
    BY <2>1, <2>3, <2>4
  <2>7. A[i].value.at + A[i].value.len = e
    BY <2>1, <2>3, <2>5
  <2>8. R[o + k + 1].part = "sep" /\ R[e].part = "sep"
    BY <2>1 DEF HeaderRuns
  <2>9. o + k + 1 \in 1 .. n /\ e \in 1 .. n
    BY <1>1, <2>1
  <2> QED
    BY <2>6, <2>7, <2>8, <2>9
<1> HIDE DEF A, E, N
<1>5. EndIn(A, E)
  BY <1>3, <1>4 DEF EndIn
<1> QED
  BY <1>5 DEF A, E, N

\* So does the end of the headers, where the headers are ended in the read buffer.
LEMMA GoodEnd ==
  ASSUME NEW k, NEW h, NEW m, NEW p, NEW n, NEW R, NEW d \in Nat, InPiece(m, p, n, R), d < n,
         Kind(k, m, p, n), Good(k, h, m, p, n, R, d), InHead(h, m, p, R, d),
         h.llhttp.lex = "line", R[d + 1].part = "end"
  PROVE  LET to == SpanEnd(h, d + 1, n)
             s == Span(h, d + 1, to)
         IN  to \in d + 1 .. n /\ (s.llhttp.error \/ Good(k, s, m, p, n, R, to))
<1> DEFINE to == SpanEnd(h, d + 1, n)
           s == Span(h, d + 1, to)
           H == Len(Head_(m))
           L == Len(Cells(m))
           A == AllHeaders(h)
           b == m.body
<1>1. /\ m \in Request /\ p \in Nat /\ n \in Nat \ {0} /\ p + n <= L /\ R \in Seq(AnyCell)
      /\ n <= Len(R) /\ \A j \in 1 .. n : R[j] = Cells(m)[p + j]
  BY DEF InPiece
<1>2. IsParser(h) /\ h.read_buf = R /\ p + d < H /\ h.llhttp.lex # "body"
  BY DEF InHead
<1>3. H \in Nat /\ Len(R) \in Nat
  BY <1>1, CellsLayout, LenProperties
<1>4. ASSUME NEW E, EndIn(A, E)
      PROVE  /\ to = d + 1 /\ p + to = H /\ m.bad = 0
             /\ IF L = p + to THEN Done(s, m) /\ Len(b) = 0 ELSE InBody(s, m, p + to)
             /\ s.http.headers = A /\ s.http.content_length = Len(b)
             /\ IsBuf(h.http.body) => s.http.body.len = 0
             /\ Len(s.read_buf) = Len(R)
             /\ \A j \in 1 .. Len(R) : j \in E \/ s.read_buf[j] = R[j]
  <2>1. EndStepped(h, m, p, n, R, d, E)
    BY <1>4, EndStep
  <2> QED
    BY <2>1 DEF EndStepped
<1>5. /\ to = d + 1 /\ p + to = H /\ m.bad = 0
      /\ IF L = p + to THEN Done(s, m) /\ Len(b) = 0 ELSE InBody(s, m, p + to)
  <2> DEFINE K == {A[i].key.at + A[i].key.len : i \in 1 .. Len(A)}
             V == {A[i].value.at + A[i].value.len : i \in 1 .. Len(A)}
             E == K \cup V
  <2>1. EndIn(A, E)
    BY DEF EndIn
  <2> HIDE DEF E, A, s, to, H, L, b
  <2> QED
    BY <1>4, <2>1
<1> HIDE DEF s, to, H, L, A, b
<1>6. to \in d + 1 .. n /\ to \in Nat /\ p + to \in Nat
  BY <1>1, <1>5
<1>7. At(s, m, p, R, to)
  BY <1>5 DEF At, L
<1>8. k # "body"
  <2> SUFFICES ASSUME k = "body" PROVE FALSE
    OBVIOUS
  <2>1. H <= p
    BY DEF Kind, H
  <2> QED
    BY <1>1, <1>2, <1>3, <2>1
<1>9. ASSUME k = "first" PROVE HeadersTo(s, m, to) /\ BodyTo(s, m, p + to, R, n)
  <2>1. p = 0 /\ H <= n
    BY <1>9 DEF Kind, H
  <2>2. d = H - 1 /\ d < H /\ to = H
    BY <1>1, <1>3, <1>5, <2>1
  <2>3. HeadersRead(h.http, m, d)
    BY <1>9, <2>2 DEF Good, HeadersTo, H
  <2>4. \A j \in 1 .. n : R[j] = Cells(m)[j]
    BY <1>1, <2>1
  <2>5. HeadIn(m, R, n)
    BY <1>1, <1>5, <2>1, <2>4 DEF HeadIn, H, L
  <2>6. A = Bufs(m, Len(m.headers))
    <3>1. HeadIn(m, h.read_buf, n) /\ HeadersRead(h.http, m, Len(Head_(m)) - 1)
      BY <1>2, <2>2, <2>3, <2>5 DEF H
    <3> QED
      BY <1>2, <3>1, HeadersEnd DEF A
  <2> DEFINE E == {j \in 1 .. n : R[j].part = "sep"}
  <2>7. EndIn(A, E)
    BY <2>5, <2>6, SepsEnd
  <2>8. \A j \in 1 .. n : R[j].part # "sep" => j \notin E
    OBVIOUS
  <2> HIDE DEF E
  <2>9. /\ s.http.headers = A /\ s.http.content_length = Len(b)
        /\ IsBuf(h.http.body) => s.http.body.len = 0
        /\ Len(s.read_buf) = Len(R)
        /\ \A j \in 1 .. Len(R) : j \in E \/ s.read_buf[j] = R[j]
    BY <1>4, <2>7
  <2>10. s.http.body.len = 0
    BY <2>3, <2>9 DEF HeadersRead
  <2>11. IsParser(s)
    BY <1>5 DEF Done, InBody
  <2>12. Kept(s.read_buf, R, n)
    <3>1. s.read_buf \in Seq(AnyCell)
      BY <2>11 DEF IsParser
    <3>2. \A j \in 1 .. n : R[j].part # "sep" => s.read_buf[j] = R[j]
      BY <1>1, <1>3, <2>8, <2>9
    <3> QED
      BY <1>1, <2>9, <3>1, <3>2 DEF Kept
  <2>13. HeadersTo(s, m, to)
    BY <1>3, <2>2, <2>6, <2>9 DEF HeadersTo, H
  <2>14. IF p + to = L THEN Handed(s).body = b ELSE BodyRead(s, m, p + to)
    <3>1. ASSUME p + to = L PROVE Handed(s).body = b
      <4>1. Handed(s).body = <<>>
        BY <2>10 DEF Handed
      <4>2. Len(b) = 0
        BY <1>5, <3>1
      <4>3. b \in Text("body")
        BY <1>1, RequestLemma DEF b
      <4>4. b = <<>>
        BY <4>2, <4>3, EmptySeq DEF Text
      <4> QED
        BY <4>1, <4>4
    <3>2. ASSUME p + to # L PROVE BodyRead(s, m, p + to)
      <4> DEFINE q == (p + to) - H
      <4>1. q = 0 /\ ~(q > 0)
        BY <1>3, <1>5
      <4> HIDE DEF q
      <4> QED
        BY <2>9, <2>10, <4>1 DEF BodyRead, q, b, H
    <3> QED
      BY <3>1, <3>2
  <2> QED
    BY <2>12, <2>13, <2>14 DEF BodyTo, L, b
<1>10. Good(k, s, m, p, n, R, to)
  BY <1>7, <1>8, <1>9 DEF Good
<1> QED
  BY <1>6, <1>10 DEF s, to

\* So does every span.
LEMMA GoodStep ==
  ASSUME NEW k, NEW h, NEW m, NEW p, NEW n, NEW R, NEW d \in Nat, InPiece(m, p, n, R), d < n,
         Kind(k, m, p, n), Good(k, h, m, p, n, R, d)
  PROVE  LET to == SpanEnd(h, d + 1, n)
             s == Span(h, d + 1, to)
         IN  to \in d + 1 .. n /\ (s.llhttp.error \/ Good(k, s, m, p, n, R, to))
<1> DEFINE to == SpanEnd(h, d + 1, n)
           s == Span(h, d + 1, to)
           Goal == to \in d + 1 .. n /\ (s.llhttp.error \/ Good(k, s, m, p, n, R, to))
<1>1. ASSUME InHead(h, m, p, R, d) PROVE Goal
  <2>1. ASSUME h.llhttp.lex = "line", R[d + 1].part = "end" PROVE Goal
    BY <1>1, <2>1, GoodEnd
  <2>2. ASSUME ~(h.llhttp.lex = "line" /\ R[d + 1].part = "end") PROVE Goal
    BY <1>1, <2>2, GoodHead
  <2> QED
    BY <2>1, <2>2
<1>2. ASSUME InBody(h, m, p + d) PROVE Goal
  BY <1>2, GoodBody
<1>3. p + d # Len(Cells(m))
  BY DEF InPiece
<1> HIDE DEF Goal
<1>4. Goal
  <2>1. InHead(h, m, p, R, d) \/ InBody(h, m, p + d)
    BY <1>3 DEF Good, At
  <2> QED
    BY <1>1, <1>2, <2>1
<1> QED
  BY <1>4 DEF Goal

\* A parser that gave up does not go on.
LEMMA ErrorStays ==
  ASSUME NEW h, NEW from, NEW to, h.llhttp.error
  PROVE  Span(h, from, to) = h
BY DEF Span

\* So does a whole read, unless the parser gives up.
LEMMA WalkGood ==
  ASSUME NEW k, NEW m, NEW p, NEW n, NEW R, InPiece(m, p, n, R), Kind(k, m, p, n),
         NEW w, NEW g, NEW g0, w[0] = [h |-> g, done |-> 0], Good(k, g, m, p, n, R, 0), Walks(g0, n, w)
  PROVE  w[n].h.llhttp.error \/ Good(k, w[n].h, m, p, n, R, n)
<1> DEFINE T(i) == \/ w[i].h.llhttp.error
                   \/ w[i].done \in i .. n /\ Good(k, w[i].h, m, p, n, R, w[i].done)
           S == {i \in Nat : i <= n => T(i)}
<1>1. n \in Nat /\ n # 0
  BY DEF InPiece
<1>2. 0 \in S
  <2>1. w[0].h = g /\ w[0].done = 0 /\ 0 \in 0 .. n
    BY <1>1
  <2> QED
    BY <2>1
<1>3. ASSUME NEW i \in Nat, i \in S PROVE i + 1 \in S
  <2> SUFFICES ASSUME i + 1 <= n PROVE T(i + 1)
    OBVIOUS
  <2> DEFINE d == w[i].done
             x == w[i].h
             to == SpanEnd(x, i + 1, n)
             s == Span(x, i + 1, to)
  <2>1. T(i) /\ i + 1 \in 1 .. n /\ (i + 1) - 1 = i
    BY <1>1, <1>3
  <2>2. w[i + 1] = IF d >= i + 1 THEN w[i] ELSE [h |-> s, done |-> to]
    BY <2>1 DEF Walks
  <2>3. CASE d >= i + 1
    <3>1. w[i + 1] = w[i]
      BY <2>2, <2>3
    <3>2. x.llhttp.error \/ (d \in i .. n /\ Good(k, x, m, p, n, R, d))
      BY <2>1
    <3> HIDE DEF d, x
    <3>3. w[i + 1].h = x /\ w[i + 1].done = d
      BY <3>1 DEF x, d
    <3> QED
      BY <1>1, <2>3, <3>2, <3>3
  <2>4. CASE ~(d >= i + 1)
    <3>1. w[i + 1].h = s /\ w[i + 1].done = to
      <4> HIDE DEF s, to
      <4> QED
        BY <2>2, <2>4
    <3>2. CASE x.llhttp.error
      <4>1. s = x
        BY <3>2, ErrorStays
      <4> QED
        BY <3>1, <3>2, <4>1
    <3>3. CASE ~x.llhttp.error
      <4>1. d \in i .. n /\ Good(k, x, m, p, n, R, d)
        BY <2>1, <3>3
      <4>2. d = i
        <5> HIDE DEF d
        <5> QED
          BY <2>4, <4>1
      <4>3. i < n /\ Good(k, x, m, p, n, R, i)
        BY <1>1, <4>1, <4>2
      <4> HIDE DEF d, x
      <4>4. to \in i + 1 .. n /\ (s.llhttp.error \/ Good(k, s, m, p, n, R, to))
        BY <4>3, GoodStep
      <4> HIDE DEF to, s
      <4> QED
        BY <3>1, <4>4
    <3> QED
      BY <3>2, <3>3
  <2> QED
    BY <2>3, <2>4
<1> HIDE DEF T
<1>4. n \in S
  <2> HIDE DEF S
  <2>1. Nat \subseteq S
    BY <1>2, <1>3, SetInduction
  <2> QED
    BY <1>1, <2>1
<1>5. T(n)
  BY <1>1, <1>4
<1>6. CASE w[n].h.llhttp.error
  BY <1>6
<1>7. CASE ~w[n].h.llhttp.error
  <2>1. w[n].done \in n .. n /\ Good(k, w[n].h, m, p, n, R, w[n].done)
    BY <1>5, <1>7 DEF T
  <2>2. w[n].done = n
    BY <1>1, <2>1
  <2> QED
    BY <2>1, <2>2
<1> QED
  BY <1>6, <1>7

\* What a read of cells up to x leaves, when a request is cut that way.
HandedUpTo(s, m, x, cut) ==
  /\ ~s.llhttp.error
  /\ x = Len(Cells(m)) => s.llhttp.lex = "start" /\ AsSent(s.handed, m, cut)
  /\ x # Len(Cells(m)) =>
       /\ s.handed = <<>> /\ ReadTo(s, m, x) /\ UrlRead(s, m, x)
       /\ cut = "body" => Len(Head_(m)) <= x /\ BodyRead(s, m, x)

KindOf(k, m, p, n, cut) ==
  /\ Kind(k, m, p, n)
  /\ cut # "head" => k \in {"first", "body"}
  /\ cut = "no" => k = "first"

\* What is known after a read.
LEMMA GoodHanded ==
  ASSUME NEW k, NEW s, NEW m, NEW p, NEW n, NEW R, NEW cut, InPiece(m, p, n, R),
         KindOf(k, m, p, n, cut), Good(k, s, m, p, n, R, n)
  PROVE  HandedUpTo(s, m, p + n, cut)
<1> DEFINE H == Len(Head_(m))
           L == Len(Cells(m))
           x == p + n
<1>1. /\ m \in Request /\ p \in Nat /\ n \in Nat \ {0} /\ x <= L /\ R \in Seq(AnyCell)
      /\ n <= Len(R) /\ \A j \in 1 .. n : R[j] = Cells(m)[p + j]
  BY DEF InPiece
<1>2. H \in Nat /\ L \in Nat /\ Len(m.body) \in Nat /\ (m.bad = 0 => L = H + Len(m.body))
  <2>1. Cells(m) \in Seq(AnyCell)
    BY <1>1, CellsLayout
  <2>2. L \in Nat
    BY <2>1, LenProperties
  <2>3. H \in Nat /\ Len(m.body) \in Nat /\ (m.bad = 0 => L = H + Len(m.body))
    BY <1>1, CellsLayout
  <2> QED
    BY <2>2, <2>3
<1>3. InHead(s, m, p, R, n) \/ InBody(s, m, x) \/ (Done(s, m) /\ x = L)
  BY DEF Good, At
<1>4. k \in {"first", "body"} => H <= x
  BY <1>1, <1>2 DEF KindOf, Kind
<1>5. k \in {"first", "body"} => BodyTo(s, m, x, R, n)
  BY DEF Good
<1> HIDE DEF H, L, x
<1>6. CASE x = L
  <2>1. Done(s, m)
    BY <1>2, <1>3, <1>6 DEF InHead, InBody, L, x
  <2>2. /\ ~s.llhttp.error /\ s.llhttp.lex = "start" /\ m.bad = 0
        /\ s.handed = <<Handed(s)>> /\ Handed(s).url = m.url
    BY <2>1 DEF Done
  <2>3. k \in {"first", "body"} => Handed(s).body = m.body
    BY <1>4, <1>5, <1>6 DEF BodyTo, H, L
  <2>4. k = "first" => Handed(s).headers = m.headers
    <3> SUFFICES ASSUME k = "first" PROVE Handed(s).headers = m.headers
      OBVIOUS
    <3>1. p = 0 /\ H <= n
      BY DEF KindOf, Kind, H
    <3>2. HeadersTo(s, m, n)
      BY DEF Good
    <3>3. s.http.headers = Bufs(m, Len(m.headers))
      BY <1>1, <1>2, <3>1, <3>2 DEF HeadersTo, H
    <3>4. \A j \in 1 .. n : R[j] = Cells(m)[j]
      BY <1>1, <3>1
    <3>5. n <= L
      BY <1>1, <3>1 DEF x
    <3>6. HeadIn(m, R, n)
      BY <1>1, <2>2, <3>1, <3>4, <3>5 DEF HeadIn, H, L
    <3>7. Kept(s.read_buf, R, n)
      BY <1>4, <1>5 DEF BodyTo, H
    <3> QED
      BY <3>3, <3>6, <3>7, HeadersHanded
  <2> DEFINE y == Handed(s)
  <2> HIDE DEF y
  <2>5. s.handed = <<y>> /\ y.url = m.url
    BY <2>2 DEF y
  <2>6. Len(s.handed) = 1 /\ s.handed[1] = y
    BY <2>5
  <2>7. AsSent(s.handed, m, cut)
    BY <2>3, <2>4, <2>5, <2>6 DEF AsSent, KindOf, y
  <2> QED
    BY <1>6, <2>2, <2>7 DEF HandedUpTo, L, x
<1>7. CASE x # L
  <2>1. InHead(s, m, p, R, n) \/ InBody(s, m, x)
    BY <1>3, <1>7
  <2>2. /\ ~s.llhttp.error /\ s.handed = <<>> /\ UrlRead(s, m, x)
    BY <2>1 DEF InHead, InBody, x
  <2>3. ReadTo(s, m, x)
    <3>1. CASE InHead(s, m, p, R, n)
      <4>1. x < H /\ s.llhttp.lex # "body"
        BY <3>1 DEF InHead, H, x
      <4> QED
        BY <4>1 DEF ReadTo, H
    <3>2. CASE InBody(s, m, x)
      <4>1. H <= x /\ s.llhttp.lex = "body" /\ s.llhttp.left = L - x /\ m.bad = 0 /\ x \in Nat
        BY <3>2 DEF InBody, H, L
      <4>2. ~(x < H)
        BY <1>2, <4>1
      <4> QED
        BY <4>1, <4>2 DEF ReadTo, H, L
    <3> QED
      BY <2>1, <3>1, <3>2
  <2>4. ASSUME cut = "body" PROVE H <= x /\ BodyRead(s, m, x)
    <3>1. k \in {"first", "body"}
      BY <2>4 DEF KindOf
    <3> QED
      BY <1>4, <1>5, <1>7, <3>1 DEF BodyTo, H, L
  <2> QED
    BY <1>7, <2>2, <2>3, <2>4 DEF HandedUpTo, H, L, x
<1> QED
  BY <1>6, <1>7

\* Nothing was read.
LEMMA NothingRead ==
  ASSUME NEW h, NEW m \in Request, h.http = Cleared
  PROVE  UrlRead(h, m, 0) /\ HeadersRead(h.http, m, 0)
<1>1. h.http.url = NoBuf /\ h.http.body = NoBuf /\ h.http.header_key = NoBuf
      /\ h.http.header_value = NoBuf /\ h.http.headers = <<>>
  BY DEF Cleared
<1>2. NoBuf = [at |-> 0, len |-> 0, cells |-> <<>>]
  BY DEF NoBuf
<1>3. Len(m.url) \in Nat /\ Len(m.url) > 0 /\ m.url \in Seq(AnyCell)
  <2>1. m.url \in Text("url") /\ Len(m.url) > 0
    BY RequestLemma
  <2> QED
    BY <2>1, TextLemma
<1>4. SubSeq(m.url, 1, 0) = <<>>
  BY <1>3
<1>5. UrlRead(h, m, 0)
  <2> DEFINE q == IF 0 < Len(m.url) THEN 0 ELSE Len(m.url)
  <2>1. q = 0
    BY <1>3
  <2> HIDE DEF q
  <2> QED
    BY <1>1, <1>2, <1>4, <2>1 DEF UrlRead, q
<1>6. HeadersRead(h.http, m, 0)
  <2> DEFINE q == h.http
  <2>1. q.header_key.len = 0 /\ q.header_value.len = 0
    BY <1>1, <1>2
  <2>2. IsBuf(q.body) /\ IsBuf(q.header_key) /\ IsBuf(q.header_value)
    BY <1>1, <1>2 DEF IsBuf
  <2>3. q.headers = Bufs(m, 0)
    BY <1>1 DEF Bufs
  <2> HIDE DEF q
  <2>4. BeforeHeaders(q, m, 0)
    BY <2>1, <2>3 DEF BeforeHeaders
  <2> QED
    BY <2>2, <2>4 DEF HeadersRead, q
<1> QED
  BY <1>5, <1>6

\* The cells of one read.
LEMMA PieceLemma ==
  ASSUME NEW m \in Request, NEW p \in Nat, NEW n \in Nat \ {0}, p + n <= Len(Cells(m))
  PROVE  LET piece == SubSeq(Cells(m), p + 1, p + n)
         IN  /\ piece \in Seq(AnyCell) /\ Len(piece) = n
             /\ \A k \in 1 .. n : piece[k] = Cells(m)[p + k]
<1> DEFINE C == Cells(m)
           i == p + 1
           j == p + n
           piece == SubSeq(C, i, j)
<1>1. C \in Seq(AnyCell) /\ Len(C) \in Nat
  <2>1. C \in Seq(AnyCell)
    BY CellsLayout
  <2> QED
    BY <2>1, LenProperties
<1> HIDE DEF C
<1>2. \A k \in i .. j : C[k] \in AnyCell
  <2>1. \A k \in 1 .. Len(C) : C[k] \in AnyCell
    BY <1>1, ElementOfSeq
  <2>2. \A k \in i .. j : k \in 1 .. Len(C)
    BY <1>1 DEF C
  <2> QED
    BY <2>1, <2>2
<1>3. i \in Nat /\ j \in Int /\ i <= j + 1 /\ j - i + 1 = n
  OBVIOUS
<1> HIDE DEF i, j
<1>4. /\ piece \in Seq(AnyCell) /\ Len(piece) = IF i <= j THEN j - i + 1 ELSE 0
      /\ \A k \in 1 .. j - i + 1 : piece[k] = C[i + k - 1]
  BY <1>2, <1>3, SubSeqProperties
<1> HIDE DEF piece
<1>5. Len(piece) = n
  BY <1>3, <1>4 DEF i, j
<1>6. \A k \in 1 .. n : piece[k] = C[p + k]
  BY <1>3, <1>4 DEF i
<1> QED
  BY <1>4, <1>5, <1>6 DEF piece, C, i, j

\* A read of the next n cells after p, of which nothing was handed over yet.
LEMMA DataHanded ==
  ASSUME NEW h, NEW m \in Request, NEW p \in Nat, NEW n \in Nat \ {0}, NEW cut,
         p + n <= Len(Cells(m)), IsParser(h), ~h.llhttp.error, h.handed = <<>>, ReadTo(h, m, p),
         p = 0 => h.http = Cleared /\ cut = Cut(m, n),
         p > 0 => UrlRead(h, m, p) /\ cut # "no",
         p > 0 /\ cut # "head" => Len(Head_(m)) <= p /\ BodyRead(h, m, p)
  PROVE  LET s == Data(h, SubSeq(Cells(m), p + 1, p + n))
         IN  IsParser(s) /\ (s.llhttp.error \/ HandedUpTo(s, m, p + n, cut))
<1> DEFINE piece == SubSeq(Cells(m), p + 1, p + n)
           s == Data(h, piece)
           r == ReadInto(h, piece)
           R == r.read_buf
           H == Len(Head_(m))
           L == Len(Cells(m))
<1>1. /\ piece \in Seq(AnyCell) /\ Len(piece) = n
      /\ \A k \in 1 .. n : piece[k] = Cells(m)[p + k]
  BY PieceLemma
<1>2. H \in Nat /\ L \in Nat
  <2>1. Cells(m) \in Seq(AnyCell) /\ H \in Nat
    BY CellsLayout
  <2> QED
    BY <2>1, LenProperties
<1> HIDE DEF piece, s, H, L
<1>3. IsParser(s)
  BY <1>1, DataShape DEF s
<1>4. /\ IsParser(r) /\ r.http = h.http /\ r.llhttp = h.llhttp /\ r.handed = h.handed
      /\ Len(R) >= n /\ \A k \in 1 .. n : R[k] = piece[k]
  BY <1>1, ReadIntoLemma
<1>5. PICK w : w[0] = [h |-> r, done |-> 0] /\ Walks(h, n, w) /\ s = w[n].h
  <2>1. Len(piece) \in Nat
    BY <1>1
  <2> QED
    BY <1>1, <2>1, WalkLemma, ZenonT(60) DEF ReadInto, s
<1> HIDE DEF r, R
<1>6. R \in Seq(AnyCell) /\ r.read_buf = R
  BY <1>4 DEF IsParser, R
<1>7. InPiece(m, p, n, R)
  <2>1. \A k \in 1 .. n : R[k] = Cells(m)[p + k]
    BY <1>1, <1>4
  <2>2. Len(R) \in Nat
    BY <1>6, LenProperties
  <2> QED
    BY <1>4, <1>6, <2>1, <2>2 DEF InPiece
<1>8. UrlRead(r, m, p)
  <2>1. UrlRead(h, m, p)
    <3>1. CASE p = 0
      BY <3>1, NothingRead
    <3>2. CASE p # 0
      BY <3>2
    <3> QED
      BY <3>1, <3>2
  <2> QED
    BY <1>4, <2>1 DEF UrlRead
<1>9. At(r, m, p, R, 0)
  <2>1. p + 0 = p /\ p < L
    BY <1>2 DEF L
  <2>2. CASE p < H
    <3>1. r.llhttp.lex # "body"
      BY <1>4, <2>2 DEF ReadTo, H
    <3>2. InHead(r, m, p, R, 0)
      BY <1>4, <1>6, <1>8, <2>1, <2>2, <3>1 DEF InHead, H, L
    <3> QED
      BY <3>2 DEF At
  <2>3. CASE ~(p < H)
    <3>1. r.llhttp.lex = "body" /\ r.llhttp.left = L - p /\ m.bad = 0 /\ H <= p
      BY <1>2, <1>4, <2>3 DEF ReadTo, H, L
    <3>2. InBody(r, m, p)
      BY <1>4, <1>8, <2>1, <3>1 DEF InBody, H, L
    <3>3. InBody(r, m, p + 0)
      BY <2>1, <3>2
    <3> QED
      BY <3>3 DEF At
  <2> QED
    BY <2>2, <2>3
<1> DEFINE k == IF m.bad # 0 \/ cut = "head" THEN "other" ELSE IF p = 0 THEN "first" ELSE "body"
<1>10. /\ k = "first" => p = 0 /\ m.bad = 0 /\ cut # "head" /\ cut = Cut(m, n)
       /\ k = "body" => p > 0 /\ cut # "head"
       /\ m.bad = 0 /\ cut # "head" => k \in {"first", "body"}
       /\ m.bad = 0 /\ cut = "no" => k = "first"
  BY SMT
<1> HIDE DEF k
<1>11. Kind(k, m, p, n)
  <2>1. ASSUME k = "first" PROVE H <= n
    <3>1. p = 0 /\ m.bad = 0 /\ Cut(m, n) # "head"
      BY <1>10, <2>1
    <3>2. n = L \/ n >= H
      BY <3>1 DEF Cut, H, L
    <3>3. H <= L
      BY <3>1, <1>2, CellsLayout DEF H, L
    <3> QED
      BY <1>2, <3>2, <3>3
  <2>2. ASSUME k = "body" PROVE H <= p
    BY <1>10, <2>2 DEF H
  <2> QED
    BY <1>10, <2>1, <2>2 DEF Kind, H
<1>12. Good(k, r, m, p, n, R, 0)
  <2>1. ASSUME k = "first" PROVE HeadersTo(r, m, 0)
    <3>1. h.http = Cleared
      BY <1>10, <2>1
    <3>2. HeadersRead(r.http, m, 0)
      BY <1>4, <3>1, NothingRead
    <3>3. 0 < H
      <4>1. m.bad < H /\ m.bad \in Nat
        BY RequestLemma DEF H
      <4> QED
        BY <1>2, <4>1
    <3> QED
      BY <3>2, <3>3 DEF HeadersTo, H
  <2>2. ASSUME k \in {"first", "body"} PROVE BodyTo(r, m, p + 0, R, n)
    <3>1. CASE p = 0
      <4>1. ~(H <= p + 0)
        <5>1. m.bad < H /\ m.bad \in Nat
          BY RequestLemma DEF H
        <5> QED
          BY <1>2, <3>1, <5>1
      <4> QED
        BY <4>1 DEF BodyTo, H
    <3>2. CASE p # 0
      <4>1. BodyRead(h, m, p)
        BY <1>10, <2>2, <3>2
      <4>2. BodyRead(r, m, p)
        BY <1>4, <4>1 DEF BodyRead
      <4>3. Kept(r.read_buf, R, n)
        <5>1. Len(R) \in Nat
          BY <1>6, LenProperties
        <5> QED
          BY <1>4, <1>6, <5>1 DEF Kept
      <4>4. p + 0 = p /\ p # L
        BY <1>2 DEF L
      <4> QED
        BY <4>2, <4>3, <4>4 DEF BodyTo, L
    <3> QED
      BY <3>1, <3>2
  <2> QED
    BY <1>9, <2>1, <2>2 DEF Good
<1>13. s.llhttp.error \/ Good(k, s, m, p, n, R, n)
  BY <1>5, <1>7, <1>11, <1>12, WalkGood
<1>14. CASE s.llhttp.error
  BY <1>3, <1>14 DEF s, piece
<1>15. CASE Good(k, s, m, p, n, R, n)
  <2>1. CASE m.bad = 0
    <3>1. KindOf(k, m, p, n, cut)
      BY <1>10, <1>11, <2>1 DEF KindOf
    <3> QED
      BY <1>3, <1>7, <1>15, <3>1, GoodHanded DEF s, piece
  <2>2. CASE m.bad # 0
    <3>1. InHead(s, m, p, R, n)
      BY <1>15, <2>2 DEF Good, At, InBody, Done
    <3>2. /\ ~s.llhttp.error /\ s.llhttp.lex # "body" /\ s.handed = <<>> /\ UrlRead(s, m, p + n)
          /\ p + n < H /\ p + n < L
      BY <3>1 DEF InHead, H, L
    <3>3. ReadTo(s, m, p + n)
      BY <3>2 DEF ReadTo, H
    <3>4. p + n # L
      BY <1>2, <3>2
    <3>5. cut # "body"
      <4> SUFFICES ASSUME cut = "body" PROVE FALSE
        OBVIOUS
      <4>1. CASE p = 0
        <5>1. Cut(m, n) = "body"
          BY <4>1
        <5>2. n >= H
          BY <5>1 DEF Cut, H
        <5> QED
          BY <1>2, <3>2, <4>1, <5>2
      <4>2. CASE p # 0
        <5>1. H <= p
          BY <4>2 DEF H
        <5> QED
          BY <1>2, <3>2, <5>1
      <4> QED
        BY <4>1, <4>2
    <3> QED
      BY <1>3, <3>2, <3>3, <3>4, <3>5 DEF HandedUpTo, s, piece, H, L
  <2> QED
    BY <2>1, <2>2
<1> QED
  BY <1>13, <1>14, <1>15
=============================================================================
