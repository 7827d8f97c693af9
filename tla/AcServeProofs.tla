---------------------------- MODULE AcServeProofs ----------------------------
(***************************************************************************)
(* Theorems about AcServe for any number of structures and clients, however *)
(* they cut what they send.                                                 *)
(*                                                                          *)
(* Most callbacks change one structure and what the application does for    *)
(* it.  What such a change has to keep is SlotOk, and OneSlot says that     *)
(* SlotsInv follows; the lemmas before it say what the functions that the   *)
(* callbacks are built from do to a structure.  The second part is about    *)
(* the memory of the answers: AnswerOk says what a change has to keep.  The *)
(* third adds the requests: HandedOk says how far one has come, and for a   *)
(* read it follows from DataHanded.                                         *)
(***************************************************************************)
EXTENDS AcHttpParserProofs

Write == [last : BOOLEAN, live : BOOLEAN]

\* A structure that may be in use, and one with what the application does for it.
Typed(r) ==
  /\ IsSlot(r)
  /\ r.request_state \in {"open", "closing", "closed"}
  /\ r.writes \in Seq(Write)

SlotOk(r, a) ==
  /\ Typed(r)
  /\ r.request_state # "open" => a = "none"
  /\ r.request_state = "closed" => r.writes = <<>> /\ ~r.shutting

-----------------------------------------------------------------------------
(* The functions that the callbacks are built from *)

\* serve_request_clear leaves a connection in its state and its writes under way.
LEMMA ClearLemma ==
  ASSUME NEW r, Typed(r)
  PROVE  /\ Typed(RequestClear(r))
         /\ RequestClear(r).request_state = r.request_state
         /\ RequestClear(r).shutting = r.shutting
         /\ RequestClear(r).reading = r.reading /\ ~RequestClear(r).request_completed
         /\ RequestClear(r).writes = <<>> <=> r.writes = <<>>
<1> DEFINE w == [i \in DOMAIN r.writes |-> [r.writes[i] EXCEPT !.live = FALSE]]
           c == RequestClear(r)
<1>1. /\ c.request_state = r.request_state /\ c.shutting = r.shutting /\ c.writes = w
      /\ c.reading = r.reading /\ ~c.request_completed /\ IsSlot(c)
  <2>1. c = [r EXCEPT !.request_completed = FALSE, !.http = Clear(@), !.writes = w]
    BY DEF RequestClear, Typed, IsSlot
  <2> HIDE DEF c, w
  <2> QED
    BY <2>1 DEF Typed, IsSlot
<1>2. DOMAIN r.writes = 1 .. Len(r.writes) /\ Len(r.writes) \in Nat
  BY DEF Typed
<1>3. \A i \in DOMAIN r.writes : [r.writes[i] EXCEPT !.live = FALSE] \in Write
  <2> TAKE i \in DOMAIN r.writes
  <2>1. r.writes[i] \in Write
    BY <1>2, ElementOfSeq DEF Typed
  <2> QED
    BY <2>1 DEF Write
<1>4. w \in Seq(Write) /\ Len(w) = Len(r.writes)
  BY <1>2, <1>3, IsASeq
<1>5. w = <<>> <=> r.writes = <<>>
  BY <1>4, EmptySeq DEF Typed
<1> QED
  BY <1>1, <1>4, <1>5 DEF Typed

\* on_alloc clears the request when the one before is complete.
LEMMA AllocLemma ==
  ASSUME NEW r, Typed(r)
  PROVE  /\ Typed(OnAlloc(r))
         /\ OnAlloc(r).request_state = r.request_state
         /\ OnAlloc(r).shutting = r.shutting
BY ClearLemma DEF OnAlloc

\* A write is added only to an open connection.
LEMMA WriteLemma ==
  ASSUME NEW r, NEW last \in BOOLEAN, Typed(r)
  PROVE  /\ Typed(UvWrite(r, last))
         /\ UvWrite(r, last).request_state = r.request_state
<1>1. CASE Writable(r)
  <2>1. Append(r.writes, [last |-> last, live |-> TRUE]) \in Seq(Write)
    BY AppendProperties DEF Typed, Write
  <2> QED
    BY <1>1, <2>1 DEF UvWrite, Typed, IsSlot
<1> QED
  BY <1>1 DEF UvWrite

\* close_connection tells the application and begins to close, once.
LEMMA CloseLemma ==
  ASSUME NEW s, NEW r, NEW a, Typed(r), r.request_state # "closed",
         r.request_state # "open" => a = "none"
  PROVE  /\ SlotOk(CloseConnection(s, r, a).r, CloseConnection(s, r, a).app)
         /\ CloseConnection(s, r, a).r.request_state # "closed"
BY DEF CloseConnection, Closing, SlotOk, Typed, IsSlot

\* An error is answered or closes the connection.
LEMMA ErrorLemma ==
  ASSUME NEW s, NEW r, NEW a, Typed(r), r.request_state = "open"
  PROVE  /\ SlotOk(HandleRequestError(s, r, a).r, HandleRequestError(s, r, a).app)
         /\ HandleRequestError(s, r, a).r.request_state # "closed"
<1> DEFINE e == [r EXCEPT !.reading = FALSE, !.http.http.keep_alive = FALSE]
<1>1. Typed(e) /\ e.request_state = "open"
  <2>1. PICK h : h = [r.http EXCEPT !.http.keep_alive = FALSE]
    OBVIOUS
  <2>2. e = [r EXCEPT !.reading = FALSE, !.http = h]
    BY <2>1 DEF Typed, IsSlot
  <2> HIDE DEF e
  <2> QED
    BY <2>2 DEF Typed, IsSlot
<1>2. SlotOk(UvWrite(e, TRUE), a) /\ UvWrite(e, TRUE).request_state = "open"
  <2> HIDE DEF e
  <2> QED
    BY <1>1, WriteLemma DEF SlotOk
<1>3. SlotOk(CloseConnection(s, e, a).r, CloseConnection(s, e, a).app)
      /\ CloseConnection(s, e, a).r.request_state # "closed"
  <2> HIDE DEF e
  <2> QED
    BY <1>1, CloseLemma
<1>4. \/ HandleRequestError(s, r, a) = [r |-> UvWrite(e, TRUE), app |-> a]
      \/ HandleRequestError(s, r, a) = CloseConnection(s, e, a)
  BY Zenon DEF HandleRequestError
<1> HIDE DEF e
<1>5. CASE HandleRequestError(s, r, a) = [r |-> UvWrite(e, TRUE), app |-> a]
  <2>1. /\ HandleRequestError(s, r, a).r = UvWrite(e, TRUE)
        /\ HandleRequestError(s, r, a).app = a
    BY <1>5
  <2>2. UvWrite(e, TRUE).request_state # "closed"
    BY <1>2
  <2> QED
    BY <1>2, <2>1, <2>2, Zenon
<1>6. CASE HandleRequestError(s, r, a) = CloseConnection(s, e, a)
  BY <1>3, <1>6
<1> QED
  BY <1>4, <1>5, <1>6

-----------------------------------------------------------------------------
(* One structure changes *)

\* What SlotsInv says of one structure.
LEMMA SlotsAreOk ==
  ASSUME SlotsInv, NEW s \in Slots
  PROVE  SlotOk(sr[s], app[s])
BY DEF SlotsInv, SlotTypes, ClosedIsClear, SlotOk, Typed, Write

\* A structure on the free list is closed.
LEMMA ListedIsClosed ==
  ASSUME SlotsInv, NEW s \in Range(free_list)
  PROVE  s \in Slots /\ sr[s].request_state = "closed" /\ app[s] = "none"
<1>1. s \in Slots
  BY DEF SlotsInv, SlotTypes, Range
<1> QED
  BY <1>1 DEF SlotsInv, FreeListSound

\* The structures are in order after a step if each is, and the free list is.
LEMMA SlotsFromParts ==
  ASSUME DOMAIN sr' = Slots, DOMAIN app' = Slots,
         \A s \in Slots : SlotOk(sr'[s], app'[s]),
         free_list' \in Seq(Slots), IsInjective(free_list'),
         \A s \in Range(free_list') : sr'[s].request_state = "closed",
         IsFiniteSet(Connected'), active' = Cardinality(Connected')
  PROVE  SlotsInv'
<1>1. SlotTypes'
  BY DEF SlotTypes, SlotOk, Typed, Write
<1>2. ClosedIsClear'
  BY DEF ClosedIsClear, SlotOk
<1>3. Range(free_list') \subseteq Slots
  BY DEF Range
<1>4. FreeListSound'
  BY <1>2, <1>3 DEF FreeListSound, ClosedIsClear
<1>5. NoStaleAnswer'
  BY <1>2 DEF NoStaleAnswer, ClosedIsClear
<1> QED
  BY <1>1, <1>2, <1>4, <1>5 DEF SlotsInv

\* One structure changes and is closed after it if it was before.
LEMMA SlotReplaced ==
  ASSUME SlotsInv, NEW s \in Slots, NEW r, NEW a,
         sr' = [sr EXCEPT ![s] = r], DOMAIN app' = DOMAIN app,
         \A t \in Slots : app'[t] = IF t = s THEN a ELSE app[t],
         SlotOk(r, a), r.request_state = "closed" <=> sr[s].request_state = "closed",
         UNCHANGED <<free_list, active>>
  PROVE  SlotsInv'
<1>1. DOMAIN sr = Slots /\ DOMAIN app = Slots /\ free_list \in Seq(Slots)
  BY DEF SlotsInv, SlotTypes
<1>2. DOMAIN sr' = Slots /\ DOMAIN app' = Slots
  BY <1>1
<1>3. \A t \in Slots : /\ sr'[t] = IF t = s THEN r ELSE sr[t]
                       /\ app'[t] = IF t = s THEN a ELSE app[t]
  BY <1>1
<1>4. \A t \in Slots : SlotOk(sr'[t], app'[t])
  BY <1>3, SlotsAreOk
<1>5. \A t \in Slots : sr'[t].request_state = "closed" <=> sr[t].request_state = "closed"
  BY <1>3
<1>6. Connected' = Connected
  BY <1>5 DEF Connected
<1>7. \A t \in Range(free_list) : t \in Slots /\ sr[t].request_state = "closed"
  BY <1>1 DEF SlotsInv, FreeListSound, Range
<1> QED
  BY <1>1, <1>2, <1>4, <1>5, <1>6, <1>7, SlotsFromParts DEF SlotsInv, FreeListSound

\* The same, with what the application does set as well.
LEMMA OneSlot ==
  ASSUME SlotsInv, NEW s \in Slots, NEW r, NEW a,
         sr' = [sr EXCEPT ![s] = r], app' = [app EXCEPT ![s] = a],
         SlotOk(r, a), r.request_state = "closed" <=> sr[s].request_state = "closed",
         UNCHANGED <<free_list, active>>
  PROVE  SlotsInv'
<1>1. DOMAIN app = Slots
  BY DEF SlotsInv, SlotTypes
<1>2. DOMAIN app' = DOMAIN app /\ \A t \in Slots : app'[t] = IF t = s THEN a ELSE app[t]
  BY <1>1
<1> QED
  BY <1>2, SlotReplaced

\* One structure changes, and not what the application does.
LEMMA SlotChanged ==
  ASSUME SlotsInv, NEW s \in Slots, NEW r,
         sr' = [sr EXCEPT ![s] = r], app' = app, sr[s].request_state = "open",
         Typed(r), r.request_state = "open", UNCHANGED <<free_list, active>>
  PROVE  SlotsInv'
<1>1. SlotOk(r, app[s])
  BY DEF SlotOk
<1> QED
  BY <1>1, SlotReplaced

\* A new structure is closed and clear.
LEMMA NewSlotOk == SlotOk(NewSlot, "none") /\ NewSlot.request_state = "closed"
<1>1. NewSlot.writes = <<>> /\ <<>> \in Seq(Write) /\ ~NewSlot.shutting
  BY DEF NewSlot
<1>2. IsSlot(NewSlot) /\ NewSlot.request_state = "closed"
  BY DEF NewSlot, IsSlot
<1> QED
  BY <1>1, <1>2 DEF SlotOk, Typed

\* A thread that starts.
LEMMA InitSlots == Init => SlotsInv
<1> SUFFICES ASSUME Init PROVE SlotsInv
  OBVIOUS
<1>1. \A s \in Slots : SlotOk(sr[s], app[s]) /\ sr[s].request_state = "closed"
  BY NewSlotOk DEF Init
<1>2. DOMAIN sr = Slots /\ DOMAIN app = Slots /\ free_list = <<>> /\ active = 0
  BY DEF Init
<1>3. Connected = {}
  BY <1>1 DEF Connected
<1>4. Range(free_list) = {} /\ IsInjective(free_list)
  BY <1>2 DEF Range, IsInjective
<1>5. IsFiniteSet(Connected) /\ active = Cardinality(Connected)
  BY <1>2, <1>3, FS_EmptySet
<1> QED
  BY <1>1, <1>2, <1>4, <1>5
  DEF SlotsInv, SlotTypes, ClosedIsClear, FreeListSound, NoStaleAnswer, SlotOk, Typed, Write

-----------------------------------------------------------------------------
(* The callbacks *)

\* on_accept opens a structure that nobody has: a new one, or the first of the free list,
\* which is not on the list again.
LEMMA AcceptKeeps ==
  ASSUME SlotsInv, NEW s \in Slots, OnAccept(s)
  PROVE  SlotsInv'
<1> DEFINE r == Accepted(sr[s])
<1>1. DOMAIN sr = Slots /\ DOMAIN app = Slots /\ free_list \in Seq(Slots)
  BY DEF SlotsInv, SlotTypes
<1>2. /\ sr' = [sr EXCEPT ![s] = r] /\ app' = app
      /\ active' = active + 1 /\ s \in Candidates
      /\ free_list' = IF free_list = <<>> THEN free_list ELSE Tail(free_list)
  BY DEF OnAccept
<1>3. SlotOk(r, app[s]) /\ r.request_state = "open"
  <2>1. PICK c : c = sr[s]
    OBVIOUS
  <2>2. PICK h : h = Clear(c.http)
    OBVIOUS
  <2>3. r = [c EXCEPT !.request_state = "open", !.request_completed = TRUE, !.http = h,
                      !.reading = TRUE]
    BY <2>1, <2>2 DEF Accepted
  <2>4. Typed(c)
    BY <2>1, SlotsAreOk DEF SlotOk
  <2> HIDE DEF r
  <2> QED
    BY <2>3, <2>4 DEF SlotOk, Typed, IsSlot
<1> HIDE DEF r
<1>4. sr[s].request_state = "closed" /\ s \notin Range(free_list')
  <2>1. CASE free_list = <<>>
    BY <1>2, <2>1 DEF Candidates, Unused, Range
  <2>2. CASE free_list # <<>>
    <3>1. s = Head(free_list) /\ free_list' = Tail(free_list)
      BY <1>2, <2>2 DEF Candidates
    <3>2. /\ Len(free_list) \in Nat \ {0} /\ s = free_list[1]
          /\ DOMAIN free_list = 1 .. Len(free_list)
          /\ DOMAIN free_list' = 1 .. Len(free_list) - 1
          /\ \A i \in 1 .. Len(free_list) - 1 : free_list'[i] = free_list[i + 1]
      BY <1>1, <2>2, <3>1, HeadTailProperties, EmptySeq
    <3>3. s \in Range(free_list)
      BY <3>2 DEF Range
    <3>4. sr[s].request_state = "closed"
      BY <3>3 DEF SlotsInv, FreeListSound
    <3>5. ASSUME NEW i \in 1 .. Len(free_list) - 1 PROVE free_list'[i] # s
      BY <3>2, <3>5 DEF SlotsInv, FreeListSound, IsInjective
    <3> QED
      BY <3>2, <3>4, <3>5 DEF Range
  <2> QED
    BY <2>1, <2>2
<1>5. /\ free_list' \in Seq(Slots) /\ IsInjective(free_list')
      /\ Range(free_list') \subseteq Range(free_list)
  <2>1. CASE free_list = <<>>
    BY <1>1, <1>2, <2>1 DEF SlotsInv, FreeListSound
  <2>2. CASE free_list # <<>>
    <3>1. /\ Len(free_list) \in Nat /\ free_list' \in Seq(Slots)
          /\ DOMAIN free_list = 1 .. Len(free_list)
          /\ DOMAIN free_list' = 1 .. Len(free_list) - 1
          /\ \A i \in 1 .. Len(free_list) - 1 : free_list'[i] = free_list[i + 1]
      BY <1>1, <1>2, <2>2, HeadTailProperties
    <3>2. \A i \in DOMAIN free_list' : i \in Nat /\ i + 1 \in DOMAIN free_list
      BY <3>1
    <3>3. IsInjective(free_list')
      BY <3>1, <3>2 DEF SlotsInv, FreeListSound, IsInjective
    <3> QED
      BY <3>1, <3>2, <3>3 DEF Range
  <2> QED
    BY <2>1, <2>2
<1>6. \A t \in Slots : sr'[t] = IF t = s THEN r ELSE sr[t]
  BY <1>1, <1>2
<1>7. \A t \in Slots : SlotOk(sr'[t], app'[t])
  BY <1>2, <1>3, <1>6, SlotsAreOk
<1>8. Connected' = Connected \cup {s} /\ s \notin Connected
  BY <1>3, <1>4, <1>6 DEF Connected
<1>9. IsFiniteSet(Connected') /\ active' = Cardinality(Connected')
  BY <1>2, <1>8, FS_AddElement DEF SlotsInv, FreeListSound
<1>10. \A t \in Range(free_list') : sr'[t].request_state = "closed"
  <2> TAKE t \in Range(free_list')
  <2>1. t \in Range(free_list) /\ t # s
    BY <1>4, <1>5
  <2> QED
    BY <1>6, <2>1, ListedIsClosed
<1> QED
  BY <1>1, <1>2, <1>5, <1>7, <1>9, <1>10, SlotsFromParts

\* on_close puts the structure before the free list, where it was not.
LEMMA OnCloseKeeps ==
  ASSUME SlotsInv, NEW s \in Slots, OnClose(s)
  PROVE  SlotsInv'
<1> DEFINE r == [RequestClear(sr[s]) EXCEPT !.request_state = "closed", !.http.handed = <<>>]
<1>1. DOMAIN sr = Slots /\ DOMAIN app = Slots /\ free_list \in Seq(Slots)
  BY DEF SlotsInv, SlotTypes
<1>2. /\ sr' = [sr EXCEPT ![s] = r] /\ app' = app
      /\ active' = active - 1 /\ free_list' = <<s>> \o free_list
      /\ sr[s].request_state = "closing" /\ sr[s].writes = <<>> /\ ~sr[s].shutting
  BY DEF OnClose, OneLess
<1>3. SlotOk(r, app[s]) /\ r.request_state = "closed"
  <2>1. SlotOk(sr[s], app[s]) /\ app[s] = "none"
    BY <1>2, SlotsAreOk DEF SlotOk
  <2>2. PICK c : c = RequestClear(sr[s])
    OBVIOUS
  <2>3. Typed(c) /\ c.writes = <<>> /\ ~c.shutting
    BY <1>2, <2>1, <2>2, ClearLemma DEF SlotOk
  <2>4. PICK h : h = [c.http EXCEPT !.handed = <<>>]
    OBVIOUS
  <2>5. r = [c EXCEPT !.request_state = "closed", !.http = h]
    BY <2>2, <2>3, <2>4 DEF Typed, IsSlot
  <2> HIDE DEF r
  <2> QED
    BY <2>1, <2>3, <2>5 DEF SlotOk, Typed, IsSlot
<1> HIDE DEF r
<1>4. \A t \in Slots : sr'[t] = IF t = s THEN r ELSE sr[t]
  BY <1>1, <1>2
<1>5. \A t \in Slots : SlotOk(sr'[t], app'[t])
  BY <1>2, <1>3, <1>4, SlotsAreOk
<1>6. Connected' = Connected \ {s} /\ s \in Connected
  BY <1>2, <1>3, <1>4 DEF Connected
<1>7. IsFiniteSet(Connected') /\ active' = Cardinality(Connected')
  BY <1>2, <1>6, FS_RemoveElement DEF SlotsInv, FreeListSound
<1>8. /\ Len(free_list) \in Nat /\ DOMAIN free_list = 1 .. Len(free_list)
      /\ free_list' \in Seq(Slots) /\ DOMAIN free_list' = 1 .. Len(free_list) + 1
      /\ free_list'[1] = s
      /\ \A i \in 2 .. Len(free_list) + 1 : free_list'[i] = free_list[i - 1]
  BY <1>1, <1>2, ConcatProperties
<1>9. \A i \in 1 .. Len(free_list) : free_list[i] # s /\ free_list[i] \in Slots
                                     /\ sr[free_list[i]].request_state = "closed"
  <2> TAKE i \in 1 .. Len(free_list)
  <2>1. free_list[i] \in Range(free_list)
    BY <1>8 DEF Range
  <2> QED
    BY <1>2, <2>1, ListedIsClosed
<1>10. IsInjective(free_list')
  <2> SUFFICES ASSUME NEW i \in DOMAIN free_list', NEW j \in DOMAIN free_list',
                      free_list'[i] = free_list'[j]
               PROVE  i = j
    BY DEF IsInjective
  <2>1. i \in 1 .. Len(free_list) + 1 /\ j \in 1 .. Len(free_list) + 1
    BY <1>8
  <2>2. CASE i = 1 \/ j = 1
    BY <1>8, <1>9, <2>1, <2>2
  <2>3. CASE i # 1 /\ j # 1
    <3>1. i - 1 \in DOMAIN free_list /\ j - 1 \in DOMAIN free_list
      BY <1>8, <2>1, <2>3
    <3>2. free_list[i - 1] = free_list[j - 1]
      BY <1>8, <2>1, <2>3
    <3>3. i - 1 = j - 1
      BY <3>1, <3>2 DEF SlotsInv, FreeListSound, IsInjective
    <3> QED
      BY <1>8, <2>1, <3>3
  <2> QED
    BY <2>2, <2>3
<1>11. \A t \in Range(free_list') : sr'[t].request_state = "closed"
  <2> SUFFICES ASSUME NEW i \in DOMAIN free_list'
               PROVE  sr'[free_list'[i]].request_state = "closed"
    BY DEF Range
  <2>1. CASE i = 1
    BY <1>3, <1>4, <1>8, <2>1
  <2>2. CASE i # 1
    <3>1. free_list'[i] = free_list[i - 1] /\ i - 1 \in 1 .. Len(free_list)
      BY <1>8, <2>2
    <3> QED
      BY <1>4, <1>9, <3>1
  <2> QED
    BY <2>1, <2>2
<1> QED
  BY <1>1, <1>2, <1>5, <1>7, <1>8, <1>10, <1>11, SlotsFromParts

\* ac_serve_destroy frees structures that are closed.
LEMMA DestroyKeeps ==
  ASSUME SlotsInv, Destroy
  PROVE  SlotsInv'
<1>1. DOMAIN sr = Slots /\ DOMAIN app = Slots
  BY DEF SlotsInv, SlotTypes
<1>2. /\ sr' = [s \in Slots |-> IF s \in Range(free_list) THEN NewSlot ELSE sr[s]]
      /\ app' = app /\ active' = active /\ free_list' = <<>>
  BY DEF Destroy
<1>3. \A s \in Range(free_list) : sr[s].request_state = "closed" /\ app[s] = "none"
  BY ListedIsClosed
<1>4. \A s \in Slots : SlotOk(sr'[s], app'[s])
  <2> TAKE s \in Slots
  <2>1. CASE s \in Range(free_list)
    BY <1>2, <1>3, <2>1, NewSlotOk
  <2>2. CASE s \notin Range(free_list)
    BY <1>2, <2>2, SlotsAreOk
  <2> QED
    BY <2>1, <2>2
<1>5. \A s \in Slots : sr'[s].request_state = "closed" <=> sr[s].request_state = "closed"
  BY <1>2, <1>3, NewSlotOk
<1>6. Connected' = Connected
  BY <1>5 DEF Connected
<1>7. free_list' \in Seq(Slots) /\ Range(free_list') = {} /\ IsInjective(free_list')
  BY <1>2 DEF Range, IsInjective
<1>8. DOMAIN sr' = Slots /\ DOMAIN app' = Slots
  BY <1>1, <1>2
<1> QED
  BY <1>2, <1>4, <1>6, <1>7, <1>8, SlotsFromParts DEF SlotsInv, FreeListSound

\* on_read, whatever was read: the parser's state is opaque here.
LEMMA ReadKeeps ==
  ASSUME SlotsInv, NEW s \in Slots, NEW n, OnRead(s, n)
  PROVE  SlotsInv'
<1> DEFINE r == OnAlloc(sr[s])
           h == Data(r.http, SubSeq(Cells(Head(client[s].todo)), client[s].sent + 1,
                                    client[s].sent + n))
           q == [r EXCEPT !.http = h]
           o == IF h.llhttp.error THEN HandleRequestError(s, q, app[s])
                ELSE [r |-> q, app |-> IF h.handed # r.http.handed THEN "owes" ELSE app[s]]
<1>1. Becomes(s, o) /\ CanRead(s) /\ UNCHANGED <<free_list, active>>
  BY Zenon DEF OnRead, ListsUnchanged
<1>2. Typed(q) /\ q.request_state = "open"
  <2>1. Typed(r) /\ r.request_state = "open"
    BY <1>1, SlotsAreOk, AllocLemma DEF CanRead, SlotOk
  <2> HIDE DEF r, h
  <2> QED
    BY <2>1 DEF Typed, IsSlot
<1> HIDE DEF q, h, r
<1>3. SlotOk(o.r, o.app) /\ o.r.request_state # "closed"
  <2>1. CASE h.llhttp.error
    <3>1. o = HandleRequestError(s, q, app[s])
      BY <2>1, Zenon
    <3> HIDE DEF o
    <3> QED
      BY <1>2, <3>1, ErrorLemma
  <2>2. CASE ~h.llhttp.error
    <3>1. PICK a : o = [r |-> q, app |-> a]
      BY <2>2, Zenon
    <3> HIDE DEF o
    <3>2. o.r = q /\ o.app = a
      BY <3>1
    <3>3. q.request_state # "closed"
      BY <1>2
    <3>4. SlotOk(q, a)
      BY <1>2, Zenon DEF SlotOk
    <3> QED
      BY <3>2, <3>3, <3>4, Zenon
  <2> QED
    BY <2>1, <2>2
<1> HIDE DEF o
<1> QED
  BY <1>1, <1>3, OneSlot DEF Becomes, CanRead

\* on_read with nothing, and with what ends a connection.
LEMMA ReadEndKeeps ==
  ASSUME SlotsInv, NEW s \in Slots, OnReadNothing(s) \/ OnReadEnd(s)
  PROVE  SlotsInv'
<1> DEFINE r == OnAlloc(sr[s])
<1>1. Typed(r) /\ r.request_state = "open" /\ sr[s].request_state = "open"
  <2>1. sr[s].request_state = "open"
    BY DEF OnReadNothing, OnReadEnd, OnReadEof, OnReadReset, OnReadError, CanRead
  <2> QED
    BY <2>1, SlotsAreOk, AllocLemma DEF SlotOk
<1>2. DOMAIN sr = Slots /\ DOMAIN app = Slots
  BY DEF SlotsInv, SlotTypes
<1>3. CASE OnReadNothing(s)
  <2>1. sr' = [sr EXCEPT ![s] = r] /\ app' = app /\ UNCHANGED <<free_list, active>>
    BY <1>3 DEF OnReadNothing, ListsUnchanged
  <2> HIDE DEF r
  <2> QED
    BY <1>1, <2>1, SlotChanged DEF SlotOk
<1>4. CASE OnReadEof(s)
  <2> DEFINE q == [r EXCEPT !.shutting = TRUE, !.reading = FALSE]
  <2>1. sr' = [sr EXCEPT ![s] = q] /\ app' = app /\ UNCHANGED <<free_list, active>>
    BY <1>4 DEF OnReadEof, ListsUnchanged
  <2> HIDE DEF r
  <2>2. Typed(q) /\ q.request_state = "open"
    <3>1. PICK c : c = r
      OBVIOUS
    <3>2. q = [c EXCEPT !.shutting = TRUE, !.reading = FALSE] /\ Typed(c)
          /\ c.request_state = "open"
      BY <1>1, <3>1, Zenon
    <3> HIDE DEF q
    <3> QED
      BY <3>2 DEF Typed, IsSlot
  <2> HIDE DEF q
  <2> QED
    BY <1>1, <2>1, <2>2, SlotChanged DEF SlotOk
<1>5. CASE OnReadReset(s)
  <2> DEFINE o == CloseConnection(s, r, app[s])
  <2>1. Becomes(s, o) /\ UNCHANGED <<free_list, active>>
    BY <1>5 DEF OnReadReset, ListsUnchanged
  <2>2. SlotOk(o.r, o.app) /\ o.r.request_state # "closed"
    BY <1>1, CloseLemma
  <2> HIDE DEF o
  <2> QED
    BY <1>1, <2>1, <2>2, OneSlot DEF Becomes
<1>6. CASE OnReadError(s)
  <2> DEFINE o == HandleRequestError(s, r, app[s])
  <2>1. Becomes(s, o) /\ UNCHANGED <<free_list, active>>
    BY <1>6 DEF OnReadError, ListsUnchanged
  <2>2. SlotOk(o.r, o.app) /\ o.r.request_state # "closed"
    BY <1>1, ErrorLemma
  <2> HIDE DEF o
  <2> QED
    BY <1>1, <2>1, <2>2, OneSlot DEF Becomes
<1> QED
  BY <1>3, <1>4, <1>5, <1>6 DEF OnReadEnd

\* after_write, after_last_write and the end of a shutdown.
LEMMA WrittenKeeps ==
  ASSUME SlotsInv, NEW s \in Slots, AfterWrite(s) \/ AfterLastWrite(s) \/ OnShutdown(s)
  PROVE  SlotsInv'
<1> DEFINE r == sr[s]
<1>1. SlotOk(r, app[s]) /\ r.request_state # "closed"
  BY SlotsAreOk DEF AfterWrite, AfterLastWrite, OnShutdown, SlotOk
<1>2. ASSUME r.writes # <<>> PROVE Tail(r.writes) \in Seq(Write)
  BY <1>1, <1>2, HeadTailProperties DEF SlotOk, Typed
<1>3. CASE AfterWrite(s)
  <2> DEFINE q == [r EXCEPT !.writes = Tail(@)]
             a == IF app[s] = "streaming" THEN "more" ELSE app[s]
  <2>1. /\ sr' = [sr EXCEPT ![s] = q] /\ app' = [app EXCEPT ![s] = a]
        /\ UNCHANGED <<free_list, active>> /\ r.writes # <<>>
    BY <1>3 DEF AfterWrite, ListsUnchanged
  <2> HIDE DEF r
  <2>2. Typed(q) /\ q.request_state = r.request_state
    BY <1>1, <1>2, <2>1, SMTT(40) DEF SlotOk, Typed, IsSlot
  <2>3. SlotOk(q, a)
    <3> HIDE DEF q
    <3> QED
      BY <1>1, <2>2 DEF SlotOk
  <2>4. q.request_state # "closed" /\ sr[s].request_state # "closed"
    BY <1>1, <2>2 DEF r
  <2> HIDE DEF q, a
  <2> QED
    BY <2>1, <2>3, <2>4, OneSlot
<1>4. CASE AfterLastWrite(s)
  <2> DEFINE q == [r EXCEPT !.writes = Tail(@), !.request_completed = TRUE]
             keep == q.http.http.keep_alive
             o == IF keep THEN [r |-> q, app |-> "none"] ELSE CloseConnection(s, q, app[s])
  <2>1. Becomes(s, o) /\ UNCHANGED <<free_list, active>> /\ r.writes # <<>>
    BY <1>4, Zenon DEF AfterLastWrite, ListsUnchanged
  <2>2. Typed(q) /\ q.request_state = r.request_state
    <3>1. PICK c : c = r
      OBVIOUS
    <3>2. /\ q = [c EXCEPT !.writes = Tail(@), !.request_completed = TRUE]
          /\ Typed(c) /\ Tail(c.writes) \in Seq(Write)
      BY <1>1, <1>2, <2>1, <3>1, Zenon DEF SlotOk
    <3> HIDE DEF q, r
    <3> QED
      BY <3>1, <3>2 DEF Typed, IsSlot
  <2>3. sr[s].request_state # "closed"
    BY <1>1
  <2> HIDE DEF r, q
  <2>4. SlotOk(o.r, o.app) /\ o.r.request_state # "closed"
    <3>1. CASE keep
      <4>1. o = [r |-> q, app |-> "none"]
        BY <3>1, Zenon
      <4> HIDE DEF o
      <4>2. o.r = q /\ o.app = "none"
        BY <4>1
      <4>3. SlotOk(q, "none") /\ q.request_state # "closed"
        BY <1>1, <2>2 DEF SlotOk
      <4> QED
        BY <4>2, <4>3, Zenon
    <3>2. CASE ~keep
      <4>1. o = CloseConnection(s, q, app[s])
        BY <3>2, Zenon
      <4> HIDE DEF o
      <4> QED
        BY <1>1, <2>2, <4>1, CloseLemma DEF SlotOk
    <3> QED
      BY <3>1, <3>2
  <2> HIDE DEF o
  <2> QED
    BY <2>1, <2>3, <2>4, OneSlot DEF Becomes
<1>5. CASE OnShutdown(s)
  <2> DEFINE q == [r EXCEPT !.shutting = FALSE]
             o == CloseConnection(s, q, app[s])
  <2>1. Becomes(s, o) /\ UNCHANGED <<free_list, active>>
    BY <1>5 DEF OnShutdown, ListsUnchanged
  <2>2. sr[s].request_state # "closed"
    BY <1>1
  <2>3. Typed(q) /\ q.request_state = r.request_state
    <3>1. PICK c : c = r
      OBVIOUS
    <3>2. q = [c EXCEPT !.shutting = FALSE] /\ Typed(c)
      BY <1>1, <3>1, Zenon DEF SlotOk
    <3> HIDE DEF q, r
    <3> QED
      BY <3>1, <3>2 DEF Typed, IsSlot
  <2> HIDE DEF r, q
  <2>4. SlotOk(o.r, o.app) /\ o.r.request_state # "closed"
    BY <1>1, <2>3, CloseLemma DEF SlotOk
  <2> HIDE DEF o
  <2> QED
    BY <2>1, <2>2, <2>4, OneSlot DEF Becomes
<1> QED
  BY <1>3, <1>4, <1>5

-----------------------------------------------------------------------------
(* The application *)

\* ac_serve_http_200 and the chunks: the application answers only what it owes or goes on
\* with, and then the connection is open.
LEMMA AnswerKeeps ==
  ASSUME SlotsInv, NEW s \in Slots, Answer(s) \/ WriteChunk(s) \/ FinishChunks(s)
  PROVE  SlotsInv'
<1>1. Typed(sr[s]) /\ sr[s].request_state = "open"
  <2>1. app[s] # "none"
    BY DEF Answer, WriteChunk, FinishChunks
  <2> QED
    BY <2>1, SlotsAreOk DEF SlotOk
<1>2. ASSUME NEW last \in BOOLEAN, NEW a,
             sr' = [sr EXCEPT ![s] = [UvWrite(@, last) EXCEPT !.http.handed = <<>>]],
             app' = [app EXCEPT ![s] = a], UNCHANGED <<free_list, active>>
      PROVE  SlotsInv'
  <2> DEFINE q == [UvWrite(sr[s], last) EXCEPT !.http.handed = <<>>]
  <2>1. PICK u : u = UvWrite(sr[s], last)
    OBVIOUS
  <2>2. Typed(u) /\ u.request_state = "open"
    BY <1>1, <2>1, WriteLemma
  <2>3. PICK h : h = [u.http EXCEPT !.handed = <<>>]
    OBVIOUS
  <2>4. q = [u EXCEPT !.http = h]
    BY <2>1, <2>2, <2>3 DEF Typed, IsSlot
  <2>5. sr' = [sr EXCEPT ![s] = q]
    BY <1>2
  <2> HIDE DEF q
  <2>6. Typed(q) /\ q.request_state = "open"
    BY <2>2, <2>4 DEF Typed, IsSlot
  <2> QED
    BY <1>1, <1>2, <2>5, <2>6, OneSlot DEF SlotOk
<1>3. CASE Answer(s)
  BY <1>2, <1>3 DEF Answer, ListsUnchanged
<1>4. CASE WriteChunk(s)
  BY <1>2, <1>4 DEF WriteChunk, ListsUnchanged
<1>5. CASE FinishChunks(s)
  <2> DEFINE u == UvWrite(sr[s], TRUE)
  <2>1. /\ sr' = [sr EXCEPT ![s] = u] /\ app' = [app EXCEPT ![s] = "answered"]
        /\ UNCHANGED <<free_list, active>>
    BY <1>5 DEF FinishChunks, ListsUnchanged
  <2>2. Typed(u) /\ u.request_state = "open"
    BY <1>1, WriteLemma
  <2> HIDE DEF u
  <2> QED
    BY <1>1, <2>1, <2>2, OneSlot DEF SlotOk
<1> QED
  BY <1>3, <1>4, <1>5

-----------------------------------------------------------------------------
(* The theorem *)

\* The invariant is inductive.
LEMMA SlotsKept == SlotsInv /\ [Next]_vars => SlotsInv'
<1> SUFFICES ASSUME SlotsInv, [Next]_vars PROVE SlotsInv'
  OBVIOUS
<1>1. ASSUME UNCHANGED <<sr, app, free_list, active>> PROVE SlotsInv'
  BY <1>1 DEF SlotsInv, SlotTypes, ClosedIsClear, FreeListSound, NoStaleAnswer, Connected
<1>2. CASE UNCHANGED vars
  BY <1>1, <1>2 DEF vars
<1>3. CASE Timer \/ ShutDown \/ (\E s \in Slots : Leave(s))
  BY <1>1, <1>3 DEF Timer, ShutDown, Leave, ListsUnchanged
<1>4. CASE Destroy
  BY <1>4, DestroyKeeps
<1>5. ASSUME NEW s \in Slots,
             \/ OnAccept(s) \/ OnReadNothing(s) \/ OnReadEnd(s) \/ Callback(s)
             \/ \E n \in 1 .. MaxPiece : OnRead(s, n)
             \/ Answer(s) \/ WriteChunk(s) \/ FinishChunks(s)
      PROVE  SlotsInv'
  <2>1. CASE OnAccept(s)
    BY <2>1, AcceptKeeps
  <2>2. CASE OnReadNothing(s) \/ OnReadEnd(s)
    BY <2>2, ReadEndKeeps
  <2>3. CASE Callback(s)
    BY <2>3, WrittenKeeps, OnCloseKeeps DEF Callback
  <2>4. CASE \E n \in 1 .. MaxPiece : OnRead(s, n)
    BY <2>4, ReadKeeps
  <2>5. CASE Answer(s) \/ WriteChunk(s) \/ FinishChunks(s)
    BY <2>5, AnswerKeeps
  <2> QED
    BY <1>5, <2>1, <2>2, <2>3, <2>4, <2>5
<1> QED
  BY <1>2, <1>3, <1>4, <1>5, Zenon DEF Next

\* With any number of structures and clients: a structure goes to the free list once, when
\* its connection is closed and nothing of it is left in libuv; active counts the
\* connections that are left; and the application works only for connections that are open
\* (ac_serve_request_init, close_connection, on_close, timer_cb).
THEOREM StructuresOwned == Spec => []SlotsInv
BY InitSlots, SlotsKept, PTL DEF Spec

-----------------------------------------------------------------------------
(* The answers *)

Live(r) == \A i \in DOMAIN r.writes : r.writes[i].live

\* A connection that is not read any more only has to keep its answers.
LEMMA UnreadAnswer ==
  ASSUME NEW r, NEW a, NEW c, ~r.reading, c.fresh => Live(r)
  PROVE  AnswerOk(r, a, c)
BY DEF AnswerOk, Live

\* on_alloc clears nothing of an answer that is on its way.
LEMMA AllocAnswer ==
  ASSUME NEW r, NEW a, NEW c, Typed(r), AnswerOk(r, a, c), r.reading
  PROVE  /\ Typed(OnAlloc(r)) /\ OnAlloc(r).reading /\ ~OnAlloc(r).request_completed
         /\ OnAlloc(r).request_state = "open"
         /\ c.fresh => OnAlloc(r).writes = r.writes
<1>1. r.request_state = "open" /\ (c.fresh /\ r.request_completed => r.writes = <<>>)
  BY DEF AnswerOk
<1>2. CASE r.request_completed
  <2>1. OnAlloc(r) = RequestClear(r)
    BY <1>2 DEF OnAlloc
  <2> QED
    BY <1>1, <1>2, <2>1, ClearLemma
<1>3. CASE ~r.request_completed
  BY <1>1, <1>3 DEF OnAlloc
<1> QED
  BY <1>2, <1>3

\* close_connection leaves the writes, which libuv cancels.
LEMMA CloseAnswer ==
  ASSUME NEW s, NEW r, NEW a, NEW c, Typed(r), r.reading => r.request_state = "open",
         c.fresh => Live(r)
  PROVE  AnswerOk(CloseConnection(s, r, a).r, CloseConnection(s, r, a).app, c)
<1>1. CASE r.request_state = "open"
  <2>1. CloseConnection(s, r, a).r = Closing(r)
    BY <1>1 DEF CloseConnection
  <2>2. ~Closing(r).reading /\ Closing(r).writes = r.writes
    BY DEF Closing, Typed, IsSlot
  <2>3. c.fresh => Live(Closing(r))
    BY <2>2 DEF Live
  <2> QED
    BY <2>1, <2>2, <2>3, UnreadAnswer
<1>2. CASE r.request_state # "open"
  <2>1. CloseConnection(s, r, a) = [r |-> r, app |-> a]
    BY <1>2 DEF CloseConnection
  <2> QED
    BY <1>2, <2>1, UnreadAnswer
<1> QED
  BY <1>1, <1>2

\* A write is added behind the others, and it is live.
LEMMA Appended ==
  ASSUME NEW r, NEW last \in BOOLEAN, Typed(r)
  PROVE  LET u == UvWrite(r, last) IN
         /\ u.reading = r.reading /\ u.request_completed = r.request_completed
         /\ \/ u.writes = r.writes
            \/ /\ Len(u.writes) = Len(r.writes) + 1 /\ Len(r.writes) \in Nat
               /\ DOMAIN u.writes = 1 .. Len(r.writes) + 1 /\ DOMAIN r.writes = 1 .. Len(r.writes)
               /\ \A i \in 1 .. Len(r.writes) : u.writes[i] = r.writes[i]
               /\ u.writes[Len(r.writes) + 1] = [last |-> last, live |-> TRUE]
<1>1. CASE ~Writable(r)
  BY <1>1 DEF UvWrite
<1>2. CASE Writable(r)
  <2> DEFINE x == [last |-> last, live |-> TRUE]
             u == UvWrite(r, last)
  <2>1. u = [r EXCEPT !.writes = Append(@, x)]
    BY <1>2 DEF UvWrite
  <2>2. x \in Write /\ r.writes \in Seq(Write)
    BY DEF Typed, Write
  <2> HIDE DEF x, u
  <2>3. /\ u.reading = r.reading /\ u.request_completed = r.request_completed
        /\ u.writes = Append(r.writes, x)
    BY <2>1 DEF Typed, IsSlot
  <2>4. /\ Len(u.writes) = Len(r.writes) + 1 /\ u.writes \in Seq(Write)
        /\ \A i \in 1 .. Len(r.writes) : u.writes[i] = r.writes[i]
        /\ u.writes[Len(r.writes) + 1] = x
    BY <2>2, <2>3, AppendProperties
  <2>5. /\ DOMAIN u.writes = 1 .. Len(u.writes) /\ DOMAIN r.writes = 1 .. Len(r.writes)
        /\ Len(r.writes) \in Nat
    BY <2>2, <2>4, LenProperties
  <2> USE DEF x, u
  <2> QED
    BY <2>3, <2>4, <2>5, Zenon
<1> QED
  BY <1>1, <1>2

\* Only the fields that AnswerOk speaks of matter.
LEMMA SameAnswer ==
  ASSUME NEW r, NEW q, NEW a, NEW c, AnswerOk(r, a, c), q.reading = r.reading,
         q.request_state = r.request_state, q.request_completed = r.request_completed,
         q.writes = r.writes
  PROVE  AnswerOk(q, a, c)
BY Zenon DEF AnswerOk

\* An error ends the reading, and its answer is the last.
LEMMA ErrorAnswer ==
  ASSUME NEW s, NEW r, NEW a, NEW c, Typed(r), r.request_state = "open", c.fresh => Live(r)
  PROVE  AnswerOk(HandleRequestError(s, r, a).r, HandleRequestError(s, r, a).app, c)
<1> DEFINE e == [r EXCEPT !.reading = FALSE, !.http.http.keep_alive = FALSE]
<1>1. Typed(e) /\ ~e.reading /\ e.request_state = "open" /\ e.writes = r.writes
  <2>1. PICK h : h = [r.http EXCEPT !.http.keep_alive = FALSE]
    OBVIOUS
  <2>2. e = [r EXCEPT !.reading = FALSE, !.http = h]
    BY <2>1 DEF Typed, IsSlot
  <2> HIDE DEF e
  <2> QED
    BY <2>2 DEF Typed, IsSlot
<1>2. \/ HandleRequestError(s, r, a) = [r |-> UvWrite(e, TRUE), app |-> a]
      \/ HandleRequestError(s, r, a) = CloseConnection(s, e, a)
  BY Zenon DEF HandleRequestError
<1> HIDE DEF e
<1>3. c.fresh => Live(e)
  BY <1>1 DEF Live
<1>4. AnswerOk(CloseConnection(s, e, a).r, CloseConnection(s, e, a).app, c)
  BY <1>1, <1>3, CloseAnswer
<1>5. AnswerOk(UvWrite(e, TRUE), a, c)
  <2> DEFINE u == UvWrite(e, TRUE)
  <2>1. /\ u.reading = e.reading
        /\ \/ u.writes = e.writes
           \/ /\ DOMAIN u.writes = 1 .. Len(e.writes) + 1 /\ DOMAIN e.writes = 1 .. Len(e.writes)
              /\ Len(e.writes) \in Nat
              /\ \A i \in 1 .. Len(e.writes) : u.writes[i] = e.writes[i]
              /\ u.writes[Len(e.writes) + 1] = [last |-> TRUE, live |-> TRUE]
    BY <1>1, Appended
  <2> HIDE DEF u
  <2>2. c.fresh => Live(u)
    BY <1>3, <2>1 DEF Live
  <2> QED
    BY <1>1, <2>1, <2>2, UnreadAnswer DEF u
<1>6. CASE HandleRequestError(s, r, a) = [r |-> UvWrite(e, TRUE), app |-> a]
  <2>1. HandleRequestError(s, r, a).r = UvWrite(e, TRUE) /\ HandleRequestError(s, r, a).app = a
    BY <1>6
  <2> QED
    BY <1>5, <2>1, Zenon
<1> QED
  BY <1>2, <1>4, <1>6, Zenon

\* The application adds a write to an answer it has not ended.
LEMMA WriteAnswer ==
  ASSUME NEW r, NEW a, NEW b, NEW c, NEW last \in BOOLEAN, Typed(r), AnswerOk(r, a, c),
         r.request_state = "open", a \in Answering, last => b \notin Answering
  PROVE  AnswerOk(UvWrite(r, last), b, c)
<1> DEFINE u == UvWrite(r, last)
<1>1. /\ u.reading = r.reading /\ u.request_completed = r.request_completed
      /\ u.request_state = "open"
      /\ \/ u.writes = r.writes
         \/ /\ Len(u.writes) = Len(r.writes) + 1 /\ Len(r.writes) \in Nat
            /\ DOMAIN u.writes = 1 .. Len(r.writes) + 1 /\ DOMAIN r.writes = 1 .. Len(r.writes)
            /\ \A i \in 1 .. Len(r.writes) : u.writes[i] = r.writes[i]
            /\ u.writes[Len(r.writes) + 1] = [last |-> last, live |-> TRUE]
  BY Appended, WriteLemma
<1> HIDE DEF u
<1>2. ASSUME c.fresh PROVE \A i \in DOMAIN u.writes : u.writes[i].live
  BY <1>1, <1>2 DEF AnswerOk
<1>3. ASSUME c.fresh, u.reading
      PROVE  /\ c.waiting /\ ~u.request_completed
             /\ \A i \in DOMAIN u.writes :
                  u.writes[i].last => i = Len(u.writes) /\ b \notin Answering
  <2>1. c.waiting /\ ~r.request_completed /\ \A i \in DOMAIN r.writes : ~r.writes[i].last
    BY <1>1, <1>3 DEF AnswerOk
  <2>2. CASE u.writes = r.writes
    BY <1>1, <2>1, <2>2
  <2>3. CASE u.writes # r.writes
    BY <1>1, <2>1, <2>3, SMTT(30)
  <2> QED
    BY <2>2, <2>3
<1> QED
  BY <1>1, <1>2, <1>3 DEF AnswerOk, u

\* One structure, what the application does for it, and its client change.
LEMMA OneAnswer ==
  ASSUME AnswersInv, SlotsInv', NEW s \in Slots, NEW r, NEW a, NEW c, DOMAIN client' = Slots,
         \A t \in Slots : /\ sr'[t] = IF t = s THEN r ELSE sr[t]
                          /\ app'[t] = IF t = s THEN a ELSE app[t]
                          /\ client'[t] = IF t = s THEN c ELSE client[t],
         IsClient(c), AnswerOk(r, a, c)
  PROVE  AnswersInv'
<1>1. \A t \in Slots : IsClient(client'[t]) /\ AnswerOk(sr'[t], app'[t], client'[t])
  BY DEF AnswersInv
<1> QED
  BY <1>1, Zenon DEF AnswersInv

\* What AnswersInv says of one structure.
LEMMA AnswersAreOk ==
  ASSUME AnswersInv, NEW s \in Slots
  PROVE  /\ SlotsInv /\ SlotOk(sr[s], app[s])
         /\ IsClient(client[s]) /\ AnswerOk(sr[s], app[s], client[s])
         /\ DOMAIN sr = Slots /\ DOMAIN app = Slots /\ DOMAIN client = Slots
BY SlotsAreOk DEF AnswersInv, SlotsInv, SlotTypes

-----------------------------------------------------------------------------
(* The answers over the callbacks *)

\* A connection that begins is to be read, and nothing is on its way.
LEMMA AcceptAnswers ==
  ASSUME AnswersInv, SlotsInv', NEW s \in Slots, OnAccept(s)
  PROVE  AnswersInv'
<1> DEFINE r == Accepted(sr[s])
           c == [todo |-> plan[connections + 1], sent |-> 0, waiting |-> FALSE, gone |-> FALSE,
                 fresh |-> sr[s].http.llhttp = Start, cut |-> "no"]
<1>1. /\ sr' = [sr EXCEPT ![s] = r] /\ app' = app /\ client' = [client EXCEPT ![s] = c]
      /\ s \in Candidates
  BY DEF OnAccept
<1>2. SlotOk(sr[s], app[s]) /\ sr[s].request_state = "closed"
  <2>1. CASE free_list = <<>>
    BY <1>1, <2>1, AnswersAreOk DEF Candidates, Unused
  <2>2. CASE free_list # <<>>
    <3>1. free_list \in Seq(Slots) /\ s = Head(free_list)
      BY <1>1, <2>2, AnswersAreOk DEF Candidates, SlotsInv, SlotTypes
    <3>2. 1 \in DOMAIN free_list /\ free_list[1] = s
      BY <2>2, <3>1, EmptySeq
    <3>3. s \in Range(free_list)
      BY <3>2 DEF Range
    <3> QED
      BY <3>3, AnswersAreOk, ListedIsClosed
  <2> QED
    BY <2>1, <2>2
<1>3. r.request_state = "open" /\ r.writes = <<>>
  <2>1. PICK q : q = sr[s]
    OBVIOUS
  <2>2. PICK h : h = Clear(q.http)
    OBVIOUS
  <2>3. r = [q EXCEPT !.request_state = "open", !.request_completed = TRUE, !.http = h,
                      !.reading = TRUE]
    BY <2>1, <2>2 DEF Accepted
  <2>4. IsSlot(q) /\ q.writes = <<>>
    BY <1>2, <2>1 DEF SlotOk, Typed
  <2> HIDE DEF r
  <2> QED
    BY <2>3, <2>4 DEF IsSlot
<1>4. app[s] = "none"
  BY <1>2 DEF SlotOk
<1>5. IsClient(c)
  BY DEF IsClient
<1> HIDE DEF r, c
<1>6. AnswerOk(r, app[s], c)
  <2>1. DOMAIN r.writes = {} /\ "none" \notin Answering
    BY <1>3 DEF Answering
  <2> QED
    BY <1>3, <1>4, <2>1 DEF AnswerOk
<1>7. /\ DOMAIN client' = Slots
      /\ \A t \in Slots : /\ sr'[t] = IF t = s THEN r ELSE sr[t]
                          /\ app'[t] = IF t = s THEN app[s] ELSE app[t]
                          /\ client'[t] = IF t = s THEN c ELSE client[t]
  BY <1>1, AnswersAreOk
<1> QED
  BY <1>5, <1>6, <1>7, OneAnswer

\* A structure that becomes free has no answers left.
LEMMA CloseAnswers ==
  ASSUME AnswersInv, SlotsInv', NEW s \in Slots, OnClose(s)
  PROVE  AnswersInv'
<1> DEFINE r == [RequestClear(sr[s]) EXCEPT !.request_state = "closed", !.http.handed = <<>>]
<1>1. /\ sr' = [sr EXCEPT ![s] = r] /\ app' = app /\ client' = [client EXCEPT ![s] = Gone]
      /\ sr[s].request_state = "closing" /\ sr[s].writes = <<>>
  BY DEF OnClose
<1>2. Typed(sr[s]) /\ ~sr[s].reading
  <2>1. sr[s].reading => sr[s].request_state = "open"
    BY AnswersAreOk DEF AnswerOk
  <2> QED
    BY <1>1, <2>1, AnswersAreOk DEF SlotOk
<1>3. ~r.reading /\ r.writes = <<>>
  <2>1. PICK q : q = RequestClear(sr[s])
    OBVIOUS
  <2>2. IsSlot(q) /\ ~q.reading /\ q.writes = <<>>
    BY <1>1, <1>2, <2>1, ClearLemma DEF Typed
  <2>3. PICK h : h = [q.http EXCEPT !.handed = <<>>]
    OBVIOUS
  <2>4. r = [q EXCEPT !.request_state = "closed", !.http = h]
    BY <2>1, <2>2, <2>3 DEF IsSlot
  <2> HIDE DEF r
  <2> QED
    BY <2>2, <2>4 DEF IsSlot
<1> HIDE DEF r
<1>4. AnswerOk(r, app[s], Gone)
  <2>1. Live(r)
    BY <1>3 DEF Live
  <2> QED
    BY <1>3, <2>1, UnreadAnswer
<1>5. IsClient(Gone)
  BY DEF IsClient, Gone
<1>6. /\ DOMAIN client' = Slots
      /\ \A t \in Slots : /\ sr'[t] = IF t = s THEN r ELSE sr[t]
                          /\ app'[t] = IF t = s THEN app[s] ELSE app[t]
                          /\ client'[t] = IF t = s THEN Gone ELSE client[t]
  BY <1>1, AnswersAreOk
<1> QED
  BY <1>4, <1>5, <1>6, OneAnswer

\* The structures that ac_serve_destroy frees have none either.
LEMMA DestroyAnswers ==
  ASSUME AnswersInv, SlotsInv', Destroy
  PROVE  AnswersInv'
<1>1. /\ sr' = [s \in Slots |-> IF s \in Range(free_list) THEN NewSlot ELSE sr[s]]
      /\ app' = app /\ client' = client
  BY DEF Destroy
<1>2. ASSUME NEW s \in Slots PROVE AnswerOk(sr'[s], app'[s], client'[s])
  <2>1. CASE s \in Range(free_list)
    <3>1. sr'[s] = NewSlot
      BY <1>1, <2>1
    <3>2. ~NewSlot.reading /\ Live(NewSlot)
      BY DEF NewSlot, Live
    <3> QED
      BY <3>1, <3>2, UnreadAnswer
  <2>2. CASE s \notin Range(free_list)
    BY <1>1, <2>2, AnswersAreOk
  <2> QED
    BY <2>1, <2>2
<1> QED
  BY <1>1, <1>2, Zenon DEF AnswersInv

\* A client that leaves waits no less than before.
LEMMA LeaveAnswers ==
  ASSUME AnswersInv, SlotsInv', NEW s \in Slots, Leave(s)
  PROVE  AnswersInv'
<1> DEFINE c == [client[s] EXCEPT !.gone = TRUE]
<1>1. sr' = sr /\ app' = app /\ client' = [client EXCEPT ![s] = c]
  BY DEF Leave
<1>2. IsClient(c) /\ c.fresh = client[s].fresh /\ c.waiting = client[s].waiting
  <2>1. PICK d : d = client[s]
    OBVIOUS
  <2>2. c = [d EXCEPT !.gone = TRUE] /\ IsClient(d)
    BY <2>1, AnswersAreOk
  <2> HIDE DEF c
  <2> QED
    BY <2>1, <2>2 DEF IsClient
<1> HIDE DEF c
<1>3. AnswerOk(sr[s], app[s], c)
  BY <1>2, AnswersAreOk DEF AnswerOk
<1>4. /\ DOMAIN client' = Slots
      /\ \A t \in Slots : /\ sr'[t] = IF t = s THEN sr[s] ELSE sr[t]
                          /\ app'[t] = IF t = s THEN app[s] ELSE app[t]
                          /\ client'[t] = IF t = s THEN c ELSE client[t]
  BY <1>1, AnswersAreOk
<1> QED
  BY <1>2, <1>3, <1>4, OneAnswer

\* The client stays as it is.
LEMMA SameClient ==
  ASSUME AnswersInv, SlotsInv', NEW s \in Slots, NEW r, NEW a,
         sr' = [sr EXCEPT ![s] = r], app' = [app EXCEPT ![s] = a], client' = client,
         AnswerOk(r, a, client[s])
  PROVE  AnswersInv'
<1>1. /\ DOMAIN client' = Slots /\ IsClient(client[s])
      /\ \A t \in Slots : /\ sr'[t] = IF t = s THEN r ELSE sr[t]
                          /\ app'[t] = IF t = s THEN a ELSE app[t]
                          /\ client'[t] = IF t = s THEN client[s] ELSE client[t]
  BY AnswersAreOk
<1> QED
  BY <1>1, OneAnswer

\* The client and what the application does stay as they are.
LEMMA SameWork ==
  ASSUME AnswersInv, SlotsInv', NEW s \in Slots, NEW r,
         sr' = [sr EXCEPT ![s] = r], app' = app, client' = client,
         AnswerOk(r, app[s], client[s])
  PROVE  AnswersInv'
<1>1. /\ DOMAIN client' = Slots /\ IsClient(client[s])
      /\ \A t \in Slots : /\ sr'[t] = IF t = s THEN r ELSE sr[t]
                          /\ app'[t] = IF t = s THEN app[s] ELSE app[t]
                          /\ client'[t] = IF t = s THEN client[s] ELSE client[t]
  BY AnswersAreOk
<1> QED
  BY <1>1, OneAnswer

\* A read hands a request over only when the client has sent all of it, and then waits.
LEMMA ReadAnswers ==
  ASSUME AnswersInv, SlotsInv', WholeHanded', NEW s \in Slots, NEW n, OnRead(s, n)
  PROVE  AnswersInv'
<1> DEFINE r == OnAlloc(sr[s])
           cells == Cells(Head(client[s].todo))
           h == Data(r.http, SubSeq(cells, client[s].sent + 1, client[s].sent + n))
           q == [r EXCEPT !.http = h]
           a == IF h.handed # r.http.handed THEN "owes" ELSE app[s]
           o == IF h.llhttp.error THEN HandleRequestError(s, q, app[s]) ELSE [r |-> q, app |-> a]
           c == [client[s] EXCEPT
                   !.sent = client[s].sent + n, !.waiting = client[s].sent + n = Len(cells),
                   !.cut = IF client[s].sent = 0 THEN Cut(Head(client[s].todo), n) ELSE @]
<1>1. /\ Becomes(s, o) /\ CanRead(s) /\ ~client[s].waiting
      /\ client' = [client EXCEPT ![s] = c]
  BY Zenon DEF OnRead
<1>2. IsClient(c) /\ c.fresh = client[s].fresh
  <2>1. PICK d : d = client[s]
    OBVIOUS
  <2>2. PICK x : x = (client[s].sent + n = Len(cells))
    OBVIOUS
  <2>3. PICK y : y = IF client[s].sent = 0 THEN Cut(Head(client[s].todo), n) ELSE d.cut
    OBVIOUS
  <2>4. PICK z : z = client[s].sent + n
    OBVIOUS
  <2>5. IsClient(d)
    BY <2>1, AnswersAreOk
  <2>6. c = [d EXCEPT !.sent = z, !.waiting = x, !.cut = y]
    BY <2>1, <2>2, <2>3, <2>4, <2>5 DEF IsClient
  <2> HIDE DEF c, cells
  <2> QED
    BY <2>1, <2>5, <2>6 DEF IsClient
<1>3. /\ Typed(r) /\ r.reading /\ ~r.request_completed /\ r.request_state = "open"
      /\ client[s].fresh => r.writes = sr[s].writes
  BY <1>1, AnswersAreOk, AllocAnswer DEF CanRead, SlotOk
<1> HIDE DEF r, h, c, cells
<1>4. /\ Typed(q) /\ q.request_state = "open" /\ q.reading /\ ~q.request_completed
      /\ q.writes = r.writes
  BY <1>3 DEF Typed, IsSlot
<1>5. c.fresh => Live(q)
  BY <1>2, <1>3, <1>4, AnswersAreOk DEF AnswerOk, Live
<1>6. /\ DOMAIN client' = Slots
      /\ \A t \in Slots : /\ sr'[t] = IF t = s THEN o.r ELSE sr[t]
                          /\ app'[t] = IF t = s THEN o.app ELSE app[t]
                          /\ client'[t] = IF t = s THEN c ELSE client[t]
  <2> HIDE DEF o
  <2> QED
    BY <1>1, AnswersAreOk DEF Becomes
<1> HIDE DEF q
<1>7. AnswerOk(o.r, o.app, c)
  <2>1. CASE h.llhttp.error
    <3>1. o = HandleRequestError(s, q, app[s])
      BY <2>1, Zenon
    <3> HIDE DEF o
    <3> QED
      BY <1>4, <1>5, <3>1, ErrorAnswer
  <2>2. CASE ~h.llhttp.error
    <3>1. o = [r |-> q, app |-> a]
      BY <2>2, Zenon
    <3> HIDE DEF o
    <3>2. o.r = q /\ o.app = a
      BY <3>1
    <3>3. ASSUME c.fresh
          PROVE  /\ app[s] \notin Answering
                 /\ \A i \in DOMAIN q.writes : ~q.writes[i].last
      <4>1. q.writes = sr[s].writes /\ sr[s].reading /\ client[s].fresh
        BY <1>1, <1>2, <1>3, <1>4, <3>3 DEF CanRead
      <4> QED
        BY <1>1, <4>1, AnswersAreOk DEF AnswerOk
    <3>4. ASSUME c.fresh, a \in Answering PROVE c.waiting
      <4>1. a = "owes"
        BY <3>3, <3>4
      <4>2. app'[s] = "owes" /\ client'[s] = c
        BY <1>6, <3>2, <4>1
      <4> QED
        BY <3>4, <4>2 DEF WholeHanded
    <3> HIDE DEF a
    <3>5. AnswerOk(q, a, c)
      BY <1>4, <1>5, <3>3, <3>4 DEF AnswerOk, Live
    <3> QED
      BY <3>2, <3>5, Zenon
  <2> QED
    BY <2>1, <2>2
<1> HIDE DEF o
<1> QED
  BY <1>2, <1>6, <1>7, OneAnswer

\* A read of nothing goes on, and one that ends the connection is the last.
LEMMA ReadEndAnswers ==
  ASSUME AnswersInv, SlotsInv', NEW s \in Slots, OnReadNothing(s) \/ OnReadEnd(s)
  PROVE  AnswersInv'
<1> DEFINE r == OnAlloc(sr[s])
<1>1. sr[s].reading
  BY DEF OnReadNothing, OnReadEnd, OnReadEof, OnReadReset, OnReadError, CanRead
<1>2. /\ Typed(r) /\ r.reading /\ ~r.request_completed /\ r.request_state = "open"
      /\ client[s].fresh => r.writes = sr[s].writes
  BY <1>1, AnswersAreOk, AllocAnswer DEF SlotOk
<1>3. client[s].fresh => Live(r)
  BY <1>2, AnswersAreOk DEF AnswerOk, Live
<1>4. CASE OnReadNothing(s)
  <2>1. sr' = [sr EXCEPT ![s] = r] /\ app' = app /\ client' = client
    BY <1>4 DEF OnReadNothing
  <2> HIDE DEF r
  <2>2. AnswerOk(r, app[s], client[s])
    <3>1. AnswerOk(sr[s], app[s], client[s])
      BY AnswersAreOk
    <3> QED
      BY <1>1, <1>2, <3>1 DEF AnswerOk
  <2> QED
    BY <2>1, <2>2, SameWork
<1>5. CASE OnReadEof(s)
  <2> DEFINE q == [r EXCEPT !.shutting = TRUE, !.reading = FALSE]
  <2>1. sr' = [sr EXCEPT ![s] = q] /\ app' = app /\ client' = client
    BY <1>5 DEF OnReadEof
  <2> HIDE DEF r
  <2>2. ~q.reading /\ q.writes = r.writes
    BY <1>2 DEF Typed, IsSlot
  <2> HIDE DEF q
  <2>3. client[s].fresh => Live(q)
    BY <1>3, <2>2 DEF Live
  <2> QED
    BY <2>1, <2>2, <2>3, UnreadAnswer, SameWork
<1>6. CASE OnReadReset(s)
  <2> DEFINE o == CloseConnection(s, r, app[s])
  <2>1. Becomes(s, o) /\ client' = client
    BY <1>6 DEF OnReadReset
  <2>2. AnswerOk(o.r, o.app, client[s])
    BY <1>2, <1>3, CloseAnswer
  <2> HIDE DEF o
  <2> QED
    BY <2>1, <2>2, SameClient DEF Becomes
<1>7. CASE OnReadError(s)
  <2> DEFINE o == HandleRequestError(s, r, app[s])
  <2>1. Becomes(s, o) /\ client' = client
    BY <1>7 DEF OnReadError
  <2>2. AnswerOk(o.r, o.app, client[s])
    BY <1>2, <1>3, ErrorAnswer
  <2> HIDE DEF o
  <2> QED
    BY <2>1, <2>2, SameClient DEF Becomes
<1> QED
  BY <1>4, <1>5, <1>6, <1>7 DEF OnReadEnd

\* The first write ends: what was behind it moves up.
LEMMA TailWrites ==
  ASSUME NEW r, Typed(r), r.writes # <<>>
  PROVE  /\ Len(r.writes) \in Nat \ {0} /\ DOMAIN r.writes = 1 .. Len(r.writes)
         /\ Len(Tail(r.writes)) = Len(r.writes) - 1
         /\ DOMAIN Tail(r.writes) = 1 .. Len(r.writes) - 1
         /\ \A i \in 1 .. Len(r.writes) - 1 : Tail(r.writes)[i] = r.writes[i + 1]
         /\ Head(r.writes) = r.writes[1]
         /\ Tail(r.writes) = <<>> <=> Len(r.writes) = 1
<1>1. r.writes \in Seq(Write)
  BY DEF Typed
<1>2. /\ Tail(r.writes) \in Seq(Write) /\ Len(Tail(r.writes)) = Len(r.writes) - 1
      /\ \A i \in 1 .. Len(r.writes) - 1 : Tail(r.writes)[i] = r.writes[i + 1]
      /\ Head(r.writes) = r.writes[1]
  BY <1>1, HeadTailProperties
<1>3. /\ Len(r.writes) \in Nat /\ Len(r.writes) # 0 /\ DOMAIN r.writes = 1 .. Len(r.writes)
      /\ DOMAIN Tail(r.writes) = 1 .. Len(Tail(r.writes))
  BY <1>1, <1>2, LenProperties, EmptySeq
<1>4. Tail(r.writes) = <<>> <=> Len(Tail(r.writes)) = 0
  BY <1>2, EmptySeq
<1> QED
  BY <1>2, <1>3, <1>4

\* A write that is not the last of its answer ends, and the application may go on.
LEMMA AfterWriteAnswers ==
  ASSUME AnswersInv, SlotsInv', NEW s \in Slots, AfterWrite(s)
  PROVE  AnswersInv'
<1> DEFINE r == sr[s]
           q == [r EXCEPT !.writes = Tail(@)]
           a == IF app[s] = "streaming" THEN "more" ELSE app[s]
<1>1. /\ sr' = [sr EXCEPT ![s] = q] /\ app' = [app EXCEPT ![s] = a] /\ client' = client
      /\ r.writes # <<>>
  BY DEF AfterWrite
<1>2. Typed(r) /\ AnswerOk(r, app[s], client[s])
  BY AnswersAreOk DEF SlotOk
<1>3. a \in Answering <=> app[s] \in Answering
  BY DEF Answering
<1> HIDE DEF r, a
<1>4. /\ q.reading = r.reading /\ q.request_completed = r.request_completed
      /\ q.request_state = r.request_state /\ q.writes = Tail(r.writes)
  BY <1>2 DEF Typed, IsSlot
<1> HIDE DEF q
<1>5. AnswerOk(q, a, client[s])
  <2>1. /\ Len(r.writes) \in Nat \ {0} /\ DOMAIN r.writes = 1 .. Len(r.writes)
        /\ Len(q.writes) = Len(r.writes) - 1 /\ DOMAIN q.writes = 1 .. Len(r.writes) - 1
        /\ \A i \in 1 .. Len(r.writes) - 1 : q.writes[i] = r.writes[i + 1]
    BY <1>1, <1>2, <1>4, TailWrites
  <2>2. \A i \in DOMAIN q.writes : i + 1 \in DOMAIN r.writes /\ q.writes[i] = r.writes[i + 1]
    BY <2>1
  <2>3. \A i \in DOMAIN q.writes : i + 1 = Len(r.writes) => i = Len(q.writes)
    BY <2>1
  <2> QED
    BY <1>1, <1>2, <1>3, <1>4, <2>2, <2>3 DEF AnswerOk
<1> QED
  BY <1>1, <1>5, SameClient

\* The last write of an answer ends: while the connection is read nothing is behind it.
LEMMA AfterLastWriteAnswers ==
  ASSUME AnswersInv, SlotsInv', NEW s \in Slots, AfterLastWrite(s)
  PROVE  AnswersInv'
<1> DEFINE q == [sr[s] EXCEPT !.writes = Tail(@), !.request_completed = TRUE]
           keep == q.http.http.keep_alive
           o == IF keep THEN [r |-> q, app |-> "none"] ELSE CloseConnection(s, q, app[s])
           next == [client[s] EXCEPT !.todo = Tail(@), !.sent = 0, !.waiting = FALSE,
                                     !.cut = "no",
                                     !.gone = client[s].gone \/ Len(client[s].todo) = 1]
           c == IF keep /\ client[s].waiting /\ ~client[s].gone THEN next ELSE client[s]
<1>1. /\ Becomes(s, o) /\ client' = [client EXCEPT ![s] = c]
      /\ sr[s].writes # <<>> /\ Head(sr[s].writes).last
  BY Zenon DEF AfterLastWrite
<1>2. Typed(sr[s]) /\ AnswerOk(sr[s], app[s], client[s]) /\ IsClient(client[s])
  BY AnswersAreOk DEF SlotOk
<1>3. IsClient(c) /\ c.fresh = client[s].fresh
  <2>1. IsClient(next) /\ next.fresh = client[s].fresh
    <3>1. PICK d : d = client[s]
      OBVIOUS
    <3>2. PICK x : x = Tail(d.todo)
      OBVIOUS
    <3>3. PICK y : y = (d.gone \/ Len(d.todo) = 1)
      OBVIOUS
    <3>4. next = [d EXCEPT !.todo = x, !.sent = 0, !.waiting = FALSE, !.cut = "no", !.gone = y]
      BY <3>1, <3>2, <3>3, <1>2 DEF IsClient
    <3> HIDE DEF next
    <3> QED
      BY <1>2, <3>1, <3>4 DEF IsClient
  <2> HIDE DEF next, keep
  <2> QED
    BY <1>2, <2>1
<1>4. /\ q.reading = sr[s].reading /\ q.request_state = sr[s].request_state
      /\ q.writes = Tail(sr[s].writes) /\ Typed(q)
  <2>1. PICK d : d = sr[s]
    OBVIOUS
  <2>2. Tail(d.writes) \in Seq(Write)
    BY <1>1, <1>2, <2>1, HeadTailProperties DEF Typed
  <2>3. q = [d EXCEPT !.writes = Tail(@), !.request_completed = TRUE] /\ Typed(d)
    BY <1>2, <2>1, Zenon
  <2> HIDE DEF q
  <2> QED
    BY <2>1, <2>2, <2>3 DEF Typed, IsSlot
<1>5. /\ Len(sr[s].writes) \in Nat \ {0} /\ DOMAIN sr[s].writes = 1 .. Len(sr[s].writes)
      /\ DOMAIN q.writes = 1 .. Len(sr[s].writes) - 1
      /\ \A i \in 1 .. Len(sr[s].writes) - 1 : q.writes[i] = sr[s].writes[i + 1]
      /\ sr[s].writes[1].last
      /\ q.writes = <<>> <=> Len(sr[s].writes) = 1
  BY <1>1, <1>2, <1>4, TailWrites
<1> HIDE DEF q, c, keep
<1>6. c.fresh => Live(q)
  <2>1. \A i \in DOMAIN q.writes : i + 1 \in DOMAIN sr[s].writes /\ q.writes[i] = sr[s].writes[i + 1]
    BY <1>5
  <2> QED
    BY <1>2, <1>3, <2>1 DEF AnswerOk, Live
<1>7. q.reading => q.request_state = "open"
  BY <1>2, <1>4 DEF AnswerOk
<1>8. AnswerOk(q, "none", c)
  <2>1. c.fresh /\ q.reading => q.writes = <<>>
    <3>1. 1 \in DOMAIN sr[s].writes
      BY <1>5
    <3> QED
      BY <1>2, <1>3, <1>4, <1>5, <3>1 DEF AnswerOk
  <2>2. "none" \notin Answering
    BY DEF Answering
  <2>3. q.writes = <<>> => DOMAIN q.writes = {}
    OBVIOUS
  <2> QED
    BY <1>6, <1>7, <2>1, <2>2, <2>3 DEF AnswerOk, Live
<1>9. AnswerOk(o.r, o.app, c)
  <2>1. CASE keep
    <3>1. o = [r |-> q, app |-> "none"]
      BY <2>1, Zenon
    <3> HIDE DEF o
    <3>2. o.r = q /\ o.app = "none"
      BY <3>1
    <3> QED
      BY <1>8, <3>2, Zenon
  <2>2. CASE ~keep
    <3>1. o = CloseConnection(s, q, app[s])
      BY <2>2, Zenon
    <3> HIDE DEF o
    <3> QED
      BY <1>4, <1>6, <1>7, <3>1, CloseAnswer
  <2> QED
    BY <2>1, <2>2
<1> HIDE DEF o
<1>10. /\ DOMAIN client' = Slots
       /\ \A t \in Slots : /\ sr'[t] = IF t = s THEN o.r ELSE sr[t]
                           /\ app'[t] = IF t = s THEN o.app ELSE app[t]
                           /\ client'[t] = IF t = s THEN c ELSE client[t]
  BY <1>1, AnswersAreOk DEF Becomes
<1> QED
  BY <1>3, <1>9, <1>10, OneAnswer

\* A shutdown ends after the writes.
LEMMA ShutdownAnswers ==
  ASSUME AnswersInv, SlotsInv', NEW s \in Slots, OnShutdown(s)
  PROVE  AnswersInv'
<1> DEFINE q == [sr[s] EXCEPT !.shutting = FALSE]
           o == CloseConnection(s, q, app[s])
<1>1. Becomes(s, o) /\ client' = client
  BY DEF OnShutdown
<1>2. Typed(sr[s]) /\ AnswerOk(sr[s], app[s], client[s])
  BY AnswersAreOk DEF SlotOk
<1>3. /\ Typed(q) /\ q.reading = sr[s].reading /\ q.writes = sr[s].writes
      /\ q.request_state = sr[s].request_state
  <2>1. PICK d : d = sr[s]
    OBVIOUS
  <2>2. q = [d EXCEPT !.shutting = FALSE] /\ Typed(d)
    BY <1>2, <2>1, Zenon
  <2> HIDE DEF q
  <2> QED
    BY <2>1, <2>2 DEF Typed, IsSlot
<1> HIDE DEF q
<1>4. AnswerOk(o.r, o.app, client[s])
  BY <1>2, <1>3, CloseAnswer DEF AnswerOk, Live
<1> HIDE DEF o
<1> QED
  BY <1>1, <1>4, SameClient DEF Becomes

\* The application adds to the answer that it has not ended.
LEMMA ApplicationAnswers ==
  ASSUME AnswersInv, SlotsInv', NEW s \in Slots, Answer(s) \/ WriteChunk(s) \/ FinishChunks(s)
  PROVE  AnswersInv'
<1>1. /\ Typed(sr[s]) /\ AnswerOk(sr[s], app[s], client[s]) /\ app[s] \in Answering
      /\ sr[s].request_state = "open"
  <2>1. app[s] \in Answering /\ app[s] # "none"
    BY DEF Answer, WriteChunk, FinishChunks, Answering
  <2> QED
    BY <2>1, AnswersAreOk DEF SlotOk
<1>2. "answered" \notin Answering
  BY DEF Answering
<1>3. ASSUME NEW last \in BOOLEAN, NEW a, last => a \notin Answering,
             sr' = [sr EXCEPT ![s] = [UvWrite(@, last) EXCEPT !.http.handed = <<>>]],
             app' = [app EXCEPT ![s] = a], client' = client
      PROVE  AnswersInv'
  <2> DEFINE u == UvWrite(sr[s], last)
             q == [u EXCEPT !.http.handed = <<>>]
  <2>1. Typed(u) /\ AnswerOk(u, a, client[s])
    BY <1>1, <1>3, WriteLemma, WriteAnswer
  <2>2. sr' = [sr EXCEPT ![s] = q]
    BY <1>3
  <2> HIDE DEF u
  <2>3. PICK h : h = [u.http EXCEPT !.handed = <<>>]
    OBVIOUS
  <2>4. q = [u EXCEPT !.http = h]
    BY <2>1, <2>3 DEF Typed, IsSlot
  <2> HIDE DEF q
  <2>5. /\ q.reading = u.reading /\ q.request_completed = u.request_completed
        /\ q.request_state = u.request_state /\ q.writes = u.writes
    BY <2>1, <2>4 DEF Typed, IsSlot
  <2>6. AnswerOk(q, a, client[s])
    BY <2>1, <2>5, SameAnswer, Zenon
  <2> QED
    BY <1>3, <2>2, <2>6, SameClient, Zenon
<1>4. CASE Answer(s)
  BY <1>2, <1>3, <1>4 DEF Answer
<1>5. CASE WriteChunk(s)
  BY <1>3, <1>5 DEF WriteChunk
<1>6. CASE FinishChunks(s)
  <2>1. /\ sr' = [sr EXCEPT ![s] = UvWrite(sr[s], TRUE)]
        /\ app' = [app EXCEPT ![s] = "answered"] /\ client' = client
    BY <1>6 DEF FinishChunks
  <2>2. AnswerOk(UvWrite(sr[s], TRUE), "answered", client[s])
    BY <1>1, <1>2, WriteAnswer
  <2> QED
    BY <2>1, <2>2, SameClient
<1> QED
  BY <1>4, <1>5, <1>6

-----------------------------------------------------------------------------
(* The answers over a step *)

LEMMA InitAnswers == Init => AnswersInv
<1> SUFFICES ASSUME Init PROVE AnswersInv
  OBVIOUS
<1>1. DOMAIN client = Slots /\ \A s \in Slots : client[s] = Gone /\ sr[s] = NewSlot
  BY DEF Init
<1>2. IsClient(Gone)
  BY DEF IsClient, Gone
<1>3. ASSUME NEW a PROVE AnswerOk(NewSlot, a, Gone)
  <2>1. ~NewSlot.reading /\ Live(NewSlot)
    BY DEF NewSlot, Live
  <2> QED
    BY <2>1, UnreadAnswer
<1> QED
  BY <1>1, <1>2, <1>3, InitSlots DEF AnswersInv

\* The invariant is kept where the parser hands a request over only with its last piece.
LEMMA AnswersKept == AnswersInv /\ WholeHanded' /\ [Next]_vars => AnswersInv'
<1> SUFFICES ASSUME AnswersInv, WholeHanded', [Next]_vars PROVE AnswersInv'
  OBVIOUS
<1>1. SlotsInv'
  BY SlotsKept DEF AnswersInv
<1>2. ASSUME UNCHANGED <<sr, app, client>> PROVE AnswersInv'
  BY <1>1, <1>2, Zenon DEF AnswersInv
<1>3. CASE UNCHANGED vars
  BY <1>2, <1>3 DEF vars
<1>4. CASE Timer \/ ShutDown
  BY <1>2, <1>4 DEF Timer, ShutDown
<1>5. CASE Destroy
  BY <1>1, <1>5, DestroyAnswers
<1>6. ASSUME NEW s \in Slots,
             \/ OnAccept(s) \/ OnReadNothing(s) \/ OnReadEnd(s) \/ Callback(s)
             \/ \E n \in 1 .. MaxPiece : OnRead(s, n)
             \/ Answer(s) \/ WriteChunk(s) \/ FinishChunks(s) \/ Leave(s)
      PROVE  AnswersInv'
  <2>1. CASE OnAccept(s)
    BY <1>1, <2>1, AcceptAnswers
  <2>2. CASE OnReadNothing(s) \/ OnReadEnd(s)
    BY <1>1, <2>2, ReadEndAnswers
  <2>3. CASE AfterWrite(s)
    BY <1>1, <2>3, AfterWriteAnswers
  <2>4. CASE AfterLastWrite(s)
    BY <1>1, <2>4, AfterLastWriteAnswers
  <2>5. CASE OnShutdown(s)
    BY <1>1, <2>5, ShutdownAnswers
  <2>6. CASE OnClose(s)
    BY <1>1, <2>6, CloseAnswers
  <2>7. CASE \E n \in 1 .. MaxPiece : OnRead(s, n)
    BY <1>1, <2>7, ReadAnswers
  <2>8. CASE Answer(s) \/ WriteChunk(s) \/ FinishChunks(s)
    BY <1>1, <2>8, ApplicationAnswers
  <2>9. CASE Leave(s)
    BY <1>1, <2>9, LeaveAnswers
  <2> QED
    BY <1>6, <2>1, <2>2, <2>3, <2>4, <2>5, <2>6, <2>7, <2>8, <2>9, Zenon DEF Callback
<1> QED
  BY <1>3, <1>4, <1>5, <1>6, Zenon DEF Next

-----------------------------------------------------------------------------
(* A structure and its client *)

AllHanded == \A s \in Slots : HandedOk(sr[s], app[s], client[s])

\* serve_request_clear clears what the parser collected and leaves llhttp.
LEMMA ClearHttp ==
  ASSUME NEW r, Typed(r), IsParser(r.http)
  PROVE  LET q == RequestClear(r).http
         IN  /\ IsParser(q) /\ q.llhttp = r.http.llhttp /\ q.handed = r.http.handed
             /\ q.http = Cleared
<1> DEFINE x == Clear(r.http)
           w == [i \in DOMAIN r.writes |-> [r.writes[i] EXCEPT !.live = FALSE]]
           o == RequestClear(r)
           e == Cleared
<1>1. x = [r.http EXCEPT !.http = e]
  BY DEF Clear
<1>2. IsHttp(e)
  <2>1. Cleared.headers = <<>> /\ <<>> \in Seq(Range(<<>>))
    BY DEF Cleared
  <2> QED
    BY <2>1 DEF Cleared, IsHttp
<1> HIDE DEF e
<1>3. Only(r.http, x) /\ x.http = e
  BY <1>1, <1>2, HttpReplaced
<1> HIDE DEF x
<1>4. o = [r EXCEPT !.request_completed = FALSE, !.http = x, !.writes = w]
  BY DEF RequestClear, x, Typed, IsSlot
<1> HIDE DEF o, w
<1>5. o.http = x
  BY <1>4 DEF Typed, IsSlot
<1> QED
  BY <1>3, <1>5 DEF Only, o, e

\* What on_alloc does to the parser.
LEMMA AllocHttp ==
  ASSUME NEW r, Typed(r), IsParser(r.http)
  PROVE  LET q == OnAlloc(r).http
         IN  /\ IsParser(q) /\ q.llhttp = r.http.llhttp /\ q.handed = r.http.handed
             /\ r.request_completed => q.http = Cleared
             /\ ~r.request_completed => q = r.http
<1>1. CASE ~r.request_completed
  BY <1>1 DEF OnAlloc
<1>2. CASE r.request_completed
  <2>1. OnAlloc(r) = RequestClear(r)
    BY <1>2 DEF OnAlloc
  <2> QED
    BY <1>2, <2>1, ClearHttp
<1> QED
  BY <1>1, <1>2

\* A connection that is not read any more.
LEMMA UnreadHanded ==
  ASSUME NEW r, NEW q, NEW a, NEW b, NEW c, HandedOk(r, a, c), IsParser(q.http),
         q.http.handed = r.http.handed, ~q.reading, q.request_state # "closed", b \in {a, "none"}
  PROVE  HandedOk(q, b, c)
BY DEF HandedOk

\* A change of the writes only.
LEMMA SameHanded ==
  ASSUME NEW r, NEW q, NEW a, NEW c, HandedOk(r, a, c), q.http = r.http, q.reading = r.reading,
         q.request_completed = r.request_completed, q.request_state = r.request_state
  PROVE  HandedOk(q, a, c)
BY Zenon DEF HandedOk, Underway

\* close_connection.
LEMMA CloseHanded ==
  ASSUME NEW s, NEW r, NEW q, NEW a, NEW c, HandedOk(r, a, c), Typed(q), IsParser(q.http),
         q.http.handed = r.http.handed, q.reading => q.request_state = "open",
         q.request_state # "closed"
  PROVE  HandedOk(CloseConnection(s, q, a).r, CloseConnection(s, q, a).app, c)
<1>1. CASE q.request_state = "open"
  <2>1. CloseConnection(s, q, a).r = Closing(q) /\ CloseConnection(s, q, a).app = "none"
    BY <1>1 DEF CloseConnection
  <2>2. /\ ~Closing(q).reading /\ Closing(q).http = q.http
        /\ Closing(q).request_state # "closed"
    BY DEF Closing, Typed, IsSlot
  <2>3. HandedOk(Closing(q), "none", c)
    BY <2>2, UnreadHanded
  <2> QED
    BY <2>1, <2>3
<1>2. CASE q.request_state # "open"
  <2>1. CloseConnection(s, q, a) = [r |-> q, app |-> a]
    BY <1>2 DEF CloseConnection
  <2>2. HandedOk(q, a, c)
    BY <1>2, UnreadHanded
  <2> QED
    BY <2>1, <2>2
<1> QED
  BY <1>1, <1>2

\* A write leaves the parser.
LEMMA WriteHttp ==
  ASSUME NEW r, NEW last, Typed(r)
  PROVE  LET u == UvWrite(r, last)
         IN  /\ u.http = r.http /\ u.reading = r.reading
             /\ u.request_completed = r.request_completed /\ u.request_state = r.request_state
BY DEF UvWrite, Typed, IsSlot

\* An error ends the reading.
LEMMA ErrorHanded ==
  ASSUME NEW s, NEW r, NEW q, NEW a, NEW c, HandedOk(r, a, c), Typed(q), IsParser(q.http),
         q.http.handed = r.http.handed \/ (c.fresh => a # "owes"), q.request_state = "open"
  PROVE  HandedOk(HandleRequestError(s, q, a).r, HandleRequestError(s, q, a).app, c)
<1> DEFINE e == [q EXCEPT !.reading = FALSE, !.http.http.keep_alive = FALSE]
           o == HandleRequestError(s, q, a)
           y == TRUE
<1>1. /\ Typed(e) /\ ~e.reading /\ e.request_state = "open"
      /\ IsParser(e.http) /\ e.http.handed = q.http.handed
  <2> DEFINE g == [q.http.http EXCEPT !.keep_alive = FALSE]
             h == [q.http EXCEPT !.http = g]
  <2>1. e = [q EXCEPT !.reading = FALSE, !.http = h]
    BY DEF Typed, IsSlot
  <2>2. IsHttp(g)
    BY KeepSet DEF IsParser
  <2> HIDE DEF e, g
  <2>3. Only(q.http, h)
    BY <2>2, HttpReplaced
  <2> HIDE DEF h
  <2>4. e.http = h /\ Typed(e) /\ ~e.reading /\ e.request_state = "open"
    BY <2>1 DEF Typed, IsSlot
  <2> QED
    BY <2>3, <2>4 DEF Only
<1>2. \/ o = [r |-> UvWrite(e, y), app |-> a]
      \/ o = CloseConnection(s, e, a)
  BY Zenon DEF HandleRequestError
<1> HIDE DEF e, y
<1>3. ASSUME NEW x, ~x.reading, x.request_state # "closed", x.http = e.http, NEW b \in {a, "none"}
      PROVE  HandedOk(x, b, c)
  BY <1>1, <1>3 DEF HandedOk
<1>4. CASE o = [r |-> UvWrite(e, y), app |-> a]
  <2> DEFINE u == UvWrite(e, y)
  <2>1. u.http = e.http /\ ~u.reading /\ u.request_state # "closed"
    BY <1>1, WriteHttp
  <2> HIDE DEF u, o
  <2>2. o.r = u /\ o.app = a
    BY <1>4 DEF u
  <2>3. HandedOk(u, a, c)
    BY <1>3, <2>1
  <2> QED
    BY <2>2, <2>3 DEF o
<1>5. CASE o = CloseConnection(s, e, a)
  <2>1. o = [r |-> Closing(e), app |-> "none"]
    BY <1>1, <1>5 DEF CloseConnection
  <2> DEFINE u == Closing(e)
  <2>2. u.http = e.http /\ ~u.reading /\ u.request_state # "closed"
    BY <1>1 DEF Closing, Typed, IsSlot
  <2> HIDE DEF u, o
  <2>3. o.r = u /\ o.app = "none"
    BY <2>1 DEF u
  <2>4. HandedOk(u, "none", c)
    BY <1>3, <2>2
  <2> QED
    BY <2>3, <2>4 DEF o
<1> QED
  BY <1>2, <1>4, <1>5

\* One structure, what the application does for it, and its client change.
LEMMA OneHanded ==
  ASSUME HandedInv, NEW s \in Slots, NEW r, NEW a, NEW c,
         \A t \in Slots : /\ sr'[t] = IF t = s THEN r ELSE sr[t]
                          /\ app'[t] = IF t = s THEN a ELSE app[t]
                          /\ client'[t] = IF t = s THEN c ELSE client[t],
         HandedOk(r, a, c)
  PROVE  AllHanded'
<1>1. ASSUME NEW t \in Slots PROVE HandedOk(sr'[t], app'[t], client'[t])
  BY DEF HandedInv
<1> QED
  BY <1>1, Zenon DEF AllHanded

\* What the invariants say of one structure.
LEMMA HandedAreOk ==
  ASSUME HandedInv, NEW s \in Slots
  PROVE  /\ AnswersInv /\ HandedOk(sr[s], app[s], client[s])
         /\ SlotOk(sr[s], app[s]) /\ Typed(sr[s])
         /\ IsClient(client[s]) /\ AnswerOk(sr[s], app[s], client[s])
         /\ DOMAIN sr = Slots /\ DOMAIN app = Slots /\ DOMAIN client = Slots
BY AnswersAreOk DEF HandedInv, SlotOk

\* The client stays as it is.
LEMMA SameClientHanded ==
  ASSUME HandedInv, NEW s \in Slots, NEW r, NEW a,
         sr' = [sr EXCEPT ![s] = r], app' = [app EXCEPT ![s] = a], client' = client,
         HandedOk(r, a, client[s])
  PROVE  AllHanded'
<1>1. \A t \in Slots : /\ sr'[t] = IF t = s THEN r ELSE sr[t]
                       /\ app'[t] = IF t = s THEN a ELSE app[t]
                       /\ client'[t] = IF t = s THEN client[s] ELSE client[t]
  BY HandedAreOk
<1> QED
  BY <1>1, OneHanded

\* The client and what the application does stay as they are.
LEMMA SameWorkHanded ==
  ASSUME HandedInv, NEW s \in Slots, NEW r,
         sr' = [sr EXCEPT ![s] = r], app' = app, client' = client,
         HandedOk(r, app[s], client[s])
  PROVE  AllHanded'
<1>1. \A t \in Slots : /\ sr'[t] = IF t = s THEN r ELSE sr[t]
                       /\ app'[t] = IF t = s THEN app[s] ELSE app[t]
                       /\ client'[t] = IF t = s THEN client[s] ELSE client[t]
  BY HandedAreOk
<1> QED
  BY <1>1, OneHanded

\* A request has a first cell, and its head has one.
LEMMA CellsNotEmpty ==
  ASSUME NEW m \in Request
  PROVE  0 < Len(Head_(m)) /\ Len(Cells(m)) \in Nat /\ 0 < Len(Cells(m))
<1>1. m.bad \in Nat /\ m.bad < Len(Head_(m))
  BY RequestLemma
<1>2. /\ Cells(m) \in Seq(AnyCell) /\ Len(Head_(m)) \in Nat /\ Len(m.body) \in Nat
      /\ m.bad = 0 => Len(Cells(m)) = Len(Head_(m)) + Len(m.body)
      /\ m.bad # 0 => Len(Cells(m)) = m.bad + 1
  BY CellsLayout
<1>3. Len(Cells(m)) \in Nat
  BY <1>2, LenProperties
<1> QED
  BY <1>1, <1>2, <1>3

-----------------------------------------------------------------------------
(* The requests over the callbacks *)

\* A client connects.
LEMMA AcceptHanded ==
  ASSUME HandedInv, NEW s \in Slots, OnAccept(s)
  PROVE  AllHanded' /\ plan' \in Plans /\ connections' \in 0 .. Len(plan')
<1> DEFINE r == Accepted(sr[s])
           todo == plan[connections + 1]
           fresh == sr[s].http.llhttp = Start
           c == [todo |-> todo, sent |-> 0, waiting |-> FALSE, gone |-> FALSE,
                 fresh |-> fresh, cut |-> "no"]
           a == app[s]
<1>1. /\ sr' = [sr EXCEPT ![s] = r] /\ app' = app /\ client' = [client EXCEPT ![s] = c]
      /\ s \in Candidates /\ connections < Len(plan)
      /\ plan' = plan /\ connections' = connections + 1
  BY DEF OnAccept
<1>2. plan \in Plans /\ connections \in 0 .. Len(plan) /\ plan \in Seq(Seq(Request) \ {<<>>})
  BY PlansAssumption DEF HandedInv
<1>3. connections + 1 \in 1 .. Len(plan) /\ Len(plan) \in Nat
  BY <1>1, <1>2, LenProperties
<1>4. todo \in Seq(Request) /\ todo # <<>>
  <2> DEFINE i == connections + 1
             A == Seq(Request) \ {<<>>}
  <2>1. i \in 1 .. Len(plan) /\ plan \in Seq(A)
    BY <1>2, <1>3
  <2> HIDE DEF i, A
  <2>2. plan[i] \in A
    BY <2>1, ElementOfSeq
  <2> QED
    BY <2>2 DEF A, i
<1>5. Typed(sr[s]) /\ sr[s].request_state = "closed"
  <2>1. CASE free_list = <<>>
    BY <1>1, <2>1, HandedAreOk DEF Candidates, Unused
  <2>2. CASE free_list # <<>>
    <3>1. SlotsInv
      BY DEF HandedInv, AnswersInv
    <3>2. free_list \in Seq(Slots) /\ s = Head(free_list)
      BY <1>1, <2>2, <3>1 DEF Candidates, SlotsInv, SlotTypes
    <3>3. 1 \in DOMAIN free_list /\ free_list[1] = s
      BY <2>2, <3>2, EmptySeq
    <3>4. s \in Range(free_list)
      BY <3>3 DEF Range
    <3> QED
      BY <3>1, <3>4, HandedAreOk, ListedIsClosed
  <2> QED
    BY <2>1, <2>2
<1>6. IsParser(sr[s].http) /\ sr[s].http.handed = <<>>
  BY <1>5, HandedAreOk DEF HandedOk
<1>7. a # "owes"
  BY <1>5, HandedAreOk DEF SlotOk
<1>8. /\ r.request_state # "closed" /\ r.request_completed /\ IsParser(r.http)
      /\ r.http.handed = <<>> /\ r.http.llhttp = sr[s].http.llhttp
  <2> DEFINE q == sr[s]
             h == Clear(q.http)
             e == Cleared
  <2>1. r = [q EXCEPT !.request_state = "open", !.request_completed = TRUE, !.http = h,
                      !.reading = TRUE]
    BY DEF Accepted
  <2>2. IsHttp(e)
    <3>1. Cleared.headers = <<>> /\ <<>> \in Seq(Range(<<>>))
      BY DEF Cleared
    <3> QED
      BY <3>1 DEF Cleared, IsHttp
  <2>3. h = [q.http EXCEPT !.http = e]
    BY DEF Clear
  <2> HIDE DEF e
  <2>4. Only(q.http, h)
    BY <1>6, <2>2, <2>3, HttpReplaced
  <2> HIDE DEF h, r
  <2>5. r.request_state # "closed" /\ r.request_completed /\ r.http = h
    BY <1>5, <2>1 DEF Typed, IsSlot
  <2> QED
    BY <1>6, <2>4, <2>5 DEF Only
<1>9. HandedOk(r, a, c)
  <2> DEFINE m == Head(todo)
             h == r.http
  <2>1. m \in Request
    BY <1>4, HeadTailProperties
  <2>2. 0 < Len(Head_(m)) /\ Len(Cells(m)) \in Nat /\ 0 < Len(Cells(m))
    BY <2>1, CellsNotEmpty
  <2>3. /\ c.todo = todo /\ c.sent = 0 /\ ~c.waiting /\ ~c.gone /\ (c.fresh <=> fresh)
        /\ c.cut = "no"
    OBVIOUS
  <2> HIDE DEF c, r, todo
  <2>4. ASSUME fresh PROVE Underway(r, a, c)
    <3>1. ~h.llhttp.error /\ h.llhttp.lex = "start" /\ h.handed = <<>>
      BY <1>8, <2>4 DEF Start
    <3>2. ReadTo(h, m, 0)
      BY <2>2, <3>1 DEF ReadTo
    <3>3. 0 \in 0 .. Len(Cells(m)) /\ 0 # Len(Cells(m))
      BY <2>2
    <3> QED
      BY <1>8, <2>3, <3>1, <3>2, <3>3 DEF Underway
  <2> HIDE DEF fresh
  <2> QED
    BY <1>4, <1>7, <1>8, <2>3, <2>4 DEF HandedOk
<1> HIDE DEF c, r
<1>10. AllHanded'
  <2>1. \A t \in Slots : /\ sr'[t] = IF t = s THEN r ELSE sr[t]
                         /\ app'[t] = IF t = s THEN a ELSE app[t]
                         /\ client'[t] = IF t = s THEN c ELSE client[t]
    BY <1>1, HandedAreOk
  <2> QED
    BY <1>9, <2>1, OneHanded
<1> QED
  BY <1>1, <1>2, <1>3, <1>10

\* A read of nothing, the end of the stream, or an error.
LEMMA ReadEndHanded ==
  ASSUME HandedInv, NEW s \in Slots, OnReadNothing(s) \/ OnReadEnd(s)
  PROVE  AllHanded'
<1> DEFINE r == OnAlloc(sr[s])
           x == sr[s]
           a == app[s]
           c == client[s]
<1>1. x.reading
  BY DEF OnReadNothing, OnReadEnd, OnReadEof, OnReadReset, OnReadError, CanRead
<1>2. /\ Typed(x) /\ AnswerOk(x, a, c) /\ HandedOk(x, a, c) /\ IsParser(x.http)
  BY HandedAreOk DEF HandedOk
<1>3. /\ Typed(r) /\ r.reading /\ ~r.request_completed /\ r.request_state = "open"
  BY <1>1, <1>2, AllocAnswer
<1>4. /\ IsParser(r.http) /\ r.http.llhttp = x.http.llhttp /\ r.http.handed = x.http.handed
      /\ x.request_completed => r.http.http = Cleared
  BY <1>2, AllocHttp
<1>5. CASE OnReadNothing(s)
  <2>1. sr' = [sr EXCEPT ![s] = r] /\ app' = app /\ client' = client /\ x.request_completed
    BY <1>5 DEF OnReadNothing
  <2> HIDE DEF r, x, c
  <2>2. ASSUME c.fresh PROVE Underway(r, a, c)
    <3>1. Underway(x, a, c)
      BY <1>1, <1>2, <2>2 DEF HandedOk
    <3> QED
      BY <1>3, <1>4, <2>1, <3>1 DEF Underway, ReadTo
  <2>3. HandedOk(r, a, c)
    BY <1>2, <1>3, <1>4, <2>2 DEF HandedOk
  <2> QED
    BY <2>1, <2>3, SameWorkHanded DEF c
<1>6. CASE OnReadEof(s)
  <2> DEFINE q == [r EXCEPT !.shutting = TRUE, !.reading = FALSE]
  <2>1. sr' = [sr EXCEPT ![s] = q] /\ app' = app /\ client' = client
    BY <1>6 DEF OnReadEof
  <2> HIDE DEF r, x
  <2>2. ~q.reading /\ q.http = r.http /\ q.request_state # "closed"
    BY <1>3 DEF Typed, IsSlot
  <2> HIDE DEF q
  <2>3. HandedOk(q, a, c)
    BY <1>2, <1>4, <2>2, UnreadHanded
  <2> QED
    BY <2>1, <2>3, SameWorkHanded
<1>7. CASE OnReadReset(s)
  <2> DEFINE o == CloseConnection(s, r, a)
  <2>1. Becomes(s, o) /\ client' = client
    BY <1>7 DEF OnReadReset
  <2> HIDE DEF r, x
  <2>2. HandedOk(o.r, o.app, c)
    BY <1>2, <1>3, <1>4, CloseHanded
  <2> HIDE DEF o
  <2> QED
    BY <2>1, <2>2, SameClientHanded DEF Becomes
<1>8. CASE OnReadError(s)
  <2> DEFINE o == HandleRequestError(s, r, a)
  <2>1. Becomes(s, o) /\ client' = client
    BY <1>8 DEF OnReadError
  <2> HIDE DEF r, x
  <2>2. HandedOk(o.r, o.app, c)
    BY <1>2, <1>3, <1>4, ErrorHanded
  <2> HIDE DEF o
  <2> QED
    BY <2>1, <2>2, SameClientHanded DEF Becomes
<1> QED
  BY <1>5, <1>6, <1>7, <1>8 DEF OnReadEnd

\* A write that is not the last of its answer ends.
LEMMA AfterWriteHanded ==
  ASSUME HandedInv, NEW s \in Slots, AfterWrite(s)
  PROVE  AllHanded'
<1> DEFINE r == sr[s]
           q == [r EXCEPT !.writes = Tail(@)]
           a == IF app[s] = "streaming" THEN "more" ELSE app[s]
           c == client[s]
<1>1. sr' = [sr EXCEPT ![s] = q] /\ app' = [app EXCEPT ![s] = a] /\ client' = client
  BY DEF AfterWrite
<1>2. Typed(r) /\ HandedOk(r, app[s], c)
  BY HandedAreOk
<1>3. a = "owes" <=> app[s] = "owes"
  OBVIOUS
<1> HIDE DEF r, a
<1>4. /\ q.reading = r.reading /\ q.request_completed = r.request_completed
      /\ q.request_state = r.request_state /\ q.http = r.http
  BY <1>2 DEF Typed, IsSlot
<1> HIDE DEF q, c
<1>5. HandedOk(q, app[s], c)
  BY <1>2, <1>4, SameHanded
<1>6. HandedOk(q, a, c)
  BY <1>3, <1>5 DEF HandedOk, Underway
<1> QED
  BY <1>1, <1>6, SameClientHanded DEF c

\* A shutdown ends.
LEMMA ShutdownHanded ==
  ASSUME HandedInv, NEW s \in Slots, OnShutdown(s)
  PROVE  AllHanded'
<1> DEFINE q == [sr[s] EXCEPT !.shutting = FALSE]
           o == CloseConnection(s, q, app[s])
<1>1. Becomes(s, o) /\ client' = client /\ sr[s].shutting
  BY DEF OnShutdown
<1>2. Typed(sr[s]) /\ SlotOk(sr[s], app[s]) /\ AnswerOk(sr[s], app[s], client[s])
      /\ HandedOk(sr[s], app[s], client[s])
  BY HandedAreOk
<1>3. /\ Typed(q) /\ q.reading = sr[s].reading /\ q.http = sr[s].http
      /\ q.request_state = sr[s].request_state
  <2>1. PICK d : d = sr[s]
    OBVIOUS
  <2>2. q = [d EXCEPT !.shutting = FALSE] /\ Typed(d)
    BY <1>2, <2>1, Zenon
  <2> HIDE DEF q
  <2> QED
    BY <2>1, <2>2 DEF Typed, IsSlot
<1> HIDE DEF q
<1>4. q.reading => q.request_state = "open"
  BY <1>2, <1>3 DEF AnswerOk
<1>5. q.request_state # "closed"
  BY <1>1, <1>2, <1>3 DEF SlotOk
<1>6. IsParser(q.http)
  BY <1>2, <1>3 DEF HandedOk
<1>7. HandedOk(o.r, o.app, client[s])
  BY <1>2, <1>3, <1>4, <1>5, <1>6, CloseHanded
<1> HIDE DEF o
<1> QED
  BY <1>1, <1>7, SameClientHanded DEF Becomes

\* A structure becomes free.
LEMMA OnCloseHanded ==
  ASSUME HandedInv, NEW s \in Slots, OnClose(s)
  PROVE  AllHanded'
<1> DEFINE x == sr[s]
           q == RequestClear(x)
           r == [q EXCEPT !.request_state = "closed", !.http.handed = <<>>]
<1>1. /\ sr' = [sr EXCEPT ![s] = r] /\ app' = app /\ client' = [client EXCEPT ![s] = Gone]
      /\ x.request_state = "closing"
  BY DEF OnClose
<1>2. Typed(x) /\ ~x.reading /\ IsParser(x.http) /\ app[s] # "owes"
  <2>1. SlotOk(x, app[s]) /\ AnswerOk(x, app[s], client[s]) /\ HandedOk(x, app[s], client[s])
    BY HandedAreOk
  <2> HIDE DEF x
  <2> QED
    BY <1>1, <2>1 DEF SlotOk, AnswerOk, HandedOk
<1>3. Typed(q) /\ ~q.reading
  BY <1>2, ClearLemma
<1>4. IsParser(q.http)
  BY <1>2, ClearHttp
<1> HIDE DEF q
<1>5. ~r.reading /\ IsParser(r.http) /\ r.http.handed = <<>>
  <2> DEFINE e == <<>>
  <2> HIDE DEF e
  <2> DEFINE h == [q.http EXCEPT !.handed = e]
  <2>1. r = [q EXCEPT !.request_state = "closed", !.http = h]
    BY <1>3 DEF Typed, IsSlot, e
  <2>2. IsParser(h) /\ h.handed = e
    BY <1>4 DEF IsParser
  <2> HIDE DEF r, h
  <2> QED
    BY <1>3, <2>1, <2>2 DEF Typed, IsSlot, e
<1> HIDE DEF r
<1>6. HandedOk(r, app[s], Gone)
  <2>1. Gone.todo = <<>> /\ Gone.gone /\ Gone.sent = 0 /\ Gone.cut = "no"
    BY DEF Gone
  <2>2. <<>> \in Seq(Request) /\ 0 \in Nat
    OBVIOUS
  <2> QED
    BY <1>2, <1>5, <2>1, <2>2 DEF HandedOk
<1>7. \A t \in Slots : /\ sr'[t] = IF t = s THEN r ELSE sr[t]
                       /\ app'[t] = IF t = s THEN app[s] ELSE app[t]
                       /\ client'[t] = IF t = s THEN Gone ELSE client[t]
  BY <1>1, HandedAreOk
<1> QED
  BY <1>6, <1>7, OneHanded

\* What a read makes of a request: one that was read whole is handed over, any other is
\* still under way.
LEMMA ReadUnderway ==
  ASSUME NEW q, NEW m \in Request, NEW x \in Nat, NEW c, NEW a, NEW b,
         x <= Len(Cells(m)), 0 < x, HandedUpTo(q.http, m, x, c.cut), IsParser(q.http),
         ~q.request_completed, q.request_state # "closed",
         c.todo \in Seq(Request), c.todo # <<>>, m = Head(c.todo), c.sent = x,
         c.waiting <=> x = Len(Cells(m)), c.cut \in {"no", "body", "head"},
         c.cut = "no" => x = Len(Cells(m)), b # "owes",
         a = IF q.http.handed # <<>> THEN "owes" ELSE b
  PROVE  HandedOk(q, a, c)
<1> DEFINE L == Len(Cells(m))
           h == q.http
<1>1. L \in Nat /\ x <= L
  BY CellsNotEmpty
<1> HIDE DEF L
<1>2. CASE x = L
  <2>1. h.llhttp.lex = "start" /\ AsSent(h.handed, m, c.cut) /\ ~h.llhttp.error
    BY <1>2 DEF HandedUpTo, L
  <2>2. Len(h.handed) = 1
    BY <2>1 DEF AsSent
  <2>3. c.waiting
    BY <1>2 DEF L
  <2>4. x \in 0 .. L
    BY <1>1
  <2>5. Underway(q, a, c)
    <3>1. (h.handed # <<>>) => a = "owes"
      OBVIOUS
    <3> QED
      BY <1>2, <2>1, <2>3, <2>4, <3>1 DEF Underway, L
  <2> QED
    BY <2>1, <2>3, <2>5 DEF HandedOk
<1>3. CASE x # L
  <2>1. /\ ~h.llhttp.error /\ h.handed = <<>> /\ ReadTo(h, m, x) /\ UrlRead(h, m, x)
        /\ c.cut = "body" => Len(Head_(m)) <= x /\ BodyRead(h, m, x)
    BY <1>3 DEF HandedUpTo, L
  <2>2. ~c.waiting /\ a # "owes" /\ c.cut # "no"
    BY <1>3, <2>1 DEF L
  <2>3. x \in 0 .. L
    BY <1>1 DEF L
  <2>4. Len(Head_(m)) \in Nat
    BY CellsLayout
  <2>5. c.cut = "body" => x >= Len(Head_(m))
    BY <2>1, <2>4
  <2>6. Underway(q, a, c)
    BY <1>3, <2>1, <2>2, <2>3, <2>5 DEF Underway, L
  <2> QED
    BY <2>2, <2>6 DEF HandedOk
<1> QED
  BY <1>2, <1>3

\* A read gives the parser the next cells of the request.
LEMMA ReadHanded ==
  ASSUME HandedInv, NEW s \in Slots, NEW n \in 1 .. MaxPiece, OnRead(s, n)
  PROVE  AllHanded'
<1> DEFINE d == client[s]
           m == Head(d.todo)
           p == d.sent
           L == Len(Cells(m))
           r == OnAlloc(sr[s])
           h == Data(r.http, SubSeq(Cells(m), p + 1, p + n))
           q == [r EXCEPT !.http = h]
           b == app[s]
           a == IF h.handed # r.http.handed THEN "owes" ELSE b
           o == IF h.llhttp.error THEN HandleRequestError(s, q, b) ELSE [r |-> q, app |-> a]
           x == p + n
           waits == x = L
           cut == IF p = 0 THEN Cut(m, n) ELSE d.cut
           c == [d EXCEPT !.sent = x, !.waiting = waits, !.cut = cut]
<1>1. /\ Becomes(s, o) /\ CanRead(s) /\ ~d.gone /\ ~d.waiting /\ x <= L
      /\ client' = [client EXCEPT ![s] = c]
  BY Zenon DEF OnRead
<1>2. /\ Typed(sr[s]) /\ IsClient(d) /\ AnswerOk(sr[s], b, d) /\ HandedOk(sr[s], b, d)
  BY HandedAreOk
<1>3. n \in Nat \ {0}
  BY PieceAssumption
<1>4. /\ d.todo \in Seq(Request) /\ d.todo # <<>> /\ p \in Nat /\ IsParser(sr[s].http)
      /\ d.cut \in {"no", "body", "head"}
  BY <1>1, <1>2 DEF HandedOk
<1>5. m \in Request
  BY <1>4, HeadTailProperties
<1>6. L \in Nat /\ Len(Head_(m)) \in Nat
  <2>1. Len(Head_(m)) \in Nat
    BY <1>5, CellsLayout
  <2> QED
    BY <1>5, <2>1, CellsNotEmpty
<1>7. /\ Typed(r) /\ r.reading /\ ~r.request_completed /\ r.request_state = "open"
  BY <1>1, <1>2, AllocAnswer DEF CanRead
<1>8. /\ IsParser(r.http) /\ r.http.llhttp = sr[s].http.llhttp /\ r.http.handed = sr[s].http.handed
      /\ sr[s].request_completed => r.http.http = Cleared
      /\ ~sr[s].request_completed => r.http = sr[s].http
  BY <1>2, <1>4, AllocHttp
<1>9. IsParser(h)
  <2> DEFINE piece == SubSeq(Cells(m), p + 1, p + n)
  <2>1. piece \in Seq(AnyCell)
    BY <1>1, <1>3, <1>4, <1>5, PieceLemma
  <2> HIDE DEF piece
  <2>2. IsParser(Data(r.http, piece))
    BY <1>8, <2>1, DataShape
  <2> QED
    BY <2>2 DEF piece
<1>10. /\ c.todo = d.todo /\ c.sent = x /\ (c.waiting <=> waits) /\ c.cut = cut
       /\ c.gone = d.gone /\ c.fresh = d.fresh
  <2> HIDE DEF d, x, waits, cut
  <2> QED
    BY <1>2 DEF IsClient
<1>11. cut \in {"no", "body", "head"}
  BY <1>4 DEF Cut
<1>12. x \in Nat /\ 0 < x
  BY <1>3, <1>4
<1>13. ASSUME d.fresh
       PROVE  /\ b # "owes" /\ r.http.handed = <<>>
              /\ h.llhttp.error \/ (HandedUpTo(h, m, x, cut) /\ (cut = "no" => x = L))
  <2>1. Underway(sr[s], b, d) /\ sr[s].reading
    BY <1>1, <1>2, <1>13 DEF HandedOk, CanRead
  <2>2. b # "owes"
    BY <1>1, <1>2, <1>13, <2>1 DEF AnswerOk, Answering
  <2>3. /\ ~sr[s].http.llhttp.error /\ sr[s].http.handed = <<>> /\ ReadTo(sr[s].http, m, p)
        /\ p = 0 => sr[s].request_completed \/ sr[s].http.http = Cleared
        /\ p > 0 => /\ ~sr[s].request_completed /\ UrlRead(sr[s].http, m, p)
                    /\ d.cut = "body" => p >= Len(Head_(m)) /\ BodyRead(sr[s].http, m, p)
                    /\ d.cut # "no"
    BY <1>1, <1>4, <2>1, Zenon DEF Underway
  <2> DEFINE g == r.http
  <2>4. ~g.llhttp.error /\ g.handed = <<>>
    BY <1>8, <2>3
  <2>5. ReadTo(g, m, p)
    BY <1>8, <2>3 DEF ReadTo
  <2>6. p = 0 => g.http = Cleared /\ cut = Cut(m, n)
    BY <1>8, <2>3
  <2>7. p > 0 => UrlRead(g, m, p) /\ cut # "no"
    BY <1>8, <2>3
  <2>8. p > 0 /\ cut # "head" => Len(Head_(m)) <= p /\ BodyRead(g, m, p)
    <3> SUFFICES ASSUME p > 0, cut # "head"
                 PROVE  Len(Head_(m)) <= p /\ BodyRead(g, m, p)
      OBVIOUS
    <3>1. d.cut = "body" /\ g = sr[s].http
      BY <1>4, <1>8, <2>3
    <3>2. p >= Len(Head_(m)) /\ BodyRead(sr[s].http, m, p)
      BY <2>3, <3>1
    <3> QED
      BY <1>4, <1>6, <3>1, <3>2
  <2>9. cut = "no" => x = L
    <3>1. CASE p = 0
      BY <1>3, <3>1 DEF Cut
    <3>2. CASE p # 0
      BY <1>4, <2>3, <3>2
    <3> QED
      BY <3>1, <3>2
  <2> HIDE DEF g, m, p, cut, r
  <2>10. LET w == Data(g, SubSeq(Cells(m), p + 1, p + n))
         IN  IsParser(w) /\ (w.llhttp.error \/ HandedUpTo(w, m, p + n, cut))
    BY <1>1, <1>3, <1>4, <1>5, <1>8, <2>4, <2>5, <2>6, <2>7, <2>8, DataHanded DEF g
  <2> QED
    BY <2>2, <2>4, <2>9, <2>10, Zenon DEF g
<1>14. /\ Typed(q) /\ q.reading /\ ~q.request_completed /\ q.request_state = "open"
       /\ q.http = h
  <2> HIDE DEF r, h
  <2> QED
    BY <1>7 DEF Typed, IsSlot
<1>15. \A t \in Slots : /\ sr'[t] = IF t = s THEN o.r ELSE sr[t]
                        /\ app'[t] = IF t = s THEN o.app ELSE app[t]
                        /\ client'[t] = IF t = s THEN c ELSE client[t]
  <2> HIDE DEF o, c
  <2> QED
    BY <1>1, HandedAreOk DEF Becomes
<1> HIDE DEF q, h, r, c, cut, waits, x, m, p, L
<1>16. HandedOk(o.r, o.app, c)
  <2>1. CASE h.llhttp.error
    <3>1. o = HandleRequestError(s, q, b)
      BY <2>1, Zenon
    <3> DEFINE e == [request_state |-> "open", http |-> h, reading |-> FALSE]
    <3>2. HandedOk(e, b, c)
      <4>1. e.request_state = "open" /\ e.http = h /\ ~e.reading
        OBVIOUS
      <4> HIDE DEF e
      <4>2. c.fresh => b # "owes"
        BY <1>10, <1>13
      <4> QED
        BY <1>4, <1>9, <1>10, <1>11, <1>12, <4>1, <4>2 DEF HandedOk
    <3>3. e.http.handed = q.http.handed
      BY <1>14
    <3> HIDE DEF e, o, b
    <3>4. HandedOk(HandleRequestError(s, q, b).r, HandleRequestError(s, q, b).app, c)
      BY <1>9, <1>14, <3>2, <3>3, ErrorHanded
    <3> QED
      BY <3>1, <3>4
  <2>2. CASE ~h.llhttp.error
    <3>1. o = [r |-> q, app |-> a]
      BY <2>2, Zenon
    <3> HIDE DEF o, a
    <3>2. o.r = q /\ o.app = a
      BY <3>1
    <3>3. HandedOk(q, a, c)
      <4>1. CASE d.fresh
        <5>1. HandedUpTo(q.http, m, x, c.cut) /\ (c.cut = "no" => x = Len(Cells(m)))
          BY <1>10, <1>13, <1>14, <2>2, <4>1 DEF L
        <5>2. a = IF q.http.handed # <<>> THEN "owes" ELSE b
          BY <1>13, <1>14, <4>1 DEF a
        <5>3. /\ x <= Len(Cells(m)) /\ c.todo \in Seq(Request) /\ c.todo # <<>>
              /\ m = Head(c.todo) /\ (c.waiting <=> x = Len(Cells(m)))
          BY <1>1, <1>4, <1>10 DEF L, m, waits
        <5>4. IsParser(q.http) /\ q.request_state # "closed" /\ b # "owes"
          BY <1>9, <1>13, <1>14, <4>1
        <5>5. c.sent = x /\ c.cut \in {"no", "body", "head"}
          BY <1>10, <1>11
        <5> HIDE DEF b, d
        <5> QED
          BY <1>5, <1>12, <1>14, <5>1, <5>2, <5>3, <5>4, <5>5, ReadUnderway
      <4>2. CASE ~d.fresh
        BY <1>4, <1>9, <1>10, <1>11, <1>12, <1>14, <4>2 DEF HandedOk
      <4> QED
        BY <4>1, <4>2
    <3> QED
      BY <3>2, <3>3
  <2> QED
    BY <2>1, <2>2
<1> HIDE DEF o, c
<1> QED
  BY <1>15, <1>16, OneHanded

\* An answer ends, and the client turns to its next request or leaves.
LEMMA AfterLastWriteHanded ==
  ASSUME HandedInv, NEW s \in Slots, AfterLastWrite(s)
  PROVE  AllHanded'
<1> DEFINE q == [sr[s] EXCEPT !.writes = Tail(@), !.request_completed = TRUE]
           d == client[s]
           b == app[s]
           keep == q.http.http.keep_alive
           o == IF keep THEN [r |-> q, app |-> "none"] ELSE CloseConnection(s, q, b)
           left == d.gone \/ Len(d.todo) = 1
           next == [d EXCEPT !.todo = Tail(@), !.sent = 0, !.waiting = FALSE, !.cut = "no",
                             !.gone = left]
           turns == keep /\ d.waiting /\ ~d.gone
           c == IF turns THEN next ELSE d
<1>1. /\ Becomes(s, o) /\ client' = [client EXCEPT ![s] = c]
      /\ sr[s].writes # <<>> /\ Head(sr[s].writes).last
  BY Zenon DEF AfterLastWrite
<1>2. /\ Typed(sr[s]) /\ SlotOk(sr[s], b) /\ IsClient(d) /\ AnswerOk(sr[s], b, d)
      /\ HandedOk(sr[s], b, d)
  BY HandedAreOk
<1>3. sr[s].request_state # "closed" /\ IsParser(sr[s].http)
  BY <1>1, <1>2 DEF SlotOk, HandedOk
<1>4. /\ q.reading = sr[s].reading /\ q.request_state = sr[s].request_state
      /\ q.http = sr[s].http /\ q.request_completed /\ Typed(q)
  <2>1. PICK x : x = sr[s]
    OBVIOUS
  <2>2. Tail(x.writes) \in Seq(Write)
    BY <1>1, <1>2, <2>1, HeadTailProperties DEF Typed
  <2>3. q = [x EXCEPT !.writes = Tail(@), !.request_completed = TRUE] /\ Typed(x)
    BY <1>2, <2>1, Zenon
  <2> HIDE DEF q
  <2> QED
    BY <2>1, <2>2, <2>3 DEF Typed, IsSlot
<1>5. /\ next.todo = Tail(d.todo) /\ next.sent = 0 /\ ~next.waiting /\ next.cut = "no"
      /\ (next.gone <=> left) /\ next.fresh = d.fresh
  <2>1. PICK y : y = Tail(d.todo)
    OBVIOUS
  <2>2. next = [d EXCEPT !.todo = y, !.sent = 0, !.waiting = FALSE, !.cut = "no", !.gone = left]
    BY <2>1, <1>2 DEF IsClient
  <2> HIDE DEF next, left, d
  <2> QED
    BY <1>2, <2>1, <2>2 DEF IsClient
<1>6. ASSUME turns PROVE /\ d.todo \in Seq(Request) /\ d.todo # <<>>
                         /\ next.todo \in Seq(Request) /\ (next.todo = <<>> => next.gone)
  <2>1. d.todo \in Seq(Request) /\ d.todo # <<>>
    BY <1>2, <1>6 DEF HandedOk
  <2>2. /\ Tail(d.todo) \in Seq(Request) /\ Len(Tail(d.todo)) = Len(d.todo) - 1
    BY <2>1, HeadTailProperties
  <2>3. Len(d.todo) \in Nat
    BY <2>1, LenProperties
  <2>4. Tail(d.todo) = <<>> => Len(d.todo) = 1
    <3>1. Tail(d.todo) = <<>> => Len(Tail(d.todo)) = 0
      BY <2>2, EmptySeq
    <3> HIDE DEF d
    <3> QED
      BY <2>2, <2>3, <3>1
  <2> QED
    BY <1>5, <2>1, <2>2, <2>4
<1> HIDE DEF q, next, left
<1>7. ASSUME d.fresh, sr[s].reading
      PROVE  /\ Underway(sr[s], b, d) /\ d.waiting /\ sr[s].http.handed = <<>>
  <2>1. Underway(sr[s], b, d)
    BY <1>2, <1>7 DEF HandedOk
  <2>2. 1 \in DOMAIN sr[s].writes /\ sr[s].writes[1].last
    BY <1>1, <1>2, TailWrites
  <2>3. d.waiting /\ b \notin Answering
    BY <1>2, <1>7, <2>2 DEF AnswerOk
  <2> QED
    BY <2>1, <2>3 DEF Underway, Answering
<1>8. ASSUME keep PROVE HandedOk(q, "none", c)
  <2>1. CASE turns
    <3>1. c = next
      BY <2>1
    <3> HIDE DEF c
    <3> DEFINE m == Head(next.todo)
    <3>2. ASSUME next.fresh, q.reading PROVE Underway(q, "none", next)
      <4>1. /\ Underway(sr[s], b, d) /\ d.waiting /\ sr[s].http.handed = <<>> /\ d.todo # <<>>
        BY <1>4, <1>5, <1>6, <1>7, <2>1, <3>2
      <4>2. ~q.http.llhttp.error /\ q.http.llhttp.lex = "start" /\ q.http.handed = <<>>
        BY <1>4, <4>1 DEF Underway
      <4>3. ASSUME next.todo # <<>>
            PROVE  0 \in 0 .. Len(Cells(m)) /\ 0 # Len(Cells(m)) /\ ReadTo(q.http, m, 0)
        <5>1. m \in Request
          BY <1>6, <2>1, <4>3, HeadTailProperties
        <5>2. 0 < Len(Head_(m)) /\ Len(Cells(m)) \in Nat /\ 0 < Len(Cells(m))
          BY <5>1, CellsNotEmpty
        <5> HIDE DEF m
        <5>3. ReadTo(q.http, m, 0)
          BY <4>2, <5>2 DEF ReadTo
        <5> QED
          BY <5>2, <5>3
      <4> QED
        BY <1>4, <1>5, <4>2, <4>3 DEF Underway
    <3>3. 0 \in Nat
      OBVIOUS
    <3>4. HandedOk(q, "none", next)
      BY <1>3, <1>4, <1>5, <1>6, <2>1, <3>2, <3>3 DEF HandedOk
    <3> QED
      BY <3>1, <3>4
  <2>2. CASE ~turns
    <3>1. c = d
      BY <2>2
    <3> HIDE DEF c
    <3>2. ASSUME d.fresh, q.reading PROVE Underway(q, "none", d)
      <4>1. Underway(sr[s], b, d) /\ d.waiting /\ sr[s].http.handed = <<>>
        BY <1>4, <1>7, <3>2
      <4> HIDE DEF d
      <4> QED
        BY <1>4, <4>1 DEF Underway
    <3>3. HandedOk(q, "none", d)
      BY <1>2, <1>3, <1>4, <3>2 DEF HandedOk
    <3> QED
      BY <3>1, <3>3
  <2> QED
    BY <2>1, <2>2
<1>9. HandedOk(o.r, o.app, c)
  <2>1. CASE keep
    <3>1. o = [r |-> q, app |-> "none"]
      BY <2>1, Zenon
    <3> HIDE DEF o, c, keep
    <3>2. o.r = q /\ o.app = "none"
      BY <3>1
    <3> QED
      BY <1>8, <2>1, <3>2, Zenon
  <2>2. CASE ~keep
    <3>1. o = CloseConnection(s, q, b) /\ c = d
      BY <2>2, Zenon
    <3>2. q.reading => q.request_state = "open"
      BY <1>2, <1>4 DEF AnswerOk
    <3>3. IsParser(q.http) /\ q.http.handed = sr[s].http.handed /\ q.request_state # "closed"
      BY <1>3, <1>4
    <3> HIDE DEF o, c, d, b
    <3>4. HandedOk(CloseConnection(s, q, b).r, CloseConnection(s, q, b).app, d)
      BY <1>2, <1>4, <3>2, <3>3, CloseHanded
    <3> QED
      BY <3>1, <3>4
  <2> QED
    BY <2>1, <2>2
<1>10. \A t \in Slots : /\ sr'[t] = IF t = s THEN o.r ELSE sr[t]
                        /\ app'[t] = IF t = s THEN o.app ELSE app[t]
                        /\ client'[t] = IF t = s THEN c ELSE client[t]
  <2> HIDE DEF o, c
  <2> QED
    BY <1>1, HandedAreOk DEF Becomes
<1> HIDE DEF o, c
<1> QED
  BY <1>9, <1>10, OneHanded

\* ac_http_parser_init
LEMMA NewParserLemma == IsParser(NewParser) /\ NewParser.handed = <<>>
<1>1. IsHttp(Cleared)
  <2>1. Cleared.headers = <<>> /\ <<>> \in Seq(Range(<<>>))
    BY DEF Cleared
  <2> QED
    BY <2>1 DEF Cleared, IsHttp
<1>2. <<>> \in Seq(AnyCell)
  OBVIOUS
<1> QED
  BY <1>1, <1>2 DEF NewParser, Start, IsParser

\* The structures that ac_serve_destroy frees.
LEMMA DestroyHanded ==
  ASSUME HandedInv, Destroy
  PROVE  AllHanded'
<1>1. /\ sr' = [s \in Slots |-> IF s \in Range(free_list) THEN NewSlot ELSE sr[s]]
      /\ app' = app /\ client' = client
  BY DEF Destroy
<1>2. IsParser(NewParser) /\ NewParser.handed = <<>>
  BY NewParserLemma
<1>3. /\ NewSlot.http = NewParser /\ ~NewSlot.reading /\ ~NewSlot.request_completed
      /\ NewSlot.request_state = "closed"
  BY DEF NewSlot
<1>4. ASSUME NEW s \in Slots PROVE HandedOk(sr'[s], app'[s], client'[s])
  <2>1. HandedOk(sr[s], app[s], client[s])
    BY HandedAreOk
  <2>2. CASE s \in Range(free_list)
    <3>1. sr'[s] = NewSlot
      BY <1>1, <2>2
    <3>2. app[s] # "owes"
      <4>1. SlotsInv
        BY DEF HandedInv, AnswersInv
      <4>2. sr[s].request_state = "closed"
        BY <2>2, <4>1, ListedIsClosed
      <4>3. SlotOk(sr[s], app[s])
        BY HandedAreOk
      <4> QED
        BY <4>2, <4>3 DEF SlotOk
    <3>3. HandedOk(NewSlot, app[s], client[s])
      BY <1>2, <1>3, <2>1, <3>2 DEF HandedOk
    <3> QED
      BY <1>1, <3>1, <3>3
  <2>3. CASE s \notin Range(free_list)
    BY <1>1, <2>1, <2>3
  <2> QED
    BY <2>2, <2>3
<1> QED
  BY <1>4, Zenon DEF AllHanded

\* The application takes what was handed over.
LEMMA ApplicationHanded ==
  ASSUME HandedInv, NEW s \in Slots, Answer(s) \/ WriteChunk(s) \/ FinishChunks(s)
  PROVE  AllHanded'
<1>1. /\ Typed(sr[s]) /\ HandedOk(sr[s], app[s], client[s])
  BY HandedAreOk
<1>2. ASSUME NEW last \in BOOLEAN, NEW a, a # "owes",
             sr' = [sr EXCEPT ![s] = [UvWrite(@, last) EXCEPT !.http.handed = <<>>]],
             app' = [app EXCEPT ![s] = a], client' = client
      PROVE  AllHanded'
  <2> DEFINE u == UvWrite(sr[s], last)
             q == [u EXCEPT !.http.handed = <<>>]
             c == client[s]
             e == <<>>
  <2>1. Typed(u)
    BY <1>1, <1>2, WriteLemma
  <2>2. /\ u.http = sr[s].http /\ u.reading = sr[s].reading
        /\ u.request_completed = sr[s].request_completed
        /\ u.request_state = sr[s].request_state
    BY <1>1, WriteHttp
  <2>3. sr' = [sr EXCEPT ![s] = q]
    BY <1>2
  <2> HIDE DEF u, e
  <2> DEFINE h == [u.http EXCEPT !.handed = e]
  <2>4. q = [u EXCEPT !.http = h]
    BY <2>1 DEF Typed, IsSlot, e
  <2>5. IsParser(h) /\ h.handed = e /\ h.http = u.http.http /\ h.llhttp = u.http.llhttp
    BY <1>1, <2>2 DEF HandedOk, IsParser
  <2> HIDE DEF q, h, c
  <2>6. /\ q.reading = sr[s].reading /\ q.request_completed = sr[s].request_completed
        /\ q.request_state = sr[s].request_state /\ q.http = h
    BY <2>1, <2>2, <2>4 DEF Typed, IsSlot
  <2>7. ASSUME c.fresh, q.reading PROVE Underway(q, a, c)
    <3>1. Underway(sr[s], app[s], c)
      BY <1>1, <2>6, <2>7 DEF HandedOk, c
    <3> QED
      BY <2>2, <2>5, <2>6, <3>1 DEF Underway, ReadTo, UrlRead, BodyRead, e
  <2>8. HandedOk(q, a, c)
    BY <1>1, <1>2, <2>5, <2>6, <2>7 DEF HandedOk, c, e
  <2> QED
    BY <1>2, <2>3, <2>8, SameClientHanded DEF c
<1>3. CASE Answer(s)
  BY <1>2, <1>3 DEF Answer
<1>4. CASE WriteChunk(s)
  BY <1>2, <1>4 DEF WriteChunk
<1>5. CASE FinishChunks(s)
  <2> DEFINE y == TRUE
             u == UvWrite(sr[s], y)
             c == client[s]
  <2>1. /\ sr' = [sr EXCEPT ![s] = u] /\ app[s] = "more"
        /\ app' = [app EXCEPT ![s] = "answered"] /\ client' = client
    BY <1>5 DEF FinishChunks
  <2> HIDE DEF y
  <2>2. /\ u.http = sr[s].http /\ u.reading = sr[s].reading
        /\ u.request_completed = sr[s].request_completed
        /\ u.request_state = sr[s].request_state
    BY <1>1, WriteHttp
  <2> HIDE DEF u
  <2>3. HandedOk(u, app[s], c)
    BY <1>1, <2>2, SameHanded
  <2> HIDE DEF c
  <2>4. HandedOk(u, "answered", c)
    BY <2>1, <2>3 DEF HandedOk, Underway
  <2> QED
    BY <2>1, <2>4, SameClientHanded DEF c
<1> QED
  BY <1>3, <1>4, <1>5

\* A client that leaves.
LEMMA LeaveHanded ==
  ASSUME HandedInv, NEW s \in Slots, Leave(s)
  PROVE  AllHanded'
<1> DEFINE d == client[s]
           c == [d EXCEPT !.gone = TRUE]
<1>1. sr' = sr /\ app' = app /\ client' = [client EXCEPT ![s] = c]
  BY DEF Leave
<1>2. HandedOk(sr[s], app[s], d) /\ IsClient(d)
  BY HandedAreOk
<1> HIDE DEF d
<1>3. /\ c.todo = d.todo /\ c.sent = d.sent /\ c.waiting = d.waiting /\ c.cut = d.cut
      /\ c.gone /\ c.fresh = d.fresh
  BY <1>2 DEF IsClient
<1> HIDE DEF c
<1>4. HandedOk(sr[s], app[s], c)
  BY <1>2, <1>3 DEF HandedOk, Underway
<1>5. \A t \in Slots : /\ sr'[t] = IF t = s THEN sr[s] ELSE sr[t]
                       /\ app'[t] = IF t = s THEN app[s] ELSE app[t]
                       /\ client'[t] = IF t = s THEN c ELSE client[t]
  BY <1>1, HandedAreOk
<1> QED
  BY <1>4, <1>5, OneHanded

\* At the start no structure is in use.
LEMMA InitHanded == Init => HandedInv
<1> SUFFICES ASSUME Init PROVE HandedInv
  OBVIOUS
<1>1. /\ plan \in Plans /\ connections = 0
      /\ \A s \in Slots : sr[s] = NewSlot /\ app[s] = "none" /\ client[s] = Gone
  BY DEF Init
<1>2. NewSlot.http = NewParser /\ ~NewSlot.reading
  BY DEF NewSlot
<1>3. HandedOk(NewSlot, "none", Gone)
  <2>1. Gone.todo = <<>> /\ Gone.gone /\ Gone.sent = 0 /\ Gone.cut = "no"
    BY DEF Gone
  <2>2. <<>> \in Seq(Request) /\ 0 \in Nat
    OBVIOUS
  <2> QED
    BY <1>2, <2>1, <2>2, NewParserLemma DEF HandedOk
<1>4. connections \in 0 .. Len(plan)
  <2>1. plan \in Seq(Seq(Request) \ {<<>>})
    BY <1>1, PlansAssumption
  <2>2. Len(plan) \in Nat
    BY <2>1, LenProperties
  <2> QED
    BY <1>1, <2>2
<1> QED
  BY <1>1, <1>3, <1>4, InitAnswers DEF HandedInv

\* Every callback and every step of the application keeps what the theorems below rest on.
LEMMA HandedKept == HandedInv /\ [Next]_vars => HandedInv'
<1> SUFFICES ASSUME HandedInv, [Next]_vars PROVE HandedInv'
  OBVIOUS
<1> DEFINE Planned == plan \in Plans /\ connections \in 0 .. Len(plan)
<1>1. ASSUME UNCHANGED <<plan, connections>> PROVE Planned'
  BY <1>1 DEF HandedInv
<1>2. ASSUME UNCHANGED <<sr, app, client>> PROVE AllHanded'
  BY <1>2, Zenon DEF HandedInv, AllHanded
<1>3. AllHanded' /\ Planned'
  <2>1. CASE UNCHANGED vars
    BY <1>1, <1>2, <2>1, Zenon DEF vars
  <2>2. CASE Timer \/ ShutDown
    BY <1>1, <1>2, <2>2, Zenon DEF Timer, ShutDown
  <2>3. CASE Destroy
    <3>1. UNCHANGED <<plan, connections>>
      BY <2>3, Zenon DEF Destroy
    <3> QED
      BY <1>1, <2>3, <3>1, DestroyHanded
  <2>4. ASSUME NEW s \in Slots, OnAccept(s) PROVE AllHanded' /\ Planned'
    BY <2>4, AcceptHanded
  <2>5. ASSUME NEW s \in Slots,
               \/ OnReadNothing(s) \/ OnReadEnd(s) \/ Callback(s)
               \/ \E n \in 1 .. MaxPiece : OnRead(s, n)
               \/ Answer(s) \/ WriteChunk(s) \/ FinishChunks(s) \/ Leave(s)
        PROVE  AllHanded' /\ Planned'
    <3>1. UNCHANGED <<plan, connections>>
      BY <2>5, Zenon DEF OnReadNothing, OnReadEnd, OnReadEof, OnReadReset, OnReadError, Callback,
                         AfterWrite, AfterLastWrite, OnShutdown, OnClose, OnRead, Answer,
                         WriteChunk, FinishChunks, Leave, ListsUnchanged
    <3>2. AllHanded'
      <4>1. CASE OnReadNothing(s) \/ OnReadEnd(s)
        BY <4>1, ReadEndHanded
      <4>2. CASE AfterWrite(s)
        BY <4>2, AfterWriteHanded
      <4>3. CASE AfterLastWrite(s)
        BY <4>3, AfterLastWriteHanded
      <4>4. CASE OnShutdown(s)
        BY <4>4, ShutdownHanded
      <4>5. CASE OnClose(s)
        BY <4>5, OnCloseHanded
      <4>6. CASE \E n \in 1 .. MaxPiece : OnRead(s, n)
        BY <4>6, ReadHanded
      <4>7. CASE Answer(s) \/ WriteChunk(s) \/ FinishChunks(s)
        BY <4>7, ApplicationHanded
      <4>8. CASE Leave(s)
        BY <4>8, LeaveHanded
      <4> QED
        BY <2>5, <4>1, <4>2, <4>3, <4>4, <4>5, <4>6, <4>7, <4>8, Zenon DEF Callback
    <3> QED
      BY <1>1, <3>1, <3>2
  <2> QED
    BY <2>1, <2>2, <2>3, <2>4, <2>5, Zenon DEF Next
<1>4. WholeHanded'
  BY <1>3, Zenon DEF AllHanded, HandedOk, WholeHanded
<1>5. AnswersInv'
  BY <1>4, AnswersKept, Zenon DEF HandedInv
<1> QED
  BY <1>3, <1>5, Zenon DEF HandedInv, AllHanded

-----------------------------------------------------------------------------
(* The theorems about the answers and the requests *)

\* No read clears the memory of an answer that is still written (on_alloc), with any number
\* of structures, clients and requests, cut anywhere and broken off at any moment, and an
\* application that answers late or in chunks.
THEOREM AnswersStayLive == Spec => []AnswersLive
<1>1. HandedInv => AnswersLive
  BY DEF HandedInv, AnswersInv, AnswersLive, AnswerOk
<1> QED
  BY <1>1, InitHanded, HandedKept, PTL DEF Spec

\* on_url is called once for each request, when all of it was read, and with what the client
\* sent (on_message_complete): its URL however it was cut, its body if the head came in one
\* read, and its headers if everything did.
THEOREM RequestsHandedAsSent == Spec => []HandedAsSent
<1>1. HandedInv => HandedAsSent
  <2> SUFFICES ASSUME HandedInv PROVE HandedAsSent
    OBVIOUS
  <2>1. WholeHanded
    BY Zenon DEF HandedInv, HandedOk, WholeHanded
  <2>2. ASSUME NEW s \in Slots, app[s] = "owes", client[s].fresh, client[s].todo # <<>>,
               sr[s].http.handed # <<>>
        PROVE  AsSent(sr[s].http.handed, Head(client[s].todo), client[s].cut)
    BY <2>2, HandedAreOk DEF HandedOk
  <2> QED
    BY <2>1, <2>2, Zenon DEF HandedAsSent, AsSent
<1> QED
  BY <1>1, InitHanded, HandedKept, PTL DEF Spec
=============================================================================
