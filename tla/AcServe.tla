------------------------------- MODULE AcServe -------------------------------
(***************************************************************************)
(* One thread of ac_serve.c: the callbacks of its libuv loop, the           *)
(* structures of its connections, which are used again through a free list, *)
(* and an application that answers when it likes, at once or in chunks,     *)
(* until it is told that the request is complete.                           *)
(*                                                                          *)
(* libuv (external) calls back for one event at a time.  Writes end in the  *)
(* order they were made; a shutdown ends after them; uv_close cancels both, *)
(* calls back for each of them and then calls on_close.                     *)
(***************************************************************************)
EXTENDS AcHttpParser, FiniteSets

CONSTANTS
  Slots,    \* the structures (serve_request_t)
  Plans,    \* bound: the clients, each a sequence of requests, in the order they connect
  MaxPiece  \* bound: the cells of one read

VARIABLES
  plan,           \* the clients that come
  sr,             \* the structures
  free_list, active,
  shutting_down,  \* set by the application
  stopped,        \* the loop has ended
  app,            \* what the application does for each structure
  client,         \* the client at the other end
  connections     \* how many clients have connected

vars == <<plan, sr, free_list, active, shutting_down, stopped, app, client, connections>>

\* A request as a client sends it; of a malformed one that is the first cells of its head.
Cell(part, id) == [part |-> part, id |-> id, length |-> 0, keep |-> FALSE]
Sep == Cell("sep", 0)
HeaderCells(header) == header[1] \o <<Sep>> \o header[2] \o <<Sep>>
\* What the first headers of a request look like.
HeaderLines(headers) ==
  LET lines[k \in 0 .. Len(headers)] ==
        IF k = 0 THEN <<>> ELSE lines[k - 1] \o HeaderCells(headers[k])
  IN  lines
Head_(m) ==
  m.url \o <<Sep>> \o HeaderLines(m.headers)[Len(m.headers)]
    \o <<[Cell("end", 0) EXCEPT !.length = Len(m.body), !.keep = m.keep]>>
Cells(m) ==
  IF m.bad = 0 THEN Head_(m) \o m.body ELSE SubSeq(Head_(m), 1, m.bad) \o <<Cell("bad", 0)>>

Text(part) == Seq([part : {part}, id : Nat, length : {0}, keep : {FALSE}])
Request ==
  {m \in [url : Text("url"), headers : Seq(Text("key") \X Text("value")), body : Text("body"),
          keep : BOOLEAN, bad : Nat] :
     /\ m.url # <<>>
     /\ \A i \in DOMAIN m.headers : m.headers[i][1] # <<>> /\ m.headers[i][2] # <<>>
     /\ m.bad < Len(Head_(m))}

ASSUME PlansAssumption == \A p \in Plans : p \in Seq(Seq(Request) \ {<<>>})

ASSUME PieceAssumption == MaxPiece \in Nat

\* How a request is cut into reads: not at all, in its body, or in its head, when the
\* first read has n cells of it.
Cut(m, n) ==
  IF n = Len(Cells(m)) THEN "no" ELSE IF n >= Len(Head_(m)) THEN "body" ELSE "head"

Gone == [todo |-> <<>>, sent |-> 0, waiting |-> FALSE, gone |-> TRUE, fresh |-> TRUE, cut |-> "no"]

-----------------------------------------------------------------------------
(* The structure of a connection.  writes are the writes that have not ended: *)
(* is it the last of an answer, and is its memory still in the pool?          *)

NewSlot ==
  [request_state |-> "closed", request_completed |-> FALSE, http |-> NewParser,
   reading |-> FALSE, shutting |-> FALSE, writes |-> <<>>]

Init ==
  /\ plan \in Plans
  /\ sr = [s \in Slots |-> NewSlot]
  /\ free_list = <<>>
  /\ active = 0
  /\ shutting_down = FALSE
  /\ stopped = FALSE
  /\ app = [s \in Slots |-> "none"]
  /\ client = [s \in Slots |-> Gone]
  /\ connections = 0

\* serve_request_clear: the pool is cleared with the parser.
RequestClear(r) ==
  [r EXCEPT !.request_completed = FALSE, !.http = Clear(@),
            !.writes = [i \in DOMAIN @ |-> [@[i] EXCEPT !.live = FALSE]]]

\* Fault: every read clears the request.
OnAllocAlways(r) == RequestClear(r)

OnAlloc(r) == IF r.request_completed THEN RequestClear(r) ELSE r

Writable(r) == r.request_state = "open" /\ ~r.shutting

\* An answer to a stream that cannot be written to is dropped.
UvWrite(r, last) ==
  IF Writable(r) THEN [r EXCEPT !.writes = Append(@, [last |-> last, live |-> TRUE])] ELSE r

\* uv_close; on_close follows.
Closing(r) == [r EXCEPT !.request_state = "closing", !.reading = FALSE]

\* Fault: the application is not told.
CloseConnectionQuietly(s, r, a) ==
  [r |-> IF r.request_state = "open" THEN Closing(r) ELSE r, app |-> a]

\* close_connection: on_request_complete, then uv_close.
CloseConnection(s, r, a) ==
  IF r.request_state = "open" THEN [r |-> Closing(r), app |-> "none"] ELSE [r |-> r, app |-> a]

\* write_response_error if there are headers
HandleRequestError(s, r, a) ==
  LET e == [r EXCEPT !.reading = FALSE, !.http.http.keep_alive = FALSE]
  IN  IF e.http.http.headers # <<>> THEN [r |-> UvWrite(e, TRUE), app |-> a]
      ELSE CloseConnection(s, e, a)

\* The structure of s is now o.r and the application does o.app.
Becomes(s, o) ==
  /\ sr' = [sr EXCEPT ![s] = o.r]
  /\ app' = [app EXCEPT ![s] = o.app]

ListsUnchanged == UNCHANGED <<plan, free_list, active, shutting_down, stopped, connections>>

-----------------------------------------------------------------------------
(* The callbacks of the loop *)

\* ac_serve_request_init takes the first structure of the free list, or a new one.
Unused == {s \in Slots : sr[s].request_state = "closed" /\ s \notin Range(free_list)}
Candidates == IF free_list = <<>> THEN Unused ELSE {Head(free_list)}

\* The parser is cleared, and llhttp left where it is.
Accepted(r) ==
  [r EXCEPT !.request_state = "open", !.request_completed = TRUE, !.http = Clear(@), !.reading = TRUE]

\* on_accept, for one client.
OnAccept(s) ==
  /\ ~stopped
  /\ connections < Len(plan)
  /\ s \in Candidates
  /\ active' = active + 1
  /\ free_list' = IF free_list = <<>> THEN free_list ELSE Tail(free_list)
  /\ sr' = [sr EXCEPT ![s] = Accepted(@)]
  /\ client' = [client EXCEPT ![s] =
       [todo |-> plan[connections + 1], sent |-> 0, waiting |-> FALSE, gone |-> FALSE,
        fresh |-> sr[s].http.llhttp = Start, cut |-> "no"]]
  /\ connections' = connections + 1
  /\ UNCHANGED <<plan, shutting_down, stopped, app>>

CanRead(s) == ~stopped /\ sr[s].request_state = "open" /\ sr[s].reading

\* on_alloc and on_read with the next n cells.  A client sends a request after it has
\* the answer to the one before.
OnRead(s, n) ==
  LET c == client[s]
      cells == Cells(Head(c.todo))
      r == OnAlloc(sr[s])
      h == Data(r.http, SubSeq(cells, c.sent + 1, c.sent + n))
      o == IF h.llhttp.error THEN HandleRequestError(s, [r EXCEPT !.http = h], app[s])
           ELSE [r |-> [r EXCEPT !.http = h],
                 app |-> IF h.handed # r.http.handed THEN "owes" ELSE app[s]]
  IN  /\ CanRead(s)
      /\ ~c.gone /\ ~c.waiting
      /\ c.sent + n <= Len(cells)
      /\ Becomes(s, o)
      /\ client' = [client EXCEPT ![s] =
           [c EXCEPT !.sent = c.sent + n, !.waiting = c.sent + n = Len(cells),
                     !.cut = IF c.sent = 0 THEN Cut(Head(c.todo), n) ELSE @]]
      /\ ListsUnchanged

\* on_alloc and on_read with nothing, with the end of the stream, with a reset and with
\* another error.
OnReadNothing(s) ==
  /\ CanRead(s)
  /\ sr[s].request_completed
  /\ sr' = [sr EXCEPT ![s] = OnAlloc(@)]
  /\ UNCHANGED <<app, client>> /\ ListsUnchanged

OnReadEof(s) ==
  /\ CanRead(s)
  /\ client[s].gone
  /\ sr' = [sr EXCEPT ![s] = [OnAlloc(@) EXCEPT !.shutting = TRUE, !.reading = FALSE]]
  /\ UNCHANGED <<app, client>> /\ ListsUnchanged

OnReadReset(s) ==
  /\ CanRead(s)
  /\ client[s].gone
  /\ Becomes(s, CloseConnection(s, OnAlloc(sr[s]), app[s]))
  /\ UNCHANGED client /\ ListsUnchanged

OnReadError(s) ==
  /\ CanRead(s)
  /\ client[s].gone
  /\ Becomes(s, HandleRequestError(s, OnAlloc(sr[s]), app[s]))
  /\ UNCHANGED client /\ ListsUnchanged

\* after_write: the application goes on with its chunks, unless it was told that the
\* request is complete.
AfterWrite(s) ==
  /\ sr[s].writes # <<>>
  /\ ~Head(sr[s].writes).last
  /\ sr' = [sr EXCEPT ![s].writes = Tail(@)]
  /\ app' = [app EXCEPT ![s] = IF @ = "streaming" THEN "more" ELSE @]
  /\ UNCHANGED client /\ ListsUnchanged

\* after_last_write.  The client has the answer and turns to the next request.
AfterLastWrite(s) ==
  LET r == [sr[s] EXCEPT !.writes = Tail(@), !.request_completed = TRUE]
      keep == r.http.http.keep_alive
      c == client[s]
      next == [c EXCEPT !.todo = Tail(@), !.sent = 0, !.waiting = FALSE, !.cut = "no",
                        !.gone = c.gone \/ Len(c.todo) = 1]
  IN  /\ sr[s].writes # <<>>
      /\ Head(sr[s].writes).last
      /\ Becomes(s, IF keep THEN [r |-> r, app |-> "none"] ELSE CloseConnection(s, r, app[s]))
      /\ client' = [client EXCEPT ![s] = IF keep /\ c.waiting /\ ~c.gone THEN next ELSE c]
      /\ ListsUnchanged

\* Fault: the connection is left open.
OnShutdownNothing(s) ==
  /\ sr[s].shutting
  /\ sr[s].writes = <<>>
  /\ sr' = [sr EXCEPT ![s].shutting = FALSE]
  /\ UNCHANGED <<app, client>> /\ ListsUnchanged

OnShutdown(s) ==
  /\ sr[s].shutting
  /\ sr[s].writes = <<>>
  /\ Becomes(s, CloseConnection(s, [sr[s] EXCEPT !.shutting = FALSE], app[s]))
  /\ UNCHANGED client /\ ListsUnchanged

OneLess == active - 1

OnClose(s) ==
  /\ sr[s].request_state = "closing"
  /\ sr[s].writes = <<>>
  /\ ~sr[s].shutting
  /\ sr' = [sr EXCEPT ![s] = [RequestClear(@) EXCEPT !.request_state = "closed", !.http.handed = <<>>]]
  /\ active' = OneLess
  /\ free_list' = <<s>> \o free_list
  /\ client' = [client EXCEPT ![s] = Gone]
  /\ UNCHANGED <<plan, app, shutting_down, stopped, connections>>

\* timer_cb
Timer ==
  /\ ~stopped
  /\ shutting_down
  /\ active = 0
  /\ stopped' = TRUE
  /\ UNCHANGED <<plan, sr, free_list, active, shutting_down, app, client, connections>>

\* ac_serve_run returns, and ac_serve_destroy destroys what is on the free list.
Destroy ==
  /\ stopped
  /\ free_list # <<>>
  /\ free_list' = <<>>
  /\ sr' = [s \in Slots |-> IF s \in Range(free_list) THEN NewSlot ELSE sr[s]]
  /\ UNCHANGED <<plan, active, shutting_down, stopped, app, client, connections>>

-----------------------------------------------------------------------------
(* The application *)

\* ac_serve_http_200
Answer(s) ==
  /\ app[s] = "owes"
  /\ sr' = [sr EXCEPT ![s] = [UvWrite(@, TRUE) EXCEPT !.http.handed = <<>>]]
  /\ app' = [app EXCEPT ![s] = "answered"]
  /\ UNCHANGED client /\ ListsUnchanged

\* ac_serve_start_chunk_encoding, ac_serve_chunk, ac_serve_chunk2
WriteChunk(s) ==
  /\ app[s] \in {"owes", "more"}
  /\ sr' = [sr EXCEPT ![s] = [UvWrite(@, FALSE) EXCEPT !.http.handed = <<>>]]
  /\ app' = [app EXCEPT ![s] = "streaming"]
  /\ UNCHANGED client /\ ListsUnchanged

\* ac_serve_finish_chunk_encoding
FinishChunks(s) ==
  /\ app[s] = "more"
  /\ sr' = [sr EXCEPT ![s] = UvWrite(@, TRUE)]
  /\ app' = [app EXCEPT ![s] = "answered"]
  /\ UNCHANGED client /\ ListsUnchanged

ShutDown ==
  /\ ~shutting_down
  /\ shutting_down' = TRUE
  /\ UNCHANGED <<plan, sr, free_list, active, stopped, app, client, connections>>

\* The client closes its end, or is lost.
Leave(s) ==
  /\ sr[s].request_state = "open"
  /\ ~client[s].gone
  /\ client' = [client EXCEPT ![s].gone = TRUE]
  /\ UNCHANGED <<sr, app>> /\ ListsUnchanged

-----------------------------------------------------------------------------
OnReadEnd(s) == OnReadEof(s) \/ OnReadReset(s) \/ OnReadError(s)
Callback(s) == AfterWrite(s) \/ AfterLastWrite(s) \/ OnShutdown(s) \/ OnClose(s)

Next ==
  \/ \E s \in Slots :
       \/ OnAccept(s) \/ OnReadNothing(s) \/ OnReadEnd(s) \/ Callback(s)
       \/ \E n \in 1 .. MaxPiece : OnRead(s, n)
       \/ Answer(s) \/ WriteChunk(s) \/ FinishChunks(s) \/ Leave(s)
  \/ Timer \/ ShutDown \/ Destroy

\* The loop calls back for whatever has happened.
Fairness ==
  WF_vars(Timer) /\ \A s \in Slots : WF_vars(OnReadEnd(s)) /\ WF_vars(Callback(s))

Spec == Init /\ [][Next]_vars /\ Fairness
-----------------------------------------------------------------------------
(* Properties *)

\* The fields of a structure.
IsSlot(r) ==
  r = [request_state |-> r.request_state, request_completed |-> r.request_completed,
       http |-> r.http, reading |-> r.reading, shutting |-> r.shutting, writes |-> r.writes]

Connected == {s \in Slots : sr[s].request_state # "closed"}

\* A structure is on the free list at most once and only when its connection is closed and
\* nothing of it is left in libuv; active counts the others, so that the loop neither ends
\* too early nor never (ac_serve_request_init, on_close, timer_cb).
FreeListSound ==
  /\ IsInjective(free_list)
  /\ active = Cardinality(Connected)
  /\ \A s \in Range(free_list) :
       /\ sr[s].request_state = "closed" /\ sr[s].writes = <<>> /\ ~sr[s].shutting
       /\ app[s] = "none"

\* The application never works for a connection that is closed or is another one by now:
\* close_connection told it before.
NoStaleAnswer ==
  \A s \in Slots : app[s] \in {"owes", "streaming", "more"} => sr[s].request_state = "open"

\* What is behind it: nothing is left of a closed connection, and the application was told
\* when one began to close.
SlotTypes ==
  /\ DOMAIN sr = Slots /\ DOMAIN app = Slots
  /\ \A s \in Slots :
       /\ IsSlot(sr[s])
       /\ sr[s].request_state \in {"open", "closing", "closed"}
       /\ sr[s].writes \in Seq([last : BOOLEAN, live : BOOLEAN])
  /\ free_list \in Seq(Slots)

ClosedIsClear ==
  \A s \in Slots :
    /\ sr[s].request_state # "open" => app[s] = "none"
    /\ sr[s].request_state = "closed" => sr[s].writes = <<>> /\ ~sr[s].shutting

\* A structure and its connection belong to one client at a time, from on_accept to the
\* free list (close_connection, on_close).
SlotsInv ==
  /\ SlotTypes
  /\ IsFiniteSet(Connected)
  /\ ClosedIsClear
  /\ FreeListSound
  /\ NoStaleAnswer

\* The pool is not cleared while an answer that lies in it is written (on_alloc).  A client
\* that is not fresh has a structure whose llhttp still waits for the rest of another's
\* request; its own may then be handed over before it was sent whole.
AnswersLive ==
  \A s \in Slots : client[s].fresh => \A i \in DOMAIN sr[s].writes : sr[s].writes[i].live

\* What is behind it: while a connection is read, nothing of an answer is on its way when the
\* next read clears the request, the client waits while the application answers, and after
\* the last write of an answer nothing more of it comes.
Answering == {"owes", "streaming", "more"}

AnswerOk(r, a, c) ==
  /\ r.reading => r.request_state = "open"
  /\ c.fresh =>
       /\ \A i \in DOMAIN r.writes : r.writes[i].live
       /\ r.reading =>
            /\ r.request_completed => r.writes = <<>>
            /\ a \in Answering => c.waiting /\ ~r.request_completed
            /\ \A i \in DOMAIN r.writes :
                 r.writes[i].last => i = Len(r.writes) /\ c.waiting /\ a \notin Answering

IsClient(c) ==
  c = [todo |-> c.todo, sent |-> c.sent, waiting |-> c.waiting, gone |-> c.gone,
       fresh |-> c.fresh, cut |-> c.cut]

AnswersInv ==
  /\ SlotsInv
  /\ DOMAIN client = Slots /\ \A s \in Slots : IsClient(client[s])
  /\ \A s \in Slots : AnswerOk(sr[s], app[s], client[s])

\* A request is handed over when it was sent whole, and not before.
WholeHanded ==
  \A s \in Slots : app[s] = "owes" /\ client[s].fresh => client[s].waiting

\* got is the request, as it was sent: its URL, however it was cut into reads; its body,
\* however that was cut, if the head came in one read; and its headers if everything did,
\* since they point into the read buffer, where a later read puts the body.
AsSent(got, m, cut) ==
  /\ Len(got) = 1
  /\ got[1].url = m.url
  /\ cut # "head" => got[1].body = m.body
  /\ cut = "no" => got[1].headers = m.headers

\* on_url gets a request once, when all of it was sent, and as it was sent.
HandedAsSent ==
  /\ WholeHanded
  /\ \A s \in Slots :
       /\ app[s] = "owes" /\ client[s].fresh
       /\ client[s].todo # <<>> /\ sr[s].http.handed # <<>>
       => AsSent(sr[s].http.handed, Head(client[s].todo), client[s].cut)

\* What is behind it: how far the parser has come when p cells of a request were read.
ReadTo(h, m, p) ==
  IF p < Len(Head_(m)) THEN h.llhttp.lex # "body"
  ELSE h.llhttp.lex = "body" /\ h.llhttp.left = Len(Cells(m)) - p /\ m.bad = 0

UrlRead(h, m, p) ==
  LET q == IF p < Len(m.url) THEN p ELSE Len(m.url)
  IN  h.http.url = [at |-> 0, len |-> q, cells |-> SubSeq(m.url, 1, q)]

BodyRead(h, m, p) ==
  LET q == p - Len(Head_(m))
  IN  /\ h.http.content_length = Len(m.body)
      /\ q = 0 => h.http.body.len = 0
      /\ q > 0 => /\ h.http.body = [at |-> 0, len |-> Len(m.body), cells |-> SubSeq(m.body, 1, q)]
                  /\ h.http.body_len = Len(m.body) - q

\* A request is under way, in a connection that is read.
Underway(r, a, c) ==
  LET h == r.http
      m == Head(c.todo)
  IN  /\ h.handed # <<>> => a = "owes"
      /\ ~h.llhttp.error
      /\ c.todo # <<>> =>
           /\ c.sent \in 0 .. Len(Cells(m)) /\ (c.waiting <=> c.sent = Len(Cells(m)))
           /\ c.waiting => h.llhttp.lex = "start"
           /\ ~c.waiting => h.handed = <<>> /\ ReadTo(h, m, c.sent)
           /\ c.sent = 0 => r.request_completed \/ h.http = Cleared
           /\ c.sent > 0 /\ ~c.waiting =>
                /\ ~r.request_completed
                /\ UrlRead(h, m, c.sent)
                /\ c.cut = "body" => c.sent >= Len(Head_(m)) /\ BodyRead(h, m, c.sent)
                /\ c.cut # "no"

HandedOk(r, a, c) ==
  /\ IsParser(r.http)
  /\ c.todo \in Seq(Request) /\ (c.todo = <<>> => c.gone)
  /\ c.sent \in Nat /\ c.cut \in {"no", "body", "head"}
  /\ r.request_state = "closed" => r.http.handed = <<>>
  /\ c.fresh /\ r.reading => Underway(r, a, c)
  /\ c.fresh /\ a = "owes" =>
       /\ c.waiting
       /\ c.todo # <<>> /\ r.http.handed # <<>> => AsSent(r.http.handed, Head(c.todo), c.cut)

HandedInv ==
  /\ AnswersInv
  /\ plan \in Plans /\ connections \in 0 .. Len(plan)
  /\ \A s \in Slots : HandedOk(sr[s], app[s], client[s])

\* A connection whose client has gone is closed in the end, whatever was under way, and its
\* structure can be used again; then a thread that is to shut down does.
ConnectionsEnd ==
  /\ \A s \in Slots : client[s].gone ~> sr[s].request_state = "closed"
  /\ (shutting_down /\ active = 0 /\ connections = Len(plan)) ~> stopped
=============================================================================
