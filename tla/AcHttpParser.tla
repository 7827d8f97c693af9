---------------------------- MODULE AcHttpParser ----------------------------
(***************************************************************************)
(* ac_http_parser.c: the callbacks of llhttp put a request together from    *)
(* the pieces in which it is read.  Every operator takes the parser h and   *)
(* returns it as the function of that name leaves it.                       *)
(*                                                                          *)
(* Data is a sequence of cells; a cell has a part (url, key, value, body,   *)
(* sep for what stands between them, end for the end of the headers) and    *)
(* the end of the headers says how long the body is and whether the         *)
(* connection is kept.  A buffer points into the read buffer (at) or has    *)
(* its own memory in the pool (at = 0, cells).                              *)
(***************************************************************************)
EXTENDS Naturals, Sequences, SequencesExt

NoBuf == [at |-> 0, len |-> 0, cells |-> <<>>]

\* The byte 0 that ends a string.
Nul == [part |-> "nul", id |-> 0, length |-> 0, keep |-> FALSE]

\* What a buffer holds now, with the read buffer b.
Value(buf, b) == IF buf.at = 0 THEN buf.cells ELSE SubSeq(b, buf.at, buf.at + buf.len - 1)

\* The fields of ac_http_parser_t and of ac_llhttp_ext_t, without the pool.
Cleared ==
  [headers |-> <<>>, url |-> NoBuf, body |-> NoBuf, content_length |-> 0, keep_alive |-> FALSE,
   header_key |-> NoBuf, header_value |-> NoBuf, last_was_value |-> FALSE, body_len |-> 0]

\* The state of llhttp: where it is, what is left of the body, whether it gave up.
Start == [lex |-> "start", left |-> 0, error |-> FALSE]

\* ac_http_parser_init.  handed are the requests that on_url was called with.
NewParser == [http |-> Cleared, llhttp |-> Start, read_buf |-> <<>>, handed |-> <<>>]

\* llhttp is left where it is.
Clear(h) == [h EXCEPT !.http = Cleared]

-----------------------------------------------------------------------------
(* The callbacks, for the cells from .. to of the read buffer *)

\* set_buf
SetBuf(h, buf, from, to) ==
  IF buf.len > 0
  THEN [at |-> 0, len |-> buf.len + to - from + 1,
        cells |-> Value(buf, h.read_buf) \o SubSeq(h.read_buf, from, to)]
  ELSE [at |-> from, len |-> to - from + 1, cells |-> <<>>]

\* copy_buf
CopyBuf(h, from, to) ==
  [at |-> 0, len |-> to - from + 1, cells |-> SubSeq(h.read_buf, from, to)]

\* Fault: the first piece of a URL is not copied.
OnUrlInPlace(h, from, to) ==
  [h EXCEPT !.http.url = SetBuf(h, h.http.url, from, to)]

OnUrl(h, from, to) ==
  [h EXCEPT !.http.url =
     IF h.http.url.len = 0 THEN CopyBuf(h, from, to) ELSE SetBuf(h, h.http.url, from, to)]

SaveCurrentHeader(h) ==
  [h EXCEPT !.http.headers =
     Append(@, [key |-> h.http.header_key, value |-> h.http.header_value])]

OnHeaderKey(h, from, to) ==
  LET ends == h.http.last_was_value /\ h.http.header_key.len > 0
      s == IF ends THEN [SaveCurrentHeader(h) EXCEPT !.http.header_key.len = 0] ELSE h
  IN  [s EXCEPT !.http.header_key = SetBuf(s, s.http.header_key, from, to),
                !.http.last_was_value = FALSE, !.http.header_value.len = 0]

OnHeaderValue(h, from, to) ==
  [h EXCEPT !.http.header_value = SetBuf(h, h.http.header_value, from, to),
            !.http.last_was_value = TRUE]

\* A string in the read buffer is ended there, whatever is behind it by now.
Terminate(h, buf) ==
  IF buf.at > 0 /\ buf.at + buf.len <= Len(h.read_buf)
  THEN [h EXCEPT !.read_buf[buf.at + buf.len] = Nul] ELSE h

TerminateHeader(h, header) == Terminate(Terminate(h, header.key), header.value)

TerminateHeaders(h) ==
  LET ended[k \in 0 .. Len(h.http.headers)] ==
        IF k = 0 THEN h ELSE TerminateHeader(ended[k - 1], h.http.headers[k])
  IN  ended[Len(h.http.headers)]

OnHeadersComplete(h, end) ==
  LET saves == h.http.header_key.len > 0 /\ h.http.header_value.len > 0
      s == IF saves THEN SaveCurrentHeader(h) ELSE h
  IN  [TerminateHeaders(s) EXCEPT
                !.http.header_key.len = 0, !.http.header_value.len = 0,
                !.http.body.len = 0, !.http.body_len = 0,
                !.http.content_length = end.length, !.http.keep_alive = end.keep]

\* A first piece that is not the whole body is copied, and the next ones behind it.
OnBody(h, from, to) ==
  LET length == to - from + 1
      rest == h.http.body_len
  IN  IF h.http.body.len > 0
      THEN LET n == IF length < rest THEN length ELSE rest
           IN  [h EXCEPT !.http.body.cells = @ \o SubSeq(h.read_buf, from, from + n - 1),
                         !.http.body_len = rest - n]
      ELSE IF h.http.content_length > length
      THEN [h EXCEPT !.http.body = [CopyBuf(h, from, to) EXCEPT !.len = h.http.content_length],
                     !.http.body_len = h.http.content_length - length]
      ELSE [h EXCEPT !.http.body = [at |-> from, len |-> h.http.content_length, cells |-> <<>>],
                     !.http.body_len = 0]

\* on_message_complete: on_url sees the request as it is now.
OnMessageComplete(h) ==
  LET of(buf) == Value(buf, h.read_buf)
  IN  [h EXCEPT !.handed = Append(@,
         [url |-> of(h.http.url),
          headers |-> [i \in DOMAIN h.http.headers |->
                         <<of(h.http.headers[i].key), of(h.http.headers[i].value)>>],
          body |-> IF h.http.body.len > 0 THEN of(h.http.body) ELSE <<>>])]

-----------------------------------------------------------------------------
(* llhttp_execute *)

\* From where, over which part, to where; there is no way from anywhere else.
Lexer ==
  {<<"start", "url", "url">>, <<"url", "url", "url">>, <<"url", "sep", "line">>,
   <<"line", "key", "key">>, <<"key", "key", "key">>, <<"key", "sep", "colon">>,
   <<"colon", "value", "value">>, <<"value", "value", "value">>, <<"value", "sep", "line">>}

Moves(h, part) == {t \in Lexer : t[1] = h.llhttp.lex /\ t[2] = part}

Emit(h, part, from, to) ==
  CASE part = "url" -> OnUrl(h, from, to)
    [] part = "key" -> OnHeaderKey(h, from, to)
    [] part = "value" -> OnHeaderValue(h, from, to)
    [] OTHER -> h

\* The cells from .. to are of one part and go as far as that part does in this piece.
Span(h, from, to) ==
  LET cell == h.read_buf[from]
      length == to - from + 1
      body == [OnBody(h, from, to) EXCEPT !.llhttp.left = @ - length]
      ended == OnHeadersComplete(h, cell)
  IN  IF h.llhttp.error THEN h ELSE
      CASE h.llhttp.lex = "body" ->
             IF body.llhttp.left = 0
             THEN OnMessageComplete([body EXCEPT !.llhttp.lex = "start"]) ELSE body
        [] h.llhttp.lex = "line" /\ cell.part = "end" ->
             IF cell.length = 0
             THEN OnMessageComplete([ended EXCEPT !.llhttp.lex = "start"])
             ELSE [ended EXCEPT !.llhttp.lex = "body", !.llhttp.left = cell.length]
        [] OTHER ->
             IF Moves(h, cell.part) = {} THEN [h EXCEPT !.llhttp.error = TRUE]
             ELSE [Emit(h, cell.part, from, to) EXCEPT
                     !.llhttp.lex = (CHOOSE t \in Moves(h, cell.part) : TRUE)[3]]

\* The first of n cells is at i: where does its span end?
SpanEnd(h, i, n) ==
  IF h.llhttp.lex = "body"
  THEN IF i + h.llhttp.left - 1 < n THEN i + h.llhttp.left - 1 ELSE n
  ELSE CHOOSE j \in i .. n :
         /\ \A k \in i .. j : h.read_buf[k].part = h.read_buf[i].part
         /\ j = n \/ h.read_buf[j + 1].part # h.read_buf[i].part

\* llhttp_execute with a piece at the start of the read buffer; what lies behind it is
\* left from an earlier read.
Data(h, piece) ==
  LET n == Len(piece)
      read == [h EXCEPT !.read_buf = piece \o SubSeq(@, n + 1, Len(@))]
      walk[i \in 0 .. n] ==
        IF i = 0 THEN [h |-> read, done |-> 0]
        ELSE LET w == walk[i - 1]
             IN  IF w.done >= i THEN w
                 ELSE LET to == SpanEnd(w.h, i, n) IN [h |-> Span(w.h, i, to), done |-> to]
  IN  walk[n].h
-----------------------------------------------------------------------------
(* The fields of a parser *)

AnyCell ==
  [part : {"url", "key", "value", "body", "sep", "end", "bad", "nul"}, id : Nat, length : Nat,
   keep : BOOLEAN]

IsHttp(q) ==
  /\ q = [headers |-> q.headers, url |-> q.url, body |-> q.body,
          content_length |-> q.content_length, keep_alive |-> q.keep_alive,
          header_key |-> q.header_key, header_value |-> q.header_value,
          last_was_value |-> q.last_was_value, body_len |-> q.body_len]
  /\ q.headers \in Seq(Range(q.headers))

IsParser(h) ==
  /\ h = [http |-> h.http, llhttp |-> h.llhttp, read_buf |-> h.read_buf, handed |-> h.handed]
  /\ IsHttp(h.http)
  /\ h.llhttp = [lex |-> h.llhttp.lex, left |-> h.llhttp.left, error |-> h.llhttp.error]
  /\ h.read_buf \in Seq(AnyCell)
=============================================================================
