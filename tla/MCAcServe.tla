------------------------------ MODULE MCAcServe ------------------------------
(***************************************************************************)
(* Requests and clients for model-checking AcServe.                         *)
(***************************************************************************)
EXTENDS AcServe

CONSTANTS s1, s2

TwoSlots == {s1, s2}

Some(part, from, to) == [i \in 1 .. to - from + 1 |-> Cell(part, from + i - 1)]

\* Requests with a body, short ones, some that are the last, malformed ones.
Full ==
  [url |-> Some("url", 1, 2), headers |-> <<<<Some("key", 1, 1), Some("value", 1, 1)>>>>,
   body |-> Some("body", 1, 3), keep |-> TRUE, bad |-> 0]
Short == [Full EXCEPT !.url = Some("url", 3, 3), !.body = <<>>]
Bare == [Short EXCEPT !.url = Some("url", 4, 4), !.headers = <<>>, !.keep = FALSE]
Body == [Bare EXCEPT !.body = Some("body", 1, 1)]
Kept == [Bare EXCEPT !.url = Some("url", 1, 2), !.keep = TRUE]
BadLine == [Short EXCEPT !.bad = 1]
BadHeader ==
  [Short EXCEPT !.headers = <<<<Some("key", 1, 1), Some("value", 1, 1)>>,
                              <<Some("key", 2, 2), Some("value", 2, 2)>>>>, !.bad = 7]

\* Long requests come alone; the others while one is there or after it has left, also before
\* its body.
Days ==
  {<<<<Full>>>>, <<<<Short, Bare>>>>, <<<<BadHeader>>>>, <<<<Bare>>, <<BadLine>>, <<Bare>>>>,
   <<<<Body>>, <<Kept>>>>}
=============================================================================
