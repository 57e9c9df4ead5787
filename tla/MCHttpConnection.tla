-------------------------- MODULE MCHttpConnection --------------------------
(***************************************************************************)
(* Small instances of HttpConnection for TLC: buffers of four bytes.       *)
(***************************************************************************)
EXTENDS HttpConnection

Kind(method, path, length, head, body, resp) ==
  [line |-> TRUE, method |-> method, path |-> path, length |-> length,
   head |-> head, body |-> body, resp |-> resp]

\* A produce that fills the buffer, one whose response takes several sends, a
\* list and a delete without a body, a body that the limit allows but not the
\* buffer, a body beyond the limit, a request whose last header is its
\* Content-Length, and a request line that cannot be parsed.
SomeKinds ==
  {Kind("POST", <<"v1", "topics", "t", "messages">>, "first", 2, 2, 1),
   Kind("GET", <<"v1", "topics", "">>, "none", 2, 0, 3),
   Kind("DELETE", <<"v1", "topics", "t">>, "none", 1, 0, 1),
   Kind("POST", <<"v1", "topics", "t", "messages">>, "first", 2, 3, 1),
   Kind("POST", <<"v1", "topics", "t", "messages">>, "first", 1, 5, 1),
   Kind("PUT", <<"v1", "groups", "g">>, "last", 2, 1, 1),
   [Kind("GET", <<"v1">>, "none", 2, 0, 1) EXCEPT !.line = FALSE]}
=============================================================================
