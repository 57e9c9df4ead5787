--------------------------- MODULE MCRestMessages ---------------------------
(***************************************************************************)
(* Small instances of RestMessages for TLC.                                *)
(***************************************************************************)
EXTENDS RestMessages

A == 97
Msg(k, v) == [key |-> k, value |-> v]

\* Characters that have to be escaped, no key, an empty value, and values long
\* enough for lengths of two bytes and for a batch that is full.
SomeMessages ==
  {Msg(<<>>, <<A>>), Msg(<<A>>, <<Quote, Backslash>>), Msg(<<Newline>>, <<>>),
   Msg(<<A, A>>, <<A, Comma, Colon, A>>)}

\* One to three messages, and texts that the search of a body takes for syntax.
SomeBodies ==
  {<<>>} \cup {<<m>> : m \in SomeMessages} \cup {<<m, n>> : m, n \in SomeMessages}
  \cup {<<m, m, m>> : m \in SomeMessages}
  \cup {<<Msg(<<Value>>, <<A>>)>>, <<Msg(<<>>, <<CloseBrace, A>>)>>}
=============================================================================
