---------------------------- MODULE MCConnection ----------------------------
(***************************************************************************)
(* Small instances of Connection for TLC: buffers of four bytes and a      *)
(* length prefix of two.                                                   *)
(***************************************************************************)
EXTENDS Connection

\* A frame that wraps, one that fills the buffer, one that has no response,
\* one larger than the buffer, and one beyond kMaxFrameSize.
FrameKinds ==
  {[size |-> 3, resp |-> 2], [size |-> 4, resp |-> 1], [size |-> 3, resp |-> 0],
   [size |-> 5, resp |-> 1], [size |-> 6, resp |-> 1]}
=============================================================================
