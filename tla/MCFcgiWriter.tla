---------------------------- MODULE MCFcgiWriter ----------------------------
(***************************************************************************)
(* An instance of FcgiWriter for TLC.                                      *)
(***************************************************************************)
EXTENDS FcgiWriter

\* The smallest buffers NewStream makes: two-byte units leave room for six bytes
\* of content.  On "out" a write fits, fills the buffer or overflows it; "err"
\* carries one odd byte.
MCBuffUnits == [s \in Streams |-> 4]
MCPutSizes  == [s \in Streams |-> IF s = "out" THEN {1, 6} ELSE {1}]
MCMaxData   == [s \in Streams |-> IF s = "out" THEN 7 ELSE 1]
=============================================================================
