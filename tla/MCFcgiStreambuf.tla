--------------------------- MODULE MCFcgiStreambuf ---------------------------
(***************************************************************************)
(* An instance of FcgiStreambuf for TLC: calls that fit, fill and overflow *)
(* the buffers more than once, and one above INT_MAX (4).                  *)
(***************************************************************************)
EXTENDS FcgiStreambuf

MCBufSizes == {1, 2}
MCSizes == {1, 2, 4, 5}
=============================================================================
