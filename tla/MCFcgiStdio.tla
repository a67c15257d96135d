----------------------------- MODULE MCFcgiStdio -----------------------------
(***************************************************************************)
(* An instance of FcgiStdio for TLC.                                       *)
(***************************************************************************)
EXTENDS FcgiStdio, TLC

\* The FILEs are interchangeable, and so are the FCGI_FILEs.
MCSymmetry == Permutations(FILEs) \cup Permutations(Heap)
=============================================================================
