---------------------------- MODULE MCOsAsyncIo ----------------------------
(* Instances of OsAsyncIo for TLC.                                         *)
EXTENDS OsAsyncIo
=============================================================================
