----------------------------- MODULE MCOsAccept -----------------------------
(***************************************************************************)
(* An instance of OsAccept for TLC.                                        *)
(***************************************************************************)
EXTENDS OsAccept
=============================================================================
