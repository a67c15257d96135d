------------------------------ MODULE MCOsWin32 ------------------------------
(* Standard I/O takes three of the four entries; handle 3 has the number of the
   last one, handle 7 is not an index at all. *)
EXTENDS OsWin32
MCHandles == {3, 7}
=============================================================================
