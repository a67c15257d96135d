---------------------------- MODULE MCWgiConnector ----------------------------
(* All three connectors.  With 3 bits for an INTEGER_32: contents of less than one,
   exactly one and one and a half chunks; a length that turns negative, one that
   turns into 0, and two that lose a bit, with five and five and a half chunks. *)
EXTENDS WgiConnector
MCConnectors == {"libfcgi", "cgi", "nino"}
MCLengths == {0, 1, 2, 3, 5, 8, 10, 11}
=============================================================================
