----------------------------- MODULE FcgiRequest -----------------------------
(***************************************************************************)
(* What the FastCGI library promises the web server, whatever happens to   *)
(* the streams of a request: a connection is kept for another request only *)
(* when the answer to the last one is complete and nothing has gone wrong  *)
(* on the connection.  FcgiReader (the input stream), FcgiWriter (the      *)
(* output streams) and FcgiStdio (the standard files) each implement it.   *)
(***************************************************************************)

VARIABLES
    phase,   \* "closed": no connection; "idle": a connection without a request
             \* (before its BEGIN record, or kept); "busy": a request is served
    owed,    \* the web server waits for (the rest of) an answer
    trust    \* "sound"; "broken": an operation on the connection has failed;
             \* "waived": the application has cleared such an error and answers
             \* for it

vars == <<phase, owed, trust>>

TypeOK ==
    /\ phase \in {"closed", "idle", "busy"}
    /\ owed \in BOOLEAN
    /\ trust \in {"sound", "broken", "waived"}

Init == phase = "closed" /\ owed = FALSE /\ trust = "sound"

\* OS_Accept gives FCGX_Accept_r a new connection.
Connect ==
    /\ phase = "closed"
    /\ phase' = "idle" /\ owed' = FALSE /\ trust' = "sound"

\* A request is handed out: on a new connection, or on one that is in order.
Begin ==
    \/ /\ phase = "closed"
       /\ phase' = "busy" /\ owed' = TRUE /\ trust' = "sound"
    \/ /\ phase = "idle" /\ trust # "broken"
       /\ phase' = "busy" /\ owed' = TRUE /\ trust' = trust

\* The last byte of the answer reaches the web server.
Answer ==
    /\ phase = "busy"
    /\ owed' = FALSE
    /\ UNCHANGED <<phase, trust>>

\* SetError on a stream of the connection.
Fail ==
    /\ phase # "closed"
    /\ trust' = "broken"
    /\ UNCHANGED <<phase, owed>>

\* FCGX_ClearError.
Waive ==
    /\ phase = "busy" /\ trust = "broken"
    /\ trust' = "waived"
    /\ UNCHANGED <<phase, owed>>

\* FCGX_Finish_r: the request is over and the connection kept.
Keep ==
    /\ phase = "busy" /\ trust # "broken"
    /\ phase' = "idle"
    /\ owed' \in {owed, FALSE}
    /\ trust = "sound" => owed' = FALSE
    /\ UNCHANGED trust

\* The connection is closed, with or without a request.
Close ==
    /\ phase # "closed"
    /\ phase' = "closed" /\ owed' = FALSE /\ trust' = "sound"

Next == Connect \/ Begin \/ Answer \/ Fail \/ Waive \/ Keep \/ Close

Spec == Init /\ [][Next]_vars

\* A request never begins on a connection on which the web server still waits for
\* the answer to the one before, unless an error on it was seen.
NothingOwed == phase = "idle" /\ owed => trust # "sound"
=============================================================================
