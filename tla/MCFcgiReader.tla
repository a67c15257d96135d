---------------------------- MODULE MCFcgiReader ----------------------------
(***************************************************************************)
(* Instances of FcgiReader for TLC: the scripts web servers follow.        *)
(***************************************************************************)
EXTENDS FcgiReader

\* A record before it is laid out; `after' is the number of answers the server
\* waits for before it sends it.
R(t, i, c, p) == [type |-> t, id |-> i, clen |-> c, plen |-> p, start |-> 0,
                  role |-> "responder", keep |-> FALSE, after |-> 0]
Keep(r)     == [r EXCEPT !.keep = TRUE]
Role(x, r)  == [r EXCEPT !.role = x]
After(n, r) == [r EXCEPT !.after = n]

Begin(i) == R("begin", i, BodyLen, 0)

\* Records laid out one after the other.
Script(rs) ==
    LET at[k \in 1..Len(rs)] == IF k = 1 THEN 0
                                ELSE End([rs[k - 1] EXCEPT !.start = at[k - 1]])
    IN  [k \in 1..Len(rs) |-> [rs[k] EXCEPT !.start = at[k]]]

Env(i) == <<R("params", i, 2, 1), R("params", i, 0, 0)>>

\* Servers that keep to what the library supports.
GoodScripts == {
    \* padded and split streams, a management query in the middle
    Script(<<Begin(1)>> \o Env(1) \o <<R("stdin", 1, 2, 1), R("getvalues", 0, 2, 1),
             After(1, R("stdin", 1, 1, 0)), R("stdin", 1, 0, 0)>>),
    \* an attempt to multiplex, with content for the refused request
    Script(<<Begin(1), Begin(2), R("params", 2, 2, 1)>> \o Env(1) \o
           <<R("stdin", 2, 1, 0), R("stdin", 1, 2, 0), R("stdin", 1, 0, 0)>>),
    \* two requests on a kept connection
    Script(<<Keep(Begin(1))>> \o Env(1) \o <<R("stdin", 1, 1, 0), R("stdin", 1, 0, 0),
             After(1, Begin(1))>> \o Env(1) \o <<R("stdin", 1, 0, 0)>>),
    \* a filter
    Script(<<Role("filter", Begin(1)), R("params", 1, 0, 0), R("stdin", 1, 1, 0),
             R("stdin", 1, 0, 0), R("data", 1, 1, 1), R("data", 1, 0, 0)>>),
    \* management first, then a request that is aborted
    Script(<<R("unknown", 0, 0, 0), R("getvalues", 0, 0, 1), After(2, Begin(1)),
             R("params", 1, 0, 0), R("stdin", 1, 1, 0), R("abort", 1, 0, 0)>>),
    \* a malformed environment, then bad BEGIN records
    Script(<<Begin(1), R("params", 1, 1, 0), R("params", 1, 0, 0)>>),
    Script(<<R("begin", 1, BodyLen + 1, 0)>>),
    Script(<<Role("bad", Begin(1))>>),
    Script(<<R("getvalues", 0, 1, 1)>>) }

\* The refused request is closed by its empty PARAMS record, as the protocol asks.
MultiplexScripts == {
    Script(<<Begin(1), R("params", 1, 0, 0), Begin(2), R("params", 2, 0, 0),
             R("stdin", 1, 2, 0), R("stdin", 1, 0, 0)>>)}

\* A management record of an unknown type that has content.
UnknownScripts == {
    Script(<<Begin(1), R("params", 1, 0, 0), R("unknown", 0, 2, 0), R("stdin", 1, 1, 0),
             R("stdin", 1, 0, 0)>>)}

\* A BEGIN record with padding.
PaddedScripts == {
    Script(<<R("begin", 1, BodyLen, 1)>> \o Env(1) \o <<R("stdin", 1, 0, 0)>>)}

\* An environment of two records, and a server that may go between them.
CutScripts == {
    Script(<<Begin(1), R("params", 1, 2, 0), R("params", 1, 2, 0), R("params", 1, 0, 0),
             R("stdin", 1, 0, 0)>>)}

\* A query between the two halves of a pair; one that is itself malformed.
QueryScripts == {
    Script(<<Begin(1), R("params", 1, 1, 0), R("getvalues", 0, 2, 1), R("params", 1, 1, 1),
             R("params", 1, 0, 0), R("stdin", 1, 0, 0)>>),
    Script(<<Begin(1), R("getvalues", 0, 1, 1), R("stdin", 1, 0, 0), R("params", 1, 0, 0)>>)}

\* The above, a query on which a kept connection waits,
\* what is left of a request that was given up, and records of a wrong type.
AnyScripts == GoodScripts \cup MultiplexScripts \cup UnknownScripts \cup PaddedScripts \cup
    CutScripts \cup QueryScripts \cup {
    Script(<<R("getvalues", 0, 2, 1), After(1, Keep(Begin(1))), R("params", 1, 0, 0),
             R("stdin", 1, 0, 0)>>),
    Script(<<R("stdin", 1, 1, 1), Begin(1), R("params", 1, 0, 0), R("stdin", 1, 0, 0)>>),
    Script(<<Keep(Begin(1)), R("params", 1, 2, 0), R("stdin", 1, 1, 0), R("stdin", 1, 0, 0)>>),
    Script(<<Keep(Begin(1)), R("params", 1, 0, 0), R("data", 1, 1, 0), R("stdin", 1, 0, 0)>>) }
=============================================================================
