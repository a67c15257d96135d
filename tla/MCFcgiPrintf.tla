---------------------------- MODULE MCFcgiPrintf ----------------------------
(***************************************************************************)
(* An instance of FcgiPrintf for TLC: formats of up to three directives.   *)
(***************************************************************************)
EXTENDS FcgiPrintf

Absent == [by |-> "none", v |-> 0]
Written(n) == [by |-> "digits", v |-> n]
Star(n) == [by |-> "star", v |-> n]

TextOf(n) == [op |-> "text", size |-> "none", flags |-> 0, width |-> Absent, prec |-> Absent, len |-> n]
Plain(o, z, n) == [op |-> o, size |-> z, flags |-> 0, width |-> Absent, prec |-> Absent, len |-> n]
Full(o, z, fl, w, p, n) == [op |-> o, size |-> z, flags |-> fl, width |-> w, prec |-> p, len |-> n]

\* The longest integers, the longest doubles (2^1023), a long double above them, a NUL,
\* and strings around the size of the buffer on the stack.
Values == {<<"d", "none", 11>>, <<"u", "l", 22>>, <<"c", "none", 1>>, <<"s", "none", 0>>, <<"s", "none", 120>>,
           <<"p", "none", 18>>, <<"f", "none", 0>>, <<"f", "none", 1023>>,
           <<"f", "L", 1024>>, <<"f", "L", 16384>>, <<"c", "none", 0>>, <<"e", "L", 0>>}

MCDirectives ==
    {TextOf(3), Plain("n", "none", 0), Plain("n", "L", 0), Plain("%", "none", 0), Plain("bad", "none", 0),
     Plain("end", "none", 0), Plain("c", "l", 1), Plain("f", "l", 9), Full("%", "none", 1, Absent, Absent, 0),
     Full("d", "l", 5, Star(-999999), Written(999999), 20), Full("d", "none", 6, Absent, Absent, 5),
     Full("d", "none", 0, Written(1000000), Absent, 5), Full("s", "none", 0, Absent, Star(-1), 5), Full("c", "none", 0, Written(9), Absent, 0),
     Full("f", "none", 0, Absent, Star(-1), 9)}
    \cup {Plain(x[1], x[2], x[3]) : x \in Values}
    \cup {Full(x[1], x[2], 1, w, p, x[3]) : x \in Values,
              w \in {Absent, Written(99), Written(100), Written(500), Star(-99), Star(-100)}, p \in {Absent, Written(95), Star(200)}}

\* Every directive before and after one that takes an argument in each way.
Probes == {Plain("d", "none", 11), Full("s", "none", 1, Star(40), Absent, 120), Plain("f", "none", 9)}

MCFormats == {<<>>} \cup {<<d, e, TextOf(2)>> : d \in MCDirectives, e \in Probes}
                    \cup {<<TextOf(1), d, e>> : d \in Probes, e \in MCDirectives}
=============================================================================
