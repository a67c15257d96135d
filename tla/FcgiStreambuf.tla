---------------------------- MODULE FcgiStreambuf ----------------------------
(***************************************************************************)
(* fcgi_streambuf (fcgio.cpp): the C++ stream buffer between an iostream   *)
(* and the streams of successive requests.  Without a buffer it hands      *)
(* every call on; with one it keeps a get area or a put area, which        *)
(* overflow, underflow and the loops of the base class std::streambuf work *)
(* on.                                                                     *)
(*                                                                         *)
(* Character i of request r is <<r, i>>.  A FCGX stream is either read or  *)
(* written, so a stream buffer is used for input or for output.            *)
(***************************************************************************)
EXTENDS Integers, Sequences

CONSTANTS
    MaxReqs,           \* bound: requests
    BufSizes,          \* sizes of buffers
    Sizes,             \* numbers of characters read or written by one call
    INT_MAX,
    InLen,             \* bound: characters of an input stream
    OutLen             \* bound: characters an application writes to a stream

ASSUME StreambufAssumption ==
    /\ MaxReqs \in Nat \ {0} /\ INT_MAX \in Nat /\ InLen \in Nat /\ OutLen \in Nat
    /\ BufSizes \subseteq Nat \ {0} /\ Sizes \subseteq Nat \ {0}

Requests == 1..MaxReqs

VARIABLES
    dir,               \* "in" or "out"
    alive,             \* the stream buffer has not been destroyed
    bufsize,           \* 0: no buffer
    fcgx,              \* the request whose stream is attached, 0: none
    gbuf, gptr,        \* the characters from eback to egptr; gptr - eback
    pbuf,              \* the characters from pbase to pptr
    todo,              \* characters the loop of a base class call has left
    inLen, taken,      \* the input streams: their lengths, what FCGX has given
    out,               \* the output streams: what FCGX has taken, ...
    failed, room,      \* ... isClosed after an error, and the space that is left in
                       \* the stream's buffer then
    read,              \* what the application has read, less what it has put back
    peeked,            \* the result of the last sgetc, or None
    eof,               \* istream's eofbit
    strayed,           \* history: peek without a buffer, or unget of EOF
    refused,           \* history: the end of file is that of a read above INT_MAX
    puts,              \* history: characters written to each stream
    dirty,             \* history: written to a buffer and not flushed since
    reported           \* history: a call has returned EOF or less than asked for

input == <<gbuf, gptr, taken, read, peeked, eof, strayed, refused>>
output == <<pbuf, out, failed, room, puts, dirty, reported>>
vars == <<dir, alive, bufsize, fcgx, todo, inLen, input, output>>

None == <<0, 0>>
Least(a, b) == IF a <= b THEN a ELSE b
\* n characters of stream r, after the first k.
Chars(r, k, n) == [i \in 1..n |-> <<r, k + i>>]

Init ==
    /\ dir \in {"in", "out"} /\ alive = TRUE
    /\ bufsize \in {0} \cup BufSizes
    /\ fcgx \in {0, 1}
    /\ gbuf = <<>> /\ gptr = 0 /\ pbuf = <<>> /\ todo = 0
    /\ inLen \in [Requests -> IF dir = "in" THEN 0..InLen ELSE {0}]
    /\ taken = [r \in Requests |-> 0]
    /\ out = [r \in Requests |-> <<>>] /\ failed = [r \in Requests |-> FALSE]
    /\ room = [r \in Requests |-> 0]
    /\ read = <<>> /\ peeked = None /\ eof = FALSE /\ strayed = FALSE /\ refused = FALSE
    /\ puts = [r \in Requests |-> 0] /\ dirty = [r \in Requests |-> FALSE]
    /\ reported = [r \in Requests |-> FALSE]

\* The application is between two calls.
Idle == alive /\ todo = 0

-----------------------------------------------------------------------------
(* Buffers and streams come and go.                                        *)

\* Mutant: attach resets the get area only.
attach_getOnly ==
    /\ Idle /\ fcgx < MaxReqs
    /\ fcgx' = fcgx + 1
    /\ gbuf' = <<>> /\ gptr' = 0
    /\ read' = <<>> /\ peeked' = None /\ eof' = FALSE /\ strayed' = FALSE /\ refused' = FALSE
    /\ UNCHANGED <<dir, alive, bufsize, todo, inLen, taken, output>>

\* The stream of the next request; the application has called clear().
attach ==
    /\ Idle /\ fcgx < MaxReqs
    /\ fcgx' = fcgx + 1
    /\ gbuf' = <<>> /\ gptr' = 0 /\ pbuf' = <<>>
    /\ read' = <<>> /\ peeked' = None /\ eof' = FALSE /\ strayed' = FALSE /\ refused' = FALSE
    /\ UNCHANGED <<dir, alive, bufsize, todo, inLen, taken, out, failed, room, puts, dirty, reported>>

\* Mutant: a buffer is exchanged for another one.
setbuf_again(bs) ==
    /\ Idle
    /\ bufsize' = bs
    /\ gbuf' = <<>> /\ gptr' = 0 /\ pbuf' = <<>>
    /\ UNCHANGED <<dir, alive, fcgx, todo, inLen, taken, read, peeked, eof, strayed,
                   refused, out, failed, room, puts, dirty, reported>>

setbuf(bs) ==
    /\ Idle /\ bufsize = 0
    /\ bufsize' = bs
    /\ gbuf' = <<>> /\ gptr' = 0 /\ pbuf' = <<>>
    /\ UNCHANGED <<dir, alive, fcgx, todo, inLen, taken, read, peeked, eof, strayed,
                   refused, out, failed, room, puts, dirty, reported>>

-----------------------------------------------------------------------------
(* Input.  After the end of file an istream does not read before clear().  *)

Readable == dir = "in" /\ alive /\ fcgx # 0 /\ ~eof

\* What FCGX_GetStr gives of n characters: less only at the end.
Given(n) == Least(n, inLen[fcgx] - taken[fcgx])

Take(n) == taken' = [taken EXCEPT ![fcgx] = @ + n]

\* An n above INT_MAX: nothing is read, which istream takes for the end of file.
xsgetn_tooLong(n) ==
    /\ Readable /\ todo = 0 /\ n > INT_MAX
    /\ eof' = TRUE /\ refused' = TRUE
    /\ UNCHANGED <<dir, alive, bufsize, fcgx, todo, inLen, gbuf, gptr, taken, read, peeked, strayed, output>>

\* sgetn, and sbumpc as sgetn(1).
xsgetn_unbuffered(n) ==
    /\ Readable /\ todo = 0 /\ n <= INT_MAX /\ bufsize = 0
    /\ read' = read \o Chars(fcgx, taken[fcgx], Given(n))
    /\ Take(Given(n))
    /\ eof' = (Given(n) < n)
    /\ peeked' = None
    /\ UNCHANGED <<dir, alive, bufsize, fcgx, todo, inLen, gbuf, gptr, strayed, refused, output>>

xsgetn(n) ==
    /\ Readable /\ todo = 0 /\ n <= INT_MAX /\ bufsize # 0
    /\ todo' = n
    /\ peeked' = None
    /\ UNCHANGED <<dir, alive, bufsize, fcgx, inLen, gbuf, gptr, taken, read, eof, strayed, refused, output>>

\* The loop of the base class: what the get area has, ...
xsgetn_copy ==
    /\ Readable /\ todo > 0 /\ gptr < Len(gbuf)
    /\ LET k == Least(todo, Len(gbuf) - gptr) IN
           /\ read' = read \o SubSeq(gbuf, gptr + 1, gptr + k)
           /\ gptr' = gptr + k
           /\ todo' = todo - k
    /\ UNCHANGED <<dir, alive, bufsize, fcgx, inLen, gbuf, taken, peeked, eof, strayed, refused, output>>

\* ... then uflow, which refills it through underflow and takes one character.
uflow ==
    /\ Readable /\ todo > 0 /\ gptr = Len(gbuf) /\ Given(bufsize) > 0
    /\ gbuf' = Chars(fcgx, taken[fcgx], Given(bufsize))
    /\ Take(Given(bufsize))
    /\ gptr' = 1
    /\ read' = Append(read, gbuf'[1])
    /\ todo' = todo - 1
    /\ UNCHANGED <<dir, alive, bufsize, fcgx, inLen, peeked, eof, strayed, refused, output>>

\* At the end of file, too, gptr is moved.
uflow_EOF ==
    /\ Readable /\ todo > 0 /\ gptr = Len(gbuf) /\ Given(bufsize) = 0
    /\ gptr' = gptr + 1
    /\ todo' = 0
    /\ eof' = TRUE
    /\ UNCHANGED <<dir, alive, bufsize, fcgx, inLen, gbuf, taken, read, peeked, strayed, refused, output>>

\* sgetc (peek) with a buffer.
underflow ==
    /\ Readable /\ todo = 0 /\ bufsize # 0 /\ (gptr = Len(gbuf) => Given(bufsize) > 0)
    /\ IF gptr = Len(gbuf)
       THEN /\ gbuf' = Chars(fcgx, taken[fcgx], Given(bufsize))
            /\ gptr' = 0
            /\ Take(Given(bufsize))
       ELSE UNCHANGED <<gbuf, gptr, taken>>
    /\ peeked' = gbuf'[gptr' + 1]
    /\ UNCHANGED <<dir, alive, bufsize, fcgx, todo, inLen, read, eof, strayed, refused, output>>

underflow_EOF ==
    /\ Readable /\ todo = 0 /\ bufsize # 0 /\ gptr = Len(gbuf) /\ Given(bufsize) = 0
    /\ eof' = TRUE
    /\ peeked' = None
    /\ UNCHANGED <<dir, alive, bufsize, fcgx, todo, inLen, gbuf, gptr, taken, read, strayed, refused, output>>

\* Without a buffer it takes the character.
underflow_unbuffered ==
    /\ Readable /\ todo = 0 /\ bufsize = 0
    /\ Take(Given(1))
    /\ eof' = (Given(1) = 0)
    /\ peeked' = IF Given(1) = 1 THEN <<fcgx, taken[fcgx] + 1>> ELSE None
    /\ strayed' = TRUE
    /\ UNCHANGED <<dir, alive, bufsize, fcgx, todo, inLen, gbuf, gptr, read, refused, output>>

\* unget, when eofbit and failbit have been cleared: sungetc moves gptr back.
sungetc ==
    /\ dir = "in" /\ Idle /\ fcgx # 0 /\ gptr > 0
    /\ gptr' = gptr - 1
    /\ read' = SubSeq(read, 1, Len(read) - 1)
    /\ eof' = FALSE /\ refused' = FALSE
    /\ peeked' = None
    /\ strayed' = (strayed \/ gptr > Len(gbuf))
    /\ UNCHANGED <<dir, alive, bufsize, fcgx, todo, inLen, gbuf, taken, output>>

-----------------------------------------------------------------------------
(* Output.                                                                 *)

Writable == dir = "out" /\ alive /\ fcgx # 0

\* The n characters that are written next.
Written(n) == Chars(fcgx, puts[fcgx], n)

\* FCGX_PutStr takes all of s.  An error closes the stream, but what still fits in
\* its buffer is taken before isClosed is looked at.
FCGX_PutStr(s) ==
    /\ failed[fcgx] => Len(s) <= room[fcgx]
    /\ out' = [out EXCEPT ![fcgx] = @ \o s]
    /\ room' = IF failed[fcgx] THEN [room EXCEPT ![fcgx] = @ - Len(s)] ELSE room
    /\ UNCHANGED failed

\* It fails with the buffer full: the error comes now, or has come before.
FCGX_PutStr_fails(s) ==
    /\ \E k \in 0..(Len(s) - 1) :
           /\ failed[fcgx] => k = room[fcgx]
           /\ out' = [out EXCEPT ![fcgx] = @ \o SubSeq(s, 1, k)]
    /\ failed' = [failed EXCEPT ![fcgx] = TRUE]
    /\ room' = [room EXCEPT ![fcgx] = 0]

\* FCGX_FFlush fails, which leaves any space in the buffer; once the stream is
\* closed it does nothing and succeeds.
FCGX_FFlush_fails ==
    /\ ~failed[fcgx]
    /\ failed' = [failed EXCEPT ![fcgx] = TRUE]
    /\ \E k \in 0..OutLen : room' = [room EXCEPT ![fcgx] = k]

Report == reported' = [reported EXCEPT ![fcgx] = TRUE]

xsputn_tooLong(n) ==
    /\ Writable /\ todo = 0 /\ n > INT_MAX
    /\ Report
    /\ UNCHANGED <<dir, alive, bufsize, fcgx, todo, inLen, input, pbuf, out, failed, room, puts, dirty>>

\* sputn, and sputc as sputn(1).
xsputn_unbuffered(n) ==
    /\ Writable /\ todo = 0 /\ n <= INT_MAX /\ bufsize = 0 /\ puts[fcgx] + n <= OutLen
    /\ \/ FCGX_PutStr(Written(n)) /\ UNCHANGED reported
       \/ FCGX_PutStr_fails(Written(n)) /\ Report
    /\ puts' = [puts EXCEPT ![fcgx] = @ + n]
    /\ UNCHANGED <<dir, alive, bufsize, fcgx, todo, inLen, input, pbuf, dirty>>

xsputn(n) ==
    /\ Writable /\ todo = 0 /\ n <= INT_MAX /\ bufsize # 0 /\ puts[fcgx] + n <= OutLen
    /\ todo' = n
    /\ dirty' = [dirty EXCEPT ![fcgx] = TRUE]
    /\ UNCHANGED <<dir, alive, bufsize, fcgx, inLen, input, pbuf, out, failed, room, puts, reported>>

\* The loop of the base class: what the put area has room for, ...
xsputn_copy ==
    /\ Writable /\ todo > 0 /\ Len(pbuf) < bufsize
    /\ LET k == Least(todo, bufsize - Len(pbuf)) IN
           /\ pbuf' = pbuf \o Written(k)
           /\ puts' = [puts EXCEPT ![fcgx] = @ + k]
           /\ todo' = todo - k
    /\ UNCHANGED <<dir, alive, bufsize, fcgx, inLen, input, out, failed, room, dirty, reported>>

\* ... then overflow(c): the put area, and c after it (FCGX_PutChar).  If all of
\* the put area has been taken when the error comes, pptr has been moved back.
overflow ==
    /\ Writable /\ todo > 0 /\ Len(pbuf) = bufsize
    /\ \/ /\ FCGX_PutStr(pbuf \o Written(1))
          /\ pbuf' = <<>>
          /\ puts' = [puts EXCEPT ![fcgx] = @ + 1]
          /\ todo' = todo - 1
          /\ UNCHANGED reported
       \/ /\ FCGX_PutStr_fails(pbuf \o Written(1))
          /\ pbuf' = IF Len(out'[fcgx]) = Len(out[fcgx]) + Len(pbuf) THEN <<>> ELSE pbuf
          /\ todo' = 0
          /\ Report
          /\ UNCHANGED puts
    /\ UNCHANGED <<dir, alive, bufsize, fcgx, inLen, input, dirty>>

\* overflow(EOF), with its result.
Consume(rv) ==
    \/ pbuf = <<>> /\ rv /\ UNCHANGED <<pbuf, out, failed, room>>
    \/ pbuf # <<>> /\ rv /\ FCGX_PutStr(pbuf) /\ pbuf' = <<>>
    \/ pbuf # <<>> /\ ~rv /\ FCGX_PutStr_fails(pbuf) /\ UNCHANGED pbuf

sync ==
    /\ Writable /\ todo = 0
    /\ \/ /\ Consume(TRUE)
          /\ dirty' = [dirty EXCEPT ![fcgx] = FALSE]
          /\ UNCHANGED reported
       \/ /\ Consume(FALSE) /\ Report
          /\ UNCHANGED dirty
    /\ UNCHANGED <<dir, alive, bufsize, fcgx, todo, inLen, input, puts>>

\* The put area has been handed on, and FCGX_FFlush fails.
sync_FFlushFails ==
    /\ Writable /\ todo = 0
    /\ out' = [out EXCEPT ![fcgx] = @ \o pbuf]
    /\ pbuf' = <<>>
    /\ FCGX_FFlush_fails
    /\ Report
    /\ UNCHANGED <<dir, alive, bufsize, fcgx, todo, inLen, input, puts, dirty>>

\* Mutant: the destructor leaves the put area alone.
destructor_noFlush ==
    /\ Writable /\ todo = 0
    /\ alive' = FALSE
    /\ dirty' = [dirty EXCEPT ![fcgx] = FALSE]
    /\ UNCHANGED <<dir, bufsize, fcgx, todo, inLen, input, pbuf, out, failed, room, puts, reported>>

\* ~fcgi_streambuf: what overflow(EOF) returns is not looked at.
destructor ==
    /\ Writable /\ todo = 0
    /\ \E rv \in BOOLEAN : Consume(rv)
    /\ alive' = FALSE
    /\ dirty' = [dirty EXCEPT ![fcgx] = FALSE]
    /\ UNCHANGED <<dir, bufsize, fcgx, todo, inLen, input, puts, reported>>

-----------------------------------------------------------------------------
Input == \/ \E n \in Sizes : xsgetn_tooLong(n) \/ xsgetn_unbuffered(n) \/ xsgetn(n)
         \/ xsgetn_copy \/ uflow \/ uflow_EOF
         \/ underflow \/ underflow_EOF \/ underflow_unbuffered \/ sungetc

Output == \/ \E n \in Sizes : xsputn_tooLong(n) \/ xsputn_unbuffered(n) \/ xsputn(n)
          \/ xsputn_copy \/ overflow \/ sync \/ sync_FFlushFails \/ destructor

Next == attach \/ (\E bs \in BufSizes : setbuf(bs)) \/ Input \/ Output

Spec == Init /\ [][Next]_vars

-----------------------------------------------------------------------------
\* Whatever calls are mixed (read, get, peek, unget, setbuf in the middle of a
\* stream, attach in the middle of a request), an application reads the characters
\* of the stream that is attached, each once and in order, and peek shows the one
\* that comes next; except after peek without a buffer and unget of an end of file.
\* End of file means that there are no more, unless the application has asked for
\* more than INT_MAX, and then nothing is lost.
InputInOrder ==
    dir = "in" /\ fcgx # 0 /\ ~strayed =>
        /\ read = Chars(fcgx, 0, Len(read))
        /\ peeked # None => peeked = <<fcgx, Len(read) + 1>>
        /\ eof /\ ~refused => Len(read) = inLen[fcgx]

\* However writes and flushes fail, whatever a stream that an error has closed still
\* takes, and though the put area stays as it is when part of it has been taken, a
\* response holds characters of its own request only, each once and in the order in
\* which they were written, without a gap.
OutputInOrder == \A r \in Requests : out[r] = Chars(r, 0, Len(out[r]))

\* "If a buf is assigned, [...] output streams will have to be flushed (or the
\* streambuf destroyed) before the next call to accept": an application that does
\* so loses nothing, unless a call has told it so.  Only the destructor, which has
\* no result, may fail in silence.
FlushedMeansAll ==
    \A r \in Requests : ~dirty[r] /\ ~reported[r] /\ (failed[r] => alive) => Len(out[r]) = puts[r]
=============================================================================
