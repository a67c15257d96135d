----------------------------- MODULE FcgiWriter -----------------------------
(***************************************************************************)
(* The output side of the FastCGI library (fcgiapp.c): the two output      *)
(* streams of a request, how EmptyBuffProc packs what they buffer into     *)
(* records, and how closing them ends the request.                         *)
(*                                                                         *)
(* A buffer is the sequence of the bytes between buff and wrNext.  A byte  *)
(* of content is known by its number in its stream, a byte of a header by  *)
(* what the header says.  The web server at the other end takes the bytes  *)
(* that reach it apart again (`rx'), so that a byte out of place shows.    *)
(* OS_Write may transfer as little as one byte; it fails when the server   *)
(* is gone or a signal interrupts it (the handlers of OS_LibInit do not    *)
(* restart system calls).  A server that has gone sees a prefix of the     *)
(* bytes of some behaviour of the model.                                   *)
(***************************************************************************)
EXTENDS Integers, Sequences

CONSTANTS
    Unit,        \* records are aligned to it; the size of a header, and half that
                 \* of a FCGI_END_REQUEST record (8 in the code)
    BuffUnits,   \* [Streams -> size of the stream's buffer in units]
    PutSizes,    \* bound: [Streams -> numbers of bytes written by one FCGX_PutStr]
    MaxData,     \* bound: [Streams -> bytes written to the stream in a request]
    MaxReqs,     \* bound: requests in a behaviour
    Statuses     \* exit statuses the application reports

Streams == {"out", "err"}

ASSUME UnitAssumption == Unit \in Nat \ {0}
\* NewStream makes no buffer smaller than 32 bytes.
ASSUME BuffAssumption == BuffUnits \in [Streams -> Nat] /\ \A s \in Streams : BuffUnits[s] >= 4
ASSUME BoundsAssumption == /\ PutSizes \in [Streams -> SUBSET Nat]
                            /\ MaxData \in [Streams -> Nat]
                            /\ MaxReqs \in Nat /\ Statuses \subseteq Nat

VARIABLES
    \* FCGX_Request
    ipcOpen, nWriters, appStatus,
    \* the streams: functions on Streams
    buf, rawWrite, isAnythingWritten, isClosed, wasFCloseCalled,
    failed,        \* FCGI_errno # 0
    \* control
    pc,
    cur,           \* the stream being worked on
    todo,          \* what FCGX_PutStr has still to move to the buffer
    wrote,         \* bytes of the buffer write_it_all has transferred
    ret,           \* where FCGX_PutStr, EmptyBuffProc and FCGX_FClose return to
    reqs,
    \* the web server and history
    rx,            \* the web server's view of the current request
    put,           \* [Streams -> bytes the application has put in the stream]
    writeFailed    \* a write on the current connection has failed

request == <<ipcOpen, nWriters, appStatus>>
streams == <<buf, rawWrite, isAnythingWritten, isClosed, wasFCloseCalled, failed>>
vars == <<request, streams, pc, cur, todo, wrote, ret, reqs, rx, put, writeFailed>>

Size(s) == BuffUnits[s] * Unit

-----------------------------------------------------------------------------
(* Bytes.                                                                  *)

Kinds == {"data", "pad", "reserved", "header", "status"}

\* `n' is the number of a content byte, the index of a header byte or the status;
\* only header bytes use the other fields.
Byte(k, n) == [kind |-> k, n |-> n, type |-> "none", clen |-> 0, plen |-> 0]
HeaderByte(t, c, p, n) == [kind |-> "header", n |-> n, type |-> t, clen |-> c, plen |-> p]
Bytes == [kind : Kinds, n : Nat, type : Streams \cup {"none", "end"}, clen : Nat, plen : Nat]

MakeHeader(t, c, p) == [i \in 1..Unit |-> HeaderByte(t, c, p, i)]
Reserved == [i \in 1..Unit |-> Byte("reserved", 0)]
Padding(n) == [i \in 1..n |-> Byte("pad", 0)]
Data(first, n) == [i \in 1..n |-> Byte("data", first + i - 1)]

\* An FCGI_END_REQUEST record: header and body are one unit each.
EndRequestRecord(status) ==
    MakeHeader("end", Unit, 0) \o [i \in 1..Unit |-> Byte("status", status)]

AlignInt8(n) == ((n + Unit - 1) \div Unit) * Unit

Min2(a, b) == IF a <= b THEN a ELSE b

-----------------------------------------------------------------------------
(* The web server.                                                         *)

RxInit == [header |-> 0, type |-> "none", clen |-> 0, plen |-> 0, sound |-> TRUE,
           got |-> [s \in Streams |-> 0], eof |-> [s \in Streams |-> FALSE],
           ended |-> FALSE, status |-> 0]

\* The web server cannot tell any more what the bytes mean.
RxLost == [RxInit EXCEPT !.sound = FALSE]

\* A header byte: the next one of a record that may come now.
RxHeader(r, b) ==
    [r EXCEPT !.header = r.header + 1, !.type = b.type, !.clen = b.clen, !.plen = b.plen,
              !.sound = /\ r.sound /\ ~r.ended
                        /\ b.kind = "header" /\ b.n = r.header + 1
                        /\ r.header > 0 => b.type = r.type /\ b.clen = r.clen /\ b.plen = r.plen
                        /\ b.type \in Streams => ~r.eof[b.type]]

\* A content byte: the next one of its stream, or the body of FCGI_END_REQUEST.
RxContent(r, b) ==
    [r EXCEPT !.clen = r.clen - 1,
              !.got = IF r.type \in Streams THEN [r.got EXCEPT ![r.type] = @ + 1] ELSE r.got,
              !.status = IF r.type = "end" THEN b.n ELSE r.status,
              !.sound = /\ r.sound
                        /\ IF r.type \in Streams THEN b = Byte("data", r.got[r.type] + 1)
                           ELSE b.kind = "status"]

RxPadding(r, b) ==
    [r EXCEPT !.plen = r.plen - 1, !.sound = r.sound /\ b.kind = "pad"]

\* The record that is now complete takes effect: an empty one ends its stream.
RxRecord(r, empty) ==
    IF r.header = Unit /\ r.clen = 0 /\ r.plen = 0
    THEN [r EXCEPT !.header = 0, !.type = "none",
                   !.eof = IF r.type \in Streams /\ empty THEN [r.eof EXCEPT ![r.type] = TRUE]
                           ELSE r.eof,
                   !.ended = r.ended \/ r.type = "end"]
    ELSE r

\* The web server receives byte b.
Receive(r, b) ==
    IF ~r.sound THEN r
    ELSE LET n == IF r.header < Unit THEN RxHeader(r, b)
                  ELSE IF r.clen > 0 THEN RxContent(r, b)
                  ELSE RxPadding(r, b)
         IN  IF n.sound THEN RxRecord(n, r.header < Unit) ELSE RxLost

-----------------------------------------------------------------------------
Init ==
    /\ ipcOpen = FALSE /\ nWriters = 0 /\ appStatus = 0
    /\ buf = [s \in Streams |-> <<>>]
    /\ rawWrite = [s \in Streams |-> FALSE]
    /\ isAnythingWritten = [s \in Streams |-> FALSE]
    /\ isClosed = [s \in Streams |-> FALSE]
    /\ wasFCloseCalled = [s \in Streams |-> FALSE]
    /\ failed = [s \in Streams |-> FALSE]
    /\ pc = "accept" /\ cur = "out" /\ todo = <<>> /\ wrote = 0
    /\ ret = [put |-> "app", write |-> "app", close |-> "app"]
    /\ reqs = 0
    /\ rx = RxInit /\ put = [s \in Streams |-> 0] /\ writeFailed = FALSE

\* The end of FCGX_Accept_r: two new writers on a new or on a kept connection.
\* appStatus keeps its value.
FCGX_Accept_r ==
    /\ pc = "accept"
    /\ reqs < MaxReqs
    /\ reqs' = reqs + 1
    /\ ipcOpen' = TRUE
    /\ nWriters' = 2
    /\ buf' = [s \in Streams |-> Reserved]
    /\ rawWrite' = [s \in Streams |-> FALSE]
    /\ isAnythingWritten' = [s \in Streams |-> FALSE]
    /\ isClosed' = [s \in Streams |-> FALSE]
    /\ wasFCloseCalled' = [s \in Streams |-> FALSE]
    /\ failed' = [s \in Streams |-> FALSE]
    /\ rx' = IF ipcOpen THEN [RxInit EXCEPT !.sound = rx.sound /\ rx.header = 0] ELSE RxInit
    /\ put' = [s \in Streams |-> 0]
    /\ writeFailed' = (ipcOpen /\ writeFailed)
    /\ cur' = "out"
    /\ ret' = [put |-> "app", write |-> "app", close |-> "app"]
    /\ pc' = "app"
    /\ UNCHANGED <<appStatus, todo, wrote>>

-----------------------------------------------------------------------------
(* EmptyBuffProc.                                                          *)

\* The first part: buffered content gets its header and padding; a buffer without
\* content gives back the space reserved for the header.
Encapsulated(s) ==
    LET cLen == Len(buf[s]) - Unit
        eLen == AlignInt8(cLen)
    IN  IF rawWrite[s] THEN buf[s]
        ELSE IF cLen > 0
        THEN MakeHeader(s, cLen, eLen - cLen) \o SubSeq(buf[s], Unit + 1, Len(buf[s]))
                 \o Padding(eLen - cLen)
        ELSE <<>>

\* EmptyBuffProc(stream, FALSE), called on behalf of `back'.
EmptyBuff(s, back) ==
    /\ buf' = [buf EXCEPT ![s] = Encapsulated(s)]
    /\ isAnythingWritten' = [isAnythingWritten EXCEPT ![s] = @ \/ Encapsulated(s) # <<>>]
    /\ cur' = s
    /\ wrote' = 0
    /\ ret' = [ret EXCEPT !.write = back]
    /\ pc' = "write"

\* write_it_all goes on: one more byte is transferred.
Write_Byte ==
    /\ pc = "write"
    /\ wrote < Len(buf[cur])
    /\ rx' = Receive(rx, buf[cur][wrote + 1])
    /\ wrote' = wrote + 1
    /\ UNCHANGED <<request, streams, pc, cur, todo, ret, reqs, put, writeFailed>>

\* All has been transferred: the buffer is empty but for the space of a header.
Write_Done ==
    /\ pc = "write"
    /\ wrote = Len(buf[cur])
    /\ buf' = [buf EXCEPT ![cur] = IF rawWrite[cur] THEN <<>> ELSE Reserved]
    /\ wrote' = 0
    /\ pc' = ret.write
    /\ UNCHANGED <<request, rawWrite, isAnythingWritten, isClosed, wasFCloseCalled, failed, cur, todo,
                   ret, reqs, rx, put, writeFailed>>

\* OS_Write fails: SetError.  The buffer keeps all its bytes.  How much of them the
\* web server has had is not followed any further.
Write_Fail ==
    /\ pc = "write"
    /\ wrote < Len(buf[cur])
    /\ isClosed' = [isClosed EXCEPT ![cur] = TRUE]
    /\ failed' = [failed EXCEPT ![cur] = TRUE]
    /\ writeFailed' = TRUE
    /\ rx' = RxLost
    /\ wrote' = 0
    /\ pc' = ret.write
    /\ UNCHANGED <<request, buf, rawWrite, isAnythingWritten, wasFCloseCalled, cur, todo, ret, reqs,
                   put>>

-----------------------------------------------------------------------------
(* FCGX_PutStr.                                                            *)

\* FCGX_PutStr(n) by the application, of which FCGX_PutChar is the case n = 1.
FCGX_PutStr(s, n) ==
    /\ pc = "app"
    /\ put[s] + n <= MaxData[s]
    /\ cur' = s
    /\ todo' = Data(put[s] + 1, n)
    /\ ret' = [ret EXCEPT !.put = "app"]
    /\ pc' = "put"
    /\ UNCHANGED <<request, streams, wrote, reqs, rx, put, writeFailed>>

\* Mutant: the buffer takes one byte more than it holds.
Room_offByOne(s) == IF wasFCloseCalled[s] THEN 0 ELSE Size(s) + 1 - Len(buf[s])

\* stop - wrNext; FCGX_FClose sets stop to wrNext.
Room(s) == IF wasFCloseCalled[s] THEN 0 ELSE Size(s) - Len(buf[s])

\* One iteration of the loop moves what the buffer has room for.
Moved == Min2(Len(todo), Room(cur))

Put_Done ==
    /\ pc = "put"
    /\ Moved = Len(todo)
    /\ buf' = [buf EXCEPT ![cur] = @ \o todo]
    /\ put' = IF ret.put = "app" THEN [put EXCEPT ![cur] = @ + Moved] ELSE put
    /\ todo' = <<>>
    /\ pc' = ret.put
    /\ UNCHANGED <<request, rawWrite, isAnythingWritten, isClosed, wasFCloseCalled, failed, cur, wrote,
                   ret, reqs, rx, writeFailed>>

\* The buffer is full and the stream closed: the rest is dropped.
Put_Closed ==
    /\ pc = "put"
    /\ Moved < Len(todo) /\ isClosed[cur]
    /\ buf' = [buf EXCEPT ![cur] = @ \o SubSeq(todo, 1, Moved)]
    /\ put' = IF ret.put = "app" THEN [put EXCEPT ![cur] = @ + Moved] ELSE put
    /\ todo' = <<>>
    /\ pc' = ret.put
    /\ UNCHANGED <<request, rawWrite, isAnythingWritten, isClosed, wasFCloseCalled, failed, cur, wrote,
                   ret, reqs, rx, writeFailed>>

\* Mutant: the loop does not look at isClosed.
Put_Full_closedToo ==
    /\ pc = "put"
    /\ Moved < Len(todo)
    /\ buf' = [buf EXCEPT ![cur] = @ \o SubSeq(todo, 1, Moved)]
    /\ put' = IF ret.put = "app" THEN [put EXCEPT ![cur] = @ + Moved] ELSE put
    /\ todo' = SubSeq(todo, Moved + 1, Len(todo))
    /\ pc' = "empty"
    /\ UNCHANGED <<request, rawWrite, isAnythingWritten, isClosed, wasFCloseCalled, failed, cur, wrote,
                   ret, reqs, rx, writeFailed>>

\* The buffer is full: it is emptied and the loop goes on.
Put_Full ==
    /\ pc = "put"
    /\ Moved < Len(todo) /\ ~isClosed[cur]
    /\ buf' = [buf EXCEPT ![cur] = @ \o SubSeq(todo, 1, Moved)]
    /\ put' = IF ret.put = "app" THEN [put EXCEPT ![cur] = @ + Moved] ELSE put
    /\ todo' = SubSeq(todo, Moved + 1, Len(todo))
    /\ pc' = "empty"
    /\ UNCHANGED <<request, rawWrite, isAnythingWritten, isClosed, wasFCloseCalled, failed, cur, wrote,
                   ret, reqs, rx, writeFailed>>

Put_Empty ==
    /\ pc = "empty"
    /\ EmptyBuff(cur, "put")
    /\ UNCHANGED <<request, rawWrite, isClosed, wasFCloseCalled, failed, todo, reqs, rx, put,
                   writeFailed>>

FCGX_FFlush(s) ==
    /\ pc = "app"
    /\ ~isClosed[s]
    /\ EmptyBuff(s, "app")
    /\ UNCHANGED <<request, rawWrite, isClosed, wasFCloseCalled, failed, todo, reqs, rx, put,
                   writeFailed>>

-----------------------------------------------------------------------------
(* FCGX_FClose and WriteCloseRecords.                                      *)

\* The stream ends with an empty record, STDERR only if it was ever used.
EofNeeded(s) == ~(s = "err" /\ Encapsulated(s) = <<>> /\ ~isAnythingWritten[s])

\* EmptyBuffProc(stream, TRUE) up to the first FCGX_PutStr of WriteCloseRecords.
StartClose(s, back) ==
    /\ buf' = [buf EXCEPT ![s] = Encapsulated(s)]
    /\ rawWrite' = [rawWrite EXCEPT ![s] = TRUE]
    /\ todo' = IF EofNeeded(s) THEN MakeHeader(s, 0, 0) ELSE <<>>
    /\ cur' = s
    /\ ret' = [ret EXCEPT !.put = "closeEnd", !.close = back]
    /\ pc' = "put"

FCGX_FClose(s) ==
    /\ pc = "app"
    /\ ~wasFCloseCalled[s]
    /\ StartClose(s, "app")
    /\ UNCHANGED <<request, isAnythingWritten, isClosed, wasFCloseCalled, failed, wrote, reqs,
                   rx, put, writeFailed>>

\* Mutant: every writer that closes sends FCGI_END_REQUEST.
Close_End_each ==
    /\ pc = "closeEnd"
    /\ todo' = EndRequestRecord(appStatus)
    /\ nWriters' = nWriters - 1
    /\ ret' = [ret EXCEPT !.put = "closeWrite"]
    /\ pc' = "put"
    /\ UNCHANGED <<ipcOpen, appStatus, streams, cur, wrote, reqs, rx, put,
                   writeFailed>>

\* The last writer to close ends the request.
Close_End ==
    /\ pc = "closeEnd"
    /\ todo' = IF nWriters = 1 THEN EndRequestRecord(appStatus) ELSE <<>>
    /\ nWriters' = nWriters - 1
    /\ ret' = [ret EXCEPT !.put = "closeWrite"]
    /\ pc' = "put"
    /\ UNCHANGED <<ipcOpen, appStatus, streams, cur, wrote, reqs, rx, put,
                   writeFailed>>

\* The second part of EmptyBuffProc.
Close_Write ==
    /\ pc = "closeWrite"
    /\ isAnythingWritten' = [isAnythingWritten EXCEPT ![cur] = @ \/ buf[cur] # <<>>]
    /\ wrote' = 0
    /\ ret' = [ret EXCEPT !.write = "closed"]
    /\ pc' = "write"
    /\ UNCHANGED <<request, buf, rawWrite, isClosed, wasFCloseCalled, failed, cur, todo, reqs,
                   rx, put, writeFailed>>

Close_Done ==
    /\ pc = "closed"
    /\ wasFCloseCalled' = [wasFCloseCalled EXCEPT ![cur] = TRUE]
    /\ isClosed' = [isClosed EXCEPT ![cur] = TRUE]
    /\ pc' = ret.close
    /\ UNCHANGED <<request, buf, rawWrite, isAnythingWritten, failed, cur, todo, wrote, ret, reqs,
                   rx, put, writeFailed>>

-----------------------------------------------------------------------------
(* FCGX_Finish_r: err is closed, then out, then the connection if need be. *)

Finish_Close(s, at, next) ==
    /\ pc = at
    /\ IF wasFCloseCalled[s]
       THEN pc' = next /\ UNCHANGED <<buf, rawWrite, todo, cur, ret>>
       ELSE StartClose(s, next)
    /\ UNCHANGED <<request, isAnythingWritten, isClosed, wasFCloseCalled, failed, wrote, reqs,
                   rx, put, writeFailed>>

\* Mutant: the application's FCGX_FClose has reported the error, so FCGX_Finish_r
\* only looks at the stream that is closed last.
Finish_Free_lastOnly(keep) ==
    /\ pc = "finishFree"
    /\ ipcOpen' = (keep /\ ~failed["out"])
    /\ pc' = "accept"
    /\ UNCHANGED <<nWriters, appStatus, streams, cur, todo, wrote, ret, reqs,
                   rx, put, writeFailed>>

\* The connection is kept if `keep' (the web server asked for it and the input
\* stream has no error) and neither output stream has an error.
Finish_Free(keep) ==
    /\ pc = "finishFree"
    /\ ipcOpen' = (keep /\ \A s \in Streams : ~failed[s])
    /\ pc' = "accept"
    /\ UNCHANGED <<nWriters, appStatus, streams, cur, todo, wrote, ret, reqs,
                   rx, put, writeFailed>>

FCGX_SetExitStatus(status) ==
    /\ pc = "app"
    /\ appStatus' = status
    /\ UNCHANGED <<ipcOpen, nWriters, streams, pc, cur, todo, wrote, ret, reqs,
                   rx, put, writeFailed>>

FCGX_ClearError(s) ==
    /\ pc = "app"
    /\ failed[s]
    /\ failed' = [failed EXCEPT ![s] = FALSE]
    /\ UNCHANGED <<request, buf, rawWrite, isAnythingWritten, isClosed, wasFCloseCalled, pc, cur, todo,
                   wrote, ret, reqs, rx, put, writeFailed>>

\* Steps of calls that are under way.
Library == \/ Write_Byte \/ Write_Done \/ Write_Fail
           \/ Put_Done \/ Put_Closed \/ Put_Full \/ Put_Empty
           \/ Close_End \/ Close_Write \/ Close_Done
           \/ Finish_Close("out", "finishOut", "finishFree")
           \/ \E keep \in BOOLEAN : Finish_Free(keep)

App == \/ \E s \in Streams : \/ \E n \in PutSizes[s] : FCGX_PutStr(s, n)
                             \/ FCGX_FFlush(s) \/ FCGX_FClose(s) \/ FCGX_ClearError(s)
       \/ \E status \in Statuses : FCGX_SetExitStatus(status)
       \/ Finish_Close("err", "app", "finishOut")

Next == \/ FCGX_Accept_r
        \/ App
        \/ Library

Spec == Init /\ [][Next]_vars

-----------------------------------------------------------------------------
\* The types of the module's variables.
TypeOK ==
    /\ ipcOpen \in BOOLEAN /\ nWriters \in 0..2 /\ appStatus \in Nat
    /\ buf \in [Streams -> Seq(Bytes)]
    /\ rawWrite \in [Streams -> BOOLEAN]
    /\ isAnythingWritten \in [Streams -> BOOLEAN]
    /\ isClosed \in [Streams -> BOOLEAN]
    /\ wasFCloseCalled \in [Streams -> BOOLEAN]
    /\ failed \in [Streams -> BOOLEAN]
    /\ pc \in {"accept", "app", "put", "empty", "write", "closeEnd", "closeWrite", "closed",
               "finishOut", "finishFree"}
    /\ cur \in Streams
    /\ todo \in Seq(Bytes)
    /\ wrote \in Nat
    /\ ret \in [put : {"app", "closeEnd", "closeWrite"}, write : {"app", "put", "closed"},
                close : {"app", "finishOut", "finishFree"}]
    /\ reqs \in Nat
    /\ put \in [Streams -> Nat]
    /\ writeFailed \in BOOLEAN

\* "Padding can't overflow the buffer because the buffer is a multiple of 8 bytes
\* in length": whatever is buffered, padded, buffered again after an error and
\* closed, no byte is stored past the end of a stream's buffer.
BufferFits == \A s \in Streams : Len(buf[s]) <= Size(s)

\* As long as no write has failed the web server can take apart what it gets:
\* headers where headers belong, content in the order it was put, nothing of a
\* stream after its end and nothing of the request after FCGI_END_REQUEST.  Nothing
\* is lost in the buffers: when FCGI_END_REQUEST arrives, all that the application
\* has put has arrived, and both streams have been ended (STDERR if it was used).
ResponseIntact ==
    ~writeFailed =>
        /\ rx.sound
        /\ rx.ended => /\ \A s \in Streams : rx.got[s] = put[s]
                       /\ rx.eof["out"]
                       /\ rx.got["err"] > 0 => rx.eof["err"]

\* The answer is complete: the web server has FCGI_END_REQUEST and all the bytes
\* the application has put.
Complete == rx.sound /\ rx.ended /\ rx.header = 0 /\ \A s \in Streams : rx.got[s] = put[s]

Request == INSTANCE FcgiRequest WITH
    phase <- IF pc # "accept" THEN "busy" ELSE IF ipcOpen THEN "idle" ELSE "closed",
    owed  <- (pc # "accept" \/ ipcOpen) /\ ~Complete,
    trust <- IF pc = "accept" /\ ~ipcOpen THEN "sound"
             ELSE IF \E s \in Streams : failed[s] THEN "broken"
             ELSE IF writeFailed THEN "waived" ELSE "sound"

\* Whatever write fails, in whatever order the streams are closed, FCGX_Finish_r
\* keeps the connection only if the web server has had a complete answer, or the
\* application has cleared the error: the streams implement FcgiRequest.
ImplementsRequest == Request!Spec

-----------------------------------------------------------------------------
\* Calls that are under way go on: OS_Write does not block for ever.
FairSpec == Spec /\ WF_vars(Library)

\* Every call returns to the application, or goes on to the next request, however
\* the writes fail.
CallsReturn == pc \notin {"app", "accept"} ~> pc \in {"app", "accept"}
=============================================================================
