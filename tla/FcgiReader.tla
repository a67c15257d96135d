----------------------------- MODULE FcgiReader -----------------------------
(***************************************************************************)
(* The input side of the FastCGI library (fcgiapp.c): how FCGX_Accept_r,   *)
(* FillBuffProc and the Process* functions take the records a web server   *)
(* sends on a connection apart, and what they hand to the application.     *)
(*                                                                         *)
(* The bytes of a connection are numbered from 0.  A record is HeaderLen   *)
(* header bytes, clen content bytes and plen padding bytes; a script is    *)
(* the sequence of the records a web server sends on one connection, each  *)
(* with the number of the byte it starts at.  Pointers into the buffer are *)
(* byte numbers: the buffer holds the bytes pos..lim-1 (rdNext, buffStop). *)
(* What a byte says does not matter, only which record it belongs to, so   *)
(* that "the application has received this byte" is a set of numbers.      *)
(* A name-value pair of PARAMS or GET_VALUES content is two bytes: reading *)
(* can stop between two pairs or in the middle of one.                     *)
(*                                                                         *)
(* FillBuffProc calls ProcessHeader, which reads the body of a BEGIN or a  *)
(* GET_VALUES record through a recursive FillBuffProc: `ret' is where the  *)
(* running FillBuffProc returns to, `outer' where the interrupted one does.*)
(***************************************************************************)
EXTENDS Integers, Sequences, FiniteSets

CONSTANTS
    ParamsLen,          \* length of a new environment vector, 30 in the code
    HeaderLen,          \* sizeof(FCGI_Header), 8 in the code
    BodyLen,            \* sizeof(FCGI_BeginRequestBody), 8 in the code
    BuffLen,            \* the reader's bufflen, 8192 in the code
    Scripts,            \* what a web server may send on a connection
    MaxConns,           \* bound: connections accepted in a behaviour
    MaxGet              \* bound: bytes asked for by one FCGX_GetStr

StreamTypes == {"params", "stdin", "data"}
RecordTypes == StreamTypes \cup {"begin", "getvalues", "unknown", "abort"}

Records == [type : RecordTypes, id : Nat, clen : Nat, plen : Nat, start : Nat,
            role : {"responder", "filter", "bad"}, keep : BOOLEAN, after : Nat]

End(r) == r.start + HeaderLen + r.clen + r.plen

\* Records follow one another without a gap.
IsScript(s) ==
    /\ Len(s) >= 1 /\ s[1].start = 0
    /\ \A k \in 1..(Len(s) - 1) : s[k + 1].start = End(s[k])

ASSUME LengthsAssumption ==
    HeaderLen \in Nat \ {0} /\ BodyLen \in Nat \ {0} /\ BuffLen \in Nat \ {0}
ASSUME ParamsAssumption == ParamsLen \in Nat \ {0}
ASSUME ScriptsAssumption == \A s \in Scripts : s \in Seq(Records) /\ IsScript(s)
ASSUME BoundsAssumption == MaxConns \in Nat /\ MaxGet \in Nat

VARIABLES
    \* the web server and the connection
    script,            \* what the server sends on the current connection
    sent,              \* records sent so far
    srvOpen,           \* the server has not dropped the connection
    cut,               \* bytes of the next record sent before it dropped it
    replies,           \* what the library has written: sequence of [kind, rec]
    conns,
    careful,           \* the application reads its input to the end before it closes
                       \* it or finishes a request on a kept connection, calls
                       \* FCGX_StartFilterData only on a sound stream and clears no
                       \* error (fixed)
    \* FCGX_Request
    ipcOpen,           \* ipcFd >= 0
    isBeginProcessed, requestId, keepConnection, role,
    begin,             \* the BEGIN record of the request (0: none)
    \* FCGX_Stream and FCGX_Stream_Data of the reader
    type, pos, lim, stop, stopUnget,
    contentLen, paddingLen, skip, eorStop, headerLen, isClosed, wasFCloseCalled,
    failed,            \* FCGI_errno # 0
    params,            \* paramsPtr: its length, and the pairs before cur; NoParams
    \* control
    pc, ret, outer,
    want,              \* bytes FCGX_GetStr still has to move
    half,              \* each ReadParams, that of the environment and the one it is
                       \* interrupted by: is it in the middle of a pair?
    \* history
    cleared,           \* the application has cleared an error on the connection
    got,               \* [StreamTypes -> bytes the library's client received]
    rec,               \* the record whose header was processed last (0: none)
    misread            \* bytes that begin no record were taken for a header,
                       \* and no error had been reported before

server  == <<script, sent, srvOpen, cut, conns>>
client  == <<careful, cleared, wasFCloseCalled, params>>
request == <<ipcOpen, isBeginProcessed, requestId, keepConnection, role, begin>>
record  == <<contentLen, paddingLen, skip, headerLen, rec>>
control == <<ret, outer, want, half>>
vars == <<server, client, replies, request, type, pos, lim, stop, stopUnget, record, eorStop, isClosed,
          failed, pc, control, got, misread>>

Min2(a, b) == IF a <= b THEN a ELSE b

\* Neither ReadParams is within a pair.
NoPair == [params |-> FALSE, values |-> FALSE]

\* Bytes the server has put on the connection.
SentBytes == (IF sent = 0 THEN 0 ELSE End(script[sent])) + cut

\* paramsPtr = NULL.
NoParams == [length |-> 0, cur |-> 0]

NewParams(n) == [length |-> n, cur |-> 0]

\* Mutant: the vector grows when it is too late for the NULL that ends it.
PutParam_late(p) ==
    [length |-> IF p.cur + 1 > p.length THEN 2 * p.length ELSE p.length, cur |-> p.cur + 1]

\* A pair is added; the vector doubles when there is no room left for the NULL that
\* ends it.
PutParam(p) ==
    [length |-> IF p.cur + 1 >= p.length THEN 2 * p.length ELSE p.length, cur |-> p.cur + 1]

\* n pairs are added, one after the other.
PutParams(p, n) ==
    LET put[k \in 0..n] == IF k = 0 THEN p ELSE PutParam(put[k - 1]) IN put[n]

Init ==
    /\ \E s \in Scripts : script = s
    /\ sent = 0 /\ srvOpen = TRUE /\ cut = 0 /\ replies = <<>> /\ conns = 0 /\ careful \in BOOLEAN
    /\ ipcOpen = FALSE /\ isBeginProcessed = FALSE /\ requestId = 0
    /\ keepConnection = FALSE /\ role = "responder" /\ begin = 0
    /\ type = "none" /\ pos = 0 /\ lim = 0 /\ stop = 0 /\ stopUnget = 0
    /\ contentLen = 0 /\ paddingLen = 0 /\ skip = FALSE /\ eorStop = FALSE /\ headerLen = 0
    /\ isClosed = FALSE /\ wasFCloseCalled = FALSE /\ failed = FALSE /\ cleared = FALSE
    /\ params = NoParams
    /\ pc = "accept" /\ ret = "accepted" /\ outer = "accepted" /\ want = 0
    /\ half = NoPair
    /\ got = [t \in StreamTypes |-> {}] /\ rec = 0 /\ misread = FALSE

-----------------------------------------------------------------------------
(* The web server.                                                         *)

\* The server sends its next record once it has had the answers it waits for.
ServerSend ==
    /\ ipcOpen /\ srvOpen
    /\ sent < Len(script)
    /\ Len(replies) >= script[sent + 1].after
    /\ sent' = sent + 1
    /\ UNCHANGED <<script, srvOpen, cut, conns, client, replies, request, type, pos, lim, stop, stopUnget,
                   record, eorStop, isClosed, failed, pc, control, got, misread>>

\* The server goes, possibly in the middle of its next record.
ServerCrash ==
    /\ ipcOpen /\ srvOpen
    /\ srvOpen' = FALSE
    /\ \/ cut' = 0
       \/ /\ sent < Len(script)
          /\ Len(replies) >= script[sent + 1].after
          /\ cut' \in 1..(End(script[sent + 1]) - script[sent + 1].start - 1)
    /\ UNCHANGED <<script, sent, conns, client, replies, request, type, pos, lim, stop, stopUnget,
                   record, eorStop, isClosed, failed, pc, control, got, misread>>

-----------------------------------------------------------------------------
(* FillBuffProc: one loop iteration is fill, content, padding, eor, header.*)

\* SetError, and return from FillBuffProc.
FillError ==
    /\ isClosed' = TRUE
    /\ failed' = TRUE
    /\ pc' = ret

\* The buffer is empty: a blocking OS_Read of up to bufflen bytes.
Fill_Read ==
    /\ pc = "fill"
    /\ pos = lim
    /\ \E n \in 1..Min2(BuffLen, SentBytes - lim) : lim' = lim + n
    /\ pc' = "content"
    /\ UNCHANGED <<server, client, replies, request, type, pos, stop, stopUnget, record, eorStop, isClosed,
                   failed, control, got, misread>>

\* OS_Read returns 0 at the end of a dropped connection.
Fill_ReadEnd ==
    /\ pc = "fill"
    /\ pos = lim
    /\ ~srvOpen /\ SentBytes = lim
    /\ FillError
    /\ UNCHANGED <<server, client, replies, request, type, pos, lim, stop, stopUnget, record, eorStop,
                   control, got, misread>>

Fill_NotEmpty ==
    /\ pc = "fill"
    /\ pos # lim
    /\ pc' = "content"
    /\ UNCHANGED <<server, client, replies, request, type, pos, lim, stop, stopUnget, record, eorStop,
                   isClosed, failed, control, got, misread>>

\* Mutant: the delivered bytes are not taken off contentLen.
Fill_Deliver_keepsLen ==
    /\ pc = "content"
    /\ contentLen > 0 /\ ~skip
    /\ stop' = pos + Min2(contentLen, lim - pos)
    /\ stopUnget' = pos
    /\ pc' = ret
    /\ UNCHANGED <<server, client, replies, request, type, pos, lim, record, eorStop, isClosed, failed,
                   control, got, misread>>

\* Content of the current record: deliver what the buffer holds of it, ...
\* (FCGX_GetChar and FCGX_GetStr then set stopUnget to rdNext.)
Fill_Deliver ==
    /\ pc = "content"
    /\ contentLen > 0 /\ ~skip
    /\ LET count == Min2(contentLen, lim - pos) IN
           /\ contentLen' = contentLen - count
           /\ stop' = pos + count
    /\ stopUnget' = pos
    /\ pc' = ret
    /\ UNCHANGED <<server, client, replies, request, type, pos, lim, paddingLen, skip, headerLen,
                   rec, eorStop, isClosed, failed, control, got, misread>>

\* ... or pass over it.
Fill_Skip ==
    /\ pc = "content"
    /\ contentLen > 0 /\ skip
    /\ LET count == Min2(contentLen, lim - pos) IN
           /\ contentLen' = contentLen - count
           /\ pos' = pos + count
           /\ skip' = (contentLen > count)
           /\ pc' = IF contentLen > count THEN "fill" ELSE "padding"
    /\ UNCHANGED <<server, client, replies, request, type, lim, stop, stopUnget, paddingLen, headerLen,
                   rec, eorStop, isClosed, failed, control, got, misread>>

Fill_NoContent ==
    /\ pc = "content"
    /\ contentLen = 0
    /\ pc' = "padding"
    /\ UNCHANGED <<server, client, replies, request, type, pos, lim, stop, stopUnget, record, eorStop,
                   isClosed, failed, control, got, misread>>

Fill_Padding ==
    /\ pc = "padding"
    /\ LET count == Min2(paddingLen, lim - pos) IN
           /\ paddingLen' = paddingLen - count
           /\ pos' = pos + count
           /\ pc' = IF paddingLen > count THEN "fill" ELSE "eor"
    /\ UNCHANGED <<server, client, replies, request, type, lim, stop, stopUnget, contentLen, skip,
                   headerLen, rec, eorStop, isClosed, failed, control, got, misread>>

\* The end of the record ends a recursive call.
Fill_EndOfRecord ==
    /\ pc = "eor"
    /\ eorStop
    /\ stop' = pos
    /\ isClosed' = TRUE
    /\ pc' = ret
    /\ UNCHANGED <<server, client, replies, request, type, pos, lim, stopUnget, record, eorStop, failed,
                   control, got, misread>>

\* The bytes of the next header, as far as the buffer holds them.
Fill_Header ==
    /\ pc = "eor"
    /\ ~eorStop
    /\ LET count == Min2(HeaderLen - headerLen, lim - pos) IN
           /\ pos' = pos + count
           /\ IF headerLen + count < HeaderLen
              THEN /\ headerLen' = headerLen + count
                   /\ pc' = "fill"
                   /\ UNCHANGED stop
              ELSE /\ headerLen' = 0
                   /\ pc' = "process"
                   /\ stop' = pos'
    /\ UNCHANGED <<server, client, replies, request, type, lim, stopUnget, contentLen, paddingLen, skip,
                   rec, eorStop, isClosed, failed, control, got, misread>>

-----------------------------------------------------------------------------
(* ProcessHeader, called with eorStop set; when it returns, FillBuffProc   *)
(* clears eorStop and isClosed and acts on the status.                     *)

\* The record whose header has just been read.
AtHeader(k) == k \in 1..Len(script) /\ script[k].start = pos - HeaderLen

\* Not the header of a record but padding or content.  The model takes bytes that
\* do not begin with FCGI_VERSION_1: FCGX_UNSUPPORTED_VERSION.
Header_Misread ==
    /\ pc = "process"
    /\ \A k \in 1..Len(script) : ~AtHeader(k)
    /\ misread' = (misread \/ ~failed)
    /\ FillError
    /\ UNCHANGED <<server, client, replies, request, type, pos, lim, stop, stopUnget, record, eorStop,
                   control, got>>

LoadHeader(k) ==
    /\ contentLen' = script[k].clen
    /\ paddingLen' = script[k].plen
    /\ rec' = k

\* A reply may be lost when the server has gone; then the write may also fail.
Reply(kind, k) == replies' = Append(replies, [kind |-> kind, rec |-> k])

\* A BEGIN record ProcessBeginRecord accepts.
IsBegin(r) == r.type = "begin" /\ r.id # 0 /\ r.clen = BodyLen
GoodBegin(k) == IsBegin(script[k])

\* ProcessBeginRecord refuses request id 0 and a body of the wrong length.
Header_BadBegin(k) ==
    /\ pc = "process" /\ AtHeader(k)
    /\ script[k].type = "begin"
    /\ ~GoodBegin(k)
    /\ LoadHeader(k)
    /\ FillError
    /\ UNCHANGED <<server, client, replies, request, type, pos, lim, stop, stopUnget, skip, headerLen,
                   eorStop, control, got, misread>>

\* Mutant: the second request is passed over without an answer.
Header_Multiplexed_silent(k) ==
    /\ pc = "process" /\ AtHeader(k)
    /\ GoodBegin(k)
    /\ isBeginProcessed
    /\ LoadHeader(k)
    /\ isClosed' = FALSE
    /\ skip' = TRUE
    /\ pc' = "fill"
    /\ UNCHANGED <<server, client, replies, request, type, pos, lim, stop, stopUnget, headerLen, eorStop,
                   failed, control, got, misread>>

\* A second BEGIN on the connection: FCGI_END_REQUEST{FCGI_CANT_MPX_CONN}, SKIP.
Header_Multiplexed(k) ==
    /\ pc = "process" /\ AtHeader(k)
    /\ GoodBegin(k)
    /\ isBeginProcessed
    /\ LoadHeader(k)
    /\ isClosed' = FALSE
    /\ Reply("cant_mpx", k)
    /\ skip' = TRUE
    /\ pc' = "fill"
    /\ UNCHANGED <<server, client, request, type, pos, lim, stop, stopUnget, headerLen, eorStop, failed,
                   control, got, misread>>

\* A new request: its body is read by FCGX_GetStr, through a recursive call.
Header_Begin(k) ==
    /\ pc = "process" /\ AtHeader(k)
    /\ GoodBegin(k)
    /\ ~isBeginProcessed
    /\ LoadHeader(k)
    /\ requestId' = script[k].id
    /\ begin' = k
    /\ eorStop' = TRUE
    /\ want' = BodyLen
    /\ outer' = ret /\ ret' = "body" /\ pc' = "body"
    /\ UNCHANGED <<server, client, replies, ipcOpen, isBeginProcessed, keepConnection, role, type, pos, lim,
                   stop, stopUnget, skip, headerLen, isClosed, failed, half, got, misread>>

IsManagement(r) == r.type # "begin" /\ r.id = 0

\* FCGI_GET_VALUES: its content is read by ReadParams, through a recursive call.
Header_GetValues(k) ==
    /\ pc = "process" /\ AtHeader(k)
    /\ IsManagement(script[k]) /\ script[k].type = "getvalues"
    /\ LoadHeader(k)
    /\ eorStop' = TRUE
    /\ half' = [half EXCEPT !.values = FALSE]
    /\ outer' = ret /\ ret' = "values" /\ pc' = "values"
    /\ UNCHANGED <<server, client, replies, request, type, pos, lim, stop, stopUnget, skip, headerLen,
                   isClosed, failed, want, got, misread>>

\* Any other management record is answered by FCGI_UNKNOWN_TYPE.
Header_UnknownManagement(k) ==
    /\ pc = "process" /\ AtHeader(k)
    /\ IsManagement(script[k]) /\ script[k].type # "getvalues"
    /\ LoadHeader(k)
    /\ isClosed' = FALSE
    /\ Reply("unknown_type", k)
    /\ pc' = "fill"
    /\ UNCHANGED <<server, client, request, type, pos, lim, stop, stopUnget, skip, headerLen, eorStop,
                   failed, control, got, misread>>

\* The write of an immediate answer fails once the server has gone.
Header_ReplyFails(k) ==
    /\ pc = "process" /\ AtHeader(k)
    /\ \/ GoodBegin(k) /\ isBeginProcessed
       \/ IsManagement(script[k]) /\ script[k].type # "getvalues"
    /\ ~srvOpen
    /\ LoadHeader(k)
    /\ FillError
    /\ UNCHANGED <<server, client, replies, request, type, pos, lim, stop, stopUnget, skip, headerLen,
                   eorStop, control, got, misread>>

IsStream(r) == r.type # "begin" /\ r.id # 0

\* Mutant: the record of another request is not skipped.
Header_OtherRequest_noSkip(k) ==
    /\ pc = "process" /\ AtHeader(k)
    /\ IsStream(script[k]) /\ script[k].id # requestId
    /\ LoadHeader(k)
    /\ isClosed' = FALSE
    /\ skip' = skip
    /\ pc' = "fill"
    /\ UNCHANGED <<server, client, replies, request, type, pos, lim, stop, stopUnget, headerLen, eorStop,
                   failed, control, got, misread>>

\* A record of another request is skipped.
Header_OtherRequest(k) ==
    /\ pc = "process" /\ AtHeader(k)
    /\ IsStream(script[k]) /\ script[k].id # requestId
    /\ LoadHeader(k)
    /\ isClosed' = FALSE
    /\ skip' = TRUE
    /\ pc' = "fill"
    /\ UNCHANGED <<server, client, replies, request, type, pos, lim, stop, stopUnget, headerLen, eorStop,
                   failed, control, got, misread>>

Header_WrongType(k) ==
    /\ pc = "process" /\ AtHeader(k)
    /\ IsStream(script[k]) /\ script[k].id = requestId /\ script[k].type # type
    /\ LoadHeader(k)
    /\ FillError
    /\ UNCHANGED <<server, client, replies, request, type, pos, lim, stop, stopUnget, skip, headerLen,
                   eorStop, control, got, misread>>

\* A record of the stream; an empty one is its end.
Header_Stream(k) ==
    /\ pc = "process" /\ AtHeader(k)
    /\ IsStream(script[k]) /\ script[k].id = requestId /\ script[k].type = type
    /\ LoadHeader(k)
    /\ isClosed' = (script[k].clen = 0)
    /\ pc' = IF script[k].clen = 0 THEN ret ELSE "fill"
    /\ UNCHANGED <<server, client, replies, request, type, pos, lim, stop, stopUnget, skip, headerLen,
                   eorStop, failed, control, got, misread>>

-----------------------------------------------------------------------------
(* The readers of record bodies.                                           *)

\* FCGX_GetStr of the BEGIN body: once complete, the request is accepted and the
\* interrupted FillBuffProc returns.
Body_Complete ==
    /\ pc = "body"
    /\ ~isClosed /\ stop - pos >= want
    /\ pos' = pos + want
    /\ want' = 0
    /\ keepConnection' = script[begin].keep
    /\ role' = script[begin].role
    /\ isBeginProcessed' = TRUE
    /\ eorStop' = FALSE /\ isClosed' = FALSE
    /\ ret' = outer /\ pc' = outer
    /\ UNCHANGED <<server, client, replies, ipcOpen, requestId, begin, type, lim, stop, stopUnget, record,
                   failed, outer, half, got, misread>>

Body_More ==
    /\ pc = "body"
    /\ stop - pos < want /\ ~isClosed
    /\ pos' = stop
    /\ want' = want - (stop - pos)
    /\ pc' = "fill"
    /\ UNCHANGED <<server, client, replies, request, type, lim, stop, stopUnget, record, eorStop, isClosed,
                   failed, ret, outer, half, got, misread>>

Body_Short ==
    /\ pc = "body"
    /\ isClosed
    /\ want' = 0
    /\ eorStop' = FALSE /\ isClosed' = TRUE /\ failed' = TRUE
    /\ ret' = outer /\ pc' = outer
    /\ UNCHANGED <<server, client, replies, request, type, pos, lim, stop, stopUnget, record, outer, half,
                   got, misread>>

\* ReadParams takes all the bytes there are; `half' says whether they end within
\* a pair.
TakePairs ==
    /\ ~isClosed /\ pos < stop
    /\ pos' = stop
    /\ half' = [half EXCEPT ![pc] = (@ # ((stop - pos) % 2 = 1))]

\* The pairs that are complete with them.
PairsTaken == ((stop - pos) + IF half.params THEN 1 ELSE 0) \div 2

Values_Take ==
    /\ pc = "values"
    /\ TakePairs
    /\ UNCHANGED <<server, client, replies, request, type, lim, stop, stopUnget, record, eorStop, isClosed,
                   failed, pc, ret, outer, want, got, misread>>

Values_More ==
    /\ pc = "values"
    /\ pos = stop /\ ~isClosed
    /\ pc' = "fill"
    /\ UNCHANGED <<server, client, replies, request, type, pos, lim, stop, stopUnget, record, eorStop,
                   isClosed, failed, control, got, misread>>

ValuesOK == ~half.values /\ ~failed /\ contentLen = 0

\* Mutant: the answer is prepared and not written.
Values_Answer_silent ==
    /\ pc = "values"
    /\ isClosed /\ ValuesOK
    /\ eorStop' = FALSE /\ isClosed' = FALSE
    /\ ret' = outer /\ pc' = "fill"
    /\ UNCHANGED <<server, client, replies, request, type, pos, lim, stop, stopUnget, record, failed,
                   outer, want, half, got, misread>>

\* The answer is written and the interrupted FillBuffProc goes on.
Values_Answer ==
    /\ pc = "values"
    /\ isClosed /\ ValuesOK
    /\ Reply("values", rec)
    /\ eorStop' = FALSE /\ isClosed' = FALSE
    /\ ret' = outer /\ pc' = "fill"
    /\ UNCHANGED <<server, client, request, type, pos, lim, stop, stopUnget, record, failed, outer, want,
                   half, got, misread>>

Values_Fail ==
    /\ pc = "values"
    /\ isClosed
    /\ ~ValuesOK \/ ~srvOpen
    /\ eorStop' = FALSE /\ isClosed' = TRUE /\ failed' = TRUE
    /\ ret' = outer /\ pc' = outer
    /\ UNCHANGED <<server, client, replies, request, type, pos, lim, stop, stopUnget, record, outer, want,
                   half, got, misread>>

-----------------------------------------------------------------------------
(* FCGX_Accept_r.                                                          *)

NewReader ==
    /\ type' = "none"
    /\ contentLen' = 0 /\ paddingLen' = 0 /\ skip' = FALSE /\ headerLen' = 0
    /\ eorStop' = FALSE /\ isClosed' = FALSE /\ wasFCloseCalled' = FALSE /\ failed' = FALSE

\* A new connection; nothing of it has been read.
Accept_New(s) ==
    /\ pc = "accept"
    /\ ~ipcOpen
    /\ conns < MaxConns
    /\ conns' = conns + 1
    /\ script' = s /\ sent' = 0 /\ srvOpen' = TRUE /\ cut' = 0 /\ replies' = <<>>
    /\ ipcOpen' = TRUE
    /\ isBeginProcessed' = FALSE
    /\ begin' = 0
    /\ NewReader
    /\ pos' = 0 /\ lim' = 0 /\ stop' = 0 /\ stopUnget' = 0
    /\ ret' = "accepted" /\ outer' = "accepted" /\ pc' = "fill"
    /\ want' = 0 /\ half' = NoPair
    /\ got' = [t \in StreamTypes |-> {}]
    /\ rec' = 0
    /\ misread' = FALSE
    /\ cleared' = FALSE
    /\ UNCHANGED <<careful, params, requestId, keepConnection, role>>

\* The connection was kept.  The new reader's buffer is empty: what the old one
\* had read and not used is gone.
Accept_Kept ==
    /\ pc = "accept"
    /\ ipcOpen
    /\ isBeginProcessed' = FALSE
    /\ begin' = 0
    /\ NewReader
    /\ pos' = lim /\ stop' = lim /\ stopUnget' = lim
    /\ ret' = "accepted" /\ pc' = "fill"
    /\ got' = [t \in StreamTypes |-> {}]
    /\ UNCHANGED <<server, careful, cleared, params, replies, ipcOpen, requestId, keepConnection, role,
                   lim, outer, want, half, rec, misread>>

\* FCGX_Free with close = 1, and round the loop.
TryAgain ==
    /\ ipcOpen' = FALSE
    /\ params' = NoParams
    /\ pc' = "accept"
    /\ UNCHANGED <<server, careful, cleared, wasFCloseCalled, replies, isBeginProcessed, requestId, keepConnection, role, begin, type,
                   pos, lim, stop, stopUnget, record, eorStop, isClosed, failed, control, got,
                   misread>>

Accepted_Refuse ==
    /\ pc = "accepted"
    /\ ~isBeginProcessed \/ role = "bad"
    /\ TryAgain

SetReaderType(t) ==
    /\ type' = t
    /\ eorStop' = FALSE /\ skip' = FALSE
    /\ contentLen' = 0 /\ paddingLen' = 0
    /\ stop' = pos
    /\ isClosed' = FALSE

\* The environment starts with the role.
Accepted_Begin ==
    /\ pc = "accepted"
    /\ isBeginProcessed /\ role # "bad"
    /\ params' = PutParam(NewParams(ParamsLen))
    /\ SetReaderType("params")
    /\ half' = NoPair
    /\ pc' = "params"
    /\ UNCHANGED <<server, careful, cleared, wasFCloseCalled, replies, request, pos, lim, stopUnget, headerLen, rec, failed, ret, outer,
                   want, got, misread>>

Params_Take ==
    /\ pc = "params"
    /\ TakePairs
    /\ params' = PutParams(params, PairsTaken)
    /\ got' = [got EXCEPT !["params"] = @ \cup pos..(stop - 1)]
    /\ UNCHANGED <<server, careful, cleared, wasFCloseCalled, replies, request, type, lim, stop, stopUnget, record, eorStop, isClosed,
                   failed, pc, ret, outer, want, misread>>

Params_More ==
    /\ pc = "params"
    /\ pos = stop /\ ~isClosed
    /\ ret' = "params" /\ pc' = "fill"
    /\ UNCHANGED <<server, client, replies, request, type, pos, lim, stop, stopUnget, record, eorStop,
                   isClosed, failed, outer, want, half, got, misread>>

\* EOF within a pair is FCGX_PARAMS_ERROR.
Params_Error ==
    /\ pc = "params"
    /\ isClosed /\ half.params
    /\ TryAgain

\* EOF between two pairs: the request goes to the application.
Params_Complete ==
    /\ pc = "params"
    /\ isClosed /\ ~half.params
    /\ SetReaderType("stdin")
    /\ pc' = "app"
    /\ UNCHANGED <<server, client, replies, request, pos, lim, stopUnget, headerLen, rec, failed, control, got,
                   misread>>

-----------------------------------------------------------------------------
(* The application.                                                        *)

\* FCGX_GetStr(n), of which FCGX_GetChar is the case n = 1.
FCGX_GetStr(n) ==
    /\ pc = "app"
    /\ ~isClosed
    /\ want' = n
    /\ ret' = "getstr" /\ pc' = "getstr"
    /\ UNCHANGED <<server, client, replies, request, type, pos, lim, stop, stopUnget, record, eorStop,
                   isClosed, failed, outer, half, got, misread>>

GetStr_Move ==
    /\ pc = "getstr"
    /\ LET m == IF isClosed THEN 0 ELSE Min2(want, stop - pos) IN
           /\ pos' = pos + m
           /\ got' = [got EXCEPT ![type] = @ \cup pos..(pos + m - 1)]
           /\ want' = IF isClosed THEN 0 ELSE want - m
           /\ pc' = IF want = m \/ isClosed THEN "app" ELSE "fill"
    /\ UNCHANGED <<server, client, replies, request, type, lim, stop, stopUnget, record, eorStop, isClosed,
                   failed, ret, outer, half, misread>>

\* The application pushes the byte it has just read back; the code only looks whether
\* there is one before it in the buffer.
FCGX_UnGetChar ==
    /\ pc = "app"
    /\ ~isClosed /\ pos # stopUnget
    /\ (pos - 1) \in got[type]
    /\ pos' = pos - 1
    /\ got' = [got EXCEPT ![type] = @ \ {pos - 1}]
    /\ UNCHANGED <<server, client, replies, request, type, lim, stop, stopUnget, record, eorStop, isClosed,
                   failed, pc, control, misread>>

FCGX_StartFilterData ==
    /\ pc = "app"
    /\ careful => ~failed
    /\ IF role = "filter" /\ isClosed /\ type = "stdin"
       THEN SetReaderType("data") /\ UNCHANGED failed
       ELSE /\ failed' = TRUE /\ isClosed' = TRUE
            /\ UNCHANGED <<type, eorStop, skip, contentLen, paddingLen, stop>>
    /\ UNCHANGED <<server, client, replies, request, pos, lim, stopUnget, headerLen, rec, pc, control, got,
                   misread>>

\* FCGX_FClose of the input stream: what it holds is dropped.
FCGX_FClose ==
    /\ pc = "app"
    /\ careful => isClosed
    /\ ~wasFCloseCalled
    /\ wasFCloseCalled' = TRUE
    /\ isClosed' = TRUE
    /\ stop' = pos
    /\ UNCHANGED <<server, careful, cleared, params, replies, request, type, pos, lim, stopUnget, record,
                   eorStop, failed, pc, control, got, misread>>

\* The error code goes; the stream stays closed.
FCGX_ClearError ==
    /\ pc = "app"
    /\ ~careful /\ failed
    /\ failed' = FALSE
    /\ cleared' = TRUE
    /\ UNCHANGED <<server, careful, wasFCloseCalled, params, replies, request, type, pos, lim, stop,
                   stopUnget, record, eorStop, isClosed, pc, control, got, misread>>

\* All input of the request has been read.
Drained == isClosed /\ (role = "filter" => type = "data")

\* Mutant: an error of the input stream does not close the connection.
FCGX_Finish_r_ignoresIn ==
    /\ pc = "app"
    /\ careful /\ keepConnection => Drained
    /\ Reply("end", begin)
    /\ ipcOpen' = keepConnection
    /\ params' = NoParams
    /\ pc' = "accept"
    /\ UNCHANGED <<server, careful, cleared, wasFCloseCalled, isBeginProcessed, requestId, keepConnection, role, begin, type, pos,
                   lim, stop, stopUnget, record, eorStop, isClosed, failed, control, got, misread>>

\* FCGX_Finish_r: the writers send their closing records (FcgiWriter), the
\* connection is kept only if the server asked for it and nothing has failed.
FCGX_Finish_r ==
    /\ pc = "app"
    /\ careful /\ keepConnection => Drained
    /\ Reply("end", begin)
    /\ ipcOpen' \in {keepConnection /\ ~failed} \cup (IF srvOpen THEN {} ELSE {FALSE})
    /\ params' = NoParams
    /\ pc' = "accept"
    /\ UNCHANGED <<server, careful, cleared, wasFCloseCalled, isBeginProcessed, requestId, keepConnection, role, begin, type, pos,
                   lim, stop, stopUnget, record, eorStop, isClosed, failed, control, got, misread>>

-----------------------------------------------------------------------------
Server == ServerSend \/ ServerCrash

FillBuffProc == \/ Fill_Read \/ Fill_ReadEnd \/ Fill_NotEmpty
                \/ Fill_Deliver \/ Fill_Skip \/ Fill_NoContent
                \/ Fill_Padding \/ Fill_EndOfRecord \/ Fill_Header

ProcessHeader == \/ Header_Misread
                 \/ \E k \in 1..Len(script) :
                        \/ Header_BadBegin(k) \/ Header_Multiplexed(k) \/ Header_Begin(k)
                        \/ Header_GetValues(k) \/ Header_UnknownManagement(k)
                        \/ Header_ReplyFails(k)
                        \/ Header_OtherRequest(k) \/ Header_WrongType(k) \/ Header_Stream(k)

ReadBody == \/ Body_Complete \/ Body_More \/ Body_Short
            \/ Values_Take \/ Values_More \/ Values_Answer \/ Values_Fail

FCGX_Accept_r == \/ \E s \in Scripts : Accept_New(s)
                 \/ Accept_Kept
                 \/ Accepted_Refuse \/ Accepted_Begin
                 \/ Params_Take \/ Params_More \/ Params_Error \/ Params_Complete

App == \/ \E n \in 1..MaxGet : FCGX_GetStr(n)
       \/ FCGX_UnGetChar \/ FCGX_StartFilterData \/ FCGX_FClose \/ FCGX_ClearError
       \/ FCGX_Finish_r

Library == FillBuffProc \/ ProcessHeader \/ ReadBody \/ FCGX_Accept_r \/ GetStr_Move

Next == Server \/ Library \/ App

Spec == Init /\ [][Next]_vars

-----------------------------------------------------------------------------
\* What the library answers; where it is; who calls FillBuffProc for a stream.
Replies == [kind : {"end", "cant_mpx", "values", "unknown_type"}, rec : Nat]
Places == {"accept", "accepted", "params", "app", "getstr", "body", "values",
           "fill", "content", "padding", "eor", "process"}
Readers == {"accepted", "params", "getstr"}

\* The types of the module's variables.
TypeOK ==
    /\ script \in Scripts /\ sent \in 0..Len(script) /\ srvOpen \in BOOLEAN /\ cut \in Nat /\ conns \in Nat
    /\ replies \in Seq(Replies)
    /\ ipcOpen \in BOOLEAN /\ isBeginProcessed \in BOOLEAN /\ requestId \in Nat
    /\ keepConnection \in BOOLEAN /\ role \in {"responder", "filter", "bad"}
    /\ begin \in 0..Len(script) /\ rec \in 0..Len(script)
    /\ type \in StreamTypes \cup {"none"}
    /\ pos \in Nat /\ lim \in Nat /\ stop \in Nat /\ stopUnget \in Nat
    /\ contentLen \in Nat /\ paddingLen \in Nat
    /\ skip \in BOOLEAN /\ eorStop \in BOOLEAN /\ headerLen \in 0..(HeaderLen - 1)
    /\ isClosed \in BOOLEAN /\ failed \in BOOLEAN
    /\ pc \in Places /\ ret \in Readers \cup {"body", "values"} /\ outer \in Readers
    /\ want \in Nat /\ half \in [{"params", "values"} -> BOOLEAN]
    /\ wasFCloseCalled \in BOOLEAN /\ cleared \in BOOLEAN
    /\ params \in [length : Nat, cur : Nat]
    /\ got \in [StreamTypes -> SUBSET Nat] /\ misread \in BOOLEAN

\* The content bytes of stream t of the current request: its records up to the
\* next BEGIN that reuses the request id.
ContentOf(t) ==
    LET mine(k) == /\ script[k].type = t /\ script[k].id = requestId
                   /\ \A j \in (begin + 1)..k : ~(GoodBegin(j) /\ script[j].id = requestId)
    IN  IF begin = 0 THEN {}
        ELSE UNION {(script[k].start + HeaderLen)..(script[k].start + HeaderLen + script[k].clen - 1) :
                       k \in {j \in (begin + 1)..Len(script) : mine(j)}}

\* The request a connection carries: that of its first BEGIN record.
Owner(s) == s[CHOOSE k \in 1..Len(s) : /\ s[k].type = "begin"
                                       /\ \A j \in 1..(k - 1) : s[j].type # "begin"].id

\* Record e ends the input of the request that record b begins.
EndsInput(s, b, e) ==
    /\ IsStream(s[e]) /\ s[e].clen = 0 /\ s[e].id = s[b].id
    /\ s[e].type = IF s[b].role = "filter" THEN "data" ELSE "stdin"

\* The records before record k that the library answers, each once.
Answerable(s, k) == {j \in 1..(k - 1) : IsManagement(s[j]) \/ IsBegin(s[j])}

\* The server sends record k when all of them are answered.
Waits(s, k) == s[k].after >= Cardinality(Answerable(s, k))

\* What a server must keep to for the library to follow it: no padding after a
\* BEGIN body or at the end of a stream, no empty record of a request other than
\* the one being served, no content in a management record of unknown type,
\* padding after FCGI_GET_VALUES, and nothing of a stream after its end.  It waits
\* for the answers before it uses the request id again and, when the connection is
\* to be kept, after the end of the input; other ids only come before that end.
SupportedScript(s) ==
    \A k \in 1..Len(s) :
        /\ s[k].type = "begin" => s[k].plen = 0
        /\ IsStream(s[k]) /\ s[k].clen = 0 => s[k].plen = 0 /\ s[k].id = Owner(s)
        /\ IsManagement(s[k]) => IF s[k].type = "getvalues" THEN s[k].plen > 0 ELSE s[k].clen = 0
        /\ \A j \in 1..(k - 1) :
               /\ IsStream(s[j]) /\ s[j].clen = 0 /\ s[k].type = s[j].type /\ s[k].id = s[j].id =>
                      \E b \in (j + 1)..k : IsBegin(s[b]) /\ s[b].id = s[k].id
               /\ IsBegin(s[j]) /\ IsBegin(s[k]) /\ s[j].id = s[k].id /\ s[k].id = Owner(s) => Waits(s, k)
               /\ IsBegin(s[j]) /\ s[j].keep /\ EndsInput(s, j, k - 1) => Waits(s, k)
        /\ IsBegin(s[k]) /\ s[k].id # Owner(s) =>
               \E b \in 1..(k - 1) : /\ IsBegin(s[b]) /\ s[b].id = Owner(s)
                                     /\ \A e \in b..(k - 1) : ~EndsInput(s, b, e)

SupportedScripts == {s \in Scripts : SupportedScript(s)}

Supported == script \in SupportedScripts

\* "If the current record contains more content bytes, deliver all that are
\* present": an end of file without an error means that the whole stream was
\* received, whatever the server sends in between.
EveryEndMeansAll == pc = "app" /\ isClosed /\ ~failed => got[type] = ContentOf(type)

\* Whatever the fragmentation of reads, and whatever other records lie between,
\* the client of a stream receives the bytes of that stream of its own request,
\* none twice, none out of turn and none left out, and an end of file without an
\* error means all of them, also when the server drops the connection at any byte.
Delivered ==
    Supported /\ careful =>
        /\ \A t \in StreamTypes :
               /\ got[t] \subseteq ContentOf(t)
               /\ \A q \in got[t], p \in ContentOf(t) : p < q => p \in got[t]
        /\ EveryEndMeansAll

\* The streams are read in turn.  "If protocol or other errors occur, close the
\* connection and try again": a request that reaches the application without an
\* error pending on its input stream has its complete environment, the role and
\* every pair of it in the vector envp points to, which has room for the NULL that
\* ends it.  "If the preconditions are not met (e.g. FCGI_STDIN has not been read to
\* EOF) sets the stream error code": the data of a filter is read after all of STDIN.
StreamsInTurn ==
    /\ params # NoParams => params.cur < params.length
    /\ Supported /\ careful =>
           /\ ~failed /\ type \in {"stdin", "data"} => got["params"] = ContentOf("params")
           /\ ~failed /\ pc = "app" => params.cur = 1 + Cardinality(ContentOf("params")) \div 2
           /\ type = "data" => got["stdin"] = ContentOf("stdin")

\* As long as no error has been reported, headers are only read where a record
\* begins, and the reader's counters account for every byte between its position and the end
\* of the current record, across recursive calls, skips and changes of stream
\* type.
PositionAccounted ==
    Supported /\ careful =>
        /\ ~misread
        /\ ipcOpen /\ rec # 0 /\ ~failed =>
               IF pc = "process"
               THEN pos = End(script[rec]) + HeaderLen
               ELSE (IF stop > pos THEN stop ELSE pos) + contentLen + paddingLen
                        = End(script[rec]) + headerLen

\* Does record k call for an answer of its own?
NeedsAnswer(k) == \/ IsManagement(script[k])
                  \/ GoodBegin(k) /\ begin # 0 /\ k > begin

Answered(k) == \E i \in 1..Len(replies) : replies[i].rec = k

\* A management record and an attempt to multiplex the connection get an answer
\* before the next record is looked at, and nothing is answered twice: no request
\* is finished after it was refused or refused after it was finished.
PassedAnswered ==
    /\ /\ Supported /\ careful /\ ~failed /\ ipcOpen
       /\ pc \notin {"values", "fill", "content", "padding", "eor", "process"}
       => \A k \in 1..(rec - 1) : NeedsAnswer(k) => Answered(k)
    /\ \A i, j \in 1..Len(replies) : replies[i].rec = replies[j].rec => i = j

\* A request has begun and has not been finished.
Unanswered == isBeginProcessed /\ [kind |-> "end", rec |-> begin] \notin {replies[i] : i \in 1..Len(replies)}

Request == INSTANCE FcgiRequest WITH
    phase <- IF ~ipcOpen THEN "closed"
             ELSE IF pc # "accept" /\ isBeginProcessed THEN "busy" ELSE "idle",
    owed  <- ipcOpen /\ Unanswered,
    trust <- IF ~ipcOpen THEN "sound"
             ELSE IF failed THEN "broken" ELSE IF cleared THEN "waived" ELSE "sound"

\* Once reading from a connection has failed no further request is read from it,
\* unless the application has cleared the error, and no request begins before the
\* one before it was finished: the input side implements FcgiRequest.
ImplementsRequest == Request!Spec

\* A FCGI_GET_VALUES record of complete pairs has been sent and its answer has not.
QueryPending ==
    \E k \in 1..sent : /\ IsManagement(script[k]) /\ script[k].type = "getvalues"
                      /\ script[k].clen % 2 = 0
                      /\ \A i \in 1..Len(replies) : replies[i].rec # k

\* The library waits in OS_Read for a server that may itself be waiting.
Blocked == ipcOpen /\ pc = "fill" /\ pos = lim /\ lim = SentBytes /\ srvOpen

\* "Reads and responds to a management record": the library does not wait for
\* more input while it owes the server the answer to FCGI_GET_VALUES; a server
\* that waits for the answer would wait for ever.
EveryQueryAnswered == Blocked => ~QueryPending

\* A padded FCGI_GET_VALUES record is answered, before and within a request,
\* before the library waits for more input.
QueryAnswered == Supported /\ careful => EveryQueryAnswered
=============================================================================
