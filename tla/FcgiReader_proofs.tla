-------------------------- MODULE FcgiReader_proofs --------------------------
(***************************************************************************)
(* Proofs about the input side of the FastCGI library, for scripts, reads, *)
(* buffers and requests of any length and number.                          *)
(***************************************************************************)
EXTENDS FcgiReader, FiniteSetTheorems, SequenceTheorems, WellFoundedInduction, TLAPS

-----------------------------------------------------------------------------
(* The inductive invariant: control, whatever the server sends.            *)

\* Within FillBuffProc.
Loop == {"fill", "content", "padding", "eor", "process"}

\* Who the bytes of the stream are read for, whatever interrupts it.
Caller == IF eorStop THEN outer ELSE IF pc \in Loop THEN ret ELSE pc

\* The buffer: what is delivered and not taken lies before what is not delivered.
Buffer ==
    /\ pos <= lim /\ stop <= lim
    /\ pc \in Loop => stop <= pos /\ ~isClosed
    /\ pc = "process" => stop = pos /\ headerLen = 0
    /\ pc \notin Loop /\ ~isClosed => pos <= stop
    /\ pc \in {"body", "values"} /\ isClosed => stop <= pos

\* Calls and returns.
Calls ==
    /\ pc # "accept" => ipcOpen
    /\ eorStop <=> ret \in {"body", "values"}
    /\ pc \in {"body", "values", "getstr"} => ret = pc
    /\ pc \notin Loop \cup {"body", "values"} => ~eorStop
    /\ pc = "process" => ~eorStop
    /\ ret = "body" => outer = "accepted"

\* What has been accepted, and which stream is read.
Phases ==
    /\ Caller \in {"params", "app", "getstr"} => isBeginProcessed
    /\ Caller = "accepted" =>
           /\ type = "none"
           /\ pc \in Loop \/ eorStop => ~isBeginProcessed
           /\ isBeginProcessed => ~failed
    /\ Caller = "params" => type = "params"
    /\ Caller \in {"app", "getstr"} => type \in {"stdin", "data"}
    /\ type = "data" => role = "filter"
    /\ ipcOpen /\ failed =>
           /\ pc # "accept"
           /\ ~isBeginProcessed => isClosed /\ pc \notin Loop
           /\ careful /\ type \in {"params", "data"} => isClosed /\ pc \notin Loop

\* The bytes a FCGX_GetStr of the BEGIN body is still to get, unless they are skipped.
Ahead == IF stop > pos THEN stop - pos ELSE 0
Body ==
    /\ ret = "body" => \/ want = contentLen + Ahead
                       \/ want > 0 /\ stop <= pos /\ (skip \/ contentLen = 0)
    /\ ret = "body" /\ skip => want > 0 /\ stop <= pos

Control == TypeOK /\ Buffer /\ Calls /\ Phases /\ Body

-----------------------------------------------------------------------------
(* The inductive invariant: records, answers and bytes received.           *)

\* Where the next header begins or, after it has been read, has begun.
Base == IF pc = "process" THEN pos - HeaderLen ELSE pos - headerLen

\* Where the content of record k begins.
Content(k) == script[k].start + HeaderLen

\* Records that have been answered.
AnsweredRecs == {replies[i].rec : i \in 1..Len(replies)}

\* Records that are known: their headers have been read.
Known == ({rec, begin} \cup AnsweredRecs) \ {0}

Behind ==
    /\ begin <= rec
    /\ \A k \in Known : /\ k \in 1..rec
                        /\ Content(k) <= Base
                        /\ \A t \in StreamTypes : (Content(k) - 1) \notin got[t]
    /\ \A t \in StreamTypes : \A q \in got[t] : q < Base
    /\ \A t, u \in StreamTypes : t # u => got[t] \cap got[u] = {}

\* A header is only begun when the record before it has been passed.
Headers ==
    /\ pc \in {"padding", "eor", "process"} => contentLen = 0
    /\ headerLen > 0 => contentLen = 0 /\ stop <= pos
    /\ eorStop => headerLen = 0

\* A request is being served, or its BEGIN record is being read.
Serving == pc # "accept" /\ (isBeginProcessed \/ ret = "body")

Begun ==
    /\ begin # 0 => GoodBegin(begin) /\ requestId = script[begin].id
    /\ isBeginProcessed \/ ret = "body" => begin # 0
    /\ ret = "body" => begin = rec
    /\ isBeginProcessed => keepConnection = script[begin].keep /\ role = script[begin].role

Answers ==
    /\ \A i, j \in 1..Len(replies) : replies[i].rec = replies[j].rec => i = j
    /\ 0 \notin AnsweredRecs
    /\ \A k \in AnsweredRecs : IsManagement(script[k]) \/ GoodBegin(k)
    /\ Serving => begin \notin AnsweredRecs
    /\ ret = "values" => /\ rec # 0 /\ rec \notin AnsweredRecs
                         /\ IsManagement(script[rec]) /\ script[rec].type = "getvalues"
    /\ pc = "accept" /\ ipcOpen => ~Unanswered

\* The environment: a pair is two bytes of PARAMS.
Environment ==
    /\ params # NoParams => params.cur < params.length
    /\ Caller \in {"params", "app", "getstr"} => params # NoParams
    /\ Caller = "params" => /\ params.cur >= 1
                            /\ IsFiniteSet(got["params"])
                            /\ Cardinality(got["params"])
                                   = 2 * (params.cur - 1) + (IF half["params"] THEN 1 ELSE 0)

\* Streams that have not been reached.
Unreached ==
    /\ type = "none" => got["params"] = {}
    /\ type \in {"none", "params"} => got["stdin"] = {}
    /\ type # "data" => got["data"] = {}
    /\ ~isBeginProcessed => type = "none"

\* What the server has sent, it was allowed to send.
Sending ==
    /\ lim <= SentBytes
    /\ srvOpen => cut = 0
    /\ \A k \in 1..sent : Len(replies) >= script[k].after
    /\ cut > 0 => /\ sent < Len(script)
                  /\ Len(replies) >= script[sent + 1].after
                  /\ cut < End(script[sent + 1]) - script[sent + 1].start

History == Behind /\ Headers /\ Begun /\ Answers /\ Environment /\ Unreached /\ Sending

-----------------------------------------------------------------------------
(* The inductive invariant: a server that is supported, an application     *)
(* that reads to the end.                                                  *)

Good == Supported /\ careful

RecEnd == IF rec = 0 THEN 0 ELSE End(script[rec])

\* The length of the content and of the padding of the current record.
RecClen == IF rec = 0 THEN 0 ELSE script[rec].clen
RecPlen == IF rec = 0 THEN 0 ELSE script[rec].plen

\* The counters account for every byte up to the end e of the current record, whose
\* content is c and whose padding is l bytes long.
Counts(e, c, l) ==
    /\ IF pc = "process" THEN pos = e + HeaderLen
       ELSE (IF stop > pos THEN stop ELSE pos) + contentLen + paddingLen = e + headerLen
    /\ contentLen <= c /\ paddingLen <= l
    /\ contentLen > 0 \/ stop > pos => paddingLen = l
    /\ pc \in {"eor", "process"} => paddingLen = 0
    /\ headerLen > 0 => paddingLen = 0 /\ (failed \/ pc \in Loop)
Accounted == Counts(RecEnd, RecClen, RecPlen)

\* The current record is one of the stream that is read, ...
Own == rec > begin /\ IsStream(script[rec]) /\ script[rec].id = requestId /\ script[rec].type = type

\* ... or it is of another request.
Foreign == GoodBegin(rec) \/ script[rec].id # requestId

\* What the current record is to the stream that is read.
Current ==
    /\ isBeginProcessed /\ skip => contentLen > 0 /\ ~eorStop /\ Foreign
    /\ ret = "body" => paddingLen = 0
    /\ pc = "accepted" /\ isBeginProcessed => contentLen = 0 /\ paddingLen = 0 /\ stop = pos
    /\ isBeginProcessed /\ ~eorStop /\ ~isClosed /\ pc # "accept" =>
           ((contentLen > 0 /\ ~skip) \/ stop > pos => Own)
    /\ pc = "params" /\ isClosed => stop <= pos
    /\ pc \in {"params", "app", "getstr"} /\ isClosed /\ ~failed =>
           Own /\ script[rec].clen = 0 /\ contentLen = 0 /\ paddingLen = 0 /\ stop <= pos
    /\ pc = "accept" => pos = lim /\ stop <= pos /\ contentLen = 0 /\ paddingLen = 0 /\ headerLen = 0

\* The bytes the client has are those of its streams that have been passed.
Exact == isBeginProcessed /\ pc # "accept" =>
             \A t \in StreamTypes : got[t] = {p \in ContentOf(t) : p < pos}

\* The reader is in step with the server, ...
Aligned == Accounted /\ Current /\ Exact

\* ... or has reported an error and is read no more, ...
Dead == failed /\ isClosed /\ pc \in {"accepted", "app", "getstr"}

\* ... or, when an error has ended the environment within a record, in the middle of
\* that record, and will find no header.
Astray ==
    /\ failed /\ type = "stdin" /\ ~eorStop /\ pc \in {"app", "getstr"} \cup Loop
    /\ rec # 0
    /\ contentLen = 0 /\ paddingLen = 0 /\ stop <= pos
    /\ got["stdin"] = {}
    /\ Content(rec) <= Base /\ Base < RecEnd

\* The reader is no longer in step with the server.
Over == Dead \/ Astray \/ ~ipcOpen

Following == Good /\ ipcOpen => Aligned \/ Dead \/ Astray

\* The requests on the connection are those of its owner, one after the other.
Open == IF Serving THEN begin ELSE 0
Turns ==
    /\ Serving => requestId = Owner(script)
    /\ Serving => \A b \in (begin + 1)..rec : ~(GoodBegin(b) /\ script[b].id = requestId)
    /\ ~failed => \A b \in 1..rec :
           GoodBegin(b) /\ script[b].id = Owner(script) /\ b # Open => \E e \in b..rec : EndsInput(script, b, e)
Owned == Good /\ ipcOpen => Turns

\* Record k has its answer, or is the query that is being read.
Settled(k) == k \in AnsweredRecs \/ (k = rec /\ ret = "values")

\* Every record that calls for an answer has it, but the query that is being read.
Answering == \A k \in 1..rec : NeedsAnswer(k) => Settled(k)
AllAnswered == Good /\ ipcOpen => failed \/ Answering

\* A query record of complete pairs.
Query(k) == IsManagement(script[k]) /\ script[k].type = "getvalues" /\ script[k].clen % 2 = 0

\* Every query has its answer, but the one that is being read.
Asked == \A k \in 1..rec : Query(k) => Settled(k)

\* A query that is being read: its padding lies ahead, and the bytes that have been
\* taken are whole pairs, but perhaps for half a pair.
Reading ==
    /\ ~isClosed /\ pc # "eor" => paddingLen > 0
    /\ isClosed => (failed /\ ~srvOpen) \/ (failed /\ type = "stdin") \/ (contentLen = 0 /\ stop <= pos)
    /\ \/ ~half["values"] /\ stop <= pos /\ (skip \/ contentLen = 0)
       \/ ~skip /\ half["values"] = ((script[rec].clen - contentLen - Ahead) % 2 = 1)
    /\ failed /\ type = "params" => ~srvOpen

Queries ==
    /\ Good /\ ipcOpen /\ srvOpen /\ ~Dead => Asked
    /\ Good /\ ret = "values" => Reading

\* What the client has of a stream is a beginning of it.
Beginnings ==
    \A t \in StreamTypes : /\ got[t] \subseteq ContentOf(t)
                           /\ \A q \in got[t], p \in ContentOf(t) : p < q => p \in got[t]

\* Earlier streams are complete.
InTurn ==
    /\ ~failed /\ type \in {"stdin", "data"} => got["params"] = ContentOf("params")
    /\ ~failed /\ type \in {"stdin", "data"} /\ pc # "accept" =>
           params.cur = 1 + Cardinality(ContentOf("params")) \div 2
    /\ type = "data" => got["stdin"] = ContentOf("stdin")

Received == Good => ~misread /\ Beginnings /\ InTurn

IInv == Control /\ History /\ Following /\ Owned /\ AllAnswered /\ Queries /\ Received

-----------------------------------------------------------------------------
(* Operators.                                                              *)

\* The names for groups of variables that an action leaves alone.
USE DEF server, client, request, record, control

\* The smaller of two numbers.
LEMMA SmallerOf ==
    ASSUME NEW a \in Nat, NEW b \in Nat
    PROVE  Min2(a, b) \in Nat /\ Min2(a, b) <= a /\ Min2(a, b) <= b /\ (Min2(a, b) = a \/ Min2(a, b) = b)
BY DEF Min2

\* Every set of natural numbers that is not empty has a least element.
LEMMA LeastElement ==
    ASSUME NEW S \in SUBSET Nat, NEW m \in S
    PROVE  \E n \in S : \A j \in Nat : j < n => j \notin S
<1> DEFINE R == OpToRel(<, Nat)
<1>1. IsWellFoundedOn(R, Nat)
      BY NatLessThanWellFounded
<1>2. PICK n \in S : \A y \in S : ~(<<y, n>> \in R)
  <2> HIDE DEF R
  <2> QED BY <1>1, WFMin
<1>3. \A a, b \in Nat : a < b => <<a, b>> \in R
      BY DEF OpToRel
<1> HIDE DEF R
<1> QED BY <1>2, <1>3

\* PutParam keeps room for the NULL behind the pairs.
LEMMA OnePair ==
    ASSUME NEW p \in [length : Nat, cur : Nat], p.cur < p.length
    PROVE  /\ PutParam(p) \in [length : Nat, cur : Nat]
           /\ PutParam(p).cur = p.cur + 1 /\ PutParam(p).cur < PutParam(p).length
BY DEF PutParam

\* The recursive function of PutParams exists.
LEMMA PairsDefined ==
    ASSUME NEW p, NEW n \in Nat
    PROVE  \E f : f = [k \in 0..n |-> IF k = 0 THEN p ELSE PutParam(f[k - 1])]
<1> DEFINE Put(f, m) == f = [k \in 0..m |-> IF k = 0 THEN p ELSE PutParam(f[k - 1])]
           Missing == {m \in Nat : ~\E f : Put(f, m)}
<1>1. ASSUME NEW x \in Missing PROVE FALSE
  <2>1. PICK m \in Missing : \A j \in Nat : j < m => j \notin Missing
        BY <1>1, LeastElement
  <2>2. CASE m = 0
    <3> DEFINE f == [k \in 0..0 |-> p]
    <3>1. \A k \in 0..0 : k = 0
          OBVIOUS
    <3>2. f = [k \in 0..0 |-> IF k = 0 THEN p ELSE PutParam(f[k - 1])]
          BY <3>1
    <3> QED BY <2>1, <2>2, <3>2
  <2>3. CASE m # 0
    <3>1. m - 1 \in Nat /\ m - 1 < m /\ m \in Nat
          BY <2>1, <2>3
    <3>2. PICK f : Put(f, m - 1)
          BY <2>1, <3>1
    <3> DEFINE g == [k \in 0..m |-> IF k < m THEN f[k] ELSE PutParam(f[m - 1])]
    <3>3. ASSUME NEW k \in 0..m PROVE g[k] = IF k = 0 THEN p ELSE PutParam(g[k - 1])
      <4>1. CASE k = 0
        <5>1. g[0] = f[0] /\ 0 \in 0..(m - 1)
              BY <3>1, <2>3
        <5>2. f[0] = p
              BY <3>2, <5>1
        <5> QED BY <4>1, <5>1, <5>2
      <4>2. CASE k # 0 /\ k < m
        <5>1. k \in 0..(m - 1) /\ k - 1 \in 0..(m - 1) /\ k - 1 \in 0..m /\ k - 1 < m
              BY <4>2, <3>1
        <5>2. g[k] = f[k] /\ g[k - 1] = f[k - 1]
              BY <5>1, <4>2
        <5>3. f[k] = PutParam(f[k - 1])
              BY <3>2, <5>1, <4>2
        <5> QED BY <5>2, <5>3, <4>2
      <4>3. CASE k = m
        <5>1. m - 1 \in 0..m /\ m - 1 < m
              BY <3>1
        <5>2. g[m - 1] = f[m - 1] /\ g[m] = PutParam(f[m - 1])
              BY <5>1, <3>1
        <5> QED BY <4>3, <5>2, <2>3
      <4> QED BY <4>1, <4>2, <4>3, <3>1
    <3>4. g = [k \in 0..m |-> IF k = 0 THEN p ELSE PutParam(g[k - 1])]
      <4> HIDE DEF g
      <4>1. g = [k \in 0..m |-> g[k]]
            BY DEF g
      <4> QED BY <3>3, <4>1
    <3> QED BY <2>1, <3>4
  <2> QED BY <2>2, <2>3
<1>2. n \notin Missing
      BY <1>1
<1> QED BY <1>2

\* What is read in one go: as many pairs more, and still room for the NULL.
LEMMA ManyPairs ==
    ASSUME NEW p \in [length : Nat, cur : Nat], p.cur < p.length, NEW n \in Nat
    PROVE  /\ PutParams(p, n) \in [length : Nat, cur : Nat]
           /\ PutParams(p, n).cur = p.cur + n /\ PutParams(p, n).cur < PutParams(p, n).length
<1> DEFINE put == CHOOSE f : f = [k \in 0..n |-> IF k = 0 THEN p ELSE PutParam(f[k - 1])]
           Right(k) == /\ put[k] \in [length : Nat, cur : Nat]
                       /\ put[k].cur = p.cur + k /\ put[k].cur < put[k].length
           Wrong == {k \in 0..n : ~Right(k)}
<1>1. put = [k \in 0..n |-> IF k = 0 THEN p ELSE PutParam(put[k - 1])]
  <2>1. \E f : f = [k \in 0..n |-> IF k = 0 THEN p ELSE PutParam(f[k - 1])]
        BY PairsDefined, ZenonT(30)
  <2> QED BY <2>1, Zenon
<1>2. PutParams(p, n) = put[n]
      BY DEF PutParams
<1> HIDE DEF put
<1>3. ASSUME NEW x \in Wrong PROVE FALSE
  <2>1. Wrong \in SUBSET Nat
        OBVIOUS
  <2>2. PICK k \in Wrong : \A j \in Nat : j < k => j \notin Wrong
        BY <1>3, <2>1, LeastElement
  <2>3. CASE k = 0
    <3>1. put[0] = p
          BY <1>1, <2>3
    <3> QED BY <2>2, <2>3, <3>1
  <2>4. CASE k # 0
    <3>1. k \in 0..n /\ k - 1 \in 0..n /\ k - 1 \in Nat /\ k - 1 < k
          BY <2>4
    <3>2. Right(k - 1)
          BY <2>2, <3>1
    <3>3. put[k] = PutParam(put[k - 1])
          BY <1>1, <2>4, <3>1
    <3>4. Right(k)
          BY <3>1, <3>2, <3>3, OnePair
    <3> QED BY <2>2, <3>4
  <2> QED BY <2>3, <2>4
<1>4. Right(n)
      BY <1>3
<1> QED BY <1>2, <1>4

-----------------------------------------------------------------------------
(* Types.                                                                  *)

\* The records of a script.
LEMMA ScriptRecords ==
    ASSUME NEW s \in Scripts
    PROVE  /\ s \in Seq(Records) /\ Len(s) \in Nat /\ Len(s) >= 1 /\ IsScript(s)
           /\ \A k \in 1..Len(s) : /\ s[k] \in Records
                                   /\ s[k].clen \in Nat /\ s[k].plen \in Nat /\ s[k].start \in Nat
                                   /\ s[k].id \in Nat /\ s[k].after \in Nat /\ s[k].keep \in BOOLEAN
                                   /\ s[k].type \in RecordTypes /\ s[k].role \in {"responder", "filter", "bad"}
                                   /\ End(s[k]) \in Nat
<1>1. s \in Seq(Records) /\ IsScript(s)
      BY ScriptsAssumption
<1>2. Len(s) \in Nat /\ \A k \in 1..Len(s) : s[k] \in Records
      BY <1>1
<1>3. ASSUME NEW r \in Records
      PROVE  /\ r.clen \in Nat /\ r.plen \in Nat /\ r.start \in Nat
             /\ r.id \in Nat /\ r.after \in Nat /\ r.keep \in BOOLEAN
             /\ r.type \in RecordTypes /\ r.role \in {"responder", "filter", "bad"}
             /\ End(r) \in Nat
      BY LengthsAssumption DEF Records, End
<1> QED BY <1>1, <1>2, <1>3 DEF IsScript

\* An answer joins the others.
LEMMA OneMore ==
    ASSUME TypeOK, NEW kind \in {"end", "cant_mpx", "values", "unknown_type"}, NEW k \in 0..Len(script), Reply(kind, k)
    PROVE  /\ replies' \in Seq(Replies)
           /\ Len(replies') = Len(replies) + 1
           /\ replies'[Len(replies) + 1] = [kind |-> kind, rec |-> k]
           /\ \A i \in 1..Len(replies) : replies'[i] = replies[i]
<1>1. [kind |-> kind, rec |-> k] \in Replies
  <2>1. Len(script) \in Nat
        BY ScriptRecords DEF TypeOK
  <2> QED BY <2>1 DEF Replies
<1>2. replies \in Seq(Replies) /\ replies' = Append(replies, [kind |-> kind, rec |-> k])
      BY DEF TypeOK, Reply
<1>3. PICK r \in Replies : r = [kind |-> kind, rec |-> k]
      BY <1>1
<1>4. replies' = Append(replies, r)
      BY <1>2, <1>3
<1>5. replies' \in Seq(Replies) /\ Len(replies') = Len(replies) + 1 /\ replies'[Len(replies) + 1] = r
           /\ \A i \in 1..Len(replies) : replies'[i] = replies[i]
      BY <1>2, <1>4
<1> QED BY <1>3, <1>5

\* The constants of the environment.
LEMMA NoPairType == NoPair \in [{"params", "values"} -> BOOLEAN] /\ ~NoPair["params"] /\ ~NoPair["values"]
<1>1. PICK no : no = FALSE /\ no \in BOOLEAN
      OBVIOUS
<1>2. NoPair = [params |-> no, values |-> no]
      BY <1>1 DEF NoPair
<1>3. NoPair \in [params : BOOLEAN, values : BOOLEAN]
      BY <1>1, <1>2
<1> QED BY <1>1, <1>2, <1>3

\* A new environment has room for the role, the next pair and the NULL.
LEMMA FirstPair ==
    /\ NewParams(ParamsLen) \in [length : Nat, cur : Nat]
    /\ PutParam(NewParams(ParamsLen)) \in [length : Nat, cur : Nat]
    /\ PutParam(NewParams(ParamsLen)).cur = 1
    /\ PutParam(NewParams(ParamsLen)).cur < PutParam(NewParams(ParamsLen)).length
BY OnePair, ParamsAssumption DEF NewParams

\* ReadParams adds the pairs it completes to the environment.
LEMMA EnvironmentGrows ==
    ASSUME TypeOK, Buffer, Calls, Environment, Params_Take
    PROVE  /\ params' \in [length : Nat, cur : Nat]
           /\ PairsTaken \in Nat
           /\ params'.cur = params.cur + PairsTaken /\ params'.cur < params'.length
<1>1. stop - pos \in Nat /\ stop - pos > 0 /\ pc = "params" /\ params' = PutParams(params, PairsTaken)
      BY DEF TypeOK, Params_Take, TakePairs
<1>2. PairsTaken \in Nat
      BY <1>1 DEF PairsTaken
<1>3. params \in [length : Nat, cur : Nat] /\ params.cur < params.length
      BY <1>1 DEF TypeOK, Environment, Caller, Calls, Loop
<1> QED BY <1>1, <1>2, <1>3, ManyPairs

\* What is taken from the buffer is in it.
LEMMA InBuffer ==
    ASSUME TypeOK, Buffer, NEW x \in Nat
    PROVE  /\ Min2(x, lim - pos) \in Nat /\ Min2(x, lim - pos) <= x /\ Min2(x, lim - pos) <= lim - pos
           /\ Min2(x, lim - pos) = x \/ Min2(x, lim - pos) = lim - pos
BY DEF TypeOK, Buffer, Min2

\* A header is loaded.
LEMMA Loaded ==
    ASSUME TypeOK, NEW k \in 1..Len(script), LoadHeader(k)
    PROVE  contentLen' \in Nat /\ paddingLen' \in Nat /\ rec' \in 0..Len(script)
<1>1. script \in Scripts
      BY DEF TypeOK
<1>2. Len(script) \in Nat /\ script[k].clen \in Nat /\ script[k].plen \in Nat
      BY <1>1, ScriptRecords
<1> QED BY <1>2 DEF LoadHeader

\* Every step keeps the types.
LEMMA TypeNext == TypeOK /\ Buffer /\ Calls /\ Phases /\ Environment /\ Begun /\ [Next]_vars => TypeOK'
<1> SUFFICES ASSUME TypeOK, Buffer, Calls, Phases, Environment, Begun, [Next]_vars PROVE TypeOK'
      OBVIOUS
<1> USE LengthsAssumption
<1>0. \A k \in 1..Len(script) : k \in 0..Len(script)
      BY ScriptRecords DEF TypeOK
<1>1. CASE UNCHANGED vars
      BY <1>1 DEF vars, TypeOK
<1>2. CASE ServerSend
      BY <1>2 DEF ServerSend, TypeOK
<1>3. CASE ServerCrash
  <2>1. UNCHANGED <<script, sent, conns, client, replies, request, type, pos, lim, stop,
     stopUnget, record, eorStop, isClosed, failed, pc, control, got, misread>>
        BY <1>3 DEF ServerCrash
  <2>2. srvOpen' \in BOOLEAN
        BY <1>3, <2>1, ScriptRecords DEF ServerCrash, TypeOK
  <2>3. cut' \in Nat
        BY <1>3, <2>1, ScriptRecords DEF ServerCrash, TypeOK
  <2> QED BY <2>1, <2>2, <2>3 DEF TypeOK
<1>4. CASE Fill_Read
      BY <1>4 DEF Fill_Read, Min2, TypeOK, Places, Readers
<1>5. CASE Fill_ReadEnd
      BY <1>5 DEF Fill_ReadEnd, FillError, TypeOK, Places, Readers
<1>6. CASE Fill_NotEmpty
      BY <1>6 DEF Fill_NotEmpty, TypeOK, Places, Readers
<1>7. CASE Fill_Deliver
      BY <1>7 DEF Fill_Deliver, Min2, TypeOK, Places, Readers
<1>8. CASE Fill_Skip
      BY <1>8 DEF Fill_Skip, Min2, TypeOK, Places, Readers
<1>9. CASE Fill_NoContent
      BY <1>9 DEF Fill_NoContent, TypeOK, Places, Readers
<1>10. CASE Fill_Padding
      BY <1>10 DEF Fill_Padding, Min2, TypeOK, Places, Readers
<1>11. CASE Fill_EndOfRecord
      BY <1>11 DEF Fill_EndOfRecord, TypeOK, Places, Readers
<1>12. CASE Fill_Header
  <2>1. UNCHANGED <<server, client, replies, request, type, lim, stopUnget, contentLen,
     paddingLen, skip, rec, eorStop, isClosed, failed, control, got, misread>>
        BY <1>12 DEF Fill_Header
  <2>2. pos' \in Nat /\ stop' \in Nat /\ pc' \in Places
        BY <1>12, <2>1 DEF Fill_Header, Min2, TypeOK, Places, Readers
  <2>3. headerLen' \in 0..(HeaderLen - 1)
    <3>1. HeaderLen - headerLen \in Nat
          BY DEF TypeOK
    <3>2. /\ Min2(HeaderLen - headerLen, lim - pos) \in Nat
          /\ Min2(HeaderLen - headerLen, lim - pos) <= HeaderLen - headerLen
          BY <3>1 DEF TypeOK, Buffer, Min2
    <3>3. PICK c \in Nat : c = Min2(HeaderLen - headerLen, lim - pos)
          BY <3>2
    <3>4. headerLen' = IF headerLen + c < HeaderLen THEN headerLen + c ELSE 0
          BY <1>12, <3>3 DEF Fill_Header
    <3>5. headerLen \in Nat
          BY DEF TypeOK
    <3> QED BY <3>3, <3>4, <3>5
  <2> QED BY <2>1, <2>2, <2>3 DEF TypeOK
<1>13. CASE Header_Misread
      BY <1>13 DEF Header_Misread, FillError, AtHeader, TypeOK, Places, Readers
<1>14. ASSUME NEW k \in 1..Len(script), Header_BadBegin(k) PROVE TypeOK'
  <2>1. UNCHANGED <<server, client, replies, request, type, pos, lim, stop, stopUnget, skip,
     headerLen, eorStop, control, got, misread>>
        BY <1>14 DEF Header_BadBegin
  <2>2. isClosed' \in BOOLEAN /\ failed' \in BOOLEAN
        BY <1>14, <2>1, ScriptRecords DEF Header_BadBegin, FillError, AtHeader, LoadHeader, TypeOK
  <2>3. contentLen' \in Nat /\ paddingLen' \in Nat /\ rec' \in 0..Len(script')
        BY <1>14, <2>1, Loaded DEF Header_BadBegin
  <2>4. pc' \in Places
        BY <1>14, <2>1, ScriptRecords DEF Header_BadBegin, FillError, AtHeader, LoadHeader, TypeOK,
          Places, Readers
  <2> QED BY <2>1, <2>2, <2>3, <2>4 DEF TypeOK
<1>15. ASSUME NEW k \in 1..Len(script), Header_Multiplexed(k) PROVE TypeOK'
  <2>1. UNCHANGED <<server, client, request, type, pos, lim, stop, stopUnget, headerLen,
     eorStop, failed, control, got, misread>>
        BY <1>15 DEF Header_Multiplexed
  <2>2. skip' \in BOOLEAN /\ isClosed' \in BOOLEAN
        BY <1>15, <2>1, ScriptRecords, OneMore DEF Header_Multiplexed, AtHeader, LoadHeader, TypeOK
  <2>3. contentLen' \in Nat /\ paddingLen' \in Nat /\ rec' \in 0..Len(script')
        BY <1>15, <2>1, Loaded DEF Header_Multiplexed
  <2>4. pc' \in Places
        BY <1>15, <2>1, ScriptRecords, OneMore DEF Header_Multiplexed, AtHeader, LoadHeader, TypeOK,
          Places, Readers
  <2>5. replies' \in Seq(Replies)
        BY <1>15, <1>0, OneMore DEF Header_Multiplexed
  <2> QED BY <2>1, <2>2, <2>3, <2>4, <2>5 DEF TypeOK
<1>16. ASSUME NEW k \in 1..Len(script), Header_Begin(k) PROVE TypeOK'
  <2>1. UNCHANGED <<server, client, replies, ipcOpen, isBeginProcessed, keepConnection,
     role, type, pos, lim, stop, stopUnget, skip, headerLen, isClosed, failed, half, got,
     misread>>
        BY <1>16 DEF Header_Begin
  <2>2. eorStop' \in BOOLEAN
        BY <1>16, <2>1, ScriptRecords DEF Header_Begin, AtHeader, LoadHeader, TypeOK
  <2>3. requestId' \in Nat /\ begin' \in 0..Len(script') /\ contentLen' \in Nat /\
     paddingLen' \in Nat /\ rec' \in 0..Len(script') /\ ret' \in Readers \cup {"body",
     "values"} /\ want' \in Nat /\ pc' \in Places
        BY <1>16, <2>1, ScriptRecords, SMTT(30) DEF Header_Begin, AtHeader, LoadHeader, TypeOK,
          Places, Readers
  <2>4. outer' \in Readers
        BY <1>16 DEF Header_Begin, TypeOK, Calls, Readers
  <2> QED BY <2>1, <2>2, <2>3, <2>4 DEF TypeOK
<1>17. ASSUME NEW k \in 1..Len(script), Header_GetValues(k) PROVE TypeOK'
  <2>1. UNCHANGED <<server, client, replies, request, type, pos, lim, stop, stopUnget, skip,
     headerLen, isClosed, failed, want, got, misread>>
        BY <1>17 DEF Header_GetValues
  <2>2. eorStop' \in BOOLEAN
        BY <1>17, <2>1, ScriptRecords DEF Header_GetValues, AtHeader, LoadHeader, TypeOK
  <2>3. contentLen' \in Nat /\ paddingLen' \in Nat /\ rec' \in 0..Len(script')
        BY <1>17, <2>1, Loaded DEF Header_GetValues
  <2>4. ret' \in Readers \cup {"body", "values"} /\ half' \in [{"params", "values"} ->
     BOOLEAN] /\ pc' \in Places
        BY <1>17, <2>1, ScriptRecords DEF Header_GetValues, AtHeader, LoadHeader, TypeOK, Places,
          Readers
  <2>5. outer' \in Readers
        BY <1>17 DEF Header_GetValues, TypeOK, Calls, Readers
  <2> QED BY <2>1, <2>2, <2>3, <2>4, <2>5 DEF TypeOK
<1>18. ASSUME NEW k \in 1..Len(script), Header_UnknownManagement(k) PROVE TypeOK'
  <2>1. UNCHANGED <<server, client, request, type, pos, lim, stop, stopUnget, skip,
     headerLen, eorStop, failed, control, got, misread>>
        BY <1>18 DEF Header_UnknownManagement
  <2>2. isClosed' \in BOOLEAN
        BY <1>18, <2>1, ScriptRecords, OneMore DEF Header_UnknownManagement, AtHeader, LoadHeader,
          TypeOK
  <2>3. contentLen' \in Nat /\ paddingLen' \in Nat /\ rec' \in 0..Len(script')
        BY <1>18, <2>1, Loaded DEF Header_UnknownManagement
  <2>4. pc' \in Places
        BY <1>18, <2>1, ScriptRecords, OneMore DEF Header_UnknownManagement, AtHeader, LoadHeader,
          TypeOK, Places, Readers
  <2>5. replies' \in Seq(Replies)
        BY <1>18, <1>0, OneMore DEF Header_UnknownManagement
  <2> QED BY <2>1, <2>2, <2>3, <2>4, <2>5 DEF TypeOK
<1>19. ASSUME NEW k \in 1..Len(script), Header_ReplyFails(k) PROVE TypeOK'
  <2>1. UNCHANGED <<server, client, replies, request, type, pos, lim, stop, stopUnget, skip,
     headerLen, eorStop, control, got, misread>>
        BY <1>19 DEF Header_ReplyFails
  <2>2. isClosed' \in BOOLEAN /\ failed' \in BOOLEAN
        BY <1>19, <2>1, ScriptRecords DEF Header_ReplyFails, FillError, AtHeader, LoadHeader, TypeOK
  <2>3. contentLen' \in Nat /\ paddingLen' \in Nat /\ rec' \in 0..Len(script')
        BY <1>19, <2>1, Loaded DEF Header_ReplyFails
  <2>4. pc' \in Places
        BY <1>19, <2>1, ScriptRecords DEF Header_ReplyFails, FillError, AtHeader, LoadHeader,
          TypeOK, Places, Readers
  <2> QED BY <2>1, <2>2, <2>3, <2>4 DEF TypeOK
<1>20. ASSUME NEW k \in 1..Len(script), Header_OtherRequest(k) PROVE TypeOK'
  <2>1. UNCHANGED <<server, client, replies, request, type, pos, lim, stop, stopUnget,
     headerLen, eorStop, failed, control, got, misread>>
        BY <1>20 DEF Header_OtherRequest
  <2>2. skip' \in BOOLEAN /\ isClosed' \in BOOLEAN
        BY <1>20, <2>1, ScriptRecords DEF Header_OtherRequest, AtHeader, LoadHeader, TypeOK
  <2>3. contentLen' \in Nat /\ paddingLen' \in Nat /\ rec' \in 0..Len(script')
        BY <1>20, <2>1, Loaded DEF Header_OtherRequest
  <2>4. pc' \in Places
        BY <1>20, <2>1, ScriptRecords DEF Header_OtherRequest, AtHeader, LoadHeader, TypeOK, Places,
          Readers
  <2> QED BY <2>1, <2>2, <2>3, <2>4 DEF TypeOK
<1>21. ASSUME NEW k \in 1..Len(script), Header_WrongType(k) PROVE TypeOK'
  <2>1. UNCHANGED <<server, client, replies, request, type, pos, lim, stop, stopUnget, skip,
     headerLen, eorStop, control, got, misread>>
        BY <1>21 DEF Header_WrongType
  <2>2. isClosed' \in BOOLEAN /\ failed' \in BOOLEAN
        BY <1>21, <2>1, ScriptRecords DEF Header_WrongType, FillError, AtHeader, LoadHeader, TypeOK
  <2>3. contentLen' \in Nat /\ paddingLen' \in Nat /\ rec' \in 0..Len(script')
        BY <1>21, <2>1, Loaded DEF Header_WrongType
  <2>4. pc' \in Places
        BY <1>21, <2>1, ScriptRecords DEF Header_WrongType, FillError, AtHeader, LoadHeader, TypeOK,
          Places, Readers
  <2> QED BY <2>1, <2>2, <2>3, <2>4 DEF TypeOK
<1>22. ASSUME NEW k \in 1..Len(script), Header_Stream(k) PROVE TypeOK'
  <2>1. UNCHANGED <<server, client, replies, request, type, pos, lim, stop, stopUnget, skip,
     headerLen, eorStop, failed, control, got, misread>>
        BY <1>22 DEF Header_Stream
  <2>2. isClosed' \in BOOLEAN
        BY <1>22, <2>1, ScriptRecords DEF Header_Stream, AtHeader, LoadHeader, TypeOK
  <2>3. contentLen' \in Nat /\ paddingLen' \in Nat /\ rec' \in 0..Len(script')
        BY <1>22, <2>1, Loaded DEF Header_Stream
  <2>4. pc' \in Places
        BY <1>22, <2>1, ScriptRecords DEF Header_Stream, AtHeader, LoadHeader, TypeOK, Places,
          Readers
  <2> QED BY <2>1, <2>2, <2>3, <2>4 DEF TypeOK
<1>23. CASE Body_Complete
  <2>0. begin \in 1..Len(script) /\ script \in Scripts
        BY <1>23 DEF Body_Complete, TypeOK, Calls, Begun
  <2>1. UNCHANGED <<server, client, replies, ipcOpen, requestId, begin, type, lim, stop,
     stopUnget, record, failed, outer, half, got, misread>>
        BY <1>23 DEF Body_Complete
  <2>2. isBeginProcessed' \in BOOLEAN /\ keepConnection' \in BOOLEAN /\ eorStop' \in BOOLEAN
     /\ isClosed' \in BOOLEAN
        BY <1>23, <2>0, ScriptRecords DEF Body_Complete, TypeOK
  <2>3. ret' \in Readers \cup {"body", "values"} /\ want' \in Nat /\ pos' \in Nat /\ pc' \in
     Places
        BY <1>23, <2>1, ScriptRecords DEF Body_Complete, TypeOK, Places, Readers
  <2>4. role' \in {"responder", "filter", "bad"}
        BY <1>23, <2>0, ScriptRecords DEF Body_Complete, TypeOK
  <2> QED BY <2>1, <2>2, <2>3, <2>4 DEF TypeOK
<1>24. CASE Body_More
      BY <1>24 DEF Body_More, TypeOK, Places, Readers
<1>25. CASE Body_Short
  <2>1. UNCHANGED <<server, client, replies, request, type, pos, lim, stop, stopUnget,
     record, outer, half, got, misread>>
        BY <1>25 DEF Body_Short
  <2>2. eorStop' \in BOOLEAN /\ isClosed' \in BOOLEAN /\ failed' \in BOOLEAN
        BY <1>25, <2>1 DEF Body_Short, TypeOK
  <2>3. ret' \in Readers \cup {"body", "values"} /\ want' \in Nat /\ pc' \in Places
        BY <1>25, <2>1 DEF Body_Short, TypeOK, Places, Readers
  <2> QED BY <2>1, <2>2, <2>3 DEF TypeOK
<1>26. CASE Values_Take
      BY <1>26 DEF Values_Take, TakePairs, TypeOK
<1>27. CASE Values_More
      BY <1>27 DEF Values_More, TypeOK, Places, Readers
<1>28. CASE Values_Answer
  <2>1. UNCHANGED <<server, client, request, type, pos, lim, stop, stopUnget, record,
     failed, outer, want, half, got, misread>>
        BY <1>28 DEF Values_Answer
  <2>2. eorStop' \in BOOLEAN /\ isClosed' \in BOOLEAN
        BY <1>28, <2>1, OneMore DEF Values_Answer, TypeOK
  <2>3. ret' \in Readers \cup {"body", "values"} /\ pc' \in Places
        BY <1>28, <2>1, OneMore DEF Values_Answer, TypeOK, Places, Readers
  <2>4. replies' \in Seq(Replies)
        BY <1>28, OneMore DEF Values_Answer, TypeOK
  <2> QED BY <2>1, <2>2, <2>3, <2>4 DEF TypeOK
<1>29. CASE Values_Fail
  <2>1. UNCHANGED <<server, client, replies, request, type, pos, lim, stop, stopUnget,
     record, outer, want, half, got, misread>>
        BY <1>29 DEF Values_Fail
  <2>2. eorStop' \in BOOLEAN /\ isClosed' \in BOOLEAN /\ failed' \in BOOLEAN
        BY <1>29, <2>1 DEF Values_Fail, TypeOK
  <2>3. ret' \in Readers \cup {"body", "values"} /\ pc' \in Places
        BY <1>29, <2>1 DEF Values_Fail, TypeOK, Places, Readers
  <2> QED BY <2>1, <2>2, <2>3 DEF TypeOK
<1>30. ASSUME NEW s \in Scripts, Accept_New(s) PROVE TypeOK'
  <2>1. UNCHANGED <<careful, params, requestId, keepConnection, role>>
        BY <1>30 DEF Accept_New
  <2>2. srvOpen' \in BOOLEAN /\ cleared' \in BOOLEAN /\ wasFCloseCalled' \in BOOLEAN /\
     ipcOpen' \in BOOLEAN /\ isBeginProcessed' \in BOOLEAN /\ skip' \in BOOLEAN /\ eorStop'
     \in BOOLEAN /\ isClosed' \in BOOLEAN /\ failed' \in BOOLEAN /\ misread' \in BOOLEAN
        BY <1>30, <2>1, ScriptRecords DEF Accept_New, NewReader, NoPair, TypeOK
  <2>3. script' \in Scripts /\ sent' \in 0..Len(script') /\ cut' \in Nat /\ conns' \in Nat
     /\ begin' \in 0..Len(script') /\ contentLen' \in Nat /\ paddingLen' \in Nat /\
     headerLen' \in 0..(HeaderLen - 1) /\ rec' \in 0..Len(script') /\ ret' \in Readers \cup
     {"body", "values"} /\ outer' \in Readers /\ want' \in Nat /\ replies' \in Seq(Replies)
     /\ type' \in StreamTypes \cup {"none"} /\ pos' \in Nat /\ lim' \in Nat /\ stop' \in Nat
     /\ stopUnget' \in Nat /\ pc' \in Places /\ got' \in [StreamTypes -> SUBSET Nat]
        BY <1>30, <2>1, ScriptRecords DEF Accept_New, NewReader, NoPair, TypeOK, Places, Readers
  <2>4. half' \in [{"params", "values"} -> BOOLEAN]
        BY <1>30, NoPairType DEF Accept_New
  <2> QED BY <2>1, <2>2, <2>3, <2>4 DEF TypeOK
<1>31. CASE Accept_Kept
  <2>1. UNCHANGED <<server, careful, cleared, params, replies, ipcOpen, requestId,
     keepConnection, role, lim, outer, want, half, rec, misread>>
        BY <1>31 DEF Accept_Kept
  <2>2. wasFCloseCalled' \in BOOLEAN /\ isBeginProcessed' \in BOOLEAN /\ skip' \in BOOLEAN
     /\ eorStop' \in BOOLEAN /\ isClosed' \in BOOLEAN /\ failed' \in BOOLEAN
        BY <1>31, <2>1 DEF Accept_Kept, NewReader, TypeOK
  <2>3. begin' \in 0..Len(script') /\ contentLen' \in Nat /\ paddingLen' \in Nat /\
     headerLen' \in 0..(HeaderLen - 1) /\ ret' \in Readers \cup {"body", "values"} /\ type'
     \in StreamTypes \cup {"none"} /\ pos' \in Nat /\ stop' \in Nat /\ stopUnget' \in Nat /\
     pc' \in Places /\ got' \in [StreamTypes -> SUBSET Nat]
        BY <1>31, <2>1 DEF Accept_Kept, NewReader, TypeOK, Places, Readers
  <2> QED BY <2>1, <2>2, <2>3 DEF TypeOK
<1>32. CASE Accepted_Refuse
  <2>1. UNCHANGED <<server, careful, cleared, wasFCloseCalled, replies, isBeginProcessed,
     requestId, keepConnection, role, begin, type, pos, lim, stop, stopUnget, record,
     eorStop, isClosed, failed, control, got, misread>>
        BY <1>32 DEF Accepted_Refuse, TryAgain
  <2>2. ipcOpen' \in BOOLEAN
        BY <1>32, <2>1 DEF Accepted_Refuse, TryAgain, NoParams, TypeOK
  <2>3. params' \in [length : Nat, cur : Nat] /\ pc' \in Places
        BY <1>32, <2>1 DEF Accepted_Refuse, TryAgain, NoParams, TypeOK, Places, Readers
  <2> QED BY <2>1, <2>2, <2>3 DEF TypeOK
<1>33. CASE Accepted_Begin
  <2>1. UNCHANGED <<server, careful, cleared, wasFCloseCalled, replies, request, pos, lim,
     stopUnget, headerLen, rec, failed, ret, outer, want, got, misread>>
        BY <1>33 DEF Accepted_Begin
  <2>2. skip' \in BOOLEAN /\ eorStop' \in BOOLEAN /\ isClosed' \in BOOLEAN
        BY <1>33, <2>1 DEF Accepted_Begin, SetReaderType, NoPair, NewParams, PutParam, TypeOK
  <2>3. contentLen' \in Nat /\ paddingLen' \in Nat /\ stop' \in Nat /\ pc' \in Places
        BY <1>33, <2>1 DEF Accepted_Begin, SetReaderType, NoPair, NewParams, PutParam, TypeOK,
          Places, Readers
  <2>4. params' \in [length : Nat, cur : Nat]
        BY <1>33, FirstPair DEF Accepted_Begin
  <2>5. half' \in [{"params", "values"} -> BOOLEAN]
        BY <1>33, NoPairType DEF Accepted_Begin
  <2>6. type' \in StreamTypes \cup {"none"}
        BY <1>33 DEF Accepted_Begin, SetReaderType, StreamTypes
  <2> QED BY <2>1, <2>2, <2>3, <2>4, <2>5, <2>6 DEF TypeOK
<1>34. CASE Params_Take
  <2>1. UNCHANGED <<server, careful, cleared, wasFCloseCalled, replies, request, type, lim,
     stop, stopUnget, record, eorStop, isClosed, failed, pc, ret, outer, want, misread>>
        BY <1>34 DEF Params_Take
  <2>2. half' \in [{"params", "values"} -> BOOLEAN] /\ pos' \in Nat
        BY <1>34, <2>1, ManyPairs DEF Params_Take, TakePairs, TypeOK
  <2>3. params' \in [length : Nat, cur : Nat]
        BY <1>34, EnvironmentGrows
  <2>4. got' \in [StreamTypes -> SUBSET Nat]
        BY <1>34 DEF Params_Take, TakePairs, TypeOK, StreamTypes
  <2> QED BY <2>1, <2>2, <2>3, <2>4 DEF TypeOK
<1>35. CASE Params_More
      BY <1>35 DEF Params_More, TypeOK, Places, Readers
<1>36. CASE Params_Error
  <2>1. UNCHANGED <<server, careful, cleared, wasFCloseCalled, replies, isBeginProcessed,
     requestId, keepConnection, role, begin, type, pos, lim, stop, stopUnget, record,
     eorStop, isClosed, failed, control, got, misread>>
        BY <1>36 DEF Params_Error, TryAgain
  <2>2. ipcOpen' \in BOOLEAN
        BY <1>36, <2>1 DEF Params_Error, TryAgain, NoParams, TypeOK
  <2>3. params' \in [length : Nat, cur : Nat] /\ pc' \in Places
        BY <1>36, <2>1 DEF Params_Error, TryAgain, NoParams, TypeOK, Places, Readers
  <2> QED BY <2>1, <2>2, <2>3 DEF TypeOK
<1>37. CASE Params_Complete
  <2>1. UNCHANGED <<server, client, replies, request, pos, lim, stopUnget, headerLen, rec,
     failed, control, got, misread>>
        BY <1>37 DEF Params_Complete
  <2>2. skip' \in BOOLEAN /\ eorStop' \in BOOLEAN /\ isClosed' \in BOOLEAN
        BY <1>37, <2>1 DEF Params_Complete, SetReaderType, TypeOK
  <2>3. contentLen' \in Nat /\ paddingLen' \in Nat /\ stop' \in Nat /\ pc' \in Places
        BY <1>37, <2>1 DEF Params_Complete, SetReaderType, TypeOK, Places, Readers
  <2>4. type' \in StreamTypes \cup {"none"}
        BY <1>37 DEF Params_Complete, SetReaderType, StreamTypes
  <2> QED BY <2>1, <2>2, <2>3, <2>4 DEF TypeOK
<1>38. ASSUME NEW n \in 1..MaxGet, FCGX_GetStr(n) PROVE TypeOK'
      BY <1>38 DEF FCGX_GetStr, TypeOK, Places, Readers
<1>39. CASE FCGX_UnGetChar
  <2>0. got[type] \in SUBSET Nat
        BY <1>39 DEF FCGX_UnGetChar, Phases, Calls, Caller, Loop, TypeOK, StreamTypes
  <2>1. UNCHANGED <<server, client, replies, request, type, lim, stop, stopUnget, record,
     eorStop, isClosed, failed, pc, control, misread>>
        BY <1>39 DEF FCGX_UnGetChar
  <2>2. got' \in [StreamTypes -> SUBSET Nat]
        BY <1>39, <2>1 DEF FCGX_UnGetChar, TypeOK
  <2>3. pos' \in Nat
        BY <1>39, <2>0 DEF FCGX_UnGetChar, TypeOK
  <2> QED BY <2>1, <2>2, <2>3 DEF TypeOK
<1>40. CASE FCGX_StartFilterData
  <2>1. UNCHANGED <<server, client, replies, request, pos, lim, stopUnget, headerLen, rec,
     pc, control, got, misread>>
        BY <1>40 DEF FCGX_StartFilterData
  <2>2. skip' \in BOOLEAN /\ eorStop' \in BOOLEAN /\ isClosed' \in BOOLEAN /\ failed' \in
     BOOLEAN
        BY <1>40, <2>1 DEF FCGX_StartFilterData, SetReaderType, TypeOK
  <2>3. contentLen' \in Nat /\ paddingLen' \in Nat /\ stop' \in Nat
        BY <1>40, <2>1 DEF FCGX_StartFilterData, SetReaderType, TypeOK
  <2>4. type' \in StreamTypes \cup {"none"}
        BY <1>40 DEF FCGX_StartFilterData, SetReaderType, StreamTypes, TypeOK
  <2> QED BY <2>1, <2>2, <2>3, <2>4 DEF TypeOK
<1>41. CASE FCGX_FClose
      BY <1>41 DEF FCGX_FClose, TypeOK
<1>42. CASE FCGX_ClearError
  <2>1. UNCHANGED <<server, careful, wasFCloseCalled, params, replies, request, type, pos,
     lim, stop, stopUnget, record, eorStop, isClosed, pc, control, got, misread>>
        BY <1>42 DEF FCGX_ClearError
  <2>2. cleared' \in BOOLEAN /\ failed' \in BOOLEAN
        BY <1>42, <2>1 DEF FCGX_ClearError, TypeOK
  <2> QED BY <2>1, <2>2 DEF TypeOK
<1>43. CASE FCGX_Finish_r
  <2>1. UNCHANGED <<server, careful, cleared, wasFCloseCalled, isBeginProcessed, requestId,
     keepConnection, role, begin, type, pos, lim, stop, stopUnget, record, eorStop,
     isClosed, failed, control, got, misread>>
        BY <1>43 DEF FCGX_Finish_r
  <2>2. ipcOpen' \in BOOLEAN
        BY <1>43, <2>1, OneMore DEF FCGX_Finish_r, NoParams, TypeOK
  <2>3. params' \in [length : Nat, cur : Nat] /\ pc' \in Places
        BY <1>43, <2>1, OneMore DEF FCGX_Finish_r, NoParams, TypeOK, Places, Readers
  <2>4. replies' \in Seq(Replies)
        BY <1>43, OneMore DEF FCGX_Finish_r, TypeOK
  <2> QED BY <2>1, <2>2, <2>3, <2>4 DEF TypeOK
<1>44. CASE GetStr_Move
  <2>0. \A m \in Int : pos..(pos + m - 1) \in SUBSET Nat
        BY DEF TypeOK
  <2>9. PICK m \in Int : got' = [got EXCEPT ![type] = @ \cup pos..(pos + m - 1)]
    <3>1. PICK m : m = IF isClosed THEN 0 ELSE Min2(want, stop - pos)
          OBVIOUS
    <3>2. m \in Int
          BY <3>1 DEF Min2, TypeOK
    <3>3. got' = [got EXCEPT ![type] = @ \cup pos..(pos + m - 1)]
          BY <1>44, <3>1 DEF GetStr_Move
    <3> QED BY <3>2, <3>3
  <2>1. UNCHANGED <<server, client, replies, request, type, lim, stop, stopUnget, record,
     eorStop, isClosed, failed, ret, outer, half, misread>>
        BY <1>44 DEF GetStr_Move
  <2>2. want' \in Nat /\ pos' \in Nat /\ pc' \in Places
        BY <1>44, <2>1 DEF GetStr_Move, Min2, TypeOK, Places, Readers
  <2>3. got' \in [StreamTypes -> SUBSET Nat]
        BY <2>0, <2>9 DEF TypeOK
  <2> QED BY <2>1, <2>2, <2>3 DEF TypeOK
<1> QED BY <1>1, <1>2, <1>3, <1>4, <1>5, <1>6, <1>7, <1>8, <1>9, <1>10, <1>11, <1>12, <1>13,
   <1>14, <1>15, <1>16, <1>17, <1>18, <1>19, <1>20, <1>21, <1>22, <1>23, <1>24, <1>25,
   <1>26, <1>27, <1>28, <1>29, <1>30, <1>31, <1>32, <1>33, <1>34, <1>35, <1>36, <1>37,
   <1>38, <1>39, <1>40, <1>41, <1>42, <1>43, <1>44 DEF Next, Server, FillBuffProc,
   ProcessHeader, ReadBody, FCGX_Accept_r, App, Library

\* FillBuffProc is only called when all that was delivered has been taken, and what is
\* delivered lies in the buffer.
LEMMA BufferNext == TypeOK /\ Buffer /\ Calls /\ Phases /\ Body /\ [Next]_vars => Buffer'
<1> SUFFICES ASSUME TypeOK, Buffer, Calls, Phases, Body, [Next]_vars PROVE Buffer'
      OBVIOUS
<1> USE LengthsAssumption
<1>1. CASE UNCHANGED vars
      BY <1>1 DEF vars, Buffer, Loop, TypeOK, Places, Readers
<1>2. CASE ServerSend
      BY <1>2 DEF ServerSend, Buffer, Loop, TypeOK, Places, Readers
<1>3. CASE ServerCrash
      BY <1>3 DEF ServerCrash, Buffer, Loop, TypeOK, Places, Readers
<1>4. CASE Fill_Read
      BY <1>4 DEF Fill_Read, Min2, Buffer, Loop, TypeOK, Places, Readers
<1>5. CASE Fill_ReadEnd
      BY <1>5 DEF Fill_ReadEnd, FillError, Buffer, Loop, TypeOK, Places, Readers
<1>6. CASE Fill_NotEmpty
      BY <1>6 DEF Fill_NotEmpty, Buffer, Loop, TypeOK, Places, Readers
<1>7. CASE Fill_Deliver
      BY <1>7 DEF Fill_Deliver, Min2, Buffer, Loop, TypeOK, Places, Readers
<1>8. CASE Fill_Skip
      BY <1>8 DEF Fill_Skip, Min2, Buffer, Loop, TypeOK, Places, Readers
<1>9. CASE Fill_NoContent
      BY <1>9 DEF Fill_NoContent, Buffer, Loop, TypeOK, Places, Readers
<1>10. CASE Fill_Padding
      BY <1>10 DEF Fill_Padding, Min2, Buffer, Loop, TypeOK, Places, Readers
<1>11. CASE Fill_EndOfRecord
      BY <1>11 DEF Fill_EndOfRecord, Buffer, Loop, TypeOK, Places, Readers
<1>12. CASE Fill_Header
      BY <1>12 DEF Fill_Header, Min2, Buffer, Loop, TypeOK, Places, Readers
<1>13. CASE Header_Misread
      BY <1>13 DEF Header_Misread, FillError, AtHeader, Buffer, Loop, TypeOK, Places, Readers
<1>14. ASSUME NEW k \in 1..Len(script), Header_BadBegin(k) PROVE Buffer'
      BY <1>14 DEF Header_BadBegin, FillError, AtHeader, LoadHeader, Buffer, Loop, TypeOK, Places,
        Readers
<1>15. ASSUME NEW k \in 1..Len(script), Header_Multiplexed(k) PROVE Buffer'
      BY <1>15 DEF Header_Multiplexed, AtHeader, LoadHeader, Reply, Buffer, Loop, TypeOK, Places,
        Readers
<1>16. ASSUME NEW k \in 1..Len(script), Header_Begin(k) PROVE Buffer'
      BY <1>16 DEF Header_Begin, AtHeader, LoadHeader, Buffer, Loop, TypeOK, Places, Readers
<1>17. ASSUME NEW k \in 1..Len(script), Header_GetValues(k) PROVE Buffer'
      BY <1>17 DEF Header_GetValues, AtHeader, LoadHeader, Buffer, Loop, TypeOK, Places, Readers
<1>18. ASSUME NEW k \in 1..Len(script), Header_UnknownManagement(k) PROVE Buffer'
      BY <1>18 DEF Header_UnknownManagement, AtHeader, LoadHeader, Reply, Buffer, Loop, TypeOK,
        Places, Readers
<1>19. ASSUME NEW k \in 1..Len(script), Header_ReplyFails(k) PROVE Buffer'
      BY <1>19 DEF Header_ReplyFails, FillError, AtHeader, LoadHeader, Buffer, Loop, TypeOK, Places,
        Readers
<1>20. ASSUME NEW k \in 1..Len(script), Header_OtherRequest(k) PROVE Buffer'
      BY <1>20 DEF Header_OtherRequest, AtHeader, LoadHeader, Buffer, Loop, TypeOK, Places, Readers
<1>21. ASSUME NEW k \in 1..Len(script), Header_WrongType(k) PROVE Buffer'
      BY <1>21 DEF Header_WrongType, FillError, AtHeader, LoadHeader, Buffer, Loop, TypeOK, Places,
        Readers
<1>22. ASSUME NEW k \in 1..Len(script), Header_Stream(k) PROVE Buffer'
      BY <1>22 DEF Header_Stream, AtHeader, LoadHeader, Buffer, Loop, TypeOK, Places, Readers
<1>23. CASE Body_Complete
      BY <1>23 DEF Body_Complete, Buffer, Loop, TypeOK, Places, Readers
<1>24. CASE Body_More
      BY <1>24 DEF Body_More, Buffer, Loop, TypeOK, Places, Readers
<1>25. CASE Body_Short
      BY <1>25 DEF Body_Short, Buffer, Loop, TypeOK, Places, Readers
<1>26. CASE Values_Take
      BY <1>26 DEF Values_Take, TakePairs, Buffer, Loop, TypeOK, Places, Readers
<1>27. CASE Values_More
      BY <1>27 DEF Values_More, Buffer, Loop, TypeOK, Places, Readers
<1>28. CASE Values_Answer
      BY <1>28 DEF Values_Answer, Reply, Buffer, Loop, TypeOK, Places, Readers
<1>29. CASE Values_Fail
      BY <1>29 DEF Values_Fail, Buffer, Loop, TypeOK, Places, Readers
<1>30. ASSUME NEW s \in Scripts, Accept_New(s) PROVE Buffer'
      BY <1>30 DEF Accept_New, NewReader, Buffer, Loop, TypeOK, Places, Readers
<1>31. CASE Accept_Kept
      BY <1>31 DEF Accept_Kept, NewReader, Buffer, Loop, TypeOK, Places, Readers
<1>32. CASE Accepted_Refuse
      BY <1>32 DEF Accepted_Refuse, TryAgain, Buffer, Loop, TypeOK, Places, Readers
<1>33. CASE Accepted_Begin
      BY <1>33 DEF Accepted_Begin, SetReaderType, Buffer, Loop, TypeOK, Places, Readers
<1>34. CASE Params_Take
      BY <1>34 DEF Params_Take, TakePairs, Buffer, Loop, TypeOK, Places, Readers
<1>35. CASE Params_More
      BY <1>35 DEF Params_More, Buffer, Loop, TypeOK, Places, Readers
<1>36. CASE Params_Error
      BY <1>36 DEF Params_Error, TryAgain, Buffer, Loop, TypeOK, Places, Readers
<1>37. CASE Params_Complete
      BY <1>37 DEF Params_Complete, SetReaderType, Buffer, Loop, TypeOK, Places, Readers
<1>38. ASSUME NEW n \in 1..MaxGet, FCGX_GetStr(n) PROVE Buffer'
      BY <1>38 DEF FCGX_GetStr, Buffer, Loop, TypeOK, Places, Readers
<1>39. CASE FCGX_UnGetChar
      BY <1>39 DEF FCGX_UnGetChar, Buffer, Loop, TypeOK, Places, Readers
<1>40. CASE FCGX_StartFilterData
      BY <1>40 DEF FCGX_StartFilterData, SetReaderType, Buffer, Loop, TypeOK, Places, Readers
<1>41. CASE FCGX_FClose
      BY <1>41 DEF FCGX_FClose, Buffer, Loop, TypeOK, Places, Readers
<1>42. CASE FCGX_ClearError
      BY <1>42 DEF FCGX_ClearError, Buffer, Loop, TypeOK, Places, Readers
<1>43. CASE FCGX_Finish_r
      BY <1>43 DEF FCGX_Finish_r, Reply, Buffer, Loop, TypeOK, Places, Readers
<1>44. CASE GetStr_Move
      BY <1>44 DEF GetStr_Move, Min2, Buffer, Loop, TypeOK, Places, Readers
<1> QED BY <1>1, <1>2, <1>3, <1>4, <1>5, <1>6, <1>7, <1>8, <1>9, <1>10, <1>11, <1>12, <1>13,
   <1>14, <1>15, <1>16, <1>17, <1>18, <1>19, <1>20, <1>21, <1>22, <1>23, <1>24, <1>25,
   <1>26, <1>27, <1>28, <1>29, <1>30, <1>31, <1>32, <1>33, <1>34, <1>35, <1>36, <1>37,
   <1>38, <1>39, <1>40, <1>41, <1>42, <1>43, <1>44 DEF Next, Server, FillBuffProc,
   ProcessHeader, ReadBody, FCGX_Accept_r, App, Library

\* A recursive FillBuffProc returns to the reader of the record's body, and eorStop is set
\* as long as it runs.
LEMMA CallsNext == TypeOK /\ Buffer /\ Calls /\ Phases /\ Body /\ [Next]_vars => Calls'
<1> SUFFICES ASSUME TypeOK, Buffer, Calls, Phases, Body, [Next]_vars PROVE Calls'
      OBVIOUS
<1> USE LengthsAssumption
<1>1. CASE UNCHANGED vars
      BY <1>1 DEF vars, Calls, Loop, TypeOK, Places, Readers
<1>2. CASE ServerSend
      BY <1>2 DEF ServerSend, Calls, Loop, TypeOK, Places, Readers
<1>3. CASE ServerCrash
      BY <1>3 DEF ServerCrash, Calls, Loop, TypeOK, Places, Readers
<1>4. CASE Fill_Read
      BY <1>4 DEF Fill_Read, Min2, Calls, Loop, TypeOK, Places, Readers
<1>5. CASE Fill_ReadEnd
      BY <1>5 DEF Fill_ReadEnd, FillError, Calls, Loop, TypeOK, Places, Readers
<1>6. CASE Fill_NotEmpty
      BY <1>6 DEF Fill_NotEmpty, Calls, Loop, TypeOK, Places, Readers
<1>7. CASE Fill_Deliver
      BY <1>7 DEF Fill_Deliver, Min2, Calls, Loop, TypeOK, Places, Readers
<1>8. CASE Fill_Skip
      BY <1>8 DEF Fill_Skip, Min2, Calls, Loop, TypeOK, Places, Readers
<1>9. CASE Fill_NoContent
      BY <1>9 DEF Fill_NoContent, Calls, Loop, TypeOK, Places, Readers
<1>10. CASE Fill_Padding
      BY <1>10 DEF Fill_Padding, Min2, Calls, Loop, TypeOK, Places, Readers
<1>11. CASE Fill_EndOfRecord
      BY <1>11 DEF Fill_EndOfRecord, Calls, Loop, TypeOK, Places, Readers
<1>12. CASE Fill_Header
      BY <1>12 DEF Fill_Header, Min2, Calls, Loop, TypeOK, Places, Readers
<1>13. CASE Header_Misread
      BY <1>13 DEF Header_Misread, FillError, AtHeader, Calls, Loop, TypeOK, Places, Readers
<1>14. ASSUME NEW k \in 1..Len(script), Header_BadBegin(k) PROVE Calls'
      BY <1>14 DEF Header_BadBegin, FillError, AtHeader, LoadHeader, Calls, Loop, TypeOK, Places,
        Readers
<1>15. ASSUME NEW k \in 1..Len(script), Header_Multiplexed(k) PROVE Calls'
      BY <1>15 DEF Header_Multiplexed, AtHeader, LoadHeader, Reply, Calls, Loop, TypeOK, Places,
        Readers
<1>16. ASSUME NEW k \in 1..Len(script), Header_Begin(k) PROVE Calls'
      BY <1>16 DEF Header_Begin, AtHeader, LoadHeader, Calls, Loop, TypeOK, Places, Readers, Phases,
        Caller
<1>17. ASSUME NEW k \in 1..Len(script), Header_GetValues(k) PROVE Calls'
      BY <1>17 DEF Header_GetValues, AtHeader, LoadHeader, Calls, Loop, TypeOK, Places, Readers
<1>18. ASSUME NEW k \in 1..Len(script), Header_UnknownManagement(k) PROVE Calls'
      BY <1>18 DEF Header_UnknownManagement, AtHeader, LoadHeader, Reply, Calls, Loop, TypeOK,
        Places, Readers
<1>19. ASSUME NEW k \in 1..Len(script), Header_ReplyFails(k) PROVE Calls'
      BY <1>19 DEF Header_ReplyFails, FillError, AtHeader, LoadHeader, Calls, Loop, TypeOK, Places,
        Readers
<1>20. ASSUME NEW k \in 1..Len(script), Header_OtherRequest(k) PROVE Calls'
      BY <1>20 DEF Header_OtherRequest, AtHeader, LoadHeader, Calls, Loop, TypeOK, Places, Readers
<1>21. ASSUME NEW k \in 1..Len(script), Header_WrongType(k) PROVE Calls'
      BY <1>21 DEF Header_WrongType, FillError, AtHeader, LoadHeader, Calls, Loop, TypeOK, Places,
        Readers
<1>22. ASSUME NEW k \in 1..Len(script), Header_Stream(k) PROVE Calls'
      BY <1>22 DEF Header_Stream, AtHeader, LoadHeader, Calls, Loop, TypeOK, Places, Readers
<1>23. CASE Body_Complete
      BY <1>23 DEF Body_Complete, Calls, Loop, TypeOK, Places, Readers
<1>24. CASE Body_More
      BY <1>24 DEF Body_More, Calls, Loop, TypeOK, Places, Readers
<1>25. CASE Body_Short
      BY <1>25 DEF Body_Short, Calls, Loop, TypeOK, Places, Readers
<1>26. CASE Values_Take
      BY <1>26 DEF Values_Take, TakePairs, Calls, Loop, TypeOK, Places, Readers
<1>27. CASE Values_More
      BY <1>27 DEF Values_More, Calls, Loop, TypeOK, Places, Readers
<1>28. CASE Values_Answer
      BY <1>28 DEF Values_Answer, Reply, Calls, Loop, TypeOK, Places, Readers
<1>29. CASE Values_Fail
      BY <1>29 DEF Values_Fail, Calls, Loop, TypeOK, Places, Readers
<1>30. ASSUME NEW s \in Scripts, Accept_New(s) PROVE Calls'
      BY <1>30 DEF Accept_New, NewReader, Calls, Loop, TypeOK, Places, Readers
<1>31. CASE Accept_Kept
      BY <1>31 DEF Accept_Kept, NewReader, Calls, Loop, TypeOK, Places, Readers
<1>32. CASE Accepted_Refuse
      BY <1>32 DEF Accepted_Refuse, TryAgain, Calls, Loop, TypeOK, Places, Readers
<1>33. CASE Accepted_Begin
      BY <1>33 DEF Accepted_Begin, SetReaderType, Calls, Loop, TypeOK, Places, Readers
<1>34. CASE Params_Take
      BY <1>34 DEF Params_Take, TakePairs, Calls, Loop, TypeOK, Places, Readers
<1>35. CASE Params_More
      BY <1>35 DEF Params_More, Calls, Loop, TypeOK, Places, Readers
<1>36. CASE Params_Error
      BY <1>36 DEF Params_Error, TryAgain, Calls, Loop, TypeOK, Places, Readers
<1>37. CASE Params_Complete
      BY <1>37 DEF Params_Complete, SetReaderType, Calls, Loop, TypeOK, Places, Readers
<1>38. ASSUME NEW n \in 1..MaxGet, FCGX_GetStr(n) PROVE Calls'
      BY <1>38 DEF FCGX_GetStr, Calls, Loop, TypeOK, Places, Readers
<1>39. CASE FCGX_UnGetChar
      BY <1>39 DEF FCGX_UnGetChar, Calls, Loop, TypeOK, Places, Readers
<1>40. CASE FCGX_StartFilterData
      BY <1>40 DEF FCGX_StartFilterData, SetReaderType, Calls, Loop, TypeOK, Places, Readers
<1>41. CASE FCGX_FClose
      BY <1>41 DEF FCGX_FClose, Calls, Loop, TypeOK, Places, Readers
<1>42. CASE FCGX_ClearError
      BY <1>42 DEF FCGX_ClearError, Calls, Loop, TypeOK, Places, Readers
<1>43. CASE FCGX_Finish_r
      BY <1>43 DEF FCGX_Finish_r, Reply, Calls, Loop, TypeOK, Places, Readers
<1>44. CASE GetStr_Move
      BY <1>44 DEF GetStr_Move, Min2, Calls, Loop, TypeOK, Places, Readers
<1> QED BY <1>1, <1>2, <1>3, <1>4, <1>5, <1>6, <1>7, <1>8, <1>9, <1>10, <1>11, <1>12, <1>13,
   <1>14, <1>15, <1>16, <1>17, <1>18, <1>19, <1>20, <1>21, <1>22, <1>23, <1>24, <1>25,
   <1>26, <1>27, <1>28, <1>29, <1>30, <1>31, <1>32, <1>33, <1>34, <1>35, <1>36, <1>37,
   <1>38, <1>39, <1>40, <1>41, <1>42, <1>43, <1>44 DEF Next, Server, FillBuffProc,
   ProcessHeader, ReadBody, FCGX_Accept_r, App, Library

\* The request begins, then its environment is read, then its streams; an error before the
\* request is accepted, or in the environment, ends the reading.
LEMMA PhasesNext == TypeOK /\ Buffer /\ Calls /\ Phases /\ Body /\ [Next]_vars => Phases'
<1> SUFFICES ASSUME TypeOK, Buffer, Calls, Phases, Body, [Next]_vars PROVE Phases'
      OBVIOUS
<1> USE LengthsAssumption
<1>1. CASE UNCHANGED vars
      BY <1>1 DEF vars, Phases, Calls, Loop, Caller, TypeOK, Places, Readers
<1>2. CASE ServerSend
      BY <1>2 DEF ServerSend, Phases, Calls, Loop, Caller, TypeOK, Places, Readers
<1>3. CASE ServerCrash
      BY <1>3 DEF ServerCrash, Phases, Calls, Loop, Caller, TypeOK, Places, Readers
<1>4. CASE Fill_Read
      BY <1>4 DEF Fill_Read, Min2, Phases, Calls, Loop, Caller, TypeOK, Places, Readers
<1>5. CASE Fill_ReadEnd
      BY <1>5 DEF Fill_ReadEnd, FillError, Phases, Calls, Loop, Caller, TypeOK, Places, Readers
<1>6. CASE Fill_NotEmpty
      BY <1>6 DEF Fill_NotEmpty, Phases, Calls, Loop, Caller, TypeOK, Places, Readers
<1>7. CASE Fill_Deliver
      BY <1>7 DEF Fill_Deliver, Min2, Phases, Calls, Loop, Caller, TypeOK, Places, Readers
<1>8. CASE Fill_Skip
      BY <1>8 DEF Fill_Skip, Min2, Phases, Calls, Loop, Caller, TypeOK, Places, Readers
<1>9. CASE Fill_NoContent
      BY <1>9 DEF Fill_NoContent, Phases, Calls, Loop, Caller, TypeOK, Places, Readers
<1>10. CASE Fill_Padding
      BY <1>10 DEF Fill_Padding, Min2, Phases, Calls, Loop, Caller, TypeOK, Places, Readers
<1>11. CASE Fill_EndOfRecord
      BY <1>11 DEF Fill_EndOfRecord, Phases, Calls, Loop, Caller, TypeOK, Places, Readers
<1>12. CASE Fill_Header
      BY <1>12 DEF Fill_Header, Min2, Phases, Calls, Loop, Caller, TypeOK, Places, Readers
<1>13. CASE Header_Misread
      BY <1>13 DEF Header_Misread, FillError, AtHeader, Phases, Calls, Loop, Caller, TypeOK, Places,
        Readers
<1>14. ASSUME NEW k \in 1..Len(script), Header_BadBegin(k) PROVE Phases'
      BY <1>14 DEF Header_BadBegin, FillError, AtHeader, LoadHeader, Phases, Calls, Loop, Caller,
        TypeOK, Places, Readers
<1>15. ASSUME NEW k \in 1..Len(script), Header_Multiplexed(k) PROVE Phases'
      BY <1>15 DEF Header_Multiplexed, AtHeader, LoadHeader, Reply, Phases, Calls, Loop, Caller,
        TypeOK, Places, Readers
<1>16. ASSUME NEW k \in 1..Len(script), Header_Begin(k) PROVE Phases'
      BY <1>16 DEF Header_Begin, AtHeader, LoadHeader, Phases, Calls, Loop, Caller, TypeOK, Places,
        Readers
<1>17. ASSUME NEW k \in 1..Len(script), Header_GetValues(k) PROVE Phases'
      BY <1>17 DEF Header_GetValues, AtHeader, LoadHeader, Phases, Calls, Loop, Caller, TypeOK,
        Places, Readers
<1>18. ASSUME NEW k \in 1..Len(script), Header_UnknownManagement(k) PROVE Phases'
      BY <1>18 DEF Header_UnknownManagement, AtHeader, LoadHeader, Reply, Phases, Calls, Loop,
        Caller, TypeOK, Places, Readers
<1>19. ASSUME NEW k \in 1..Len(script), Header_ReplyFails(k) PROVE Phases'
      BY <1>19 DEF Header_ReplyFails, FillError, AtHeader, LoadHeader, Phases, Calls, Loop, Caller,
        TypeOK, Places, Readers
<1>20. ASSUME NEW k \in 1..Len(script), Header_OtherRequest(k) PROVE Phases'
      BY <1>20 DEF Header_OtherRequest, AtHeader, LoadHeader, Phases, Calls, Loop, Caller, TypeOK,
        Places, Readers
<1>21. ASSUME NEW k \in 1..Len(script), Header_WrongType(k) PROVE Phases'
      BY <1>21 DEF Header_WrongType, FillError, AtHeader, LoadHeader, Phases, Calls, Loop, Caller,
        TypeOK, Places, Readers
<1>22. ASSUME NEW k \in 1..Len(script), Header_Stream(k) PROVE Phases'
      BY <1>22 DEF Header_Stream, AtHeader, LoadHeader, Phases, Calls, Loop, Caller, TypeOK, Places,
        Readers
<1>23. CASE Body_Complete
      BY <1>23 DEF Body_Complete, Phases, Calls, Loop, Caller, TypeOK, Places, Readers
<1>24. CASE Body_More
      BY <1>24 DEF Body_More, Phases, Calls, Loop, Caller, TypeOK, Places, Readers
<1>25. CASE Body_Short
      BY <1>25 DEF Body_Short, Phases, Calls, Loop, Caller, TypeOK, Places, Readers
<1>26. CASE Values_Take
      BY <1>26 DEF Values_Take, TakePairs, Phases, Calls, Loop, Caller, TypeOK, Places, Readers
<1>27. CASE Values_More
      BY <1>27 DEF Values_More, Phases, Calls, Loop, Caller, TypeOK, Places, Readers
<1>28. CASE Values_Answer
      BY <1>28 DEF Values_Answer, Reply, Phases, Calls, Loop, Caller, TypeOK, Places, Readers,
        ValuesOK
<1>29. CASE Values_Fail
      BY <1>29 DEF Values_Fail, Phases, Calls, Loop, Caller, TypeOK, Places, Readers
<1>30. ASSUME NEW s \in Scripts, Accept_New(s) PROVE Phases'
      BY <1>30 DEF Accept_New, NewReader, Phases, Calls, Loop, Caller, TypeOK, Places, Readers
<1>31. CASE Accept_Kept
      BY <1>31 DEF Accept_Kept, NewReader, Phases, Calls, Loop, Caller, TypeOK, Places, Readers
<1>32. CASE Accepted_Refuse
      BY <1>32 DEF Accepted_Refuse, TryAgain, Phases, Calls, Loop, Caller, TypeOK, Places, Readers
<1>33. CASE Accepted_Begin
      BY <1>33 DEF Accepted_Begin, SetReaderType, Phases, Calls, Loop, Caller, TypeOK, Places,
        Readers
<1>34. CASE Params_Take
      BY <1>34 DEF Params_Take, TakePairs, Phases, Calls, Loop, Caller, TypeOK, Places, Readers
<1>35. CASE Params_More
      BY <1>35 DEF Params_More, Phases, Calls, Loop, Caller, TypeOK, Places, Readers
<1>36. CASE Params_Error
      BY <1>36 DEF Params_Error, TryAgain, Phases, Calls, Loop, Caller, TypeOK, Places, Readers
<1>37. CASE Params_Complete
      BY <1>37 DEF Params_Complete, SetReaderType, Phases, Calls, Loop, Caller, TypeOK, Places,
        Readers
<1>38. ASSUME NEW n \in 1..MaxGet, FCGX_GetStr(n) PROVE Phases'
      BY <1>38 DEF FCGX_GetStr, Phases, Calls, Loop, Caller, TypeOK, Places, Readers
<1>39. CASE FCGX_UnGetChar
      BY <1>39 DEF FCGX_UnGetChar, Phases, Calls, Loop, Caller, TypeOK, Places, Readers
<1>40. CASE FCGX_StartFilterData
      BY <1>40 DEF FCGX_StartFilterData, SetReaderType, Phases, Calls, Loop, Caller, TypeOK, Places,
        Readers
<1>41. CASE FCGX_FClose
      BY <1>41 DEF FCGX_FClose, Phases, Calls, Loop, Caller, TypeOK, Places, Readers
<1>42. CASE FCGX_ClearError
      BY <1>42 DEF FCGX_ClearError, Phases, Calls, Loop, Caller, TypeOK, Places, Readers
<1>43. CASE FCGX_Finish_r
      BY <1>43 DEF FCGX_Finish_r, Reply, Phases, Calls, Loop, Caller, TypeOK, Places, Readers
<1>44. CASE GetStr_Move
      BY <1>44 DEF GetStr_Move, Min2, Phases, Calls, Loop, Caller, TypeOK, Places, Readers
<1> QED BY <1>1, <1>2, <1>3, <1>4, <1>5, <1>6, <1>7, <1>8, <1>9, <1>10, <1>11, <1>12, <1>13,
   <1>14, <1>15, <1>16, <1>17, <1>18, <1>19, <1>20, <1>21, <1>22, <1>23, <1>24, <1>25,
   <1>26, <1>27, <1>28, <1>29, <1>30, <1>31, <1>32, <1>33, <1>34, <1>35, <1>36, <1>37,
   <1>38, <1>39, <1>40, <1>41, <1>42, <1>43, <1>44 DEF Next, Server, FillBuffProc,
   ProcessHeader, ReadBody, FCGX_Accept_r, App, Library

\* The bytes FCGX_GetStr is still to get of a BEGIN body are those that are left of it.
LEMMA BodyNext == TypeOK /\ Buffer /\ Calls /\ Phases /\ Body /\ [Next]_vars => Body'
<1> SUFFICES ASSUME TypeOK, Buffer, Calls, Phases, Body, [Next]_vars PROVE Body'
      OBVIOUS
<1> USE LengthsAssumption
<1>1. CASE UNCHANGED vars
      BY <1>1 DEF vars, Body, Ahead, Buffer, Calls, Loop, TypeOK, Places, Readers
<1>2. CASE ServerSend
      BY <1>2 DEF ServerSend, Body, Ahead, Buffer, Calls, Loop, TypeOK, Places, Readers
<1>3. CASE ServerCrash
      BY <1>3 DEF ServerCrash, Body, Ahead, Buffer, Calls, Loop, TypeOK, Places, Readers
<1>4. CASE Fill_Read
      BY <1>4 DEF Fill_Read, Min2, Body, Ahead, Buffer, Calls, Loop, TypeOK, Places, Readers
<1>5. CASE Fill_ReadEnd
      BY <1>5 DEF Fill_ReadEnd, FillError, Body, Ahead, Buffer, Calls, Loop, TypeOK, Places, Readers
<1>6. CASE Fill_NotEmpty
      BY <1>6 DEF Fill_NotEmpty, Body, Ahead, Buffer, Calls, Loop, TypeOK, Places, Readers
<1>7. CASE Fill_Deliver
      BY <1>7 DEF Fill_Deliver, Min2, Body, Ahead, Buffer, Calls, Loop, TypeOK, Places, Readers
<1>8. CASE Fill_Skip
  <2>1. pc = "content" /\ contentLen > 0 /\ skip /\ stop <= pos /\ pos <= lim
        BY <1>8 DEF Fill_Skip, Buffer, Loop
  <2>2. PICK count \in Nat : /\ count <= contentLen /\ contentLen' = contentLen - count
                            /\ pos' = pos + count /\ skip' = (contentLen > count)
    <3>1. lim - pos \in Nat /\ contentLen \in Nat
          BY <2>1 DEF TypeOK
    <3>2. Min2(contentLen, lim - pos) \in Nat /\ Min2(contentLen, lim - pos) <= contentLen
          BY <3>1, SmallerOf
    <3> QED BY <1>8, <3>2 DEF Fill_Skip
  <2>3. stop' = stop /\ want' = want /\ ret' = ret
        BY <1>8 DEF Fill_Skip
  <2>4. pos \in Nat /\ stop \in Nat /\ contentLen \in Nat
        BY DEF TypeOK
  <2>6. stop' <= pos'
        BY <2>1, <2>2, <2>3, <2>4
  <2>7. skip' \/ contentLen' = 0
    <3>1. contentLen > count => skip'
          BY <2>2
    <3> QED BY <2>2, <2>4, <3>1
  <2>5. ret = "body" => want > 0
        BY <2>1 DEF Body, Ahead, TypeOK
  <2>8. ret' = "body" => want' > 0
        BY <2>3, <2>5
  <2> QED BY <2>3, <2>5, <2>6, <2>7, <2>8 DEF Body
<1>9. CASE Fill_NoContent
      BY <1>9 DEF Fill_NoContent, Body, Ahead, Buffer, Calls, Loop, TypeOK, Places, Readers
<1>10. CASE Fill_Padding
      BY <1>10 DEF Fill_Padding, Min2, Body, Ahead, Buffer, Calls, Loop, TypeOK, Places, Readers
<1>11. CASE Fill_EndOfRecord
      BY <1>11 DEF Fill_EndOfRecord, Body, Ahead, Buffer, Calls, Loop, TypeOK, Places, Readers
<1>12. CASE Fill_Header
      BY <1>12 DEF Fill_Header, Min2, Body, Ahead, Buffer, Calls, Loop, TypeOK, Places, Readers
<1>13. CASE Header_Misread
      BY <1>13 DEF Header_Misread, FillError, AtHeader, Body, Ahead, Buffer, Calls, Loop, TypeOK,
        Places, Readers
<1>14. ASSUME NEW k \in 1..Len(script), Header_BadBegin(k) PROVE Body'
      BY <1>14 DEF Header_BadBegin, FillError, AtHeader, LoadHeader, Body, Ahead, Buffer, Calls,
        Loop, TypeOK, Places, Readers
<1>15. ASSUME NEW k \in 1..Len(script), Header_Multiplexed(k) PROVE Body'
      BY <1>15 DEF Header_Multiplexed, AtHeader, LoadHeader, Reply, Body, Ahead, Buffer, Calls,
        Loop, TypeOK, Places, Readers
<1>16. ASSUME NEW k \in 1..Len(script), Header_Begin(k) PROVE Body'
      BY <1>16 DEF Header_Begin, AtHeader, LoadHeader, Body, Ahead, Buffer, Calls, Loop, TypeOK,
        Places, Readers, GoodBegin, IsBegin
<1>17. ASSUME NEW k \in 1..Len(script), Header_GetValues(k) PROVE Body'
      BY <1>17 DEF Header_GetValues, AtHeader, LoadHeader, Body, Ahead, Buffer, Calls, Loop, TypeOK,
        Places, Readers
<1>18. ASSUME NEW k \in 1..Len(script), Header_UnknownManagement(k) PROVE Body'
      BY <1>18 DEF Header_UnknownManagement, AtHeader, LoadHeader, Reply, Body, Ahead, Buffer,
        Calls, Loop, TypeOK, Places, Readers
<1>19. ASSUME NEW k \in 1..Len(script), Header_ReplyFails(k) PROVE Body'
      BY <1>19 DEF Header_ReplyFails, FillError, AtHeader, LoadHeader, Body, Ahead, Buffer, Calls,
        Loop, TypeOK, Places, Readers
<1>20. ASSUME NEW k \in 1..Len(script), Header_OtherRequest(k) PROVE Body'
      BY <1>20 DEF Header_OtherRequest, AtHeader, LoadHeader, Body, Ahead, Buffer, Calls, Loop,
        TypeOK, Places, Readers
<1>21. ASSUME NEW k \in 1..Len(script), Header_WrongType(k) PROVE Body'
      BY <1>21 DEF Header_WrongType, FillError, AtHeader, LoadHeader, Body, Ahead, Buffer, Calls,
        Loop, TypeOK, Places, Readers
<1>22. ASSUME NEW k \in 1..Len(script), Header_Stream(k) PROVE Body'
      BY <1>22 DEF Header_Stream, AtHeader, LoadHeader, Body, Ahead, Buffer, Calls, Loop, TypeOK,
        Places, Readers
<1>23. CASE Body_Complete
      BY <1>23 DEF Body_Complete, Body, Ahead, Buffer, Calls, Loop, TypeOK, Places, Readers
<1>24. CASE Body_More
      BY <1>24 DEF Body_More, Body, Ahead, Buffer, Calls, Loop, TypeOK, Places, Readers
<1>25. CASE Body_Short
      BY <1>25 DEF Body_Short, Body, Ahead, Buffer, Calls, Loop, TypeOK, Places, Readers
<1>26. CASE Values_Take
      BY <1>26 DEF Values_Take, TakePairs, Body, Ahead, Buffer, Calls, Loop, TypeOK, Places, Readers
<1>27. CASE Values_More
      BY <1>27 DEF Values_More, Body, Ahead, Buffer, Calls, Loop, TypeOK, Places, Readers
<1>28. CASE Values_Answer
      BY <1>28 DEF Values_Answer, Reply, Body, Ahead, Buffer, Calls, Loop, TypeOK, Places, Readers
<1>29. CASE Values_Fail
      BY <1>29 DEF Values_Fail, Body, Ahead, Buffer, Calls, Loop, TypeOK, Places, Readers
<1>30. ASSUME NEW s \in Scripts, Accept_New(s) PROVE Body'
      BY <1>30 DEF Accept_New, NewReader, Body, Ahead, Buffer, Calls, Loop, TypeOK, Places, Readers
<1>31. CASE Accept_Kept
      BY <1>31 DEF Accept_Kept, NewReader, Body, Ahead, Buffer, Calls, Loop, TypeOK, Places, Readers
<1>32. CASE Accepted_Refuse
      BY <1>32 DEF Accepted_Refuse, TryAgain, Body, Ahead, Buffer, Calls, Loop, TypeOK, Places,
        Readers
<1>33. CASE Accepted_Begin
      BY <1>33 DEF Accepted_Begin, SetReaderType, Body, Ahead, Buffer, Calls, Loop, TypeOK, Places,
        Readers
<1>34. CASE Params_Take
      BY <1>34 DEF Params_Take, TakePairs, Body, Ahead, Buffer, Calls, Loop, TypeOK, Places, Readers
<1>35. CASE Params_More
      BY <1>35 DEF Params_More, Body, Ahead, Buffer, Calls, Loop, TypeOK, Places, Readers
<1>36. CASE Params_Error
      BY <1>36 DEF Params_Error, TryAgain, Body, Ahead, Buffer, Calls, Loop, TypeOK, Places, Readers
<1>37. CASE Params_Complete
      BY <1>37 DEF Params_Complete, SetReaderType, Body, Ahead, Buffer, Calls, Loop, TypeOK, Places,
        Readers
<1>38. ASSUME NEW n \in 1..MaxGet, FCGX_GetStr(n) PROVE Body'
      BY <1>38 DEF FCGX_GetStr, Body, Ahead, Buffer, Calls, Loop, TypeOK, Places, Readers
<1>39. CASE FCGX_UnGetChar
      BY <1>39 DEF FCGX_UnGetChar, Body, Ahead, Buffer, Calls, Loop, TypeOK, Places, Readers
<1>40. CASE FCGX_StartFilterData
      BY <1>40 DEF FCGX_StartFilterData, SetReaderType, Body, Ahead, Buffer, Calls, Loop, TypeOK,
        Places, Readers
<1>41. CASE FCGX_FClose
      BY <1>41 DEF FCGX_FClose, Body, Ahead, Buffer, Calls, Loop, TypeOK, Places, Readers
<1>42. CASE FCGX_ClearError
      BY <1>42 DEF FCGX_ClearError, Body, Ahead, Buffer, Calls, Loop, TypeOK, Places, Readers
<1>43. CASE FCGX_Finish_r
      BY <1>43 DEF FCGX_Finish_r, Reply, Body, Ahead, Buffer, Calls, Loop, TypeOK, Places, Readers
<1>44. CASE GetStr_Move
      BY <1>44 DEF GetStr_Move, Min2, Body, Ahead, Buffer, Calls, Loop, TypeOK, Places, Readers
<1> QED BY <1>1, <1>2, <1>3, <1>4, <1>5, <1>6, <1>7, <1>8, <1>9, <1>10, <1>11, <1>12, <1>13,
   <1>14, <1>15, <1>16, <1>17, <1>18, <1>19, <1>20, <1>21, <1>22, <1>23, <1>24, <1>25,
   <1>26, <1>27, <1>28, <1>29, <1>30, <1>31, <1>32, <1>33, <1>34, <1>35, <1>36, <1>37,
   <1>38, <1>39, <1>40, <1>41, <1>42, <1>43, <1>44 DEF Next, Server, FillBuffProc,
   ProcessHeader, ReadBody, FCGX_Accept_r, App, Library

-----------------------------------------------------------------------------
(* History.                                                                *)

\* Division by two.
LEMMA Halves == ASSUME NEW x \in Nat
                PROVE  \E q, r \in Nat : r < 2 /\ x = 2 * q + r /\ x \div 2 = q /\ x % 2 = r
OBVIOUS

\* Where a record ends.
LEMMA Extent ==
    ASSUME NEW s \in Scripts, NEW k \in 1..Len(s)
    PROVE  /\ s[k].start \in Nat /\ s[k].clen \in Nat /\ s[k].plen \in Nat /\ End(s[k]) \in Nat
           /\ HeaderLen \in Nat /\ HeaderLen > 0
           /\ End(s[k]) = s[k].start + HeaderLen + s[k].clen + s[k].plen
           /\ s[k].start + HeaderLen <= End(s[k]) /\ s[k].start < End(s[k])
<1>1. PICK a \in Nat, b \in Nat, c \in Nat : a = s[k].start /\ b = s[k].clen /\ c = s[k].plen
      BY ScriptRecords
<1>2. End(s[k]) = a + HeaderLen + b + c
      BY <1>1 DEF End
<1>3. HeaderLen \in Nat /\ HeaderLen > 0
      BY LengthsAssumption
<1>4. PICK e \in Nat : e = a + HeaderLen + b + c /\ a + HeaderLen <= e /\ a < e
      BY <1>3
<1> QED BY <1>1, <1>2, <1>3, <1>4

\* The records of a script lie one behind the other.
LEMMA InOrder ==
    ASSUME NEW s \in Scripts, NEW j \in 1..Len(s), NEW k \in 1..Len(s), j < k
    PROVE  End(s[j]) <= s[k].start
<1> USE LengthsAssumption
<1>r. /\ Len(s) \in Nat /\ IsScript(s)
      /\ \A i \in 1..Len(s) : /\ s[i].start \in Nat /\ s[i].clen \in Nat /\ s[i].plen \in Nat
                              /\ End(s[i]) \in Nat
      BY ScriptRecords
<1> DEFINE Wrong == {i \in 1..Len(s) : j < i /\ ~(End(s[j]) <= s[i].start)}
<1>1. ASSUME NEW x \in Wrong PROVE FALSE
  <2>1. Wrong \in SUBSET Nat
        OBVIOUS
  <2>2. PICK i \in Wrong : \A h \in Nat : h < i => h \notin Wrong
        BY <1>1, <2>1, LeastElement
  <2>3. i - 1 \in 1..(Len(s) - 1) /\ i - 1 \in 1..Len(s) /\ i - 1 \in Nat /\ i - 1 < i
    <3>1. i \in 1..Len(s) /\ j < i
          OBVIOUS
    <3>a. Len(s) \in Nat /\ j \in Nat /\ j >= 1
          BY <1>r, ScriptRecords
    <3>b. i \in Nat
          BY <3>1, <3>a
    <3>2. PICK a \in Nat, n \in Nat, m \in Nat : a = i /\ n = Len(s) /\ m = j /\ m >= 1
          BY <3>a, <3>b
    <3>3. 1 < a /\ a <= n
          BY <3>1, <3>2
    <3>4. a - 1 \in 1..(n - 1) /\ a - 1 \in 1..n /\ a - 1 \in Nat /\ a - 1 < a
          BY <3>3
    <3> QED BY <3>2, <3>4
  <2>4. s[i].start = End(s[i - 1])
    <3>1. s[i - 1 + 1].start = End(s[i - 1])
          BY <1>r, <2>3 DEF IsScript
    <3> QED BY <3>1
  <2>5. CASE i - 1 = j
        BY <1>r, <2>2, <2>4, <2>5
  <2>6. CASE i - 1 # j
    <3>1. End(s[j]) <= s[i - 1].start
      <4>1. j < i - 1 /\ i - 1 \notin Wrong
            BY <1>r, <2>2, <2>3, <2>6
      <4> QED BY <2>3, <4>1
    <3>2. s[i - 1].start <= End(s[i - 1])
      <4>1. PICK a \in Nat, b \in Nat : a = s[i - 1].start /\ b = End(s[i - 1]) /\ a < b
            BY <2>3, Extent
      <4>2. a <= b
            BY <4>1
      <4> QED BY <4>1, <4>2
    <3>3. PICK x1 \in Nat, x2 \in Nat, x3 \in Nat, x4 \in Nat :
              x1 = End(s[j]) /\ x2 = s[i - 1].start /\ x3 = End(s[i - 1]) /\ x4 = s[i].start
          BY <1>r, <2>3
    <3>4. x1 <= x4
          BY <2>4, <3>1, <3>2, <3>3
    <3> QED BY <2>2, <3>3, <3>4
  <2> QED BY <2>5, <2>6
<1> QED BY <1>1

\* The records that are answered, when an answer joins the others.
LEMMA AnsweredMore ==
    ASSUME TypeOK, NEW kind \in {"end", "cant_mpx", "values", "unknown_type"}, NEW k \in 0..Len(script), Reply(kind, k)
    PROVE  AnsweredRecs' = AnsweredRecs \cup {k}
<1>1. /\ Len(replies') = Len(replies) + 1 /\ Len(replies) \in Nat
      /\ replies'[Len(replies) + 1].rec = k
      /\ \A i \in 1..Len(replies) : replies'[i].rec = replies[i].rec
  <2>1. /\ Len(replies') = Len(replies) + 1 /\ Len(replies) \in Nat
        /\ replies'[Len(replies) + 1] = [kind |-> kind, rec |-> k]
        /\ \A i \in 1..Len(replies) : replies'[i] = replies[i]
        BY OneMore DEF TypeOK
  <2> QED BY <2>1
<1> QED BY <1>1 DEF AnsweredRecs

\* The request that is served is that of its BEGIN record.
LEMMA BegunNext == Control /\ History /\ [Next]_vars => Begun'
<1> SUFFICES ASSUME TypeOK, Buffer, Calls, Phases, Body, History, [Next]_vars PROVE Begun'
      BY DEF Control
<1> USE LengthsAssumption
<1>0. Begun
      BY DEF History
<1>1. CASE UNCHANGED vars
      BY <1>1, <1>0 DEF vars, Begun, GoodBegin, IsBegin, Calls, Readers, TypeOK
<1>2. CASE ServerSend
      BY <1>2, <1>0 DEF ServerSend, Begun, GoodBegin, IsBegin, Calls, Readers, TypeOK
<1>3. CASE ServerCrash
      BY <1>3, <1>0 DEF ServerCrash, Begun, GoodBegin, IsBegin, Calls, Readers, TypeOK
<1>4. CASE Fill_Read
      BY <1>4, <1>0 DEF Fill_Read, Min2, Begun, GoodBegin, IsBegin, Calls, Readers, TypeOK
<1>5. CASE Fill_ReadEnd
      BY <1>5, <1>0 DEF Fill_ReadEnd, FillError, Begun, GoodBegin, IsBegin, Calls, Readers, TypeOK
<1>6. CASE Fill_NotEmpty
      BY <1>6, <1>0 DEF Fill_NotEmpty, Begun, GoodBegin, IsBegin, Calls, Readers, TypeOK
<1>7. CASE Fill_Deliver
      BY <1>7, <1>0 DEF Fill_Deliver, Min2, Begun, GoodBegin, IsBegin, Calls, Readers, TypeOK
<1>8. CASE Fill_Skip
      BY <1>8, <1>0 DEF Fill_Skip, Min2, Begun, GoodBegin, IsBegin, Calls, Readers, TypeOK
<1>9. CASE Fill_NoContent
      BY <1>9, <1>0 DEF Fill_NoContent, Begun, GoodBegin, IsBegin, Calls, Readers, TypeOK
<1>10. CASE Fill_Padding
      BY <1>10, <1>0 DEF Fill_Padding, Min2, Begun, GoodBegin, IsBegin, Calls, Readers, TypeOK
<1>11. CASE Fill_EndOfRecord
      BY <1>11, <1>0 DEF Fill_EndOfRecord, Begun, GoodBegin, IsBegin, Calls, Readers, TypeOK
<1>12. CASE Fill_Header
      BY <1>12, <1>0 DEF Fill_Header, Min2, Begun, GoodBegin, IsBegin, Calls, Readers, TypeOK
<1>13. CASE Header_Misread
      BY <1>13, <1>0 DEF Header_Misread, FillError, AtHeader, Begun, GoodBegin, IsBegin, Calls,
        Readers, TypeOK
<1>14. ASSUME NEW k \in 1..Len(script), Header_BadBegin(k) PROVE Begun'
      BY <1>14, <1>0 DEF Header_BadBegin, FillError, AtHeader, LoadHeader, Begun, GoodBegin,
        IsBegin, Calls, Readers, TypeOK
<1>15. ASSUME NEW k \in 1..Len(script), Header_Multiplexed(k) PROVE Begun'
      BY <1>15, <1>0 DEF Header_Multiplexed, AtHeader, LoadHeader, Reply, Begun, GoodBegin, IsBegin,
        Calls, Readers, TypeOK
<1>16. ASSUME NEW k \in 1..Len(script), Header_Begin(k) PROVE Begun'
      BY <1>16, <1>0 DEF Header_Begin, AtHeader, LoadHeader, Begun, GoodBegin, IsBegin, Calls,
        Readers, TypeOK
<1>17. ASSUME NEW k \in 1..Len(script), Header_GetValues(k) PROVE Begun'
      BY <1>17, <1>0 DEF Header_GetValues, AtHeader, LoadHeader, Begun, GoodBegin, IsBegin, Calls,
        Readers, TypeOK
<1>18. ASSUME NEW k \in 1..Len(script), Header_UnknownManagement(k) PROVE Begun'
      BY <1>18, <1>0 DEF Header_UnknownManagement, AtHeader, LoadHeader, Reply, Begun, GoodBegin,
        IsBegin, Calls, Readers, TypeOK
<1>19. ASSUME NEW k \in 1..Len(script), Header_ReplyFails(k) PROVE Begun'
      BY <1>19, <1>0 DEF Header_ReplyFails, FillError, AtHeader, LoadHeader, Begun, GoodBegin,
        IsBegin, Calls, Readers, TypeOK
<1>20. ASSUME NEW k \in 1..Len(script), Header_OtherRequest(k) PROVE Begun'
      BY <1>20, <1>0 DEF Header_OtherRequest, AtHeader, LoadHeader, Begun, GoodBegin, IsBegin,
        Calls, Readers, TypeOK
<1>21. ASSUME NEW k \in 1..Len(script), Header_WrongType(k) PROVE Begun'
      BY <1>21, <1>0 DEF Header_WrongType, FillError, AtHeader, LoadHeader, Begun, GoodBegin,
        IsBegin, Calls, Readers, TypeOK
<1>22. ASSUME NEW k \in 1..Len(script), Header_Stream(k) PROVE Begun'
      BY <1>22, <1>0 DEF Header_Stream, AtHeader, LoadHeader, Begun, GoodBegin, IsBegin, Calls,
        Readers, TypeOK
<1>23. CASE Body_Complete
      BY <1>23, <1>0 DEF Body_Complete, Begun, GoodBegin, IsBegin, Calls, Readers, TypeOK
<1>24. CASE Body_More
      BY <1>24, <1>0 DEF Body_More, Begun, GoodBegin, IsBegin, Calls, Readers, TypeOK
<1>25. CASE Body_Short
      BY <1>25, <1>0 DEF Body_Short, Begun, GoodBegin, IsBegin, Calls, Readers, TypeOK
<1>26. CASE Values_Take
      BY <1>26, <1>0 DEF Values_Take, TakePairs, Begun, GoodBegin, IsBegin, Calls, Readers, TypeOK
<1>27. CASE Values_More
      BY <1>27, <1>0 DEF Values_More, Begun, GoodBegin, IsBegin, Calls, Readers, TypeOK
<1>28. CASE Values_Answer
      BY <1>28, <1>0 DEF Values_Answer, Reply, Begun, GoodBegin, IsBegin, Calls, Readers, TypeOK
<1>29. CASE Values_Fail
      BY <1>29, <1>0 DEF Values_Fail, Begun, GoodBegin, IsBegin, Calls, Readers, TypeOK
<1>30. ASSUME NEW s \in Scripts, Accept_New(s) PROVE Begun'
      BY <1>30, <1>0 DEF Accept_New, NewReader, Begun, GoodBegin, IsBegin, Calls, Readers, TypeOK
<1>31. CASE Accept_Kept
      BY <1>31, <1>0 DEF Accept_Kept, NewReader, Begun, GoodBegin, IsBegin, Calls, Readers, TypeOK
<1>32. CASE Accepted_Refuse
      BY <1>32, <1>0 DEF Accepted_Refuse, TryAgain, Begun, GoodBegin, IsBegin, Calls, Readers,
        TypeOK
<1>33. CASE Accepted_Begin
      BY <1>33, <1>0 DEF Accepted_Begin, SetReaderType, Begun, GoodBegin, IsBegin, Calls, Readers,
        TypeOK
<1>34. CASE Params_Take
      BY <1>34, <1>0 DEF Params_Take, TakePairs, Begun, GoodBegin, IsBegin, Calls, Readers, TypeOK
<1>35. CASE Params_More
      BY <1>35, <1>0 DEF Params_More, Begun, GoodBegin, IsBegin, Calls, Readers, TypeOK
<1>36. CASE Params_Error
      BY <1>36, <1>0 DEF Params_Error, TryAgain, Begun, GoodBegin, IsBegin, Calls, Readers, TypeOK
<1>37. CASE Params_Complete
      BY <1>37, <1>0 DEF Params_Complete, SetReaderType, Begun, GoodBegin, IsBegin, Calls, Readers,
        TypeOK
<1>38. ASSUME NEW n \in 1..MaxGet, FCGX_GetStr(n) PROVE Begun'
      BY <1>38, <1>0 DEF FCGX_GetStr, Begun, GoodBegin, IsBegin, Calls, Readers, TypeOK
<1>39. CASE FCGX_UnGetChar
      BY <1>39, <1>0 DEF FCGX_UnGetChar, Begun, GoodBegin, IsBegin, Calls, Readers, TypeOK
<1>40. CASE FCGX_StartFilterData
      BY <1>40, <1>0 DEF FCGX_StartFilterData, SetReaderType, Begun, GoodBegin, IsBegin, Calls,
        Readers, TypeOK
<1>41. CASE FCGX_FClose
      BY <1>41, <1>0 DEF FCGX_FClose, Begun, GoodBegin, IsBegin, Calls, Readers, TypeOK
<1>42. CASE FCGX_ClearError
      BY <1>42, <1>0 DEF FCGX_ClearError, Begun, GoodBegin, IsBegin, Calls, Readers, TypeOK
<1>43. CASE FCGX_Finish_r
      BY <1>43, <1>0 DEF FCGX_Finish_r, Reply, Begun, GoodBegin, IsBegin, Calls, Readers, TypeOK
<1>44. CASE GetStr_Move
      BY <1>44, <1>0 DEF GetStr_Move, Min2, Begun, GoodBegin, IsBegin, Calls, Readers, TypeOK
<1> QED BY <1>1, <1>2, <1>3, <1>4, <1>5, <1>6, <1>7, <1>8, <1>9, <1>10, <1>11, <1>12, <1>13,
   <1>14, <1>15, <1>16, <1>17, <1>18, <1>19, <1>20, <1>21, <1>22, <1>23, <1>24, <1>25,
   <1>26, <1>27, <1>28, <1>29, <1>30, <1>31, <1>32, <1>33, <1>34, <1>35, <1>36, <1>37,
   <1>38, <1>39, <1>40, <1>41, <1>42, <1>43, <1>44 DEF Next, Server, FillBuffProc,
   ProcessHeader, ReadBody, FCGX_Accept_r, App, Library

\* The streams are read in turn.
LEMMA UnreachedNext == Control /\ History /\ [Next]_vars => Unreached'
<1> SUFFICES ASSUME TypeOK, Buffer, Calls, Phases, Body, History, [Next]_vars PROVE Unreached'
      BY DEF Control
<1> USE LengthsAssumption
<1>0. Unreached
      BY DEF History
<1>1. CASE UNCHANGED vars
      BY <1>1, <1>0 DEF vars, Unreached, Phases, Caller, Calls, Loop, StreamTypes, TypeOK
<1>2. CASE ServerSend
      BY <1>2, <1>0 DEF ServerSend, Unreached, Phases, Caller, Calls, Loop, StreamTypes, TypeOK
<1>3. CASE ServerCrash
      BY <1>3, <1>0 DEF ServerCrash, Unreached, Phases, Caller, Calls, Loop, StreamTypes, TypeOK
<1>4. CASE Fill_Read
      BY <1>4, <1>0 DEF Fill_Read, Min2, Unreached, Phases, Caller, Calls, Loop, StreamTypes, TypeOK
<1>5. CASE Fill_ReadEnd
      BY <1>5, <1>0 DEF Fill_ReadEnd, FillError, Unreached, Phases, Caller, Calls, Loop,
        StreamTypes, TypeOK
<1>6. CASE Fill_NotEmpty
      BY <1>6, <1>0 DEF Fill_NotEmpty, Unreached, Phases, Caller, Calls, Loop, StreamTypes, TypeOK
<1>7. CASE Fill_Deliver
      BY <1>7, <1>0 DEF Fill_Deliver, Min2, Unreached, Phases, Caller, Calls, Loop, StreamTypes,
        TypeOK
<1>8. CASE Fill_Skip
      BY <1>8, <1>0 DEF Fill_Skip, Min2, Unreached, Phases, Caller, Calls, Loop, StreamTypes, TypeOK
<1>9. CASE Fill_NoContent
      BY <1>9, <1>0 DEF Fill_NoContent, Unreached, Phases, Caller, Calls, Loop, StreamTypes, TypeOK
<1>10. CASE Fill_Padding
      BY <1>10, <1>0 DEF Fill_Padding, Min2, Unreached, Phases, Caller, Calls, Loop, StreamTypes,
        TypeOK
<1>11. CASE Fill_EndOfRecord
      BY <1>11, <1>0 DEF Fill_EndOfRecord, Unreached, Phases, Caller, Calls, Loop, StreamTypes,
        TypeOK
<1>12. CASE Fill_Header
      BY <1>12, <1>0 DEF Fill_Header, Min2, Unreached, Phases, Caller, Calls, Loop, StreamTypes,
        TypeOK
<1>13. CASE Header_Misread
      BY <1>13, <1>0 DEF Header_Misread, FillError, AtHeader, Unreached, Phases, Caller, Calls,
        Loop, StreamTypes, TypeOK
<1>14. ASSUME NEW k \in 1..Len(script), Header_BadBegin(k) PROVE Unreached'
      BY <1>14, <1>0 DEF Header_BadBegin, FillError, AtHeader, LoadHeader, Unreached, Phases,
        Caller, Calls, Loop, StreamTypes, TypeOK
<1>15. ASSUME NEW k \in 1..Len(script), Header_Multiplexed(k) PROVE Unreached'
      BY <1>15, <1>0 DEF Header_Multiplexed, AtHeader, LoadHeader, Reply, Unreached, Phases, Caller,
        Calls, Loop, StreamTypes, TypeOK
<1>16. ASSUME NEW k \in 1..Len(script), Header_Begin(k) PROVE Unreached'
      BY <1>16, <1>0 DEF Header_Begin, AtHeader, LoadHeader, Unreached, Phases, Caller, Calls, Loop,
        StreamTypes, TypeOK
<1>17. ASSUME NEW k \in 1..Len(script), Header_GetValues(k) PROVE Unreached'
      BY <1>17, <1>0 DEF Header_GetValues, AtHeader, LoadHeader, Unreached, Phases, Caller, Calls,
        Loop, StreamTypes, TypeOK
<1>18. ASSUME NEW k \in 1..Len(script), Header_UnknownManagement(k) PROVE Unreached'
      BY <1>18, <1>0 DEF Header_UnknownManagement, AtHeader, LoadHeader, Reply, Unreached, Phases,
        Caller, Calls, Loop, StreamTypes, TypeOK
<1>19. ASSUME NEW k \in 1..Len(script), Header_ReplyFails(k) PROVE Unreached'
      BY <1>19, <1>0 DEF Header_ReplyFails, FillError, AtHeader, LoadHeader, Unreached, Phases,
        Caller, Calls, Loop, StreamTypes, TypeOK
<1>20. ASSUME NEW k \in 1..Len(script), Header_OtherRequest(k) PROVE Unreached'
      BY <1>20, <1>0 DEF Header_OtherRequest, AtHeader, LoadHeader, Unreached, Phases, Caller,
        Calls, Loop, StreamTypes, TypeOK
<1>21. ASSUME NEW k \in 1..Len(script), Header_WrongType(k) PROVE Unreached'
      BY <1>21, <1>0 DEF Header_WrongType, FillError, AtHeader, LoadHeader, Unreached, Phases,
        Caller, Calls, Loop, StreamTypes, TypeOK
<1>22. ASSUME NEW k \in 1..Len(script), Header_Stream(k) PROVE Unreached'
      BY <1>22, <1>0 DEF Header_Stream, AtHeader, LoadHeader, Unreached, Phases, Caller, Calls,
        Loop, StreamTypes, TypeOK
<1>23. CASE Body_Complete
      BY <1>23, <1>0 DEF Body_Complete, Unreached, Phases, Caller, Calls, Loop, StreamTypes, TypeOK
<1>24. CASE Body_More
      BY <1>24, <1>0 DEF Body_More, Unreached, Phases, Caller, Calls, Loop, StreamTypes, TypeOK
<1>25. CASE Body_Short
      BY <1>25, <1>0 DEF Body_Short, Unreached, Phases, Caller, Calls, Loop, StreamTypes, TypeOK
<1>26. CASE Values_Take
      BY <1>26, <1>0 DEF Values_Take, TakePairs, Unreached, Phases, Caller, Calls, Loop,
        StreamTypes, TypeOK
<1>27. CASE Values_More
      BY <1>27, <1>0 DEF Values_More, Unreached, Phases, Caller, Calls, Loop, StreamTypes, TypeOK
<1>28. CASE Values_Answer
      BY <1>28, <1>0 DEF Values_Answer, Reply, Unreached, Phases, Caller, Calls, Loop, StreamTypes,
        TypeOK
<1>29. CASE Values_Fail
      BY <1>29, <1>0 DEF Values_Fail, Unreached, Phases, Caller, Calls, Loop, StreamTypes, TypeOK
<1>30. ASSUME NEW s \in Scripts, Accept_New(s) PROVE Unreached'
      BY <1>30, <1>0 DEF Accept_New, NewReader, Unreached, Phases, Caller, Calls, Loop, StreamTypes,
        TypeOK
<1>31. CASE Accept_Kept
      BY <1>31, <1>0 DEF Accept_Kept, NewReader, Unreached, Phases, Caller, Calls, Loop,
        StreamTypes, TypeOK
<1>32. CASE Accepted_Refuse
      BY <1>32, <1>0 DEF Accepted_Refuse, TryAgain, Unreached, Phases, Caller, Calls, Loop,
        StreamTypes, TypeOK
<1>33. CASE Accepted_Begin
      BY <1>33, <1>0 DEF Accepted_Begin, SetReaderType, Unreached, Phases, Caller, Calls, Loop,
        StreamTypes, TypeOK
<1>34. CASE Params_Take
      BY <1>34, <1>0 DEF Params_Take, TakePairs, Unreached, Phases, Caller, Calls, Loop,
        StreamTypes, TypeOK
<1>35. CASE Params_More
      BY <1>35, <1>0 DEF Params_More, Unreached, Phases, Caller, Calls, Loop, StreamTypes, TypeOK
<1>36. CASE Params_Error
      BY <1>36, <1>0 DEF Params_Error, TryAgain, Unreached, Phases, Caller, Calls, Loop,
        StreamTypes, TypeOK
<1>37. CASE Params_Complete
      BY <1>37, <1>0 DEF Params_Complete, SetReaderType, Unreached, Phases, Caller, Calls, Loop,
        StreamTypes, TypeOK
<1>38. ASSUME NEW n \in 1..MaxGet, FCGX_GetStr(n) PROVE Unreached'
      BY <1>38, <1>0 DEF FCGX_GetStr, Unreached, Phases, Caller, Calls, Loop, StreamTypes, TypeOK
<1>39. CASE FCGX_UnGetChar
      BY <1>39, <1>0 DEF FCGX_UnGetChar, Unreached, Phases, Caller, Calls, Loop, StreamTypes, TypeOK
<1>40. CASE FCGX_StartFilterData
      BY <1>40, <1>0 DEF FCGX_StartFilterData, SetReaderType, Unreached, Phases, Caller, Calls,
        Loop, StreamTypes, TypeOK
<1>41. CASE FCGX_FClose
      BY <1>41, <1>0 DEF FCGX_FClose, Unreached, Phases, Caller, Calls, Loop, StreamTypes, TypeOK
<1>42. CASE FCGX_ClearError
      BY <1>42, <1>0 DEF FCGX_ClearError, Unreached, Phases, Caller, Calls, Loop, StreamTypes,
        TypeOK
<1>43. CASE FCGX_Finish_r
      BY <1>43, <1>0 DEF FCGX_Finish_r, Reply, Unreached, Phases, Caller, Calls, Loop, StreamTypes,
        TypeOK
<1>44. CASE GetStr_Move
      BY <1>44, <1>0 DEF GetStr_Move, Min2, Unreached, Phases, Caller, Calls, Loop, StreamTypes,
        TypeOK
<1> QED BY <1>1, <1>2, <1>3, <1>4, <1>5, <1>6, <1>7, <1>8, <1>9, <1>10, <1>11, <1>12, <1>13,
   <1>14, <1>15, <1>16, <1>17, <1>18, <1>19, <1>20, <1>21, <1>22, <1>23, <1>24, <1>25,
   <1>26, <1>27, <1>28, <1>29, <1>30, <1>31, <1>32, <1>33, <1>34, <1>35, <1>36, <1>37,
   <1>38, <1>39, <1>40, <1>41, <1>42, <1>43, <1>44 DEF Next, Server, FillBuffProc,
   ProcessHeader, ReadBody, FCGX_Accept_r, App, Library

\* The server sends a record after the answers it waits for, and the reader reads what was sent.
LEMMA SendingNext == Control /\ History /\ [Next]_vars => Sending'
<1> SUFFICES ASSUME TypeOK, Buffer, Calls, Phases, Body, History, [Next]_vars PROVE Sending'
      BY DEF Control
<1> USE LengthsAssumption
<1>0. Sending
      BY DEF History
<1>r. /\ Len(script) \in Nat /\ IsScript(script)
      /\ \A k \in 1..Len(script) : /\ script[k].clen \in Nat /\ script[k].plen \in Nat /\ script[k].start \in Nat
                                   /\ End(script[k]) \in Nat /\ script[k].after \in Nat /\ k \in 0..Len(script)
      BY ScriptRecords DEF TypeOK
<1>b. SentBytes \in Nat
      BY <1>r DEF SentBytes, TypeOK
<1>i. \A k \in 1..Len(script) : k \in 0..Len(script)
      BY <1>r
<1>m. PICK m \in Nat : m = Len(replies)
      BY DEF TypeOK
<1>n. PICK next \in Nat : next = m + 1
      OBVIOUS
<1>w. /\ \A k \in 1..sent : next >= script[k].after
      /\ cut > 0 => next >= script[sent + 1].after
  <2>2. ASSUME NEW k \in 1..sent PROVE next >= script[k].after
    <3>1. m >= script[k].after
          BY <1>0, <1>m DEF Sending
    <3>2. script[k].after \in Nat
      <4>1. k \in 1..Len(script)
            BY <1>r DEF TypeOK
      <4> QED BY <1>r, <4>1
    <3> QED BY <1>n, <3>1, <3>2
  <2>3. ASSUME cut > 0 PROVE next >= script[sent + 1].after
    <3>1. m >= script[sent + 1].after /\ sent < Len(script)
          BY <1>0, <1>m, <2>3 DEF Sending
    <3>2. script[sent + 1].after \in Nat
      <4>1. sent + 1 \in 1..Len(script)
            BY <1>r, <3>1 DEF TypeOK
      <4> QED BY <1>r, <4>1
    <3> QED BY <1>n, <3>1, <3>2
  <2> QED BY <2>2, <2>3
<1>1. CASE UNCHANGED vars
      BY <1>1, <1>0 DEF vars, Sending, SentBytes
<1>2. CASE ServerSend
  <2>1. /\ srvOpen /\ sent < Len(script) /\ Len(replies) >= script[sent + 1].after
        /\ sent' = sent + 1 /\ UNCHANGED <<script, srvOpen, cut, lim, replies>>
        BY <1>2 DEF ServerSend
  <2>2. sent \in Nat /\ sent + 1 \in 1..Len(script) /\ cut = 0 /\ lim \in Nat
        BY <1>0, <1>r, <2>1 DEF TypeOK, Sending
  <2>3. SentBytes <= End(script[sent + 1])
    <3>1. CASE sent = 0
          BY <1>r, <2>2, <3>1 DEF SentBytes
    <3>2. CASE sent # 0
      <4>1. sent \in 1..(Len(script) - 1) /\ sent \in 1..Len(script)
            BY <1>r, <2>2, <3>2
      <4>2. script[sent + 1].start = End(script[sent])
            BY <1>r, <4>1 DEF IsScript
      <4>3. End(script[sent]) <= End(script[sent + 1])
        <5>1. End(script[sent + 1]) = script[sent + 1].start + HeaderLen + script[sent + 1].clen + script[sent + 1].plen
              BY DEF End
        <5> QED BY <1>r, <2>2, <4>1, <4>2, <5>1
      <4> QED BY <2>2, <3>2, <4>1, <4>3, <1>r DEF SentBytes
    <3> QED BY <3>1, <3>2
  <2>4. SentBytes \in Int /\ SentBytes' = End(script[sent + 1]) /\ End(script[sent + 1]) \in Nat
        BY <1>r, <2>1, <2>2 DEF SentBytes
  <2>5. lim' <= SentBytes'
        BY <1>0, <2>1, <2>2, <2>3, <2>4 DEF Sending
  <2> QED BY <1>0, <2>1, <2>2, <2>5 DEF Sending
<1>3. CASE ServerCrash
  <2>0. /\ cut' \in Int /\ cut' >= 0
        BY <1>3 DEF ServerCrash
  <2>1. /\ srvOpen /\ UNCHANGED <<script, sent, lim, replies>> /\ ~srvOpen'
        /\ cut' > 0 => /\ sent < Len(script)
                       /\ Len(replies) >= script[sent + 1].after
                       /\ cut' \in 1..(End(script[sent + 1]) - script[sent + 1].start - 1)
        BY <1>3 DEF ServerCrash
  <2>2. cut = 0 /\ sent \in 0..Len(script) /\ lim \in Nat
        BY <1>0, <2>1 DEF TypeOK, Sending
  <2>3. SentBytes \in Int /\ SentBytes' = SentBytes + cut'
        BY <1>r, <2>1, <2>2 DEF SentBytes
  <2>4. lim' <= SentBytes'
    <3>1. lim <= SentBytes
          BY <1>0 DEF Sending
    <3>2. cut' \in Int /\ SentBytes \in Int /\ lim \in Int /\ lim' = lim
          /\ SentBytes' \in Int
          BY <2>0, <2>1, <2>2, <2>3
    <3>3. PICK a \in Int, b \in Int, c \in Int : a = SentBytes /\ b = SentBytes' /\ c = cut'
          BY <3>2
    <3>4. b = a + c /\ c >= 0 /\ lim <= a
          BY <2>0, <2>3, <3>1, <3>3
    <3>5. lim <= b
      <4>1. lim \in Int
            BY <3>2
      <4> QED BY <3>4, <4>1
    <3> QED BY <3>2, <3>3, <3>5
  <2>5. ASSUME cut' > 0 PROVE cut' < End(script[sent + 1]) - script[sent + 1].start
    <3>1. sent + 1 \in 1..Len(script)
          BY <2>1, <2>2, <2>5, <1>r
    <3> QED BY <1>r, <2>0, <2>1, <2>5, <3>1
  <2> QED BY <1>0, <2>1, <2>4, <2>5 DEF Sending
<1>4. CASE Fill_Read
  <2>1. PICK n \in 1..Min2(BuffLen, SentBytes - lim) : lim' = lim + n
        BY <1>4 DEF Fill_Read
  <2>2. UNCHANGED <<script, sent, srvOpen, cut, replies>> /\ SentBytes' = SentBytes
        BY <1>4 DEF Fill_Read, SentBytes
  <2>3. lim + n <= SentBytes
        BY <1>b, <2>1 DEF Min2, TypeOK
  <2> QED BY <1>0, <2>1, <2>2, <2>3 DEF Sending
<1>5. CASE Fill_ReadEnd
      BY <1>5, <1>0 DEF Fill_ReadEnd, FillError, Sending, SentBytes
<1>6. CASE Fill_NotEmpty
      BY <1>6, <1>0 DEF Fill_NotEmpty, Sending, SentBytes
<1>7. CASE Fill_Deliver
      BY <1>7, <1>0 DEF Fill_Deliver, Min2, Sending, SentBytes
<1>8. CASE Fill_Skip
      BY <1>8, <1>0 DEF Fill_Skip, Min2, Sending, SentBytes
<1>9. CASE Fill_NoContent
      BY <1>9, <1>0 DEF Fill_NoContent, Sending, SentBytes
<1>10. CASE Fill_Padding
      BY <1>10, <1>0 DEF Fill_Padding, Min2, Sending, SentBytes
<1>11. CASE Fill_EndOfRecord
      BY <1>11, <1>0 DEF Fill_EndOfRecord, Sending, SentBytes
<1>12. CASE Fill_Header
      BY <1>12, <1>0 DEF Fill_Header, Min2, Sending, SentBytes
<1>13. CASE Header_Misread
      BY <1>13, <1>0 DEF Header_Misread, FillError, AtHeader, Sending, SentBytes
<1>14. ASSUME NEW k \in 1..Len(script), Header_BadBegin(k) PROVE Sending'
      BY <1>14, <1>0 DEF Header_BadBegin, FillError, AtHeader, LoadHeader, Sending, SentBytes
<1>15. ASSUME NEW k \in 1..Len(script), Header_Multiplexed(k) PROVE Sending'
  <2>1. Len(replies') = Len(replies) + 1
    <3>1. PICK k0 \in 0..Len(script) : Reply("cant_mpx", k0)
          BY <1>15, <1>i DEF Header_Multiplexed
    <3> QED BY <3>1, OneMore
  <2>5. UNCHANGED <<script, sent, srvOpen, cut, lim>>
        BY <1>15 DEF Header_Multiplexed
  <2>2. SentBytes' = SentBytes
        BY <2>5 DEF SentBytes
  <2>3. lim' <= SentBytes'
        BY <1>0, <2>2, <2>5 DEF Sending
  <2>7. Len(replies') = next
        BY <1>m, <1>n, <2>1
  <2> QED BY <1>0, <1>w, <2>3, <2>5, <2>7 DEF Sending
<1>16. ASSUME NEW k \in 1..Len(script), Header_Begin(k) PROVE Sending'
      BY <1>16, <1>0 DEF Header_Begin, AtHeader, LoadHeader, Sending, SentBytes
<1>17. ASSUME NEW k \in 1..Len(script), Header_GetValues(k) PROVE Sending'
      BY <1>17, <1>0 DEF Header_GetValues, AtHeader, LoadHeader, Sending, SentBytes
<1>18. ASSUME NEW k \in 1..Len(script), Header_UnknownManagement(k) PROVE Sending'
  <2>1. Len(replies') = Len(replies) + 1
    <3>1. PICK k0 \in 0..Len(script) : Reply("unknown_type", k0)
          BY <1>18, <1>i DEF Header_UnknownManagement
    <3> QED BY <3>1, OneMore
  <2>5. UNCHANGED <<script, sent, srvOpen, cut, lim>>
        BY <1>18 DEF Header_UnknownManagement
  <2>2. SentBytes' = SentBytes
        BY <2>5 DEF SentBytes
  <2>3. lim' <= SentBytes'
        BY <1>0, <2>2, <2>5 DEF Sending
  <2>7. Len(replies') = next
        BY <1>m, <1>n, <2>1
  <2> QED BY <1>0, <1>w, <2>3, <2>5, <2>7 DEF Sending
<1>19. ASSUME NEW k \in 1..Len(script), Header_ReplyFails(k) PROVE Sending'
      BY <1>19, <1>0 DEF Header_ReplyFails, FillError, AtHeader, LoadHeader, Sending, SentBytes
<1>20. ASSUME NEW k \in 1..Len(script), Header_OtherRequest(k) PROVE Sending'
      BY <1>20, <1>0 DEF Header_OtherRequest, AtHeader, LoadHeader, Sending, SentBytes
<1>21. ASSUME NEW k \in 1..Len(script), Header_WrongType(k) PROVE Sending'
      BY <1>21, <1>0 DEF Header_WrongType, FillError, AtHeader, LoadHeader, Sending, SentBytes
<1>22. ASSUME NEW k \in 1..Len(script), Header_Stream(k) PROVE Sending'
      BY <1>22, <1>0 DEF Header_Stream, AtHeader, LoadHeader, Sending, SentBytes
<1>23. CASE Body_Complete
      BY <1>23, <1>0 DEF Body_Complete, Sending, SentBytes
<1>24. CASE Body_More
      BY <1>24, <1>0 DEF Body_More, Sending, SentBytes
<1>25. CASE Body_Short
      BY <1>25, <1>0 DEF Body_Short, Sending, SentBytes
<1>26. CASE Values_Take
      BY <1>26, <1>0 DEF Values_Take, TakePairs, Sending, SentBytes
<1>27. CASE Values_More
      BY <1>27, <1>0 DEF Values_More, Sending, SentBytes
<1>28. CASE Values_Answer
  <2>1. Len(replies') = Len(replies) + 1
    <3>1. PICK k0 \in 0..Len(script) : Reply("values", k0)
          BY <1>28, <1>i DEF Values_Answer, TypeOK
    <3> QED BY <3>1, OneMore
  <2>5. UNCHANGED <<script, sent, srvOpen, cut, lim>>
        BY <1>28 DEF Values_Answer
  <2>2. SentBytes' = SentBytes
        BY <2>5 DEF SentBytes
  <2>3. lim' <= SentBytes'
        BY <1>0, <2>2, <2>5 DEF Sending
  <2>7. Len(replies') = next
        BY <1>m, <1>n, <2>1
  <2> QED BY <1>0, <1>w, <2>3, <2>5, <2>7 DEF Sending
<1>29. CASE Values_Fail
      BY <1>29, <1>0 DEF Values_Fail, Sending, SentBytes
<1>30. ASSUME NEW s \in Scripts, Accept_New(s) PROVE Sending'
  <2>1. script' = s /\ sent' = 0 /\ srvOpen' /\ cut' = 0 /\ replies' = <<>> /\ lim' = 0
        BY <1>30 DEF Accept_New
  <2>2. SentBytes' = 0
        BY <2>1 DEF SentBytes
  <2> QED BY <2>1, <2>2 DEF Sending
<1>31. CASE Accept_Kept
      BY <1>31, <1>0 DEF Accept_Kept, NewReader, Sending, SentBytes
<1>32. CASE Accepted_Refuse
      BY <1>32, <1>0 DEF Accepted_Refuse, TryAgain, Sending, SentBytes
<1>33. CASE Accepted_Begin
      BY <1>33, <1>0 DEF Accepted_Begin, SetReaderType, Sending, SentBytes
<1>34. CASE Params_Take
      BY <1>34, <1>0 DEF Params_Take, TakePairs, Sending, SentBytes
<1>35. CASE Params_More
      BY <1>35, <1>0 DEF Params_More, Sending, SentBytes
<1>36. CASE Params_Error
      BY <1>36, <1>0 DEF Params_Error, TryAgain, Sending, SentBytes
<1>37. CASE Params_Complete
      BY <1>37, <1>0 DEF Params_Complete, SetReaderType, Sending, SentBytes
<1>38. ASSUME NEW n \in 1..MaxGet, FCGX_GetStr(n) PROVE Sending'
      BY <1>38, <1>0 DEF FCGX_GetStr, Sending, SentBytes
<1>39. CASE FCGX_UnGetChar
      BY <1>39, <1>0 DEF FCGX_UnGetChar, Sending, SentBytes
<1>40. CASE FCGX_StartFilterData
      BY <1>40, <1>0 DEF FCGX_StartFilterData, SetReaderType, Sending, SentBytes
<1>41. CASE FCGX_FClose
      BY <1>41, <1>0 DEF FCGX_FClose, Sending, SentBytes
<1>42. CASE FCGX_ClearError
      BY <1>42, <1>0 DEF FCGX_ClearError, Sending, SentBytes
<1>43. CASE FCGX_Finish_r
  <2>1. Len(replies') = Len(replies) + 1
    <3>1. PICK k0 \in 0..Len(script) : Reply("end", k0)
          BY <1>43, <1>i DEF FCGX_Finish_r, TypeOK
    <3> QED BY <3>1, OneMore
  <2>5. UNCHANGED <<script, sent, srvOpen, cut, lim>>
        BY <1>43 DEF FCGX_Finish_r
  <2>2. SentBytes' = SentBytes
        BY <2>5 DEF SentBytes
  <2>3. lim' <= SentBytes'
        BY <1>0, <2>2, <2>5 DEF Sending
  <2>7. Len(replies') = next
        BY <1>m, <1>n, <2>1
  <2> QED BY <1>0, <1>w, <2>3, <2>5, <2>7 DEF Sending
<1>44. CASE GetStr_Move
      BY <1>44, <1>0 DEF GetStr_Move, Min2, Sending, SentBytes
<1> QED BY <1>1, <1>2, <1>3, <1>4, <1>5, <1>6, <1>7, <1>8, <1>9, <1>10, <1>11, <1>12, <1>13,
   <1>14, <1>15, <1>16, <1>17, <1>18, <1>19, <1>20, <1>21, <1>22, <1>23, <1>24, <1>25,
   <1>26, <1>27, <1>28, <1>29, <1>30, <1>31, <1>32, <1>33, <1>34, <1>35, <1>36, <1>37,
   <1>38, <1>39, <1>40, <1>41, <1>42, <1>43, <1>44 DEF Next, Server, FillBuffProc,
   ProcessHeader, ReadBody, FCGX_Accept_r, App, Library

\* The vector of the environment has room for its NULL, and a pair for every two bytes of PARAMS.
LEMMA EnvironmentNext == Control /\ History /\ [Next]_vars => Environment'
<1> SUFFICES ASSUME TypeOK, Buffer, Calls, Phases, Body, History, [Next]_vars PROVE Environment'
      BY DEF Control
<1> USE LengthsAssumption
<1>0. Environment
      BY DEF History
<1>1. CASE UNCHANGED vars
      BY <1>1, <1>0 DEF vars, Environment, Caller, Calls, Loop, Phases, Readers, StreamTypes, TypeOK
<1>2. CASE ServerSend
      BY <1>2, <1>0 DEF ServerSend, Environment, Caller, Calls, Loop, Phases, Readers, StreamTypes,
        TypeOK
<1>3. CASE ServerCrash
      BY <1>3, <1>0 DEF ServerCrash, Environment, Caller, Calls, Loop, Phases, Readers, StreamTypes,
        TypeOK
<1>4. CASE Fill_Read
      BY <1>4, <1>0 DEF Fill_Read, Min2, Environment, Caller, Calls, Loop, Phases, Readers,
        StreamTypes, TypeOK
<1>5. CASE Fill_ReadEnd
      BY <1>5, <1>0 DEF Fill_ReadEnd, FillError, Environment, Caller, Calls, Loop, Phases, Readers,
        StreamTypes, TypeOK
<1>6. CASE Fill_NotEmpty
      BY <1>6, <1>0 DEF Fill_NotEmpty, Environment, Caller, Calls, Loop, Phases, Readers,
        StreamTypes, TypeOK
<1>7. CASE Fill_Deliver
      BY <1>7, <1>0 DEF Fill_Deliver, Min2, Environment, Caller, Calls, Loop, Phases, Readers,
        StreamTypes, TypeOK
<1>8. CASE Fill_Skip
      BY <1>8, <1>0 DEF Fill_Skip, Min2, Environment, Caller, Calls, Loop, Phases, Readers,
        StreamTypes, TypeOK
<1>9. CASE Fill_NoContent
      BY <1>9, <1>0 DEF Fill_NoContent, Environment, Caller, Calls, Loop, Phases, Readers,
        StreamTypes, TypeOK
<1>10. CASE Fill_Padding
      BY <1>10, <1>0 DEF Fill_Padding, Min2, Environment, Caller, Calls, Loop, Phases, Readers,
        StreamTypes, TypeOK
<1>11. CASE Fill_EndOfRecord
      BY <1>11, <1>0 DEF Fill_EndOfRecord, Environment, Caller, Calls, Loop, Phases, Readers,
        StreamTypes, TypeOK
<1>12. CASE Fill_Header
      BY <1>12, <1>0 DEF Fill_Header, Min2, Environment, Caller, Calls, Loop, Phases, Readers,
        StreamTypes, TypeOK
<1>13. CASE Header_Misread
      BY <1>13, <1>0 DEF Header_Misread, FillError, AtHeader, Environment, Caller, Calls, Loop,
        Phases, Readers, StreamTypes, TypeOK
<1>14. ASSUME NEW k \in 1..Len(script), Header_BadBegin(k) PROVE Environment'
      BY <1>14, <1>0 DEF Header_BadBegin, FillError, AtHeader, LoadHeader, Environment, Caller,
        Calls, Loop, Phases, Readers, StreamTypes, TypeOK
<1>15. ASSUME NEW k \in 1..Len(script), Header_Multiplexed(k) PROVE Environment'
      BY <1>15, <1>0 DEF Header_Multiplexed, AtHeader, LoadHeader, Reply, Environment, Caller,
        Calls, Loop, Phases, Readers, StreamTypes, TypeOK
<1>16. ASSUME NEW k \in 1..Len(script), Header_Begin(k) PROVE Environment'
      BY <1>16, <1>0 DEF Header_Begin, AtHeader, LoadHeader, Environment, Caller, Calls, Loop,
        Phases, Readers, StreamTypes, TypeOK
<1>17. ASSUME NEW k \in 1..Len(script), Header_GetValues(k) PROVE Environment'
      BY <1>17, <1>0 DEF Header_GetValues, AtHeader, LoadHeader, Environment, Caller, Calls, Loop,
        Phases, Readers, StreamTypes, TypeOK
<1>18. ASSUME NEW k \in 1..Len(script), Header_UnknownManagement(k) PROVE Environment'
      BY <1>18, <1>0 DEF Header_UnknownManagement, AtHeader, LoadHeader, Reply, Environment, Caller,
        Calls, Loop, Phases, Readers, StreamTypes, TypeOK
<1>19. ASSUME NEW k \in 1..Len(script), Header_ReplyFails(k) PROVE Environment'
      BY <1>19, <1>0 DEF Header_ReplyFails, FillError, AtHeader, LoadHeader, Environment, Caller,
        Calls, Loop, Phases, Readers, StreamTypes, TypeOK
<1>20. ASSUME NEW k \in 1..Len(script), Header_OtherRequest(k) PROVE Environment'
      BY <1>20, <1>0 DEF Header_OtherRequest, AtHeader, LoadHeader, Environment, Caller, Calls,
        Loop, Phases, Readers, StreamTypes, TypeOK
<1>21. ASSUME NEW k \in 1..Len(script), Header_WrongType(k) PROVE Environment'
      BY <1>21, <1>0 DEF Header_WrongType, FillError, AtHeader, LoadHeader, Environment, Caller,
        Calls, Loop, Phases, Readers, StreamTypes, TypeOK
<1>22. ASSUME NEW k \in 1..Len(script), Header_Stream(k) PROVE Environment'
      BY <1>22, <1>0 DEF Header_Stream, AtHeader, LoadHeader, Environment, Caller, Calls, Loop,
        Phases, Readers, StreamTypes, TypeOK
<1>23. CASE Body_Complete
      BY <1>23, <1>0 DEF Body_Complete, Environment, Caller, Calls, Loop, Phases, Readers,
        StreamTypes, TypeOK
<1>24. CASE Body_More
      BY <1>24, <1>0 DEF Body_More, Environment, Caller, Calls, Loop, Phases, Readers, StreamTypes,
        TypeOK
<1>25. CASE Body_Short
      BY <1>25, <1>0 DEF Body_Short, Environment, Caller, Calls, Loop, Phases, Readers, StreamTypes,
        TypeOK
<1>26. CASE Values_Take
      BY <1>26, <1>0 DEF Values_Take, TakePairs, Environment, Caller, Calls, Loop, Phases, Readers,
        StreamTypes, TypeOK
<1>27. CASE Values_More
      BY <1>27, <1>0 DEF Values_More, Environment, Caller, Calls, Loop, Phases, Readers,
        StreamTypes, TypeOK
<1>28. CASE Values_Answer
      BY <1>28, <1>0 DEF Values_Answer, Reply, Environment, Caller, Calls, Loop, Phases, Readers,
        StreamTypes, TypeOK
<1>29. CASE Values_Fail
      BY <1>29, <1>0 DEF Values_Fail, Environment, Caller, Calls, Loop, Phases, Readers,
        StreamTypes, TypeOK
<1>30. ASSUME NEW s \in Scripts, Accept_New(s) PROVE Environment'
      BY <1>30, <1>0 DEF Accept_New, NewReader, Environment, Caller, Calls, Loop, Phases, Readers,
        StreamTypes, TypeOK
<1>31. CASE Accept_Kept
      BY <1>31, <1>0 DEF Accept_Kept, NewReader, Environment, Caller, Calls, Loop, Phases, Readers,
        StreamTypes, TypeOK
<1>32. CASE Accepted_Refuse
      BY <1>32, <1>0 DEF Accepted_Refuse, TryAgain, Environment, Caller, Calls, Loop, Phases,
        Readers, StreamTypes, TypeOK
<1>33. CASE Accepted_Begin
  <2>1. pc = "accepted" /\ pc' = "params" /\ ~eorStop' /\ got' = got /\ half' = NoPair
        /\ params' = PutParam(NewParams(ParamsLen))
        BY <1>33 DEF Accepted_Begin, SetReaderType
  <2>2. type = "none"
        BY <2>1 DEF Calls, Phases, Caller, Loop
  <2>3. got'["params"] = {}
        BY <2>1, <2>2 DEF History, Unreached
  <2>4. params' \in [length : Nat, cur : Nat] /\ params'.cur = 1 /\ params'.cur < params'.length /\ params' # NoParams
        BY <2>1, FirstPair DEF NoParams
  <2>5. IsFiniteSet(got'["params"]) /\ Cardinality(got'["params"]) = 0
        BY <2>3, FS_EmptySet
  <2>6. ~half'["params"]
        BY <2>1, NoPairType
  <2> QED BY <2>1, <2>4, <2>5, <2>6 DEF Environment, Caller, Loop
<1>34. CASE Params_Take
  <2>1. /\ pc = "params" /\ pc' = "params" /\ eorStop' = eorStop /\ ~isClosed /\ pos < stop
        /\ got' = [got EXCEPT !["params"] = got["params"] \cup pos..(stop - 1)]
        /\ half' = [half EXCEPT !["params"] = (half["params"] # ((stop - pos) % 2 = 1))]
        BY <1>34 DEF Params_Take, TakePairs
  <2>2. /\ params' \in [length : Nat, cur : Nat] /\ PairsTaken \in Nat
        /\ params'.cur = params.cur + PairsTaken /\ params'.cur < params'.length
        BY <1>34, <1>0, EnvironmentGrows
  <2>3. ~eorStop /\ Caller = "params" /\ Caller' = "params"
        BY <2>1 DEF Calls, Caller, Loop
  <2>4. PICK n \in Nat : n = stop - pos
        BY <2>1 DEF TypeOK
  <2>5. pos..(stop - 1) \cap got["params"] = {}
    <3>1. \A q \in got["params"] : q < Base
          BY DEF History, Behind, StreamTypes
    <3>2. Base <= pos /\ Base \in Int /\ pos \in Nat
          BY <2>1 DEF Base, TypeOK
    <3>3. got["params"] \in SUBSET Nat
          BY DEF TypeOK, StreamTypes
    <3> QED BY <3>1, <3>2, <3>3
  <2>6. IsFiniteSet(pos..(stop - 1)) /\ Cardinality(pos..(stop - 1)) = n
    <3>1. PICK a \in Int, b \in Int : a = pos /\ b = stop - 1 /\ a <= b /\ n = b - a + 1
          BY <2>1, <2>4 DEF TypeOK
    <3>2. IsFiniteSet(a..b) /\ Cardinality(a..b) = n
          BY <3>1, FS_Interval
    <3> QED BY <3>1, <3>2
  <2>7. IsFiniteSet(got["params"]) /\ Cardinality(got["params"]) \in Nat
        BY <1>0, <2>3, FS_CardinalityType DEF Environment
  <2>8. got'["params"] = got["params"] \cup pos..(stop - 1)
        BY <2>1 DEF TypeOK, StreamTypes
  <2>9. /\ IsFiniteSet(got'["params"])
        /\ Cardinality(got'["params"]) = Cardinality(got["params"]) + n
    <3>1. Cardinality(got["params"] \cap pos..(stop - 1)) = 0
          BY <2>5, FS_EmptySet
    <3>2. /\ IsFiniteSet(got["params"] \cup pos..(stop - 1))
          /\ Cardinality(got["params"] \cup pos..(stop - 1)) = Cardinality(got["params"]) + n - 0
      <4>1. /\ IsFiniteSet(got["params"] \cup pos..(stop - 1))
            /\ Cardinality(got["params"] \cup pos..(stop - 1))
                   = Cardinality(got["params"]) + Cardinality(pos..(stop - 1)) - Cardinality(got["params"] \cap pos..(stop - 1))
            BY <2>6, <2>7, FS_Union, ZenonT(30)
      <4> QED BY <2>6, <3>1, <4>1
    <3> QED BY <2>7, <2>8, <3>2
  <2>10. PICK h \in Nat, e \in Nat, p \in Nat :
                 /\ h = (IF half["params"] THEN 1 ELSE 0) /\ e = (IF half'["params"] THEN 1 ELSE 0)
                 /\ p = PairsTaken /\ n + h = 2 * p + e
    <3>1. half["params"] \in BOOLEAN /\ half'["params"] = (half["params"] # (n % 2 = 1))
          BY <2>1, <2>4 DEF TypeOK
    <3>2. CASE half["params"]
      <4>1. half'["params"] <=> n % 2 # 1
            BY <3>1, <3>2
      <4>2. PairsTaken = (n + 1) \div 2
            BY <2>4, <3>2 DEF PairsTaken
      <4>3. PICK q, r \in Nat : r < 2 /\ n + 1 = 2 * q + r /\ (n + 1) \div 2 = q /\ (n + 1) % 2 = r
            BY Halves
      <4>4. r = 1 <=> n % 2 # 1
            BY <4>3
      <4> QED BY <3>2, <4>1, <4>2, <4>3, <4>4
    <3>3. CASE ~half["params"]
      <4>1. half'["params"] <=> n % 2 = 1
            BY <3>1, <3>3
      <4>2. PairsTaken = n \div 2
            BY <2>4, <3>3 DEF PairsTaken
      <4>3. PICK q, r \in Nat : r < 2 /\ n = 2 * q + r /\ n \div 2 = q /\ n % 2 = r
            BY Halves
      <4> QED BY <3>3, <4>1, <4>2, <4>3
    <3> QED BY <3>2, <3>3
  <2>11. params.cur \in Nat /\ params.cur >= 1 /\ Cardinality(got["params"]) = 2 * (params.cur - 1) + h
        BY <1>0, <2>3, <2>10 DEF Environment, TypeOK
  <2>12. Cardinality(got'["params"]) = 2 * (params'.cur - 1) + e
    <3>1. PICK a \in Nat, c \in Nat : a = Cardinality(got["params"]) /\ c = params.cur
          BY <2>7, <2>11
    <3>2. a = 2 * (c - 1) + h
          BY <2>11, <3>1
    <3>3. Cardinality(got'["params"]) = a + n /\ params'.cur = c + p
          BY <2>2, <2>9, <2>10, <3>1
    <3> QED BY <2>10, <3>2, <3>3
  <2>13. params'.cur >= 1 /\ params' # NoParams
        BY <2>2, <2>11 DEF NoParams
  <2> QED BY <2>2, <2>3, <2>9, <2>10, <2>12, <2>13 DEF Environment
<1>35. CASE Params_More
      BY <1>35, <1>0 DEF Params_More, Environment, Caller, Calls, Loop, Phases, Readers,
        StreamTypes, TypeOK
<1>36. CASE Params_Error
      BY <1>36, <1>0 DEF Params_Error, TryAgain, Environment, Caller, Calls, Loop, Phases, Readers,
        StreamTypes, TypeOK
<1>37. CASE Params_Complete
      BY <1>37, <1>0 DEF Params_Complete, SetReaderType, Environment, Caller, Calls, Loop, Phases,
        Readers, StreamTypes, TypeOK
<1>38. ASSUME NEW n \in 1..MaxGet, FCGX_GetStr(n) PROVE Environment'
      BY <1>38, <1>0 DEF FCGX_GetStr, Environment, Caller, Calls, Loop, Phases, Readers,
        StreamTypes, TypeOK
<1>39. CASE FCGX_UnGetChar
      BY <1>39, <1>0 DEF FCGX_UnGetChar, Environment, Caller, Calls, Loop, Phases, Readers,
        StreamTypes, TypeOK
<1>40. CASE FCGX_StartFilterData
      BY <1>40, <1>0 DEF FCGX_StartFilterData, SetReaderType, Environment, Caller, Calls, Loop,
        Phases, Readers, StreamTypes, TypeOK
<1>41. CASE FCGX_FClose
      BY <1>41, <1>0 DEF FCGX_FClose, Environment, Caller, Calls, Loop, Phases, Readers,
        StreamTypes, TypeOK
<1>42. CASE FCGX_ClearError
      BY <1>42, <1>0 DEF FCGX_ClearError, Environment, Caller, Calls, Loop, Phases, Readers,
        StreamTypes, TypeOK
<1>43. CASE FCGX_Finish_r
      BY <1>43, <1>0 DEF FCGX_Finish_r, Reply, Environment, Caller, Calls, Loop, Phases, Readers,
        StreamTypes, TypeOK
<1>44. CASE GetStr_Move
      BY <1>44, <1>0 DEF GetStr_Move, Min2, Environment, Caller, Calls, Loop, Phases, Readers,
        StreamTypes, TypeOK
<1> QED BY <1>1, <1>2, <1>3, <1>4, <1>5, <1>6, <1>7, <1>8, <1>9, <1>10, <1>11, <1>12, <1>13,
   <1>14, <1>15, <1>16, <1>17, <1>18, <1>19, <1>20, <1>21, <1>22, <1>23, <1>24, <1>25,
   <1>26, <1>27, <1>28, <1>29, <1>30, <1>31, <1>32, <1>33, <1>34, <1>35, <1>36, <1>37,
   <1>38, <1>39, <1>40, <1>41, <1>42, <1>43, <1>44 DEF Next, Server, FillBuffProc,
   ProcessHeader, ReadBody, FCGX_Accept_r, App, Library

\* A header is only begun when the record before it has been passed.
LEMMA HeadersNext == Control /\ History /\ [Next]_vars => Headers'
<1> SUFFICES ASSUME TypeOK, Buffer, Calls, Phases, Body, History, [Next]_vars PROVE Headers'
      BY DEF Control
<1> USE LengthsAssumption
<1>0. Headers
      BY DEF History
<1>1. CASE UNCHANGED vars
      BY <1>1, <1>0 DEF vars, Headers, Buffer, Loop, Min2, TypeOK, Readers
<1>2. CASE ServerSend
      BY <1>2, <1>0 DEF ServerSend, Headers, Buffer, Loop, Min2, TypeOK, Readers
<1>3. CASE ServerCrash
      BY <1>3, <1>0 DEF ServerCrash, Headers, Buffer, Loop, Min2, TypeOK, Readers
<1>4. CASE Fill_Read
      BY <1>4, <1>0 DEF Fill_Read, Min2, Headers, Buffer, Loop, TypeOK, Readers
<1>5. CASE Fill_ReadEnd
      BY <1>5, <1>0 DEF Fill_ReadEnd, FillError, Headers, Buffer, Loop, Min2, TypeOK, Readers
<1>6. CASE Fill_NotEmpty
      BY <1>6, <1>0 DEF Fill_NotEmpty, Headers, Buffer, Loop, Min2, TypeOK, Readers
<1>7. CASE Fill_Deliver
      BY <1>7, <1>0 DEF Fill_Deliver, Min2, Headers, Buffer, Loop, TypeOK, Readers
<1>8. CASE Fill_Skip
      BY <1>8, <1>0 DEF Fill_Skip, Min2, Headers, Buffer, Loop, TypeOK, Readers
<1>9. CASE Fill_NoContent
      BY <1>9, <1>0 DEF Fill_NoContent, Headers, Buffer, Loop, Min2, TypeOK, Readers
<1>10. CASE Fill_Padding
      BY <1>10, <1>0 DEF Fill_Padding, Min2, Headers, Buffer, Loop, TypeOK, Readers
<1>11. CASE Fill_EndOfRecord
      BY <1>11, <1>0 DEF Fill_EndOfRecord, Headers, Buffer, Loop, Min2, TypeOK, Readers
<1>12. CASE Fill_Header
      BY <1>12, <1>0 DEF Fill_Header, Min2, Headers, Buffer, Loop, TypeOK, Readers
<1>13. CASE Header_Misread
      BY <1>13, <1>0 DEF Header_Misread, FillError, AtHeader, Headers, Buffer, Loop, Min2, TypeOK,
        Readers
<1>14. ASSUME NEW k \in 1..Len(script), Header_BadBegin(k) PROVE Headers'
      BY <1>14, <1>0 DEF Header_BadBegin, FillError, AtHeader, LoadHeader, Headers, Buffer, Loop,
        Min2, TypeOK, Readers
<1>15. ASSUME NEW k \in 1..Len(script), Header_Multiplexed(k) PROVE Headers'
      BY <1>15, <1>0 DEF Header_Multiplexed, AtHeader, LoadHeader, Reply, Headers, Buffer, Loop,
        Min2, TypeOK, Readers
<1>16. ASSUME NEW k \in 1..Len(script), Header_Begin(k) PROVE Headers'
      BY <1>16, <1>0 DEF Header_Begin, AtHeader, LoadHeader, Headers, Buffer, Loop, Min2, TypeOK,
        Readers
<1>17. ASSUME NEW k \in 1..Len(script), Header_GetValues(k) PROVE Headers'
      BY <1>17, <1>0 DEF Header_GetValues, AtHeader, LoadHeader, Headers, Buffer, Loop, Min2,
        TypeOK, Readers
<1>18. ASSUME NEW k \in 1..Len(script), Header_UnknownManagement(k) PROVE Headers'
      BY <1>18, <1>0 DEF Header_UnknownManagement, AtHeader, LoadHeader, Reply, Headers, Buffer,
        Loop, Min2, TypeOK, Readers
<1>19. ASSUME NEW k \in 1..Len(script), Header_ReplyFails(k) PROVE Headers'
      BY <1>19, <1>0 DEF Header_ReplyFails, FillError, AtHeader, LoadHeader, Headers, Buffer, Loop,
        Min2, TypeOK, Readers
<1>20. ASSUME NEW k \in 1..Len(script), Header_OtherRequest(k) PROVE Headers'
      BY <1>20, <1>0 DEF Header_OtherRequest, AtHeader, LoadHeader, Headers, Buffer, Loop, Min2,
        TypeOK, Readers
<1>21. ASSUME NEW k \in 1..Len(script), Header_WrongType(k) PROVE Headers'
      BY <1>21, <1>0 DEF Header_WrongType, FillError, AtHeader, LoadHeader, Headers, Buffer, Loop,
        Min2, TypeOK, Readers
<1>22. ASSUME NEW k \in 1..Len(script), Header_Stream(k) PROVE Headers'
      BY <1>22, <1>0 DEF Header_Stream, AtHeader, LoadHeader, Headers, Buffer, Loop, Min2, TypeOK,
        Readers
<1>23. CASE Body_Complete
      BY <1>23, <1>0 DEF Body_Complete, Headers, Buffer, Loop, Min2, TypeOK, Readers
<1>24. CASE Body_More
      BY <1>24, <1>0 DEF Body_More, Headers, Buffer, Loop, Min2, TypeOK, Readers
<1>25. CASE Body_Short
      BY <1>25, <1>0 DEF Body_Short, Headers, Buffer, Loop, Min2, TypeOK, Readers
<1>26. CASE Values_Take
      BY <1>26, <1>0 DEF Values_Take, TakePairs, Headers, Buffer, Loop, Min2, TypeOK, Readers
<1>27. CASE Values_More
      BY <1>27, <1>0 DEF Values_More, Headers, Buffer, Loop, Min2, TypeOK, Readers
<1>28. CASE Values_Answer
      BY <1>28, <1>0 DEF Values_Answer, Reply, Headers, Buffer, Loop, Min2, TypeOK, Readers
<1>29. CASE Values_Fail
      BY <1>29, <1>0 DEF Values_Fail, Headers, Buffer, Loop, Min2, TypeOK, Readers
<1>30. ASSUME NEW s \in Scripts, Accept_New(s) PROVE Headers'
      BY <1>30, <1>0 DEF Accept_New, NewReader, Headers, Buffer, Loop, Min2, TypeOK, Readers
<1>31. CASE Accept_Kept
      BY <1>31, <1>0 DEF Accept_Kept, NewReader, Headers, Buffer, Loop, Min2, TypeOK, Readers
<1>32. CASE Accepted_Refuse
      BY <1>32, <1>0 DEF Accepted_Refuse, TryAgain, Headers, Buffer, Loop, Min2, TypeOK, Readers
<1>33. CASE Accepted_Begin
      BY <1>33, <1>0 DEF Accepted_Begin, SetReaderType, Headers, Buffer, Loop, Min2, TypeOK, Readers
<1>34. CASE Params_Take
      BY <1>34, <1>0 DEF Params_Take, TakePairs, Headers, Buffer, Loop, Min2, TypeOK, Readers
<1>35. CASE Params_More
      BY <1>35, <1>0 DEF Params_More, Headers, Buffer, Loop, Min2, TypeOK, Readers
<1>36. CASE Params_Error
      BY <1>36, <1>0 DEF Params_Error, TryAgain, Headers, Buffer, Loop, Min2, TypeOK, Readers
<1>37. CASE Params_Complete
      BY <1>37, <1>0 DEF Params_Complete, SetReaderType, Headers, Buffer, Loop, Min2, TypeOK,
        Readers
<1>38. ASSUME NEW n \in 1..MaxGet, FCGX_GetStr(n) PROVE Headers'
      BY <1>38, <1>0 DEF FCGX_GetStr, Headers, Buffer, Loop, Min2, TypeOK, Readers
<1>39. CASE FCGX_UnGetChar
  <2>1. pc = "app" /\ (pos - 1) \in got[type] /\ pos' = pos - 1 /\ pc' = pc
        /\ UNCHANGED <<contentLen, headerLen, stop>>
        BY <1>39 DEF FCGX_UnGetChar
  <2>2. type \in StreamTypes
        BY <2>1 DEF Calls, Phases, Caller, Loop, StreamTypes
  <2>3. pos - 1 < Base
        BY <2>1, <2>2 DEF History, Behind
  <2>4. headerLen = 0
        BY <2>1, <2>3 DEF Base, TypeOK
  <2> QED BY <2>1, <2>4 DEF Headers
<1>40. CASE FCGX_StartFilterData
      BY <1>40, <1>0 DEF FCGX_StartFilterData, SetReaderType, Headers, Buffer, Loop, Min2, TypeOK,
        Readers
<1>41. CASE FCGX_FClose
      BY <1>41, <1>0 DEF FCGX_FClose, Headers, Buffer, Loop, Min2, TypeOK, Readers
<1>42. CASE FCGX_ClearError
      BY <1>42, <1>0 DEF FCGX_ClearError, Headers, Buffer, Loop, Min2, TypeOK, Readers
<1>43. CASE FCGX_Finish_r
      BY <1>43, <1>0 DEF FCGX_Finish_r, Reply, Headers, Buffer, Loop, Min2, TypeOK, Readers
<1>44. CASE GetStr_Move
      BY <1>44, <1>0 DEF GetStr_Move, Min2, Headers, Buffer, Loop, TypeOK, Readers
<1> QED BY <1>1, <1>2, <1>3, <1>4, <1>5, <1>6, <1>7, <1>8, <1>9, <1>10, <1>11, <1>12, <1>13,
   <1>14, <1>15, <1>16, <1>17, <1>18, <1>19, <1>20, <1>21, <1>22, <1>23, <1>24, <1>25,
   <1>26, <1>27, <1>28, <1>29, <1>30, <1>31, <1>32, <1>33, <1>34, <1>35, <1>36, <1>37,
   <1>38, <1>39, <1>40, <1>41, <1>42, <1>43, <1>44 DEF Next, Server, FillBuffProc,
   ProcessHeader, ReadBody, FCGX_Accept_r, App, Library

\* A step that begins no record and no request, and answers none.
RecordsAlone ==
    /\ UNCHANGED <<script, requestId, begin, rec, got, replies>>
    /\ Serving' = Serving /\ Base <= Base'
    /\ ret = "values" => ret' = "values"
    /\ ~failed' => ~failed

\* The other steps.
RecordsTouched ==
    \/ Fill_ReadEnd \/ Header_Misread \/ Body_Short \/ Values_Answer \/ Values_Fail
    \/ Accept_Kept \/ Accepted_Refuse \/ Params_Take \/ Params_Error \/ FCGX_UnGetChar
    \/ FCGX_ClearError \/ FCGX_Finish_r \/ GetStr_Move
    \/ \E k \in 1..Len(script) : Header_BadBegin(k) \/ Header_Multiplexed(k)
                                 \/ Header_Begin(k) \/ Header_GetValues(k)
                                 \/ Header_UnknownManagement(k) \/ Header_ReplyFails(k)
                                 \/ Header_OtherRequest(k) \/ Header_WrongType(k)
                                 \/ Header_Stream(k)
    \/ \E s \in Scripts : Accept_New(s)

\* Most steps within FillBuffProc, and of the readers, leave the records alone.
LEMMA RecordsLeftAlone ==
    ASSUME TypeOK, Buffer, Calls, Phases, [Next]_vars
    PROVE  RecordsAlone \/ RecordsTouched
<1> USE LengthsAssumption DEF RecordsAlone
<1>1. CASE UNCHANGED vars
      BY <1>1 DEF vars, TypeOK, Serving, Base
<1>2. CASE ServerSend
      BY <1>2 DEF ServerSend, TypeOK, Serving, Base
<1>3. CASE ServerCrash
      BY <1>3 DEF ServerCrash, TypeOK, Serving, Base
<1>4. CASE Fill_Read
      BY <1>4 DEF Fill_Read, Min2, Buffer, Loop, Readers, TypeOK, Calls, Serving, Base
<1>5. CASE Fill_NotEmpty
      BY <1>5 DEF Fill_NotEmpty, Buffer, Loop, Readers, TypeOK, Calls, Serving, Base
<1>6. CASE Fill_Deliver
      BY <1>6 DEF Fill_Deliver, Min2, Buffer, Loop, Readers, TypeOK, Calls, Serving, Base
<1>7. CASE Fill_Skip
      BY <1>7 DEF Fill_Skip, Min2, Buffer, Loop, Readers, TypeOK, Calls, Serving, Base
<1>8. CASE Fill_NoContent
      BY <1>8 DEF Fill_NoContent, Buffer, Loop, Readers, TypeOK, Calls, Serving, Base
<1>9. CASE Fill_Padding
      BY <1>9 DEF Fill_Padding, Min2, Buffer, Loop, Readers, TypeOK, Calls, Serving, Base
<1>10. CASE Fill_EndOfRecord
      BY <1>10 DEF Fill_EndOfRecord, Buffer, Loop, Readers, TypeOK, Calls, Serving, Base
<1>11. CASE Fill_Header
      BY <1>11 DEF Fill_Header, Min2, Buffer, Loop, Readers, TypeOK, Calls, Serving, Base
<1>12. CASE Body_Complete
      BY <1>12 DEF Body_Complete, Buffer, Loop, Readers, TypeOK, Calls, Serving, Base
<1>13. CASE Body_More
      BY <1>13 DEF Body_More, Buffer, Loop, Readers, TypeOK, Calls, Serving, Base
<1>14. CASE Values_Take
      BY <1>14 DEF Values_Take, TakePairs, Buffer, Loop, Readers, TypeOK, Calls, Serving, Base
<1>15. CASE Values_More
      BY <1>15 DEF Values_More, Buffer, Loop, Readers, TypeOK, Calls, Serving, Base
<1>16. CASE Accepted_Begin
      BY <1>16 DEF Accepted_Begin, SetReaderType, Buffer, Loop, Readers, TypeOK, Calls, Serving,
        Base
<1>17. CASE Params_More
      BY <1>17 DEF Params_More, Buffer, Loop, Readers, TypeOK, Calls, Serving, Base
<1>18. CASE Params_Complete
      BY <1>18 DEF Params_Complete, SetReaderType, Buffer, Loop, Readers, TypeOK, Calls, Serving,
        Base
<1>19. ASSUME NEW n \in 1..MaxGet, FCGX_GetStr(n) PROVE RecordsAlone
      BY <1>19 DEF FCGX_GetStr, Buffer, Loop, Readers, TypeOK, Calls, Serving, Base
<1>20. CASE FCGX_StartFilterData
      BY <1>20 DEF FCGX_StartFilterData, TypeOK, Calls, Loop, Readers, Serving, Base
<1>21. CASE FCGX_FClose
      BY <1>21 DEF FCGX_FClose, TypeOK, Calls, Loop, Readers, Serving, Base
<1> QED BY <1>1, <1>2, <1>3, <1>4, <1>5, <1>6, <1>7, <1>8, <1>9, <1>10, <1>11, <1>12, <1>13,
   <1>14, <1>15, <1>16, <1>17, <1>18, <1>19, <1>20, <1>21 DEF RecordsTouched, Next, Server,
   FillBuffProc, ProcessHeader, ReadBody, FCGX_Accept_r, App, Library

\* What is known stays behind when the reader moves on.
LEMMA MovesOn ==
    ASSUME TypeOK, TypeOK', Behind, script' = script, begin' = begin, rec' = rec,
           \A t \in StreamTypes : got'[t] \subseteq got[t],
           AnsweredRecs' \subseteq AnsweredRecs \cup {rec, begin},
           Base <= Base'
    PROVE  Behind'
<1>1. Base \in Int /\ Base' \in Int
  <2>1. Base \in Int
        BY LengthsAssumption DEF Base, TypeOK
  <2>2. pos' \in Int /\ headerLen' \in Int
        BY DEF TypeOK
  <2>3. Base' \in Int
        BY <2>2, LengthsAssumption DEF Base
  <2> QED BY <2>1, <2>3
<1>2. Known' \subseteq Known
      BY DEF Known
<1>3. ASSUME NEW k \in Known'
      PROVE  /\ k \in 1..rec /\ Content(k)' <= Base'
             /\ \A t \in StreamTypes : (Content(k) - 1)' \notin got'[t]
  <2>1. k \in 1..rec /\ Content(k) <= Base /\ \A t \in StreamTypes : (Content(k) - 1) \notin got[t]
        BY <1>2, <1>3 DEF Behind
  <2>2. Content(k)' = Content(k)
        BY DEF Content
  <2>3. k \in 1..Len(script) /\ script \in Scripts
        BY <2>1, ScriptRecords DEF TypeOK
  <2>4. Content(k) \in Int
        BY <2>3, Extent DEF Content
  <2>5. Content(k) <= Base'
        BY <1>1, <2>1, <2>4
  <2> QED BY <2>1, <2>2, <2>5
<1>4. ASSUME NEW t \in StreamTypes, NEW q \in got'[t] PROVE q < Base'
  <2>1. q < Base /\ q \in Nat
        BY <1>4 DEF Behind, TypeOK
  <2> QED BY <1>1, <2>1
<1>5. \A t, u \in StreamTypes : t # u => got'[t] \cap got'[u] = {}
      BY DEF Behind
<1>6. begin' <= rec'
      BY DEF Behind
<1> QED BY <1>3, <1>4, <1>5, <1>6 DEF Behind

\* A record whose header is read lies behind all that are known.
LEMMA NewlyKnown ==
    ASSUME TypeOK, Buffer, Behind, NEW k \in 1..Len(script), pc = "process", AtHeader(k), rec' = k,
           pc' # "process", UNCHANGED <<script, pos, headerLen, got>>, begin' \in {begin, k},
           AnsweredRecs' \subseteq AnsweredRecs \cup {k}
    PROVE  Behind'
<1>1. /\ Base = pos - HeaderLen /\ Base' = pos /\ HeaderLen \in Nat /\ HeaderLen > 0 /\ pos \in Nat
      BY LengthsAssumption DEF Base, Buffer, TypeOK
<1>2. script \in Scripts /\ Len(script) \in Nat /\ rec \in 0..Len(script) /\ k \in Nat
      BY ScriptRecords DEF TypeOK
<1>3. script[k].start = pos - HeaderLen /\ Content(k) = pos
  <2>1. script[k].start = pos - HeaderLen
        BY DEF AtHeader
  <2> QED BY <1>1, <2>1 DEF Content
<1>4. ASSUME NEW j \in Known PROVE j \in 1..k /\ Content(j) <= pos
  <2>1. j \in 1..rec /\ Content(j) <= pos - HeaderLen
        BY <1>1 DEF Behind
  <2>2. j \in 1..Len(script)
        BY <1>2, <2>1
  <2>3. PICK a \in Nat : a = script[j].start /\ Content(j) = a + HeaderLen
        BY <1>2, <2>2, Extent DEF Content
  <2>4. a < pos - HeaderLen /\ Content(j) <= pos
        BY <1>1, <2>1, <2>3
  <2>5. ~(k < j)
    <3>1. ASSUME k < j PROVE FALSE
      <4>1. End(script[k]) <= script[j].start /\ script[k].start < End(script[k]) /\ End(script[k]) \in Nat
            BY <1>2, <2>2, <3>1, InOrder, Extent
      <4>2. PICK e \in Nat : e = End(script[k]) /\ e <= a /\ pos - HeaderLen < e
            BY <1>3, <2>3, <4>1
      <4> QED BY <1>1, <2>4, <4>2
    <3> QED BY <3>1
  <2> QED BY <1>2, <2>1, <2>4, <2>5
<1>5. Known' \subseteq Known \cup {k}
      BY DEF Known
<1>6. ASSUME NEW t \in StreamTypes, NEW q \in got[t] PROVE q < pos - HeaderLen /\ q \in Nat
      BY <1>1 DEF Behind, TypeOK
<1>7. ASSUME NEW j \in Known'
      PROVE  /\ j \in 1..k /\ Content(j)' <= Base'
             /\ \A t \in StreamTypes : (Content(j) - 1)' \notin got'[t]
  <2>1. Content(j)' = Content(j)
        BY DEF Content
  <2>2. CASE j \in Known
    <3>1. \A t \in StreamTypes : (Content(j) - 1) \notin got[t]
          BY <2>2 DEF Behind
    <3> QED BY <1>1, <1>4, <2>1, <2>2, <3>1
  <2>3. CASE j = k
    <3>1. \A t \in StreamTypes : (pos - 1) \notin got[t]
          BY <1>1, <1>6
    <3> QED BY <1>1, <1>2, <1>3, <2>1, <2>3, <3>1
  <2> QED BY <1>5, <2>2, <2>3
<1>8. ASSUME NEW t \in StreamTypes, NEW q \in got'[t] PROVE q < Base'
      BY <1>1, <1>6
<1>9. begin' <= rec'
  <2>1. begin \in 0..Len(script) /\ (begin # 0 => begin \in Known)
        BY DEF Known, TypeOK
  <2>2. begin <= k
        BY <1>2, <1>4, <2>1
  <2> QED BY <1>2, <2>2
<1>10. \A t, u \in StreamTypes : t # u => got'[t] \cap got'[u] = {}
      BY DEF Behind
<1> QED BY <1>7, <1>8, <1>9, <1>10 DEF Behind

\* Bytes that are taken from the buffer join a stream.
LEMMA TakesBytes ==
    ASSUME TypeOK, TypeOK', Behind, NEW t \in StreamTypes, NEW n \in Nat, n > 0, headerLen = 0,
           got' = [got EXCEPT ![t] = got[t] \cup pos..(pos + n - 1)], pos' = pos + n,
           pc # "process", pc' # "process", UNCHANGED <<script, begin, rec, replies, headerLen>>
    PROVE  Behind'
<1>1. Base = pos /\ Base' = pos + n /\ pos \in Nat
      BY DEF Base, TypeOK
<1>2. ASSUME NEW u \in StreamTypes, NEW q \in got'[u] PROVE q \in got[u] \/ (u = t /\ q \in pos..(pos + n - 1))
      BY DEF TypeOK
<1>3. ASSUME NEW u \in StreamTypes, NEW q \in got[u] PROVE q \in Nat /\ q < pos
      BY <1>1 DEF TypeOK, Behind
<1>4. Known' = Known
      BY DEF Known, AnsweredRecs
<1>5. ASSUME NEW k \in Known'
      PROVE  /\ k \in 1..rec' /\ Content(k)' <= Base'
             /\ \A u \in StreamTypes : (Content(k) - 1)' \notin got'[u]
  <2>1. k \in 1..rec /\ Content(k) <= pos /\ \A u \in StreamTypes : (Content(k) - 1) \notin got[u]
        BY <1>1, <1>4 DEF Behind
  <2>2. k \in 1..Len(script) /\ script \in Scripts
        BY <2>1, ScriptRecords DEF TypeOK
  <2>3. PICK c \in Nat : c = Content(k) /\ Content(k)' = c
        BY <2>2, Extent DEF Content
  <2>4. c <= pos + n /\ \A u \in StreamTypes : (c - 1) \notin got'[u]
        BY <1>1, <1>2, <2>1, <2>3
  <2> QED BY <1>1, <2>1, <2>3, <2>4
<1>6. ASSUME NEW u \in StreamTypes, NEW q \in got'[u] PROVE q < Base'
      BY <1>1, <1>2, <1>3
<1>7. ASSUME NEW u \in StreamTypes, NEW v \in StreamTypes, u # v PROVE got'[u] \cap got'[v] = {}
  <2>1. got[u] \cap got[v] = {}
        BY <1>7 DEF Behind
  <2> QED BY <1>1, <1>2, <1>3, <1>7, <2>1
<1>8. begin' <= rec'
      BY DEF Behind
<1> QED BY <1>5, <1>6, <1>7, <1>8 DEF Behind

\* Headers and bytes that have been read stay behind the reader, and no byte is in two streams.
LEMMA BehindNext == Control /\ History /\ [Next]_vars => Behind'
<1> SUFFICES ASSUME TypeOK, Buffer, Calls, Phases, Body, History, [Next]_vars PROVE Behind'
      BY DEF Control
<1> USE LengthsAssumption
<1>0. Behind /\ TypeOK'
      BY TypeNext DEF History
<1>1. CASE RecordsAlone
  <2>1. UNCHANGED <<script, begin, rec, got>>
        BY <1>1 DEF RecordsAlone
  <2>2. AnsweredRecs' \subseteq AnsweredRecs \cup {rec, begin}
        BY <1>1 DEF RecordsAlone, AnsweredRecs
  <2>3. Base <= Base'
        BY <1>1 DEF RecordsAlone
  <2> QED BY <1>0, <2>1, <2>2, <2>3, MovesOn
<1>2. CASE Fill_ReadEnd
  <2>1. UNCHANGED <<script, begin, rec, got>>
        BY <1>2 DEF Fill_ReadEnd
  <2>2. AnsweredRecs' \subseteq AnsweredRecs \cup {rec, begin}
        BY <1>2 DEF Fill_ReadEnd, AnsweredRecs
  <2>3. Base <= Base'
        BY <1>2 DEF Fill_ReadEnd, FillError, Base, Buffer, Loop, Readers, TypeOK
  <2> QED BY <1>0, <2>1, <2>2, <2>3, MovesOn
<1>3. CASE Header_Misread
  <2>1. UNCHANGED <<script, begin, rec, got>>
        BY <1>3 DEF Header_Misread
  <2>2. AnsweredRecs' \subseteq AnsweredRecs \cup {rec, begin}
        BY <1>3 DEF Header_Misread, AnsweredRecs
  <2>3. Base <= Base'
        BY <1>3 DEF Header_Misread, FillError, AtHeader, Base, Buffer, Loop, Readers, TypeOK
  <2> QED BY <1>0, <2>1, <2>2, <2>3, MovesOn
<1>4. ASSUME NEW k \in 1..Len(script), Header_BadBegin(k) PROVE Behind'
  <2>1. pc = "process" /\ AtHeader(k) /\ rec' = k /\ UNCHANGED <<script, pos, headerLen, got>>
        BY <1>4 DEF Header_BadBegin, LoadHeader
  <2>2. pc' # "process" /\ begin' \in {begin, k}
        BY <1>4 DEF Header_BadBegin, FillError, TypeOK, Readers
  <2>3. AnsweredRecs' \subseteq AnsweredRecs \cup {k}
        BY <1>4 DEF Header_BadBegin, AnsweredRecs
  <2> QED BY <1>0, <2>1, <2>2, <2>3, NewlyKnown
<1>5. ASSUME NEW k \in 1..Len(script), Header_Multiplexed(k) PROVE Behind'
  <2>1. pc = "process" /\ AtHeader(k) /\ rec' = k /\ UNCHANGED <<script, pos, headerLen, got>>
        BY <1>5 DEF Header_Multiplexed, LoadHeader
  <2>2. pc' # "process" /\ begin' \in {begin, k}
        BY <1>5 DEF Header_Multiplexed, TypeOK, Readers
  <2>3. AnsweredRecs' \subseteq AnsweredRecs \cup {k}
    <3>1. k \in 0..Len(script) /\ Reply("cant_mpx", k)
          BY <1>5, ScriptRecords DEF Header_Multiplexed, TypeOK
    <3> QED BY <3>1, AnsweredMore
  <2> QED BY <1>0, <2>1, <2>2, <2>3, NewlyKnown
<1>6. ASSUME NEW k \in 1..Len(script), Header_Begin(k) PROVE Behind'
  <2>1. pc = "process" /\ AtHeader(k) /\ rec' = k /\ UNCHANGED <<script, pos, headerLen, got>>
        BY <1>6 DEF Header_Begin, LoadHeader
  <2>2. pc' # "process" /\ begin' \in {begin, k}
        BY <1>6 DEF Header_Begin, TypeOK, Readers
  <2>3. AnsweredRecs' \subseteq AnsweredRecs \cup {k}
        BY <1>6 DEF Header_Begin, AnsweredRecs
  <2> QED BY <1>0, <2>1, <2>2, <2>3, NewlyKnown
<1>7. ASSUME NEW k \in 1..Len(script), Header_GetValues(k) PROVE Behind'
  <2>1. pc = "process" /\ AtHeader(k) /\ rec' = k /\ UNCHANGED <<script, pos, headerLen, got>>
        BY <1>7 DEF Header_GetValues, LoadHeader
  <2>2. pc' # "process" /\ begin' \in {begin, k}
        BY <1>7 DEF Header_GetValues, TypeOK, Readers
  <2>3. AnsweredRecs' \subseteq AnsweredRecs \cup {k}
        BY <1>7 DEF Header_GetValues, AnsweredRecs
  <2> QED BY <1>0, <2>1, <2>2, <2>3, NewlyKnown
<1>8. ASSUME NEW k \in 1..Len(script), Header_UnknownManagement(k) PROVE Behind'
  <2>1. pc = "process" /\ AtHeader(k) /\ rec' = k /\ UNCHANGED <<script, pos, headerLen, got>>
        BY <1>8 DEF Header_UnknownManagement, LoadHeader
  <2>2. pc' # "process" /\ begin' \in {begin, k}
        BY <1>8 DEF Header_UnknownManagement, TypeOK, Readers
  <2>3. AnsweredRecs' \subseteq AnsweredRecs \cup {k}
    <3>1. k \in 0..Len(script) /\ Reply("unknown_type", k)
          BY <1>8, ScriptRecords DEF Header_UnknownManagement, TypeOK
    <3> QED BY <3>1, AnsweredMore
  <2> QED BY <1>0, <2>1, <2>2, <2>3, NewlyKnown
<1>9. ASSUME NEW k \in 1..Len(script), Header_ReplyFails(k) PROVE Behind'
  <2>1. pc = "process" /\ AtHeader(k) /\ rec' = k /\ UNCHANGED <<script, pos, headerLen, got>>
        BY <1>9 DEF Header_ReplyFails, LoadHeader
  <2>2. pc' # "process" /\ begin' \in {begin, k}
        BY <1>9 DEF Header_ReplyFails, FillError, TypeOK, Readers
  <2>3. AnsweredRecs' \subseteq AnsweredRecs \cup {k}
        BY <1>9 DEF Header_ReplyFails, AnsweredRecs
  <2> QED BY <1>0, <2>1, <2>2, <2>3, NewlyKnown
<1>10. ASSUME NEW k \in 1..Len(script), Header_OtherRequest(k) PROVE Behind'
  <2>1. pc = "process" /\ AtHeader(k) /\ rec' = k /\ UNCHANGED <<script, pos, headerLen, got>>
        BY <1>10 DEF Header_OtherRequest, LoadHeader
  <2>2. pc' # "process" /\ begin' \in {begin, k}
        BY <1>10 DEF Header_OtherRequest, TypeOK, Readers
  <2>3. AnsweredRecs' \subseteq AnsweredRecs \cup {k}
        BY <1>10 DEF Header_OtherRequest, AnsweredRecs
  <2> QED BY <1>0, <2>1, <2>2, <2>3, NewlyKnown
<1>11. ASSUME NEW k \in 1..Len(script), Header_WrongType(k) PROVE Behind'
  <2>1. pc = "process" /\ AtHeader(k) /\ rec' = k /\ UNCHANGED <<script, pos, headerLen, got>>
        BY <1>11 DEF Header_WrongType, LoadHeader
  <2>2. pc' # "process" /\ begin' \in {begin, k}
        BY <1>11 DEF Header_WrongType, FillError, TypeOK, Readers
  <2>3. AnsweredRecs' \subseteq AnsweredRecs \cup {k}
        BY <1>11 DEF Header_WrongType, AnsweredRecs
  <2> QED BY <1>0, <2>1, <2>2, <2>3, NewlyKnown
<1>12. ASSUME NEW k \in 1..Len(script), Header_Stream(k) PROVE Behind'
  <2>1. pc = "process" /\ AtHeader(k) /\ rec' = k /\ UNCHANGED <<script, pos, headerLen, got>>
        BY <1>12 DEF Header_Stream, LoadHeader
  <2>2. pc' # "process" /\ begin' \in {begin, k}
        BY <1>12 DEF Header_Stream, TypeOK, Readers
  <2>3. AnsweredRecs' \subseteq AnsweredRecs \cup {k}
        BY <1>12 DEF Header_Stream, AnsweredRecs
  <2> QED BY <1>0, <2>1, <2>2, <2>3, NewlyKnown
<1>13. CASE Body_Short
  <2>1. UNCHANGED <<script, begin, rec, got>>
        BY <1>13 DEF Body_Short
  <2>2. AnsweredRecs' \subseteq AnsweredRecs \cup {rec, begin}
        BY <1>13 DEF Body_Short, AnsweredRecs
  <2>3. Base <= Base'
        BY <1>13 DEF Body_Short, Base, Buffer, Loop, Readers, TypeOK
  <2> QED BY <1>0, <2>1, <2>2, <2>3, MovesOn
<1>14. CASE Values_Answer
  <2>1. UNCHANGED <<script, begin, rec, got>>
        BY <1>14 DEF Values_Answer
  <2>2. AnsweredRecs' \subseteq AnsweredRecs \cup {rec, begin}
    <3>1. rec \in 0..Len(script) /\ Reply("values", rec)
          BY <1>14 DEF Values_Answer, TypeOK
    <3> QED BY <3>1, AnsweredMore
  <2>3. Base <= Base'
        BY <1>14 DEF Values_Answer, Base, Buffer, Loop, Readers, TypeOK
  <2> QED BY <1>0, <2>1, <2>2, <2>3, MovesOn
<1>15. CASE Values_Fail
  <2>1. UNCHANGED <<script, begin, rec, got>>
        BY <1>15 DEF Values_Fail
  <2>2. AnsweredRecs' \subseteq AnsweredRecs \cup {rec, begin}
        BY <1>15 DEF Values_Fail, AnsweredRecs
  <2>3. Base <= Base'
        BY <1>15 DEF Values_Fail, Base, Buffer, Loop, Readers, TypeOK
  <2> QED BY <1>0, <2>1, <2>2, <2>3, MovesOn
<1>16. ASSUME NEW s \in Scripts, Accept_New(s) PROVE Behind'
      BY <1>16 DEF Accept_New, NewReader, Behind, Known, AnsweredRecs, Base, Content, GoodBegin,
        IsBegin, TypeOK
<1>17. CASE Accept_Kept
  <2>1. UNCHANGED <<script, rec, replies>> /\ begin' = 0 /\ pos' = lim /\ headerLen' = 0 /\ pc # "process" /\ pc' # "process"
        BY <1>17 DEF Accept_Kept, NewReader
  <2>2. got' = [t \in StreamTypes |-> {}]
        BY <1>17 DEF Accept_Kept
  <2>3. pos <= lim /\ pos \in Nat /\ lim \in Nat /\ headerLen \in Nat /\ rec \in Nat
        BY DEF Buffer, TypeOK
  <2>4. Base = pos - headerLen /\ Base' = lim
        BY <2>1, <2>3 DEF Base
  <2>5. Known' \subseteq Known
        BY <2>1 DEF Known, AnsweredRecs
  <2>6. ASSUME NEW k \in Known' PROVE k \in 1..rec' /\ Content(k)' <= Base'
    <3>1. k \in 1..rec /\ Content(k) <= Base
          BY <1>0, <2>5 DEF Behind
    <3>2. k \in 1..Len(script) /\ script \in Scripts
          BY <3>1, ScriptRecords DEF TypeOK
    <3>3. PICK c \in Nat : c = Content(k) /\ Content(k)' = c
          BY <2>1, <3>2, Extent DEF Content
    <3> QED BY <2>1, <2>3, <2>4, <3>1, <3>3
  <2> QED BY <2>1, <2>2, <2>3, <2>6 DEF Behind
<1>18. CASE Accepted_Refuse
  <2>1. UNCHANGED <<script, begin, rec, got>>
        BY <1>18 DEF Accepted_Refuse, TryAgain
  <2>2. AnsweredRecs' \subseteq AnsweredRecs \cup {rec, begin}
        BY <1>18 DEF Accepted_Refuse, TryAgain, AnsweredRecs
  <2>3. Base <= Base'
        BY <1>18 DEF Accepted_Refuse, TryAgain, Base, Buffer, Loop, Readers, TypeOK
  <2> QED BY <1>0, <2>1, <2>2, <2>3, MovesOn
<1>19. CASE Params_Take
  <2>1. /\ pc = "params" /\ pc' = "params" /\ pos < stop /\ pos' = stop
        /\ got' = [got EXCEPT !["params"] = got["params"] \cup pos..(stop - 1)]
        /\ UNCHANGED <<script, begin, rec, replies, headerLen>>
        BY <1>19 DEF Params_Take, TakePairs
  <2>2. PICK n \in Nat : n > 0 /\ pos + n = stop /\ pos + n - 1 = stop - 1
    <3>1. stop - pos \in Nat /\ stop - pos > 0 /\ pos + (stop - pos) = stop /\ pos + (stop - pos) - 1 = stop - 1
          BY <2>1 DEF TypeOK
    <3> QED BY <3>1
  <2>3. headerLen = 0
        BY <2>1 DEF History, Headers, TypeOK
  <2> QED BY <1>0, <2>1, <2>2, <2>3, TakesBytes DEF StreamTypes
<1>20. CASE Params_Error
  <2>1. UNCHANGED <<script, begin, rec, got>>
        BY <1>20 DEF Params_Error, TryAgain
  <2>2. AnsweredRecs' \subseteq AnsweredRecs \cup {rec, begin}
        BY <1>20 DEF Params_Error, TryAgain, AnsweredRecs
  <2>3. Base <= Base'
        BY <1>20 DEF Params_Error, TryAgain, Base, Buffer, Loop, Readers, TypeOK
  <2> QED BY <1>0, <2>1, <2>2, <2>3, MovesOn
<1>21. CASE FCGX_UnGetChar
  <2>1. /\ pc = "app" /\ pc' = "app" /\ UNCHANGED <<script, begin, rec, replies, headerLen>>
        /\ (pos - 1) \in got[type] /\ pos' = pos - 1
        /\ got' = [got EXCEPT ![type] = got[type] \ {pos - 1}]
        BY <1>21 DEF FCGX_UnGetChar
  <2>2. type \in StreamTypes
        BY <2>1 DEF Phases, Calls, Caller, Loop, StreamTypes
  <2>3. pos - 1 < Base /\ Base = pos - headerLen
        BY <1>0, <2>1, <2>2 DEF Behind, Base
  <2>4. headerLen = 0 /\ pos \in Nat /\ Base = pos /\ Base' = pos - 1
        BY <2>1, <2>3 DEF TypeOK, Base
  <2>5. ASSUME NEW u \in StreamTypes, NEW q \in got'[u] PROVE q \in got[u] /\ q \in Nat /\ q < pos - 1
    <3>1. q \in got[u] /\ (u = type => q # pos - 1)
          BY <2>1, <2>2 DEF TypeOK
    <3>2. u # type => got[u] \cap got[type] = {}
          BY <1>0, <2>2 DEF Behind
    <3>3. q \in Nat /\ q < pos
          BY <1>0, <2>4, <3>1 DEF Behind, TypeOK
    <3>4. q # pos - 1
          BY <2>1, <3>1, <3>2
    <3> QED BY <2>4, <3>1, <3>3, <3>4
  <2>6. Known' = Known
        BY <2>1 DEF Known, AnsweredRecs
  <2>7. ASSUME NEW k \in Known'
        PROVE  /\ k \in 1..rec' /\ Content(k)' <= Base'
               /\ \A u \in StreamTypes : (Content(k) - 1)' \notin got'[u]
    <3>1. k \in 1..rec /\ Content(k) <= pos /\ \A u \in StreamTypes : (Content(k) - 1) \notin got[u]
          BY <1>0, <2>4, <2>6 DEF Behind
    <3>2. k \in 1..Len(script) /\ script \in Scripts
          BY <3>1, ScriptRecords DEF TypeOK
    <3>3. PICK c \in Nat : c = Content(k) /\ Content(k)' = c
          BY <2>1, <3>2, Extent DEF Content
    <3>4. c - 1 # pos - 1
          BY <2>1, <2>2, <3>1, <3>3
    <3>5. \A u \in StreamTypes : (c - 1) \notin got'[u]
          BY <2>5, <3>1, <3>3
    <3> QED BY <2>1, <2>4, <3>1, <3>3, <3>4, <3>5
  <2>8. \A t, u \in StreamTypes : t # u => got'[t] \cap got'[u] = {}
        BY <1>0, <2>5 DEF Behind
  <2>9. begin' <= rec'
        BY <1>0, <2>1 DEF Behind
  <2> QED BY <2>4, <2>5, <2>7, <2>8, <2>9 DEF Behind
<1>22. CASE FCGX_ClearError
  <2>1. UNCHANGED <<script, begin, rec, got>>
        BY <1>22 DEF FCGX_ClearError
  <2>2. AnsweredRecs' \subseteq AnsweredRecs \cup {rec, begin}
        BY <1>22 DEF FCGX_ClearError, AnsweredRecs
  <2>3. Base <= Base'
        BY <1>22 DEF FCGX_ClearError, Base, TypeOK
  <2> QED BY <1>0, <2>1, <2>2, <2>3, MovesOn
<1>23. CASE FCGX_Finish_r
  <2>1. UNCHANGED <<script, begin, rec, got>>
        BY <1>23 DEF FCGX_Finish_r
  <2>2. AnsweredRecs' \subseteq AnsweredRecs \cup {rec, begin}
    <3>1. begin \in 0..Len(script) /\ Reply("end", begin)
          BY <1>23 DEF FCGX_Finish_r, TypeOK
    <3> QED BY <3>1, AnsweredMore
  <2>3. Base <= Base'
        BY <1>23 DEF FCGX_Finish_r, Base, Buffer, Loop, Readers, TypeOK
  <2> QED BY <1>0, <2>1, <2>2, <2>3, MovesOn
<1>24. CASE GetStr_Move
  <2>1. /\ pc = "getstr" /\ pc' # "process" /\ UNCHANGED <<script, begin, rec, replies, headerLen, type, stop>>
        BY <1>24 DEF GetStr_Move
  <2>2. PICK m \in Nat : /\ pos' = pos + m /\ got' = [got EXCEPT ![type] = got[type] \cup pos..(pos + m - 1)]
                         /\ m > 0 => pos < stop
    <3>1. PICK m : m = IF isClosed THEN 0 ELSE Min2(want, stop - pos)
          OBVIOUS
    <3>2. m \in Nat /\ (m > 0 => pos < stop)
          BY <2>1, <3>1 DEF Min2, TypeOK, Buffer, Loop
    <3>3. pos' = pos + m /\ got' = [got EXCEPT ![type] = got[type] \cup pos..(pos + m - 1)]
          BY <1>24, <3>1 DEF GetStr_Move
    <3> QED BY <3>2, <3>3
  <2>3. type \in StreamTypes
        BY <2>1 DEF Phases, Calls, Caller, Loop, StreamTypes
  <2>4. CASE m > 0
    <3>1. headerLen = 0
          BY <2>2, <2>4 DEF History, Headers, TypeOK
    <3> QED BY <1>0, <2>1, <2>2, <2>3, <2>4, <3>1, TakesBytes
  <2>5. CASE m = 0
    <3>1. pos' = pos /\ pos..(pos + m - 1) = {}
          BY <2>2, <2>5 DEF TypeOK
    <3>2. \A t \in StreamTypes : got'[t] \subseteq got[t]
          BY <2>2, <2>3, <3>1 DEF TypeOK
    <3>3. Base <= Base'
          BY <2>1, <3>1 DEF Base, TypeOK
    <3>4. AnsweredRecs' = AnsweredRecs
          BY <2>1 DEF AnsweredRecs
    <3> QED BY <1>0, <2>1, <3>2, <3>3, <3>4, MovesOn
  <2> QED BY <2>4, <2>5
<1> QED BY <1>1, <1>2, <1>3, <1>4, <1>5, <1>6, <1>7, <1>8, <1>9, <1>10, <1>11, <1>12, <1>13,
   <1>14, <1>15, <1>16, <1>17, <1>18, <1>19, <1>20, <1>21, <1>22, <1>23, <1>24, RecordsLeftAlone
   DEF RecordsTouched, Control

\* A header that is read for the first time.
LEMMA Fresh ==
    ASSUME TypeOK, Buffer, Behind, NEW k \in 1..Len(script), pc = "process", AtHeader(k)
    PROVE  k \notin Known /\ k # 0 /\ k \notin AnsweredRecs /\ k # begin
<1>1. Base = pos - HeaderLen /\ script \in Scripts /\ pos \in Nat
      BY DEF Base, TypeOK
<1>2. PICK a \in Nat : a = script[k].start /\ a = pos - HeaderLen /\ Content(k) = a + HeaderLen
      BY <1>1, Extent DEF AtHeader, Content
<1>3. HeaderLen \in Nat /\ HeaderLen > 0
      BY LengthsAssumption
<1>4. ~(Content(k) <= Base)
      BY <1>1, <1>2, <1>3
<1>5. k \notin Known
      BY <1>4 DEF Behind
<1>6. k # 0
      BY ScriptRecords DEF TypeOK
<1> QED BY <1>5, <1>6 DEF Known

\* No record is answered twice.
LEMMA AnsweredOnce ==
    ASSUME TypeOK, NEW kind \in {"end", "cant_mpx", "values", "unknown_type"}, NEW k \in 0..Len(script), Reply(kind, k),
           \A i, j \in 1..Len(replies) : replies[i].rec = replies[j].rec => i = j, k \notin AnsweredRecs
    PROVE  \A i, j \in 1..Len(replies') : replies'[i].rec = replies'[j].rec => i = j
<1>1. PICK n \in Nat : n = Len(replies)
      BY DEF TypeOK
<1>2. /\ Len(replies') = n + 1 /\ replies'[n + 1].rec = k
      /\ \A i \in 1..n : replies'[i].rec = replies[i].rec
  <2>1. /\ Len(replies') = n + 1 /\ replies'[n + 1] = [kind |-> kind, rec |-> k]
        /\ \A i \in 1..n : replies'[i] = replies[i]
        BY <1>1, OneMore
  <2> QED BY <2>1
<1>3. \A i \in 1..n : replies[i].rec # k
      BY <1>1 DEF AnsweredRecs
<1>4. \A i, j \in 1..n : replies[i].rec = replies[j].rec => i = j
      BY <1>1
<1> QED BY <1>2, <1>3, <1>4

\* One more answer, to a record that had none and calls for one.
LEMMA AnswersMore ==
    ASSUME TypeOK, Answers, NEW kind \in {"end", "cant_mpx", "values", "unknown_type"}, NEW k \in 1..Len(script), Reply(kind, k),
           k \notin AnsweredRecs, IsManagement(script[k]) \/ GoodBegin(k), script' = script
    PROVE  /\ AnsweredRecs' = AnsweredRecs \cup {k}
           /\ \A i, j \in 1..Len(replies') : replies'[i].rec = replies'[j].rec => i = j
           /\ \A j \in AnsweredRecs' : IsManagement(script'[j]) \/ GoodBegin(j)'
           /\ 0 \notin AnsweredRecs'
<1>1. k \in 0..Len(script)
      BY ScriptRecords DEF TypeOK
<1>2. AnsweredRecs' = AnsweredRecs \cup {k}
      BY <1>1, AnsweredMore
<1>3. \A i, j \in 1..Len(replies') : replies'[i].rec = replies'[j].rec => i = j
      BY <1>1, AnsweredOnce DEF Answers
<1>4. \A j \in AnsweredRecs' : IsManagement(script'[j]) \/ GoodBegin(j)'
      BY <1>2 DEF Answers, GoodBegin
<1>5. k # 0
      BY ScriptRecords DEF TypeOK
<1>6. 0 \notin AnsweredRecs'
      BY <1>2, <1>5 DEF Answers
<1> QED BY <1>2, <1>3, <1>4, <1>6

\* Nothing is answered twice, and only what calls for an answer; a request that is served has no answer yet.
LEMMA AnswersNext == Control /\ History /\ [Next]_vars => Answers'
<1> SUFFICES ASSUME TypeOK, Buffer, Calls, Phases, Body, History, [Next]_vars PROVE Answers'
      BY DEF Control
<1> USE LengthsAssumption
<1>0. Answers
      BY DEF History
<1>b. Behind
      BY DEF History
<1>1. CASE UNCHANGED vars
      BY <1>1, <1>0 DEF vars, Answers, AnsweredRecs, Serving, Unanswered, GoodBegin, IsBegin, Calls,
        Phases, Caller, Loop, Readers, TypeOK
<1>2. CASE ServerSend
  <2>1. UNCHANGED <<script, replies, begin, isBeginProcessed, ret, pc, rec, ipcOpen>>
        BY <1>2 DEF ServerSend
  <2> QED BY <1>0, <2>1 DEF Answers, AnsweredRecs, Serving, Unanswered, GoodBegin
<1>3. CASE ServerCrash
      BY <1>3, <1>0 DEF ServerCrash, Answers, AnsweredRecs, Serving, Unanswered, GoodBegin, IsBegin,
        Calls, Phases, Caller, Loop, Readers, TypeOK
<1>4. CASE Fill_Read
      BY <1>4, <1>0 DEF Fill_Read, Min2, Answers, AnsweredRecs, Serving, Unanswered, GoodBegin,
        IsBegin, Calls, Phases, Caller, Loop, Readers, TypeOK
<1>5. CASE Fill_ReadEnd
      BY <1>5, <1>0 DEF Fill_ReadEnd, FillError, Answers, AnsweredRecs, Serving, Unanswered,
        GoodBegin, IsBegin, Calls, Phases, Caller, Loop, Readers, TypeOK
<1>6. CASE Fill_NotEmpty
      BY <1>6, <1>0 DEF Fill_NotEmpty, Answers, AnsweredRecs, Serving, Unanswered, GoodBegin,
        IsBegin, Calls, Phases, Caller, Loop, Readers, TypeOK
<1>7. CASE Fill_Deliver
      BY <1>7, <1>0 DEF Fill_Deliver, Min2, Answers, AnsweredRecs, Serving, Unanswered, GoodBegin,
        IsBegin, Calls, Phases, Caller, Loop, Readers, TypeOK
<1>8. CASE Fill_Skip
      BY <1>8, <1>0 DEF Fill_Skip, Min2, Answers, AnsweredRecs, Serving, Unanswered, GoodBegin,
        IsBegin, Calls, Phases, Caller, Loop, Readers, TypeOK
<1>9. CASE Fill_NoContent
      BY <1>9, <1>0 DEF Fill_NoContent, Answers, AnsweredRecs, Serving, Unanswered, GoodBegin,
        IsBegin, Calls, Phases, Caller, Loop, Readers, TypeOK
<1>10. CASE Fill_Padding
      BY <1>10, <1>0 DEF Fill_Padding, Min2, Answers, AnsweredRecs, Serving, Unanswered, GoodBegin,
        IsBegin, Calls, Phases, Caller, Loop, Readers, TypeOK
<1>11. CASE Fill_EndOfRecord
      BY <1>11, <1>0 DEF Fill_EndOfRecord, Answers, AnsweredRecs, Serving, Unanswered, GoodBegin,
        IsBegin, Calls, Phases, Caller, Loop, Readers, TypeOK
<1>12. CASE Fill_Header
      BY <1>12, <1>0, SMTT(30) DEF Fill_Header, Min2, Answers, AnsweredRecs, Serving, Unanswered,
        GoodBegin, IsBegin, Calls, Phases, Caller, Loop, Readers, TypeOK
<1>13. CASE Header_Misread
      BY <1>13, <1>0 DEF Header_Misread, FillError, AtHeader, Answers, AnsweredRecs, Serving,
        Unanswered, GoodBegin, IsBegin, Calls, Phases, Caller, Loop, Readers, TypeOK
<1>14. ASSUME NEW k \in 1..Len(script), Header_BadBegin(k) PROVE Answers'
      BY <1>14, <1>0 DEF Header_BadBegin, FillError, AtHeader, LoadHeader, Answers, AnsweredRecs,
        Serving, Unanswered, GoodBegin, IsBegin, Calls, Phases, Caller, Loop, Readers, TypeOK
<1>15. ASSUME NEW k \in 1..Len(script), Header_Multiplexed(k) PROVE Answers'
  <2>f. k # 0 /\ k \notin AnsweredRecs /\ k # begin
    <3>1. pc = "process" /\ AtHeader(k)
          BY <1>15 DEF Header_Multiplexed
    <3> QED BY <1>b, <3>1, Fresh
  <2>1. Reply("cant_mpx", k) /\ (IsManagement(script[k]) \/ GoodBegin(k))
        BY <1>15 DEF Header_Multiplexed
  <2>2. /\ UNCHANGED <<script, begin, isBeginProcessed, ret>> /\ pc = "process" /\ pc' = "fill"
        BY <1>15 DEF Header_Multiplexed
  <2>3. /\ AnsweredRecs' = AnsweredRecs \cup {k}
        /\ \A i, j \in 1..Len(replies') : replies'[i].rec = replies'[j].rec => i = j
        /\ \A j \in AnsweredRecs' : IsManagement(script'[j]) \/ GoodBegin(j)'
        /\ 0 \notin AnsweredRecs'
        BY <1>0, <2>f, <2>1, <2>2, AnswersMore
  <2>4. Serving' => begin' \notin AnsweredRecs'
        BY <1>0, <2>f, <2>2, <2>3 DEF Answers, Serving
  <2>5. ret' # "values"
        BY <2>2 DEF Calls
  <2> QED BY <2>2, <2>3, <2>4, <2>5 DEF Answers
<1>16. ASSUME NEW k \in 1..Len(script), Header_Begin(k) PROVE Answers'
  <2>f. k # 0 /\ k \notin AnsweredRecs /\ k # begin
    <3>1. pc = "process" /\ AtHeader(k)
          BY <1>16 DEF Header_Begin
    <3> QED BY <1>b, <3>1, Fresh
  <2>1. /\ begin' = k /\ ret' = "body" /\ pc' = "body" /\ UNCHANGED <<script, replies>>
        BY <1>16 DEF Header_Begin
  <2>2. AnsweredRecs' = AnsweredRecs
        BY <2>1 DEF AnsweredRecs
  <2>3. /\ \A i, j \in 1..Len(replies') : replies'[i].rec = replies'[j].rec => i = j
        /\ \A j \in AnsweredRecs' : IsManagement(script'[j]) \/ GoodBegin(j)'
        /\ 0 \notin AnsweredRecs'
        BY <1>0, <2>1, <2>2 DEF Answers, GoodBegin
  <2> QED BY <2>f, <2>1, <2>2, <2>3 DEF Answers
<1>17. ASSUME NEW k \in 1..Len(script), Header_GetValues(k) PROVE Answers'
  <2>f. k # 0 /\ k \notin AnsweredRecs /\ k # begin
    <3>1. pc = "process" /\ AtHeader(k)
          BY <1>17 DEF Header_GetValues
    <3> QED BY <1>b, <3>1, Fresh
  <2>1. /\ rec' = k /\ ret' = "values" /\ pc = "process" /\ pc' = "values" /\ UNCHANGED <<script, replies, begin, isBeginProcessed>>
        /\ IsManagement(script[k]) /\ script[k].type = "getvalues"
        BY <1>17 DEF Header_GetValues, LoadHeader
  <2>2. AnsweredRecs' = AnsweredRecs
        BY <2>1 DEF AnsweredRecs
  <2>3. /\ \A i, j \in 1..Len(replies') : replies'[i].rec = replies'[j].rec => i = j
        /\ \A j \in AnsweredRecs' : IsManagement(script'[j]) \/ GoodBegin(j)'
        /\ 0 \notin AnsweredRecs'
        BY <1>0, <2>1, <2>2 DEF Answers, GoodBegin
  <2>4. Serving' => begin' \notin AnsweredRecs'
        BY <1>0, <2>1, <2>2 DEF Answers, Serving
  <2> QED BY <2>f, <2>1, <2>2, <2>3, <2>4 DEF Answers
<1>18. ASSUME NEW k \in 1..Len(script), Header_UnknownManagement(k) PROVE Answers'
  <2>f. k # 0 /\ k \notin AnsweredRecs /\ k # begin
    <3>1. pc = "process" /\ AtHeader(k)
          BY <1>18 DEF Header_UnknownManagement
    <3> QED BY <1>b, <3>1, Fresh
  <2>1. Reply("unknown_type", k) /\ (IsManagement(script[k]) \/ GoodBegin(k))
        BY <1>18 DEF Header_UnknownManagement
  <2>2. /\ UNCHANGED <<script, begin, isBeginProcessed, ret>> /\ pc = "process" /\ pc' = "fill"
        BY <1>18 DEF Header_UnknownManagement
  <2>3. /\ AnsweredRecs' = AnsweredRecs \cup {k}
        /\ \A i, j \in 1..Len(replies') : replies'[i].rec = replies'[j].rec => i = j
        /\ \A j \in AnsweredRecs' : IsManagement(script'[j]) \/ GoodBegin(j)'
        /\ 0 \notin AnsweredRecs'
        BY <1>0, <2>f, <2>1, <2>2, AnswersMore
  <2>4. Serving' => begin' \notin AnsweredRecs'
        BY <1>0, <2>f, <2>2, <2>3 DEF Answers, Serving
  <2>5. ret' # "values"
        BY <2>2 DEF Calls
  <2> QED BY <2>2, <2>3, <2>4, <2>5 DEF Answers
<1>19. ASSUME NEW k \in 1..Len(script), Header_ReplyFails(k) PROVE Answers'
      BY <1>19, <1>0 DEF Header_ReplyFails, FillError, AtHeader, LoadHeader, Answers, AnsweredRecs,
        Serving, Unanswered, GoodBegin, IsBegin, Calls, Phases, Caller, Loop, Readers, TypeOK
<1>20. ASSUME NEW k \in 1..Len(script), Header_OtherRequest(k) PROVE Answers'
      BY <1>20, <1>0 DEF Header_OtherRequest, AtHeader, LoadHeader, Answers, AnsweredRecs, Serving,
        Unanswered, GoodBegin, IsBegin, Calls, Phases, Caller, Loop, Readers, TypeOK
<1>21. ASSUME NEW k \in 1..Len(script), Header_WrongType(k) PROVE Answers'
      BY <1>21, <1>0 DEF Header_WrongType, FillError, AtHeader, LoadHeader, Answers, AnsweredRecs,
        Serving, Unanswered, GoodBegin, IsBegin, Calls, Phases, Caller, Loop, Readers, TypeOK
<1>22. ASSUME NEW k \in 1..Len(script), Header_Stream(k) PROVE Answers'
      BY <1>22, <1>0 DEF Header_Stream, AtHeader, LoadHeader, Answers, AnsweredRecs, Serving,
        Unanswered, GoodBegin, IsBegin, Calls, Phases, Caller, Loop, Readers, TypeOK
<1>23. CASE Body_Complete
      BY <1>23, <1>0 DEF Body_Complete, Answers, AnsweredRecs, Serving, Unanswered, GoodBegin,
        IsBegin, Calls, Phases, Caller, Loop, Readers, TypeOK
<1>24. CASE Body_More
      BY <1>24, <1>0 DEF Body_More, Answers, AnsweredRecs, Serving, Unanswered, GoodBegin, IsBegin,
        Calls, Phases, Caller, Loop, Readers, TypeOK
<1>25. CASE Body_Short
      BY <1>25, <1>0 DEF Body_Short, Answers, AnsweredRecs, Serving, Unanswered, GoodBegin, IsBegin,
        Calls, Phases, Caller, Loop, Readers, TypeOK
<1>26. CASE Values_Take
      BY <1>26, <1>0 DEF Values_Take, TakePairs, Answers, AnsweredRecs, Serving, Unanswered,
        GoodBegin, IsBegin, Calls, Phases, Caller, Loop, Readers, TypeOK
<1>27. CASE Values_More
      BY <1>27, <1>0 DEF Values_More, Answers, AnsweredRecs, Serving, Unanswered, GoodBegin,
        IsBegin, Calls, Phases, Caller, Loop, Readers, TypeOK
<1>28. CASE Values_Answer
  <2>1. /\ Reply("values", rec) /\ pc = "values" /\ pc' = "fill" /\ ret' = outer /\ UNCHANGED <<script, begin, isBeginProcessed>>
        BY <1>28 DEF Values_Answer
  <2>2. ret = "values" /\ ret' # "values" /\ ret' # "body"
        BY <2>1 DEF Calls, TypeOK, Readers
  <2>3. /\ rec \in 1..Len(script) /\ rec \notin AnsweredRecs /\ IsManagement(script[rec])
        BY <1>0, <2>2 DEF Answers, TypeOK
  <2>4. /\ AnsweredRecs' = AnsweredRecs \cup {rec}
        /\ \A i, j \in 1..Len(replies') : replies'[i].rec = replies'[j].rec => i = j
        /\ \A j \in AnsweredRecs' : IsManagement(script'[j]) \/ GoodBegin(j)'
        /\ 0 \notin AnsweredRecs'
        BY <1>0, <2>1, <2>3, AnswersMore
  <2>5. isBeginProcessed => begin # rec
        BY <2>3 DEF History, Begun, GoodBegin, IsBegin, IsManagement
  <2>6. Serving' => begin' \notin AnsweredRecs'
        BY <1>0, <2>1, <2>2, <2>4, <2>5 DEF Answers, Serving
  <2> QED BY <2>1, <2>2, <2>4, <2>6 DEF Answers
<1>29. CASE Values_Fail
      BY <1>29, <1>0 DEF Values_Fail, Answers, AnsweredRecs, Serving, Unanswered, GoodBegin,
        IsBegin, Calls, Phases, Caller, Loop, Readers, TypeOK
<1>30. ASSUME NEW s \in Scripts, Accept_New(s) PROVE Answers'
      BY <1>30, <1>0 DEF Accept_New, NewReader, Answers, AnsweredRecs, Serving, Unanswered,
        GoodBegin, IsBegin, Calls, Phases, Caller, Loop, Readers, TypeOK
<1>31. CASE Accept_Kept
      BY <1>31, <1>0 DEF Accept_Kept, NewReader, Answers, AnsweredRecs, Serving, Unanswered,
        GoodBegin, IsBegin, Calls, Phases, Caller, Loop, Readers, TypeOK
<1>32. CASE Accepted_Refuse
      BY <1>32, <1>0 DEF Accepted_Refuse, TryAgain, Answers, AnsweredRecs, Serving, Unanswered,
        GoodBegin, IsBegin, Calls, Phases, Caller, Loop, Readers, TypeOK
<1>33. CASE Accepted_Begin
      BY <1>33, <1>0 DEF Accepted_Begin, SetReaderType, Answers, AnsweredRecs, Serving, Unanswered,
        GoodBegin, IsBegin, Calls, Phases, Caller, Loop, Readers, TypeOK
<1>34. CASE Params_Take
      BY <1>34, <1>0 DEF Params_Take, TakePairs, Answers, AnsweredRecs, Serving, Unanswered,
        GoodBegin, IsBegin, Calls, Phases, Caller, Loop, Readers, TypeOK
<1>35. CASE Params_More
      BY <1>35, <1>0 DEF Params_More, Answers, AnsweredRecs, Serving, Unanswered, GoodBegin,
        IsBegin, Calls, Phases, Caller, Loop, Readers, TypeOK
<1>36. CASE Params_Error
      BY <1>36, <1>0 DEF Params_Error, TryAgain, Answers, AnsweredRecs, Serving, Unanswered,
        GoodBegin, IsBegin, Calls, Phases, Caller, Loop, Readers, TypeOK
<1>37. CASE Params_Complete
      BY <1>37, <1>0 DEF Params_Complete, SetReaderType, Answers, AnsweredRecs, Serving, Unanswered,
        GoodBegin, IsBegin, Calls, Phases, Caller, Loop, Readers, TypeOK
<1>38. ASSUME NEW n \in 1..MaxGet, FCGX_GetStr(n) PROVE Answers'
      BY <1>38, <1>0 DEF FCGX_GetStr, Answers, AnsweredRecs, Serving, Unanswered, GoodBegin,
        IsBegin, Calls, Phases, Caller, Loop, Readers, TypeOK
<1>39. CASE FCGX_UnGetChar
      BY <1>39, <1>0 DEF FCGX_UnGetChar, Answers, AnsweredRecs, Serving, Unanswered, GoodBegin,
        IsBegin, Calls, Phases, Caller, Loop, Readers, TypeOK
<1>40. CASE FCGX_StartFilterData
      BY <1>40, <1>0 DEF FCGX_StartFilterData, SetReaderType, Answers, AnsweredRecs, Serving,
        Unanswered, GoodBegin, IsBegin, Calls, Phases, Caller, Loop, Readers, TypeOK
<1>41. CASE FCGX_FClose
      BY <1>41, <1>0 DEF FCGX_FClose, Answers, AnsweredRecs, Serving, Unanswered, GoodBegin,
        IsBegin, Calls, Phases, Caller, Loop, Readers, TypeOK
<1>42. CASE FCGX_ClearError
      BY <1>42, <1>0 DEF FCGX_ClearError, Answers, AnsweredRecs, Serving, Unanswered, GoodBegin,
        IsBegin, Calls, Phases, Caller, Loop, Readers, TypeOK
<1>43. CASE FCGX_Finish_r
  <2>1. /\ Reply("end", begin) /\ pc = "app" /\ pc' = "accept" /\ UNCHANGED <<script, begin, isBeginProcessed, ret>>
        BY <1>43 DEF FCGX_Finish_r
  <2>2. isBeginProcessed /\ ret' # "values"
        BY <2>1 DEF Phases, Calls, Caller, Loop
  <2>3. begin # 0 /\ GoodBegin(begin) /\ begin \in 1..Len(script)
        BY <2>2 DEF History, Begun, TypeOK
  <2>4. begin \notin AnsweredRecs
        BY <1>0, <2>1, <2>2 DEF Answers, Serving
  <2>5. /\ AnsweredRecs' = AnsweredRecs \cup {begin}
        /\ \A i, j \in 1..Len(replies') : replies'[i].rec = replies'[j].rec => i = j
        /\ \A j \in AnsweredRecs' : IsManagement(script'[j]) \/ GoodBegin(j)'
        /\ 0 \notin AnsweredRecs'
        BY <1>0, <2>1, <2>3, <2>4, AnswersMore
  <2>6. ~Unanswered'
    <3>1. begin \in 0..Len(script)
          BY DEF TypeOK
    <3>2. PICK n \in Nat : n = Len(replies)
          BY DEF TypeOK
    <3>3. Len(replies') = n + 1 /\ replies'[n + 1] = [kind |-> "end", rec |-> begin]
          BY <2>1, <3>1, <3>2, OneMore
    <3>4. n + 1 \in 1..Len(replies')
          BY <3>2, <3>3
    <3> QED BY <2>1, <3>3, <3>4 DEF Unanswered
  <2> QED BY <2>1, <2>2, <2>5, <2>6 DEF Answers, Serving
<1>44. CASE GetStr_Move
      BY <1>44, <1>0 DEF GetStr_Move, Min2, Answers, AnsweredRecs, Serving, Unanswered, GoodBegin,
        IsBegin, Calls, Phases, Caller, Loop, Readers, TypeOK
<1> QED BY <1>1, <1>2, <1>3, <1>4, <1>5, <1>6, <1>7, <1>8, <1>9, <1>10, <1>11, <1>12, <1>13,
   <1>14, <1>15, <1>16, <1>17, <1>18, <1>19, <1>20, <1>21, <1>22, <1>23, <1>24, <1>25,
   <1>26, <1>27, <1>28, <1>29, <1>30, <1>31, <1>32, <1>33, <1>34, <1>35, <1>36, <1>37,
   <1>38, <1>39, <1>40, <1>41, <1>42, <1>43, <1>44 DEF Next, Server, FillBuffProc,
   ProcessHeader, ReadBody, FCGX_Accept_r, App, Library

\* The control and the history, whatever the server sends.
LEMMA CommonInit == Init => Control /\ History
<1> SUFFICES ASSUME Init PROVE Control /\ History
      OBVIOUS
<1> USE LengthsAssumption
<1>1. script \in Scripts /\ Len(script) \in Nat
      BY ScriptRecords DEF Init
<1>2. half = NoPair /\ NoPair \in [{"params", "values"} -> BOOLEAN]
      BY NoPairType DEF Init
<1>3. TypeOK
  <2>1. replies \in Seq(Replies) /\ params \in [length : Nat, cur : Nat] /\ got \in [StreamTypes -> SUBSET Nat]
        BY DEF Init, NoParams
  <2>2. /\ srvOpen \in BOOLEAN /\ ipcOpen \in BOOLEAN /\ isBeginProcessed \in BOOLEAN
        /\ keepConnection \in BOOLEAN /\ skip \in BOOLEAN /\ eorStop \in BOOLEAN
        BY DEF Init
  <2>3. /\ isClosed \in BOOLEAN /\ failed \in BOOLEAN /\ wasFCloseCalled \in BOOLEAN /\ cleared \in BOOLEAN
        /\ misread \in BOOLEAN
        BY DEF Init
  <2>4. /\ cut \in Nat /\ conns \in Nat /\ requestId \in Nat
        /\ pos \in Nat /\ lim \in Nat /\ stop \in Nat /\ stopUnget \in Nat /\ contentLen \in Nat
        /\ paddingLen \in Nat /\ headerLen \in 0..(HeaderLen - 1) /\ want \in Nat
        BY DEF Init
  <2>5. sent \in 0..Len(script) /\ begin \in 0..Len(script) /\ rec \in 0..Len(script)
        BY <1>1 DEF Init
  <2>6. /\ role \in {"responder", "filter", "bad"} /\ type \in StreamTypes \cup {"none"}
        /\ pc \in Places /\ ret \in Readers \cup {"body", "values"} /\ outer \in Readers
        BY DEF Init, Places, Readers
  <2> QED BY <1>1, <1>2, <2>1, <2>2, <2>3, <2>4, <2>5, <2>6 DEF TypeOK
<1>4. Buffer /\ Calls /\ Phases /\ Body
      BY DEF Init, Buffer, Calls, Phases, Body, Caller, Loop, Ahead
<1>5. AnsweredRecs = {} /\ Known = {}
      BY DEF Init, AnsweredRecs, Known
<1>6. Behind
      BY <1>5 DEF Init, Behind
<1>7. Headers /\ Begun /\ Unreached
      BY DEF Init, Headers, Begun, Unreached, StreamTypes
<1>8. Answers
  <2>1. replies = <<>> /\ ret = "accepted" /\ ~isBeginProcessed /\ ~ipcOpen
        BY DEF Init
  <2> QED BY <1>5, <2>1 DEF Answers, Serving
<1>9. Environment
      BY DEF Init, Environment, Caller, Loop, NoParams
<1>10. Sending
  <2>1. lim = 0 /\ sent = 0 /\ cut = 0
        BY DEF Init
  <2> QED BY <2>1 DEF Sending, SentBytes
<1> QED BY <1>3, <1>4, <1>6, <1>7, <1>8, <1>9, <1>10 DEF Control, History

\* Every step keeps control and history, whatever the server sends and the application does.
LEMMA CommonNext == Control /\ History /\ [Next]_vars => Control' /\ History'
<1> SUFFICES ASSUME Control, History, [Next]_vars PROVE Control' /\ History'
      OBVIOUS
<1>1. TypeOK /\ Buffer /\ Calls /\ Phases /\ Body /\ Environment /\ Begun
      BY DEF Control, History
<1>2. TypeOK' /\ Buffer' /\ Calls' /\ Phases' /\ Body'
      BY <1>1, TypeNext, BufferNext, CallsNext, PhasesNext, BodyNext
<1>3. Begun' /\ Unreached' /\ Sending' /\ Environment' /\ Headers' /\ Behind' /\ Answers'
      BY BegunNext, UnreachedNext, SendingNext, EnvironmentNext, HeadersNext, BehindNext,
        AnswersNext
<1> QED BY <1>2, <1>3 DEF Control, History

-----------------------------------------------------------------------------
(* The abstract request.                                                   *)

\* The answers that do not end a request leave it unanswered.
LEMMA OtherAnswer ==
    ASSUME TypeOK, NEW kind \in {"cant_mpx", "values", "unknown_type"}, NEW k \in 0..Len(script), Reply(kind, k),
           UNCHANGED <<isBeginProcessed, begin>>
    PROVE  Unanswered' = Unanswered
<1>1. PICK n \in Nat : n = Len(replies)
      BY DEF TypeOK
<1>2. Len(replies') = n + 1 /\ replies'[n + 1] = [kind |-> kind, rec |-> k] /\ \A i \in 1..n : replies'[i] = replies[i]
      BY <1>1, OneMore
<1>3. {replies'[i] : i \in 1..Len(replies')} = {replies[i] : i \in 1..Len(replies)} \cup {[kind |-> kind, rec |-> k]}
      BY <1>1, <1>2
<1>4. [kind |-> "end", rec |-> begin] # [kind |-> kind, rec |-> k]
  <2>1. ASSUME [kind |-> "end", rec |-> begin] = [kind |-> kind, rec |-> k] PROVE FALSE
    <3>1. [kind |-> "end", rec |-> begin].kind = [kind |-> kind, rec |-> k].kind
          BY <2>1
    <3> QED BY <3>1
  <2> QED BY <2>1
<1> QED BY <1>3, <1>4 DEF Unanswered

\* What the request does not see.
LEMMA SameRequest ==
    ASSUME UNCHANGED <<ipcOpen, isBeginProcessed, failed, cleared>>, Unanswered' = Unanswered,
           (pc = "accept") = (pc' = "accept")
    PROVE  UNCHANGED Request!vars
BY DEF Request!vars

\* A failure of the input stream.
LEMMA RequestFails ==
    ASSUME UNCHANGED <<ipcOpen, isBeginProcessed, cleared>>, Unanswered' = Unanswered,
           pc # "accept", pc' # "accept", ipcOpen, failed'
    PROVE  Request!Next
BY DEF Request!Next, Request!Fail

\* Every step of the reader is a step of the request, or none.
LEMMA MapNext == Control /\ History /\ [Next]_vars => [Request!Next]_(Request!vars)
<1> SUFFICES ASSUME TypeOK, Buffer, Calls, Phases, Body, History, [Next]_vars PROVE [Request!Next]_(Request!vars)
      BY DEF Control
<1> USE LengthsAssumption
<1>1. CASE UNCHANGED vars
      BY <1>1 DEF vars, Request!vars, Unanswered
<1>2. CASE ServerSend
  <2>1. UNCHANGED <<ipcOpen, isBeginProcessed, failed, cleared>>
        BY <1>2 DEF ServerSend
  <2>2. Unanswered' = Unanswered
        BY <1>2 DEF ServerSend, Unanswered
  <2>3. (pc = "accept") = (pc' = "accept")
        BY <1>2 DEF ServerSend
  <2> QED BY <2>1, <2>2, <2>3, SameRequest
<1>3. CASE ServerCrash
  <2>1. UNCHANGED <<ipcOpen, isBeginProcessed, failed, cleared>>
        BY <1>3 DEF ServerCrash
  <2>2. Unanswered' = Unanswered
        BY <1>3 DEF ServerCrash, Unanswered
  <2>3. (pc = "accept") = (pc' = "accept")
        BY <1>3 DEF ServerCrash
  <2> QED BY <2>1, <2>2, <2>3, SameRequest
<1>4. CASE Fill_Read
  <2>1. UNCHANGED <<ipcOpen, isBeginProcessed, failed, cleared>>
        BY <1>4 DEF Fill_Read
  <2>2. Unanswered' = Unanswered
        BY <1>4 DEF Fill_Read, Unanswered
  <2>3. pc # "accept" /\ pc' # "accept"
        BY <1>4 DEF Fill_Read, TypeOK, Readers
  <2> QED BY <2>1, <2>2, <2>3, SameRequest
<1>5. CASE Fill_ReadEnd
  <2>1. UNCHANGED <<ipcOpen, isBeginProcessed, cleared>>
        BY <1>5 DEF Fill_ReadEnd
  <2>2. Unanswered' = Unanswered
        BY <1>5 DEF Fill_ReadEnd, Unanswered
  <2>3. pc # "accept" /\ pc' # "accept"
        BY <1>5 DEF Fill_ReadEnd, FillError, TypeOK, Readers
  <2>4. ipcOpen /\ failed'
        BY <1>5, <2>3 DEF Fill_ReadEnd, FillError, Calls
  <2> QED BY <2>1, <2>2, <2>3, <2>4, RequestFails
<1>6. CASE Fill_NotEmpty
  <2>1. UNCHANGED <<ipcOpen, isBeginProcessed, failed, cleared>>
        BY <1>6 DEF Fill_NotEmpty
  <2>2. Unanswered' = Unanswered
        BY <1>6 DEF Fill_NotEmpty, Unanswered
  <2>3. pc # "accept" /\ pc' # "accept"
        BY <1>6 DEF Fill_NotEmpty, TypeOK, Readers
  <2> QED BY <2>1, <2>2, <2>3, SameRequest
<1>7. CASE Fill_Deliver
  <2>1. UNCHANGED <<ipcOpen, isBeginProcessed, failed, cleared>>
        BY <1>7 DEF Fill_Deliver
  <2>2. Unanswered' = Unanswered
        BY <1>7 DEF Fill_Deliver, Unanswered
  <2>3. pc # "accept" /\ pc' # "accept"
        BY <1>7 DEF Fill_Deliver, TypeOK, Readers
  <2> QED BY <2>1, <2>2, <2>3, SameRequest
<1>8. CASE Fill_Skip
  <2>1. UNCHANGED <<ipcOpen, isBeginProcessed, failed, cleared>>
        BY <1>8 DEF Fill_Skip
  <2>2. Unanswered' = Unanswered
        BY <1>8 DEF Fill_Skip, Unanswered
  <2>3. pc # "accept" /\ pc' # "accept"
        BY <1>8 DEF Fill_Skip, TypeOK, Readers
  <2> QED BY <2>1, <2>2, <2>3, SameRequest
<1>9. CASE Fill_NoContent
  <2>1. UNCHANGED <<ipcOpen, isBeginProcessed, failed, cleared>>
        BY <1>9 DEF Fill_NoContent
  <2>2. Unanswered' = Unanswered
        BY <1>9 DEF Fill_NoContent, Unanswered
  <2>3. pc # "accept" /\ pc' # "accept"
        BY <1>9 DEF Fill_NoContent, TypeOK, Readers
  <2> QED BY <2>1, <2>2, <2>3, SameRequest
<1>10. CASE Fill_Padding
  <2>1. UNCHANGED <<ipcOpen, isBeginProcessed, failed, cleared>>
        BY <1>10 DEF Fill_Padding
  <2>2. Unanswered' = Unanswered
        BY <1>10 DEF Fill_Padding, Unanswered
  <2>3. pc # "accept" /\ pc' # "accept"
        BY <1>10 DEF Fill_Padding, TypeOK, Readers
  <2> QED BY <2>1, <2>2, <2>3, SameRequest
<1>11. CASE Fill_EndOfRecord
  <2>1. UNCHANGED <<ipcOpen, isBeginProcessed, failed, cleared>>
        BY <1>11 DEF Fill_EndOfRecord
  <2>2. Unanswered' = Unanswered
        BY <1>11 DEF Fill_EndOfRecord, Unanswered
  <2>3. pc # "accept" /\ pc' # "accept"
        BY <1>11 DEF Fill_EndOfRecord, TypeOK, Readers
  <2> QED BY <2>1, <2>2, <2>3, SameRequest
<1>12. CASE Fill_Header
  <2>1. UNCHANGED <<ipcOpen, isBeginProcessed, failed, cleared>>
        BY <1>12 DEF Fill_Header
  <2>2. Unanswered' = Unanswered
        BY <1>12 DEF Fill_Header, Unanswered
  <2>3. pc # "accept" /\ pc' # "accept"
        BY <1>12 DEF Fill_Header, TypeOK, Readers
  <2> QED BY <2>1, <2>2, <2>3, SameRequest
<1>13. CASE Header_Misread
  <2>1. UNCHANGED <<ipcOpen, isBeginProcessed, cleared>>
        BY <1>13 DEF Header_Misread
  <2>2. Unanswered' = Unanswered
        BY <1>13 DEF Header_Misread, Unanswered
  <2>3. pc # "accept" /\ pc' # "accept"
        BY <1>13 DEF Header_Misread, FillError, TypeOK, Readers
  <2>4. ipcOpen /\ failed'
        BY <1>13, <2>3 DEF Header_Misread, FillError, Calls
  <2> QED BY <2>1, <2>2, <2>3, <2>4, RequestFails
<1>14. ASSUME NEW k \in 1..Len(script), Header_BadBegin(k) PROVE [Request!Next]_(Request!vars)
  <2>1. UNCHANGED <<ipcOpen, isBeginProcessed, cleared>>
        BY <1>14 DEF Header_BadBegin
  <2>2. Unanswered' = Unanswered
        BY <1>14 DEF Header_BadBegin, Unanswered
  <2>3. pc # "accept" /\ pc' # "accept"
        BY <1>14 DEF Header_BadBegin, FillError, TypeOK, Readers
  <2>4. ipcOpen /\ failed'
        BY <1>14, <2>3 DEF Header_BadBegin, FillError, Calls
  <2> QED BY <2>1, <2>2, <2>3, <2>4, RequestFails
<1>15. ASSUME NEW k \in 1..Len(script), Header_Multiplexed(k) PROVE [Request!Next]_(Request!vars)
  <2>1. UNCHANGED <<ipcOpen, isBeginProcessed, failed, cleared>>
        BY <1>15 DEF Header_Multiplexed
  <2>2. Unanswered' = Unanswered
    <3>1. k \in 0..Len(script) /\ Reply("cant_mpx", k) /\ UNCHANGED <<isBeginProcessed, begin>>
          BY <1>15, ScriptRecords DEF Header_Multiplexed, TypeOK
    <3> QED BY <3>1, OtherAnswer
  <2>3. pc # "accept" /\ pc' # "accept"
        BY <1>15 DEF Header_Multiplexed, TypeOK, Readers
  <2> QED BY <2>1, <2>2, <2>3, SameRequest
<1>16. ASSUME NEW k \in 1..Len(script), Header_Begin(k) PROVE [Request!Next]_(Request!vars)
  <2>1. UNCHANGED <<ipcOpen, isBeginProcessed, failed, cleared>> /\ ~isBeginProcessed
        BY <1>16 DEF Header_Begin
  <2>2. Unanswered' = Unanswered
        BY <2>1 DEF Unanswered
  <2>3. pc # "accept" /\ pc' # "accept"
        BY <1>16 DEF Header_Begin
  <2> QED BY <2>1, <2>2, <2>3, SameRequest
<1>17. ASSUME NEW k \in 1..Len(script), Header_GetValues(k) PROVE [Request!Next]_(Request!vars)
  <2>1. UNCHANGED <<ipcOpen, isBeginProcessed, failed, cleared>>
        BY <1>17 DEF Header_GetValues
  <2>2. Unanswered' = Unanswered
        BY <1>17 DEF Header_GetValues, Unanswered
  <2>3. pc # "accept" /\ pc' # "accept"
        BY <1>17 DEF Header_GetValues, TypeOK, Readers
  <2> QED BY <2>1, <2>2, <2>3, SameRequest
<1>18. ASSUME NEW k \in 1..Len(script), Header_UnknownManagement(k) PROVE [Request!Next]_(Request!vars)
  <2>1. UNCHANGED <<ipcOpen, isBeginProcessed, failed, cleared>>
        BY <1>18 DEF Header_UnknownManagement
  <2>2. Unanswered' = Unanswered
    <3>1. k \in 0..Len(script) /\ Reply("unknown_type", k) /\ UNCHANGED <<isBeginProcessed, begin>>
          BY <1>18, ScriptRecords DEF Header_UnknownManagement, TypeOK
    <3> QED BY <3>1, OtherAnswer
  <2>3. pc # "accept" /\ pc' # "accept"
        BY <1>18 DEF Header_UnknownManagement, TypeOK, Readers
  <2> QED BY <2>1, <2>2, <2>3, SameRequest
<1>19. ASSUME NEW k \in 1..Len(script), Header_ReplyFails(k) PROVE [Request!Next]_(Request!vars)
  <2>1. UNCHANGED <<ipcOpen, isBeginProcessed, cleared>>
        BY <1>19 DEF Header_ReplyFails
  <2>2. Unanswered' = Unanswered
        BY <1>19 DEF Header_ReplyFails, Unanswered
  <2>3. pc # "accept" /\ pc' # "accept"
        BY <1>19 DEF Header_ReplyFails, FillError, TypeOK, Readers
  <2>4. ipcOpen /\ failed'
        BY <1>19, <2>3 DEF Header_ReplyFails, FillError, Calls
  <2> QED BY <2>1, <2>2, <2>3, <2>4, RequestFails
<1>20. ASSUME NEW k \in 1..Len(script), Header_OtherRequest(k) PROVE [Request!Next]_(Request!vars)
  <2>1. UNCHANGED <<ipcOpen, isBeginProcessed, failed, cleared>>
        BY <1>20 DEF Header_OtherRequest
  <2>2. Unanswered' = Unanswered
        BY <1>20 DEF Header_OtherRequest, Unanswered
  <2>3. pc # "accept" /\ pc' # "accept"
        BY <1>20 DEF Header_OtherRequest, TypeOK, Readers
  <2> QED BY <2>1, <2>2, <2>3, SameRequest
<1>21. ASSUME NEW k \in 1..Len(script), Header_WrongType(k) PROVE [Request!Next]_(Request!vars)
  <2>1. UNCHANGED <<ipcOpen, isBeginProcessed, cleared>>
        BY <1>21 DEF Header_WrongType
  <2>2. Unanswered' = Unanswered
        BY <1>21 DEF Header_WrongType, Unanswered
  <2>3. pc # "accept" /\ pc' # "accept"
        BY <1>21 DEF Header_WrongType, FillError, TypeOK, Readers
  <2>4. ipcOpen /\ failed'
        BY <1>21, <2>3 DEF Header_WrongType, FillError, Calls
  <2> QED BY <2>1, <2>2, <2>3, <2>4, RequestFails
<1>22. ASSUME NEW k \in 1..Len(script), Header_Stream(k) PROVE [Request!Next]_(Request!vars)
  <2>1. UNCHANGED <<ipcOpen, isBeginProcessed, failed, cleared>>
        BY <1>22 DEF Header_Stream
  <2>2. Unanswered' = Unanswered
        BY <1>22 DEF Header_Stream, Unanswered
  <2>3. pc # "accept" /\ pc' # "accept"
        BY <1>22 DEF Header_Stream, TypeOK, Readers
  <2> QED BY <2>1, <2>2, <2>3, SameRequest
<1>23. CASE Body_Complete
  <2>1. pc = "body" /\ ~isClosed /\ isBeginProcessed' /\ pc' = outer /\ UNCHANGED <<ipcOpen, failed, cleared, begin, replies>>
        BY <1>23 DEF Body_Complete
  <2>2. ret = "body" /\ ipcOpen /\ ~isBeginProcessed /\ ~failed /\ pc' # "accept"
        BY <2>1 DEF Calls, Phases, Caller, Loop, TypeOK, Readers
  <2>3. begin \notin AnsweredRecs
        BY <2>1, <2>2 DEF History, Answers, Serving
  <2>4. Unanswered' /\ ~Unanswered
    <3>1. \A i \in 1..Len(replies) : replies[i] # [kind |-> "end", rec |-> begin]
          BY <2>3 DEF AnsweredRecs
    <3> QED BY <2>1, <2>2, <3>1 DEF Unanswered
  <2> QED BY <2>1, <2>2, <2>4 DEF Request!Next, Request!Begin
<1>24. CASE Body_More
  <2>1. UNCHANGED <<ipcOpen, isBeginProcessed, failed, cleared>>
        BY <1>24 DEF Body_More
  <2>2. Unanswered' = Unanswered
        BY <1>24 DEF Body_More, Unanswered
  <2>3. pc # "accept" /\ pc' # "accept"
        BY <1>24 DEF Body_More, TypeOK, Readers
  <2> QED BY <2>1, <2>2, <2>3, SameRequest
<1>25. CASE Body_Short
  <2>1. UNCHANGED <<ipcOpen, isBeginProcessed, cleared>>
        BY <1>25 DEF Body_Short
  <2>2. Unanswered' = Unanswered
        BY <1>25 DEF Body_Short, Unanswered
  <2>3. pc # "accept" /\ pc' # "accept"
        BY <1>25 DEF Body_Short, TypeOK, Readers
  <2>4. ipcOpen /\ failed'
        BY <1>25, <2>3 DEF Body_Short, Calls
  <2> QED BY <2>1, <2>2, <2>3, <2>4, RequestFails
<1>26. CASE Values_Take
  <2>1. UNCHANGED <<ipcOpen, isBeginProcessed, failed, cleared>>
        BY <1>26 DEF Values_Take
  <2>2. Unanswered' = Unanswered
        BY <1>26 DEF Values_Take, Unanswered
  <2>3. pc # "accept" /\ pc' # "accept"
        BY <1>26 DEF Values_Take, TypeOK, Readers
  <2> QED BY <2>1, <2>2, <2>3, SameRequest
<1>27. CASE Values_More
  <2>1. UNCHANGED <<ipcOpen, isBeginProcessed, failed, cleared>>
        BY <1>27 DEF Values_More
  <2>2. Unanswered' = Unanswered
        BY <1>27 DEF Values_More, Unanswered
  <2>3. pc # "accept" /\ pc' # "accept"
        BY <1>27 DEF Values_More, TypeOK, Readers
  <2> QED BY <2>1, <2>2, <2>3, SameRequest
<1>28. CASE Values_Answer
  <2>1. UNCHANGED <<ipcOpen, isBeginProcessed, failed, cleared>>
        BY <1>28 DEF Values_Answer
  <2>2. Unanswered' = Unanswered
    <3>1. rec \in 0..Len(script) /\ Reply("values", rec) /\ UNCHANGED <<isBeginProcessed, begin>>
          BY <1>28, ScriptRecords DEF Values_Answer, TypeOK
    <3> QED BY <3>1, OtherAnswer
  <2>3. pc # "accept" /\ pc' # "accept"
        BY <1>28 DEF Values_Answer, TypeOK, Readers
  <2> QED BY <2>1, <2>2, <2>3, SameRequest
<1>29. CASE Values_Fail
  <2>1. UNCHANGED <<ipcOpen, isBeginProcessed, cleared>>
        BY <1>29 DEF Values_Fail
  <2>2. Unanswered' = Unanswered
        BY <1>29 DEF Values_Fail, Unanswered
  <2>3. pc # "accept" /\ pc' # "accept"
        BY <1>29 DEF Values_Fail, TypeOK, Readers
  <2>4. ipcOpen /\ failed'
        BY <1>29, <2>3 DEF Values_Fail, Calls
  <2> QED BY <2>1, <2>2, <2>3, <2>4, RequestFails
<1>30. ASSUME NEW s \in Scripts, Accept_New(s) PROVE [Request!Next]_(Request!vars)
  <2>1. /\ ~ipcOpen /\ ipcOpen' /\ ~isBeginProcessed' /\ ~failed' /\ ~cleared'
        BY <1>30 DEF Accept_New, NewReader
  <2>2. ~Unanswered'
        BY <2>1 DEF Unanswered
  <2> QED BY <2>1, <2>2 DEF Request!Next, Request!Connect
<1>31. CASE Accept_Kept
  <2>1. /\ pc = "accept" /\ ipcOpen /\ ipcOpen' /\ ~isBeginProcessed' /\ ~failed' /\ cleared' = cleared
        BY <1>31 DEF Accept_Kept, NewReader
  <2>2. ~failed /\ ~Unanswered
        BY <2>1 DEF Phases, History, Answers
  <2>3. ~Unanswered'
        BY <2>1 DEF Unanswered
  <2> QED BY <2>1, <2>2, <2>3 DEF Request!vars
<1>32. CASE Accepted_Refuse
  <2>1. pc # "accept" /\ ~ipcOpen'
        BY <1>32 DEF Accepted_Refuse, TryAgain
  <2>2. ipcOpen
        BY <2>1 DEF Calls
  <2> QED BY <2>1, <2>2 DEF Request!Next, Request!Close
<1>33. CASE Accepted_Begin
  <2>1. UNCHANGED <<ipcOpen, isBeginProcessed, failed, cleared>>
        BY <1>33 DEF Accepted_Begin
  <2>2. Unanswered' = Unanswered
        BY <1>33 DEF Accepted_Begin, Unanswered
  <2>3. pc # "accept" /\ pc' # "accept"
        BY <1>33 DEF Accepted_Begin, TypeOK, Readers
  <2> QED BY <2>1, <2>2, <2>3, SameRequest
<1>34. CASE Params_Take
  <2>1. UNCHANGED <<ipcOpen, isBeginProcessed, failed, cleared>>
        BY <1>34 DEF Params_Take
  <2>2. Unanswered' = Unanswered
        BY <1>34 DEF Params_Take, Unanswered
  <2>3. pc # "accept" /\ pc' # "accept"
        BY <1>34 DEF Params_Take, TypeOK, Readers
  <2> QED BY <2>1, <2>2, <2>3, SameRequest
<1>35. CASE Params_More
  <2>1. UNCHANGED <<ipcOpen, isBeginProcessed, failed, cleared>>
        BY <1>35 DEF Params_More
  <2>2. Unanswered' = Unanswered
        BY <1>35 DEF Params_More, Unanswered
  <2>3. pc # "accept" /\ pc' # "accept"
        BY <1>35 DEF Params_More, TypeOK, Readers
  <2> QED BY <2>1, <2>2, <2>3, SameRequest
<1>36. CASE Params_Error
  <2>1. pc # "accept" /\ ~ipcOpen'
        BY <1>36 DEF Params_Error, TryAgain
  <2>2. ipcOpen
        BY <2>1 DEF Calls
  <2> QED BY <2>1, <2>2 DEF Request!Next, Request!Close
<1>37. CASE Params_Complete
  <2>1. UNCHANGED <<ipcOpen, isBeginProcessed, failed, cleared>>
        BY <1>37 DEF Params_Complete
  <2>2. Unanswered' = Unanswered
        BY <1>37 DEF Params_Complete, Unanswered
  <2>3. pc # "accept" /\ pc' # "accept"
        BY <1>37 DEF Params_Complete, TypeOK, Readers
  <2> QED BY <2>1, <2>2, <2>3, SameRequest
<1>38. ASSUME NEW n \in 1..MaxGet, FCGX_GetStr(n) PROVE [Request!Next]_(Request!vars)
  <2>1. UNCHANGED <<ipcOpen, isBeginProcessed, failed, cleared>>
        BY <1>38 DEF FCGX_GetStr
  <2>2. Unanswered' = Unanswered
        BY <1>38 DEF FCGX_GetStr, Unanswered
  <2>3. pc # "accept" /\ pc' # "accept"
        BY <1>38 DEF FCGX_GetStr, TypeOK, Readers
  <2> QED BY <2>1, <2>2, <2>3, SameRequest
<1>39. CASE FCGX_UnGetChar
  <2>1. UNCHANGED <<ipcOpen, isBeginProcessed, failed, cleared>>
        BY <1>39 DEF FCGX_UnGetChar
  <2>2. Unanswered' = Unanswered
        BY <1>39 DEF FCGX_UnGetChar, Unanswered
  <2>3. pc # "accept" /\ pc' # "accept"
        BY <1>39 DEF FCGX_UnGetChar, TypeOK, Readers
  <2> QED BY <2>1, <2>2, <2>3, SameRequest
<1>40. CASE FCGX_StartFilterData
  <2>1. UNCHANGED <<ipcOpen, isBeginProcessed, cleared>> /\ pc = "app" /\ pc' = "app"
        BY <1>40 DEF FCGX_StartFilterData
  <2>2. Unanswered' = Unanswered
        BY <1>40 DEF FCGX_StartFilterData, Unanswered
  <2>3. ipcOpen /\ (failed' = failed \/ failed')
        BY <1>40, <2>1 DEF FCGX_StartFilterData, Calls
  <2>4. CASE failed' = failed
        BY <2>1, <2>2, <2>4, SameRequest
  <2>5. CASE failed'
        BY <2>1, <2>2, <2>3, <2>5, RequestFails
  <2> QED BY <2>3, <2>4, <2>5
<1>41. CASE FCGX_FClose
  <2>1. UNCHANGED <<ipcOpen, isBeginProcessed, failed, cleared>>
        BY <1>41 DEF FCGX_FClose
  <2>2. Unanswered' = Unanswered
        BY <1>41 DEF FCGX_FClose, Unanswered
  <2>3. pc # "accept" /\ pc' # "accept"
        BY <1>41 DEF FCGX_FClose, TypeOK, Readers
  <2> QED BY <2>1, <2>2, <2>3, SameRequest
<1>42. CASE FCGX_ClearError
  <2>1. UNCHANGED <<ipcOpen, isBeginProcessed>> /\ pc = "app" /\ pc' = "app" /\ failed /\ ~failed' /\ cleared'
        BY <1>42 DEF FCGX_ClearError
  <2>2. Unanswered' = Unanswered
        BY <1>42 DEF FCGX_ClearError, Unanswered
  <2>3. ipcOpen /\ isBeginProcessed
        BY <2>1 DEF Calls, Phases, Caller, Loop
  <2> QED BY <2>1, <2>2, <2>3 DEF Request!Next, Request!Waive
<1>43. CASE FCGX_Finish_r
  <2>1. pc = "app" /\ pc' = "accept" /\ UNCHANGED <<isBeginProcessed, failed, cleared>>
        BY <1>43 DEF FCGX_Finish_r
  <2>2. ipcOpen /\ isBeginProcessed
        BY <2>1 DEF Calls, Phases, Caller, Loop
  <2>3. ipcOpen' \in BOOLEAN /\ (ipcOpen' => ~failed)
    <3>1. ipcOpen' = (keepConnection /\ ~failed) \/ ipcOpen' = FALSE
          BY <1>43 DEF FCGX_Finish_r
    <3> QED BY <3>1
  <2>4. CASE ~ipcOpen'
        BY <2>2, <2>4 DEF Request!Next, Request!Close
  <2>5. CASE ipcOpen'
    <3>1. ~Unanswered'
          BY <2>1, <2>5, AnswersNext DEF Control, Answers
    <3> QED BY <2>1, <2>2, <2>3, <2>5, <3>1 DEF Request!Next, Request!Keep
  <2> QED BY <2>3, <2>4, <2>5
<1>44. CASE GetStr_Move
  <2>1. UNCHANGED <<ipcOpen, isBeginProcessed, failed, cleared>>
        BY <1>44 DEF GetStr_Move
  <2>2. Unanswered' = Unanswered
        BY <1>44 DEF GetStr_Move, Unanswered
  <2>3. pc # "accept" /\ pc' # "accept"
        BY <1>44 DEF GetStr_Move, TypeOK, Readers
  <2> QED BY <2>1, <2>2, <2>3, SameRequest
<1> QED BY <1>1, <1>2, <1>3, <1>4, <1>5, <1>6, <1>7, <1>8, <1>9, <1>10, <1>11, <1>12, <1>13,
   <1>14, <1>15, <1>16, <1>17, <1>18, <1>19, <1>20, <1>21, <1>22, <1>23, <1>24, <1>25,
   <1>26, <1>27, <1>28, <1>29, <1>30, <1>31, <1>32, <1>33, <1>34, <1>35, <1>36, <1>37,
   <1>38, <1>39, <1>40, <1>41, <1>42, <1>43, <1>44 DEF Next, Server, FillBuffProc,
   ProcessHeader, ReadBody, FCGX_Accept_r, App, Library

\* The control of FillBuffProc and of the readers it calls and returns to, and the history
\* of records, answers and bytes, whatever the server sends and the application does.
THEOREM ReaderControl == Spec => [](Control /\ History)
<1> QED BY CommonInit, CommonNext, PTL DEF Spec

\* However reads are cut and whatever fails, no request begins before the one before it
\* is finished, and none is read from a connection after an error on it, unless the
\* application has cleared the error: the input side implements FcgiRequest.
THEOREM ReaderImplementsRequest == Spec => ImplementsRequest
<1>1. Init => Request!Init
      BY DEF Init, Request!Init
<1>2. Control /\ History /\ [Next]_vars => [Request!Next]_(Request!vars)
      BY MapNext
<1> QED BY <1>1, <1>2, ReaderControl, PTL DEF Spec, ImplementsRequest, Request!Spec

\* No request is read from a connection on which the one before is unanswered, unless an
\* error on it has been seen (FCGX_Accept_r, FCGX_Finish_r): FcgiRequest keeps NothingOwed,
\* and the input side implements FcgiRequest.
THEOREM ReaderNothingOwed == Spec => []Request!NothingOwed
<1>1. Request!Init => Request!NothingOwed
      BY DEF Request!Init, Request!NothingOwed
<1>2. Request!NothingOwed /\ [Request!Next]_(Request!vars) => Request!NothingOwed'
      BY DEF Request!NothingOwed, Request!vars, Request!Next, Request!Connect, Request!Begin,
             Request!Answer, Request!Fail, Request!Waive, Request!Keep, Request!Close
<1> QED BY <1>1, <1>2, ReaderImplementsRequest, PTL DEF ImplementsRequest, Request!Spec

-----------------------------------------------------------------------------
(* Where a byte lies, and what has been sent.                              *)

\* A byte lies in one record.
LEMMA OneRecord ==
    ASSUME NEW s \in Scripts, NEW j \in 1..Len(s), NEW k \in 1..Len(s), NEW p \in Int,
           s[j].start <= p, p < End(s[j]), s[k].start <= p, p < End(s[k])
    PROVE  j = k
<1>1. Len(s) \in Nat /\ j \in Nat /\ k \in Nat
      BY ScriptRecords
<1>2. PICK a \in Nat, b \in Nat, c \in Nat, d \in Nat :
          a = s[j].start /\ b = End(s[j]) /\ c = s[k].start /\ d = End(s[k])
      BY Extent
<1>3. ~(j < k)
  <2>1. j < k => b <= c
        BY <1>2, InOrder
  <2> QED BY <1>2, <2>1
<1>4. ~(k < j)
  <2>1. k < j => d <= a
        BY <1>2, InOrder
  <2> QED BY <1>2, <2>1
<1> QED BY <1>1, <1>3, <1>4

\* Positions in the bytes of the connection are numbers.
LEMMA Positions == ASSUME TypeOK PROVE SentBytes \in Nat /\ RecEnd \in Nat
<1>1. script \in Scripts /\ Len(script) \in Nat /\ rec \in 0..Len(script) /\ sent \in 0..Len(script) /\ cut \in Nat
      BY ScriptRecords DEF TypeOK
<1>2. (rec # 0 => rec \in 1..Len(script)) /\ (sent # 0 => sent \in 1..Len(script))
      BY <1>1
<1>3. (rec # 0 => End(script[rec]) \in Nat) /\ (sent # 0 => End(script[sent]) \in Nat)
      BY <1>1, <1>2, Extent
<1> QED BY <1>1, <1>3 DEF SentBytes, RecEnd

\* A record of which something has been sent was not sent too early.
LEMMA SentPart ==
    ASSUME TypeOK, Sending, NEW k \in 1..Len(script), script[k].start < SentBytes
    PROVE  Len(replies) >= script[k].after
<1>1. script \in Scripts /\ Len(script) \in Nat /\ sent \in 0..Len(script) /\ cut \in Nat /\ k \in Nat
      BY ScriptRecords DEF TypeOK
<1>2. CASE k <= sent
      BY <1>1, <1>2 DEF Sending
<1>3. CASE sent < k
  <2>1. sent + 1 \in 1..Len(script) /\ sent \in Nat
        BY <1>1, <1>3
  <2>2. PICK x \in Nat : /\ SentBytes = x + cut /\ x = script[sent + 1].start /\ x <= script[k].start
    <3>1. CASE sent = 0
      <4>1. SentBytes = 0 + cut
            BY <3>1 DEF SentBytes
      <4>2. script[sent + 1].start = 0
            BY <1>1, <3>1, ScriptRecords DEF IsScript
      <4> QED BY <1>1, <4>1, <4>2, Extent
    <3>2. CASE sent # 0
      <4>1. sent \in 1..(Len(script) - 1) /\ sent \in 1..Len(script)
            BY <1>1, <1>3, <3>2
      <4>2. script[sent + 1].start = End(script[sent]) /\ End(script[sent]) \in Nat
            BY <1>1, <4>1, ScriptRecords DEF IsScript
      <4>3. End(script[sent]) <= script[k].start
            BY <1>1, <1>3, <4>1, InOrder
      <4>4. SentBytes = End(script[sent]) + cut
            BY <3>2 DEF SentBytes
      <4> QED BY <4>2, <4>3, <4>4
    <3> QED BY <3>1, <3>2
  <2>3. PICK y \in Nat : y = script[k].start
        BY <1>1, Extent
  <2>4. cut > 0
        BY <1>1, <2>2, <2>3
  <2>5. Len(replies) >= script[sent + 1].after /\ cut < End(script[sent + 1]) - x
        BY <2>2, <2>4 DEF Sending
  <2>6. PICK e \in Nat : e = End(script[sent + 1])
        BY <1>1, <2>1, Extent
  <2>7. ~(sent + 1 < k)
    <3>1. sent + 1 < k => e <= y
          BY <1>1, <2>1, <2>3, <2>6, InOrder
    <3> QED BY <1>1, <2>2, <2>3, <2>5, <2>6, <3>1
  <2>8. k = sent + 1
        BY <1>1, <1>3, <2>7
  <2> QED BY <2>5, <2>8
<1> QED BY <1>1, <1>2, <1>3

\* Nothing is sent beyond the last record.
LEMMA SentAtMost ==
    ASSUME TypeOK, Sending
    PROVE  SentBytes <= End(script[Len(script)]) /\ Len(script) \in 1..Len(script)
<1>1. /\ script \in Scripts /\ Len(script) \in Nat /\ Len(script) >= 1 /\ sent \in 0..Len(script) /\ cut \in Nat
      BY ScriptRecords DEF TypeOK
<1>2. Len(script) \in 1..Len(script)
      BY <1>1
<1>3. PICK l \in Nat : l = End(script[Len(script)])
      BY <1>1, <1>2, Extent
<1>4. CASE sent = Len(script)
  <2>1. cut = 0
        BY <1>1, <1>4 DEF Sending
  <2>2. SentBytes = End(script[Len(script)]) + cut
        BY <1>1, <1>4 DEF SentBytes
  <2>3. SentBytes = l
        BY <1>3, <2>1, <2>2
  <2> QED BY <1>2, <1>3, <2>3
<1>5. CASE sent < Len(script)
  <2>1. sent + 1 \in 1..Len(script) /\ sent \in Nat
        BY <1>1, <1>5
  <2>2. PICK x \in Nat, e \in Nat : x = script[sent + 1].start /\ e = End(script[sent + 1]) /\ x < e
        BY <1>1, <2>1, Extent
  <2>3. SentBytes = x + cut
    <3>1. CASE sent = 0
      <4>1. SentBytes = 0 + cut
            BY <3>1 DEF SentBytes
      <4>2. script[sent + 1].start = 0
            BY <1>1, <3>1, ScriptRecords DEF IsScript
      <4> QED BY <2>2, <4>1, <4>2
    <3>2. CASE sent # 0
      <4>1. sent \in 1..(Len(script) - 1)
            BY <1>1, <1>5, <3>2
      <4>2. script[sent + 1].start = End(script[sent])
            BY <1>1, <4>1, ScriptRecords DEF IsScript
      <4>3. SentBytes = End(script[sent]) + cut
            BY <3>2 DEF SentBytes
      <4> QED BY <2>2, <4>2, <4>3
    <3> QED BY <3>1, <3>2
  <2>4. cut > 0 => cut < e - x
        BY <2>2 DEF Sending
  <2>5. x + cut <= e
        BY <1>1, <2>2, <2>4
  <2>6. e <= l
    <3>1. CASE sent + 1 = Len(script)
          BY <1>3, <2>2, <3>1
    <3>2. CASE sent + 1 # Len(script)
      <4>1. sent + 1 < Len(script)
            BY <1>1, <1>5, <3>2
      <4>2. End(script[sent + 1]) <= script[Len(script)].start
            BY <1>1, <1>2, <2>1, <4>1, InOrder
      <4>3. PICK z \in Nat : z = script[Len(script)].start /\ z < l
            BY <1>1, <1>2, <1>3, Extent
      <4> QED BY <2>2, <4>2, <4>3
    <3> QED BY <3>1, <3>2
  <2>7. PICK t \in Nat : t = x + cut
        BY <1>1
  <2>8. t <= l
        BY <2>5, <2>6, <2>7
  <2> QED BY <1>2, <1>3, <2>3, <2>7, <2>8
<1> QED BY <1>1, <1>4, <1>5

\* Where the record behind the last one begins.
LEMMA NextStart ==
    ASSUME TypeOK, rec < Len(script)
    PROVE  rec + 1 \in 1..Len(script) /\ script[rec + 1].start = RecEnd /\ RecEnd \in Nat
<1>1. script \in Scripts /\ Len(script) \in Nat /\ rec \in 0..Len(script)
      BY ScriptRecords DEF TypeOK
<1>2. rec + 1 \in 1..Len(script)
      BY <1>1
<1>3. CASE rec = 0
      BY <1>1, <1>2, <1>3, ScriptRecords DEF IsScript, RecEnd
<1>4. CASE rec # 0
  <2>1. rec \in 1..(Len(script) - 1) /\ rec \in 1..Len(script)
        BY <1>1, <1>4
  <2>2. script[rec + 1].start = End(script[rec]) /\ End(script[rec]) \in Nat
        BY <1>1, <2>1, ScriptRecords DEF IsScript
  <2> QED BY <1>2, <1>4, <2>2 DEF RecEnd
<1> QED BY <1>3, <1>4

\* The header that is read in step with the server is that of the next record.
LEMMA NextHeader ==
    ASSUME TypeOK, Buffer, Sending, pc = "process", pos = RecEnd + HeaderLen
    PROVE  /\ rec + 1 \in 1..Len(script) /\ AtHeader(rec + 1) /\ RecEnd \in Nat
           /\ script[rec + 1].start = RecEnd /\ RecEnd < SentBytes
           /\ \A k \in 1..Len(script) : AtHeader(k) => k = rec + 1
<1>1. /\ script \in Scripts /\ Len(script) \in Nat /\ rec \in 0..Len(script) /\ pos \in Nat /\ lim \in Nat
      /\ HeaderLen \in Nat /\ HeaderLen > 0
      BY ScriptRecords, LengthsAssumption DEF TypeOK
<1>2. PICK r \in Nat : r = RecEnd
      BY Positions
<1>3. PICK b \in Nat : b = SentBytes
      BY Positions
<1>4. pos = r + HeaderLen /\ pos <= lim /\ lim <= b
      BY <1>2, <1>3 DEF Buffer, Sending
<1>5. r < b
      BY <1>1, <1>4
<1>6. rec < Len(script)
  <2>1. ASSUME rec = Len(script) PROVE FALSE
    <3>1. rec # 0 /\ SentBytes <= End(script[rec])
          BY <2>1, SentAtMost, <1>1
    <3>2. b <= r
          BY <1>2, <1>3, <3>1 DEF RecEnd
    <3> QED BY <1>5, <3>2
  <2> QED BY <1>1, <2>1
<1>7. rec + 1 \in 1..Len(script) /\ script[rec + 1].start = RecEnd
      BY <1>6, NextStart
<1>8. AtHeader(rec + 1)
  <2>1. pos - HeaderLen = r
        BY <1>1, <1>4
  <2> QED BY <1>2, <1>7, <2>1 DEF AtHeader
<1>9. ASSUME NEW k \in 1..Len(script), AtHeader(k) PROVE k = rec + 1
  <2>1. script[k].start = r
        BY <1>1, <1>4, <1>9 DEF AtHeader
  <2>2. r <= r /\ r \in Int
        OBVIOUS
  <2>3. script[k].start <= r /\ r < End(script[k])
        BY <1>1, <2>1, <2>2, Extent
  <2>4. script[rec + 1].start = r
        BY <1>2, <1>7
  <2>5. script[rec + 1].start <= r /\ r < End(script[rec + 1])
        BY <1>1, <1>7, <2>2, <2>4, Extent
  <2> QED BY <1>1, <1>7, <2>2, <2>3, <2>5, OneRecord
<1> QED BY <1>2, <1>3, <1>5, <1>7, <1>8, <1>9

\* The bytes of a stream of the request, record by record.
LEMMA ContentByte ==
    ASSUME TypeOK, begin # 0, NEW t, NEW p
    PROVE  p \in ContentOf(t) <=>
               \E k \in (begin + 1)..Len(script) :
                   /\ script[k].type = t /\ script[k].id = requestId
                   /\ \A j \in (begin + 1)..k : ~(GoodBegin(j) /\ script[j].id = requestId)
                   /\ p \in Content(k)..(Content(k) + script[k].clen - 1)
BY DEF ContentOf, Content

\* A byte of a stream that lies in the current record.
LEMMA InRecord ==
    ASSUME TypeOK, begin # 0, rec # 0, NEW t, NEW p \in Int, p \in ContentOf(t),
           Content(rec) <= p, p < RecEnd
    PROVE  /\ script[rec].type = t /\ script[rec].id = requestId /\ begin < rec
           /\ p < Content(rec) + script[rec].clen
<1>1. script \in Scripts /\ Len(script) \in Nat /\ rec \in 1..Len(script) /\ begin \in Nat
      BY ScriptRecords DEF TypeOK
<1>2. PICK k \in (begin + 1)..Len(script) :
          /\ script[k].type = t /\ script[k].id = requestId
          /\ p \in Content(k)..(Content(k) + script[k].clen - 1)
      BY ContentByte
<1>3. k \in 1..Len(script) /\ begin < k
      BY <1>1
<1>4. PICK a \in Nat, c \in Nat, h \in Nat, e \in Nat, l \in Nat :
          /\ a = script[k].start /\ c = script[k].clen /\ h = HeaderLen /\ e = End(script[k]) /\ l = script[k].plen
      BY <1>1, <1>3, Extent
<1>e. e = a + h + c + l /\ Content(k) = a + h
      BY <1>1, <1>3, <1>4, Extent DEF Content
<1>5. p >= a + h /\ p < a + h + c /\ a <= p /\ p < e
  <2>1. p \in (a + h)..(a + h + c - 1)
        BY <1>2, <1>4, <1>e
  <2> QED BY <1>e, <2>1
<1>6. script[k].start <= p /\ p < End(script[k])
      BY <1>4, <1>5
<1>7. script[rec].start <= p /\ p < End(script[rec])
  <2>1. p < End(script[rec])
        BY DEF RecEnd
  <2>2. PICK b \in Nat : b = script[rec].start /\ Content(rec) = b + HeaderLen /\ HeaderLen \in Nat
        BY <1>1, Extent DEF Content
  <2> QED BY <2>1, <2>2
<1>8. k = rec
      BY <1>1, <1>3, <1>6, <1>7, OneRecord
<1> QED BY <1>2, <1>3, <1>4, <1>5, <1>8, <1>e

\* The bytes of a header are in no stream.
LEMMA InHeader ==
    ASSUME TypeOK, begin # 0, NEW t, NEW p \in Int, p \in ContentOf(t)
    PROVE  ~(RecEnd <= p /\ p < RecEnd + HeaderLen)
<1>1. script \in Scripts /\ Len(script) \in Nat /\ rec \in 0..Len(script) /\ begin \in Nat
      BY ScriptRecords DEF TypeOK
<1>2. PICK k \in (begin + 1)..Len(script) : p \in Content(k)..(Content(k) + script[k].clen - 1)
      BY ContentByte
<1>3. k \in 1..Len(script) /\ k \in Nat
      BY <1>1
<1>4. PICK a \in Nat, c \in Nat, h \in Nat, e \in Nat, l \in Nat :
          /\ a = script[k].start /\ c = script[k].clen /\ h = HeaderLen /\ e = End(script[k]) /\ l = script[k].plen
      BY <1>1, <1>3, Extent
<1>e. e = a + h + c + l /\ Content(k) = a + h
      BY <1>1, <1>3, <1>4, Extent DEF Content
<1>5. p >= a + h /\ p < a + h + c /\ p < e
  <2>1. p \in (a + h)..(a + h + c - 1)
        BY <1>2, <1>4, <1>e
  <2> QED BY <1>e, <2>1
<1>6. PICK r \in Nat : r = RecEnd
      BY Positions
<1>7. CASE k <= rec
  <2>1. rec \in 1..Len(script) /\ rec # 0
        BY <1>1, <1>3, <1>7
  <2>2. r = End(script[rec])
        BY <1>6, <2>1 DEF RecEnd
  <2>3. CASE k = rec
    <3>1. r = e
          BY <1>4, <2>2, <2>3
    <3> QED BY <1>5, <1>6, <3>1
  <2>4. CASE k < rec
    <3>1. e <= script[rec].start /\ script[rec].start < End(script[rec]) /\ script[rec].start \in Nat
          BY <1>1, <1>3, <1>4, <2>1, <2>4, InOrder, Extent
    <3>2. PICK b \in Nat : b = script[rec].start /\ e <= b /\ b < r
          BY <2>2, <3>1
    <3> QED BY <1>5, <1>6, <3>2
  <2> QED BY <1>1, <1>3, <1>7, <2>3, <2>4
<1>8. CASE rec < k
  <2>1. r <= a
    <3>1. rec < Len(script) /\ rec + 1 <= k
          BY <1>1, <1>3, <1>8
    <3>2. rec + 1 \in 1..Len(script) /\ script[rec + 1].start = r
          BY <1>6, <3>1, NextStart
    <3>3. CASE rec + 1 = k
          BY <1>4, <3>2, <3>3
    <3>4. CASE rec + 1 < k
      <4>1. End(script[rec + 1]) <= a /\ script[rec + 1].start < End(script[rec + 1]) /\ End(script[rec + 1]) \in Nat
            BY <1>1, <1>3, <1>4, <3>2, <3>4, InOrder, Extent
      <4>2. PICK x \in Nat : x = End(script[rec + 1]) /\ x <= a /\ r < x
            BY <3>2, <4>1
      <4> QED BY <4>2
    <3> QED BY <1>1, <1>3, <3>1, <3>3, <3>4
  <2> QED BY <1>4, <1>5, <1>6, <2>1
<1> QED BY <1>1, <1>3, <1>7, <1>8

\* The bytes of a stream have numbers.
LEMMA ContentInts ==
    ASSUME TypeOK, NEW t PROVE ContentOf(t) \subseteq Int
<1>1. CASE begin = 0
      BY <1>1 DEF ContentOf
<1>2. CASE begin # 0
  <2>1. ASSUME NEW p \in ContentOf(t) PROVE p \in Int
        BY <1>2, <2>1, ContentByte
  <2> QED BY <2>1
<1> QED BY <1>1, <1>2

\* The streams of a request do not change while it is served.
LEMMA SameStreams ==
    ASSUME UNCHANGED <<script, begin, requestId>>, NEW t
    PROVE  ContentOf(t)' = ContentOf(t)
BY DEF ContentOf, GoodBegin

\* Bytes that are passed over are in no stream of the request, ...
LEMMA ExactSkips ==
    ASSUME TypeOK, TypeOK', \A t \in StreamTypes : got[t] = {p \in ContentOf(t) : p < pos},
           UNCHANGED <<script, begin, requestId, got>>, pos <= pos',
           \A t \in StreamTypes : \A p \in Int : pos <= p /\ p < pos' => p \notin ContentOf(t)
    PROVE  \A t \in StreamTypes : got'[t] = {p \in ContentOf(t)' : p < pos'}
<1>1. pos \in Int /\ pos' \in Int
      BY DEF TypeOK
<1> SUFFICES ASSUME NEW t \in StreamTypes PROVE got'[t] = {p \in ContentOf(t)' : p < pos'}
      OBVIOUS
<1>2. ContentOf(t)' = ContentOf(t) /\ ContentOf(t) \subseteq Int
      BY SameStreams, ContentInts
<1>3. \A p \in ContentOf(t) : p < pos <=> p < pos'
      BY <1>1, <1>2
<1>4. got'[t] = {p \in ContentOf(t) : p < pos}
      OBVIOUS
<1>5. {p \in ContentOf(t) : p < pos} = {p \in ContentOf(t) : p < pos'}
      BY <1>3
<1> QED BY <1>2, <1>4, <1>5

\* ... and those that are taken are in the stream they are taken for.
LEMMA ExactTakes ==
    ASSUME TypeOK, TypeOK', \A t \in StreamTypes : got[t] = {p \in ContentOf(t) : p < pos},
           UNCHANGED <<script, begin, requestId>>, pos <= pos', NEW u \in StreamTypes,
           got' = [got EXCEPT ![u] = got[u] \cup pos..(pos' - 1)],
           \A p \in Int : pos <= p /\ p < pos' => p \in ContentOf(u),
           \A t \in StreamTypes : t # u => \A p \in Int : pos <= p /\ p < pos' => p \notin ContentOf(t)
    PROVE  \A t \in StreamTypes : got'[t] = {p \in ContentOf(t)' : p < pos'}
<1>0. pos \in Int
      BY DEF TypeOK
<1>a. pos' \in Int
      BY DEF TypeOK
<1>b. got \in [StreamTypes -> SUBSET Nat]
      BY DEF TypeOK
<1>1. pos \in Int /\ pos' \in Int /\ got \in [StreamTypes -> SUBSET Nat]
      BY <1>0, <1>a, <1>b
<1> SUFFICES ASSUME NEW t \in StreamTypes PROVE got'[t] = {p \in ContentOf(t)' : p < pos'}
      OBVIOUS
<1>2. ContentOf(t)' = ContentOf(t) /\ ContentOf(t) \subseteq Int
      BY SameStreams, ContentInts
<1>3. CASE t # u
  <2>1. got'[t] = {p \in ContentOf(t) : p < pos}
        BY <1>1, <1>3
  <2>2. \A p \in ContentOf(t) : p < pos <=> p < pos'
        BY <1>1, <1>2, <1>3
  <2>3. {p \in ContentOf(t) : p < pos} = {p \in ContentOf(t) : p < pos'}
        BY <2>2
  <2> QED BY <1>2, <2>1, <2>3
<1>4. CASE t = u
  <2>1. got'[t] = {p \in ContentOf(t) : p < pos} \cup pos..(pos' - 1)
        BY <1>1, <1>4
  <2>2. ASSUME NEW p \in ContentOf(t), p < pos' PROVE p < pos \/ p \in pos..(pos' - 1)
        BY <1>1, <1>2, <2>2
  <2>3. ASSUME NEW p \in pos..(pos' - 1) PROVE p \in ContentOf(t) /\ p < pos'
    <3>0. PICK a \in Int : a = pos'
          BY <1>1
    <3>a. p \in pos..(a - 1)
          BY <3>0
    <3>1. p \in Int /\ pos <= p /\ p < a
          BY <1>0, <3>a
    <3>2. p \in ContentOf(u)
          BY <3>0, <3>1
    <3> QED BY <1>4, <3>0, <3>1, <3>2
  <2>4. ASSUME NEW p \in ContentOf(t), p < pos PROVE p < pos'
        BY <1>1, <1>2, <2>4
  <2> QED BY <1>2, <2>1, <2>2, <2>3, <2>4
<1> QED BY <1>3, <1>4

\* Nothing of a stream comes after its end.
LEMMA EndMeansAll ==
    ASSUME TypeOK, Supported, NEW t, begin # 0, rec # 0, begin < rec, IsStream(script[rec]), script[rec].clen = 0,
           script[rec].id = requestId, script[rec].type = t, NEW p \in ContentOf(t)
    PROVE  p \in Int /\ p < RecEnd
<1>1. /\ script \in Scripts /\ Len(script) \in Nat /\ rec \in 1..Len(script) /\ begin \in Nat /\ rec \in Nat
      /\ SupportedScript(script)
      BY ScriptRecords DEF TypeOK, Supported, SupportedScripts
<1>2. PICK k \in (begin + 1)..Len(script) :
          /\ script[k].type = t /\ script[k].id = requestId
          /\ \A j \in (begin + 1)..k : ~(GoodBegin(j) /\ script[j].id = requestId)
          /\ p \in Content(k)..(Content(k) + script[k].clen - 1)
      BY ContentByte
<1>3. k \in 1..Len(script) /\ k \in Nat
      BY <1>1
<1>4. PICK a \in Nat, c \in Nat, h \in Nat, e \in Nat, l \in Nat :
          /\ a = script[k].start /\ c = script[k].clen /\ h = HeaderLen /\ e = End(script[k]) /\ l = script[k].plen
      BY <1>1, <1>3, Extent
<1>5. e = a + h + c + l /\ Content(k) = a + h
      BY <1>1, <1>3, <1>4, Extent DEF Content
<1>6. p \in Int /\ p < e
  <2>1. p \in (a + h)..(a + h + c - 1)
        BY <1>2, <1>4, <1>5
  <2> QED BY <1>5, <2>1
<1>7. ~(rec < k)
  <2>1. ASSUME rec < k PROVE FALSE
    <3>1. rec \in 1..(k - 1)
          BY <1>1, <1>3, <2>1
    <3>2. \E b \in (rec + 1)..k : IsBegin(script[b]) /\ script[b].id = script[k].id
          BY <1>1, <1>2, <1>3, <3>1 DEF SupportedScript
    <3>3. PICK b \in (rec + 1)..k : GoodBegin(b) /\ script[b].id = requestId
          BY <1>2, <3>2 DEF GoodBegin
    <3>4. b \in (begin + 1)..k
          BY <1>1, <1>3
    <3> QED BY <1>2, <3>3, <3>4
  <2> QED BY <2>1
<1>8. CASE k = rec
      BY <1>4, <1>6, <1>8 DEF RecEnd
<1>9. CASE k < rec
  <2>1. e <= script[rec].start /\ script[rec].start < End(script[rec]) /\ script[rec].start \in Nat /\ End(script[rec]) \in Nat
        BY <1>1, <1>3, <1>4, <1>9, InOrder, Extent
  <2>2. PICK x \in Nat, r \in Nat : x = script[rec].start /\ r = End(script[rec])
        BY <2>1
  <2>3. e <= x /\ x < r
        BY <2>1, <2>2
  <2>4. p < r
        BY <1>6, <2>3
  <2> QED BY <1>6, <2>2, <2>4 DEF RecEnd
<1> QED BY <1>1, <1>3, <1>7, <1>8, <1>9

\* A record that waits for the answers has not been sent while a request is open.
LEMMA NotSentYet ==
    ASSUME TypeOK, Behind, Begun, Answers, Sending, begin # 0, begin \notin AnsweredRecs,
           NEW k \in 1..Len(script), rec < k, Waits(script, k)
    PROVE  SentBytes <= script[k].start
<1>1. /\ script \in Scripts /\ Len(script) \in Nat /\ rec \in 0..Len(script) /\ begin \in Nat /\ rec \in Nat /\ k \in Nat
      /\ script[k].after \in Nat
      BY ScriptRecords DEF TypeOK
<1>2. PICK n \in Nat : n = Len(replies)
      BY DEF TypeOK
<1> DEFINE All == Answerable(script, k)
           Rest == All \ {begin}
<1>3. IsFiniteSet(All) /\ Cardinality(All) \in Nat
  <2>1. IsFiniteSet(1..(k - 1))
        BY <1>1, FS_Interval
  <2>2. All \in SUBSET 1..(k - 1)
        BY DEF Answerable
  <2> QED BY <2>1, <2>2, FS_Subset, FS_CardinalityType
<1>4. begin \in All
  <2>1. begin \in 1..(k - 1)
        BY <1>1 DEF Behind
  <2>2. IsBegin(script[begin])
        BY DEF Begun, GoodBegin
  <2> QED BY <2>1, <2>2 DEF Answerable
<1>5. ASSUME NEW j \in AnsweredRecs PROVE j \in Rest
  <2>1. j \in Known
        BY <1>5 DEF Known, Answers
  <2>2. j \in 1..rec
        BY <2>1 DEF Behind
  <2>3. j \in 1..(k - 1)
        BY <1>1, <2>2
  <2>4. IsManagement(script[j]) \/ IsBegin(script[j])
        BY <1>5 DEF Answers, GoodBegin
  <2> QED BY <1>5, <2>3, <2>4 DEF Answerable
<1>6. IsFiniteSet(Rest) /\ Cardinality(Rest) = Cardinality(All) - 1
  <2> HIDE DEF All
  <2> QED BY <1>3, <1>4, FS_RemoveElement
<1>7. ~(n > Cardinality(Rest))
  <2>1. ASSUME n > Cardinality(Rest) PROVE FALSE
    <3> DEFINE f == [i \in 1..n |-> replies[i].rec]
    <3>1. f \in [1..n -> Rest]
          BY <1>2, <1>5 DEF AnsweredRecs
    <3>2. IsFiniteSet(1..n) /\ Cardinality(1..n) = n
      <4>1. PICK a \in Int, b \in Int : a = 1 /\ b = n
            OBVIOUS
      <4>2. IsFiniteSet(a..b) /\ Cardinality(a..b) = IF a > b THEN 0 ELSE b - a + 1
            BY FS_Interval
      <4>3. (IF a > b THEN 0 ELSE b - a + 1) = n
            BY <4>1
      <4> QED BY <4>1, <4>2, <4>3
    <3>3. Cardinality(Rest) < Cardinality(1..n)
      <4>1. PICK m \in Nat : m = Cardinality(Rest)
            BY <1>6, FS_CardinalityType
      <4> QED BY <2>1, <3>2, <4>1
    <3>4. \E x, y \in 1..n : x # y /\ f[x] = f[y]
      <4> HIDE DEF f, Rest
      <4> QED BY <1>6, <3>1, <3>2, <3>3, FS_PigeonHole
    <3> QED BY <1>2, <3>4 DEF Answers
  <2> QED BY <2>1
<1>8. ~(n >= script[k].after)
  <2>1. PICK m \in Nat, a \in Nat : m = Cardinality(All) /\ a = script[k].after
        BY <1>1, <1>3
  <2>2. a >= m /\ ~(n > m - 1)
        BY <1>6, <1>7, <2>1 DEF Waits
  <2> QED BY <2>1, <2>2
<1>9. ~(script[k].start < SentBytes)
      BY <1>2, <1>8, SentPart
<1>10. script[k].start \in Nat /\ SentBytes \in Nat
      BY <1>1, Extent, Positions
<1> QED BY <1>9, <1>10

-----------------------------------------------------------------------------
(* In step with the server.                                                *)

\* Within a record there is no header.
LEMMA NoHeader ==
    ASSUME TypeOK, Astray, pc = "process", NEW k \in 1..Len(script), AtHeader(k)
    PROVE  FALSE
<1> USE LengthsAssumption
<1>1. script \in Scripts /\ rec \in 1..Len(script) /\ pos \in Nat
      BY ScriptRecords DEF Astray, TypeOK
<1>2. PICK a \in Nat, b \in Nat, e \in Nat, f \in Nat :
          a = script[rec].start /\ b = script[k].start /\ e = End(script[rec]) /\ f = End(script[k]) /\ b < f
      BY <1>1, Extent
<1>3. b = pos - HeaderLen /\ Base = pos - HeaderLen
      BY <1>2 DEF AtHeader, Base
<1>4. a + HeaderLen <= b /\ b < e
      BY <1>1, <1>2, <1>3 DEF Astray, Content, RecEnd
<1>5. k = rec
  <2>1. /\ script[rec].start <= b /\ b < End(script[rec])
        /\ script[k].start <= b /\ b < End(script[k])
        BY <1>2, <1>4
  <2> QED BY <1>1, <2>1, OneRecord
<1> QED BY <1>2, <1>4, <1>5

\* After an error the application or FCGX_Accept_r gives the connection up.
LEMMA DeadNext ==
    ASSUME TypeOK, Buffer, Calls, Phases, Body, History, Good, ipcOpen, Dead, [Next]_vars
    PROVE  Dead' \/ ~ipcOpen'
<1> USE LengthsAssumption
<1>1. CASE UNCHANGED vars
      BY <1>1 DEF vars, Dead, Phases, Caller, Loop, Calls, Good
<1>2. CASE ServerSend
      BY <1>2 DEF ServerSend, Dead, Phases, Caller, Loop, Calls, Good
<1>3. CASE ServerCrash
      BY <1>3 DEF ServerCrash, Dead, Phases, Caller, Loop, Calls, Good
<1>4. CASE Fill_Read
      BY <1>4 DEF Fill_Read, Min2, Dead, Phases, Caller, Loop, Calls, Good
<1>5. CASE Fill_ReadEnd
      BY <1>5 DEF Fill_ReadEnd, FillError, Dead, Phases, Caller, Loop, Calls, Good
<1>6. CASE Fill_NotEmpty
      BY <1>6 DEF Fill_NotEmpty, Dead, Phases, Caller, Loop, Calls, Good
<1>7. CASE Fill_Deliver
      BY <1>7 DEF Fill_Deliver, Min2, Dead, Phases, Caller, Loop, Calls, Good
<1>8. CASE Fill_Skip
      BY <1>8 DEF Fill_Skip, Min2, Dead, Phases, Caller, Loop, Calls, Good
<1>9. CASE Fill_NoContent
      BY <1>9 DEF Fill_NoContent, Dead, Phases, Caller, Loop, Calls, Good
<1>10. CASE Fill_Padding
      BY <1>10 DEF Fill_Padding, Min2, Dead, Phases, Caller, Loop, Calls, Good
<1>11. CASE Fill_EndOfRecord
      BY <1>11 DEF Fill_EndOfRecord, Dead, Phases, Caller, Loop, Calls, Good
<1>12. CASE Fill_Header
      BY <1>12 DEF Fill_Header, Min2, Dead, Phases, Caller, Loop, Calls, Good
<1>13. CASE Header_Misread
      BY <1>13 DEF Header_Misread, FillError, AtHeader, Dead, Phases, Caller, Loop, Calls, Good
<1>14. ASSUME NEW k \in 1..Len(script), Header_BadBegin(k) PROVE Dead' \/ ~ipcOpen'
      BY <1>14 DEF Header_BadBegin, FillError, AtHeader, LoadHeader, Dead, Phases, Caller, Loop,
        Calls, Good
<1>15. ASSUME NEW k \in 1..Len(script), Header_Multiplexed(k) PROVE Dead' \/ ~ipcOpen'
      BY <1>15 DEF Header_Multiplexed, AtHeader, LoadHeader, Reply, Dead, Phases, Caller, Loop,
        Calls, Good
<1>16. ASSUME NEW k \in 1..Len(script), Header_Begin(k) PROVE Dead' \/ ~ipcOpen'
      BY <1>16 DEF Header_Begin, AtHeader, LoadHeader, Dead, Phases, Caller, Loop, Calls, Good
<1>17. ASSUME NEW k \in 1..Len(script), Header_GetValues(k) PROVE Dead' \/ ~ipcOpen'
      BY <1>17 DEF Header_GetValues, AtHeader, LoadHeader, Dead, Phases, Caller, Loop, Calls, Good
<1>18. ASSUME NEW k \in 1..Len(script), Header_UnknownManagement(k) PROVE Dead' \/ ~ipcOpen'
      BY <1>18 DEF Header_UnknownManagement, AtHeader, LoadHeader, Reply, Dead, Phases, Caller,
        Loop, Calls, Good
<1>19. ASSUME NEW k \in 1..Len(script), Header_ReplyFails(k) PROVE Dead' \/ ~ipcOpen'
      BY <1>19 DEF Header_ReplyFails, FillError, AtHeader, LoadHeader, Dead, Phases, Caller, Loop,
        Calls, Good
<1>20. ASSUME NEW k \in 1..Len(script), Header_OtherRequest(k) PROVE Dead' \/ ~ipcOpen'
      BY <1>20 DEF Header_OtherRequest, AtHeader, LoadHeader, Dead, Phases, Caller, Loop, Calls,
        Good
<1>21. ASSUME NEW k \in 1..Len(script), Header_WrongType(k) PROVE Dead' \/ ~ipcOpen'
      BY <1>21 DEF Header_WrongType, FillError, AtHeader, LoadHeader, Dead, Phases, Caller, Loop,
        Calls, Good
<1>22. ASSUME NEW k \in 1..Len(script), Header_Stream(k) PROVE Dead' \/ ~ipcOpen'
      BY <1>22 DEF Header_Stream, AtHeader, LoadHeader, Dead, Phases, Caller, Loop, Calls, Good
<1>23. CASE Body_Complete
      BY <1>23 DEF Body_Complete, Dead, Phases, Caller, Loop, Calls, Good
<1>24. CASE Body_More
      BY <1>24 DEF Body_More, Dead, Phases, Caller, Loop, Calls, Good
<1>25. CASE Body_Short
      BY <1>25 DEF Body_Short, Dead, Phases, Caller, Loop, Calls, Good
<1>26. CASE Values_Take
      BY <1>26 DEF Values_Take, TakePairs, Dead, Phases, Caller, Loop, Calls, Good
<1>27. CASE Values_More
      BY <1>27 DEF Values_More, Dead, Phases, Caller, Loop, Calls, Good
<1>28. CASE Values_Answer
      BY <1>28 DEF Values_Answer, Reply, Dead, Phases, Caller, Loop, Calls, Good
<1>29. CASE Values_Fail
      BY <1>29 DEF Values_Fail, Dead, Phases, Caller, Loop, Calls, Good
<1>30. ASSUME NEW s \in Scripts, Accept_New(s) PROVE Dead' \/ ~ipcOpen'
      BY <1>30 DEF Accept_New, NewReader, Dead, Phases, Caller, Loop, Calls, Good
<1>31. CASE Accept_Kept
      BY <1>31 DEF Accept_Kept, NewReader, Dead, Phases, Caller, Loop, Calls, Good
<1>32. CASE Accepted_Refuse
      BY <1>32 DEF Accepted_Refuse, TryAgain, Dead, Phases, Caller, Loop, Calls, Good
<1>33. CASE Accepted_Begin
      BY <1>33 DEF Accepted_Begin, SetReaderType, Dead, Phases, Caller, Loop, Calls, Good
<1>34. CASE Params_Take
      BY <1>34 DEF Params_Take, TakePairs, Dead, Phases, Caller, Loop, Calls, Good
<1>35. CASE Params_More
      BY <1>35 DEF Params_More, Dead, Phases, Caller, Loop, Calls, Good
<1>36. CASE Params_Error
      BY <1>36 DEF Params_Error, TryAgain, Dead, Phases, Caller, Loop, Calls, Good
<1>37. CASE Params_Complete
      BY <1>37 DEF Params_Complete, SetReaderType, Dead, Phases, Caller, Loop, Calls, Good
<1>38. ASSUME NEW n \in 1..MaxGet, FCGX_GetStr(n) PROVE Dead' \/ ~ipcOpen'
      BY <1>38 DEF FCGX_GetStr, Dead, Phases, Caller, Loop, Calls, Good
<1>39. CASE FCGX_UnGetChar
      BY <1>39 DEF FCGX_UnGetChar, Dead, Phases, Caller, Loop, Calls, Good
<1>40. CASE FCGX_StartFilterData
      BY <1>40 DEF FCGX_StartFilterData, SetReaderType, Dead, Phases, Caller, Loop, Calls, Good
<1>41. CASE FCGX_FClose
      BY <1>41 DEF FCGX_FClose, Dead, Phases, Caller, Loop, Calls, Good
<1>42. CASE FCGX_ClearError
      BY <1>42 DEF FCGX_ClearError, Dead, Phases, Caller, Loop, Calls, Good
<1>43. CASE FCGX_Finish_r
  <2>1. pc = "app" /\ failed /\ (ipcOpen' = (keepConnection /\ ~failed) \/ ipcOpen' = FALSE)
        BY <1>43 DEF FCGX_Finish_r, Dead
  <2>2. ~ipcOpen'
        BY <2>1
  <2> QED BY <2>2
<1>44. CASE GetStr_Move
      BY <1>44 DEF GetStr_Move, Min2, Dead, Phases, Caller, Loop, Calls, Good
<1> QED BY <1>1, <1>2, <1>3, <1>4, <1>5, <1>6, <1>7, <1>8, <1>9, <1>10, <1>11, <1>12, <1>13,
   <1>14, <1>15, <1>16, <1>17, <1>18, <1>19, <1>20, <1>21, <1>22, <1>23, <1>24, <1>25,
   <1>26, <1>27, <1>28, <1>29, <1>30, <1>31, <1>32, <1>33, <1>34, <1>35, <1>36, <1>37,
   <1>38, <1>39, <1>40, <1>41, <1>42, <1>43, <1>44 DEF Next, Server, FillBuffProc,
   ProcessHeader, ReadBody, FCGX_Accept_r, App, Library

\* Within a record no header is found, and nothing is delivered.
LEMMA AstrayNext ==
    ASSUME TypeOK, Buffer, Calls, Phases, Body, History, Good, ipcOpen, Astray, [Next]_vars
    PROVE  Over'
<1> USE LengthsAssumption
<1>0. Astray
      OBVIOUS
<1>1. CASE UNCHANGED vars
      BY <1>1, <1>0 DEF vars, Astray, Dead, Over, Base, Content, RecEnd, Loop, Readers, Phases,
        Caller, Calls, Good, Buffer, TypeOK
<1>2. CASE ServerSend
      BY <1>2, <1>0 DEF ServerSend, Astray, Dead, Over, Base, Content, RecEnd, Loop, Readers,
        Phases, Caller, Calls, Good, Buffer, TypeOK
<1>3. CASE ServerCrash
      BY <1>3, <1>0 DEF ServerCrash, Astray, Dead, Over, Base, Content, RecEnd, Loop, Readers,
        Phases, Caller, Calls, Good, Buffer, TypeOK
<1>4. CASE Fill_Read
      BY <1>4, <1>0 DEF Fill_Read, Min2, Astray, Dead, Over, Base, Content, RecEnd, Loop, Readers,
        Phases, Caller, Calls, Good, Buffer, TypeOK
<1>5. CASE Fill_ReadEnd
      BY <1>5, <1>0 DEF Fill_ReadEnd, FillError, Astray, Dead, Over, Base, Content, RecEnd, Loop,
        Readers, Phases, Caller, Calls, Good, Buffer, TypeOK
<1>6. CASE Fill_NotEmpty
      BY <1>6, <1>0 DEF Fill_NotEmpty, Astray, Dead, Over, Base, Content, RecEnd, Loop, Readers,
        Phases, Caller, Calls, Good, Buffer, TypeOK
<1>7. CASE Fill_Deliver
      BY <1>7, <1>0 DEF Fill_Deliver, Min2, Astray, Dead, Over, Base, Content, RecEnd, Loop,
        Readers, Phases, Caller, Calls, Good, Buffer, TypeOK
<1>8. CASE Fill_Skip
      BY <1>8, <1>0 DEF Fill_Skip, Min2, Astray, Dead, Over, Base, Content, RecEnd, Loop, Readers,
        Phases, Caller, Calls, Good, Buffer, TypeOK
<1>9. CASE Fill_NoContent
      BY <1>9, <1>0 DEF Fill_NoContent, Astray, Dead, Over, Base, Content, RecEnd, Loop, Readers,
        Phases, Caller, Calls, Good, Buffer, TypeOK
<1>10. CASE Fill_Padding
  <2>1. paddingLen = 0 /\ lim - pos \in Nat /\ pos \in Nat /\ pc = "padding"
        BY <1>10, <1>0 DEF Fill_Padding, Astray, TypeOK, Buffer
  <2>2. Min2(paddingLen, lim - pos) = 0
        BY <2>1 DEF Min2
  <2>3. pos' = pos /\ paddingLen' = 0 /\ pc' = "eor"
        BY <1>10, <2>1, <2>2 DEF Fill_Padding
  <2>4. UNCHANGED <<script, rec, failed, type, eorStop, contentLen, stop, headerLen, got>>
        BY <1>10 DEF Fill_Padding
  <2>5. Base' = Base
        BY <2>1, <2>3, <2>4 DEF Base
  <2> QED BY <1>0, <2>3, <2>4, <2>5 DEF Astray, Loop, Over, Content, RecEnd
<1>11. CASE Fill_EndOfRecord
      BY <1>11, <1>0 DEF Fill_EndOfRecord, Astray, Dead, Over, Base, Content, RecEnd, Loop, Readers,
        Phases, Caller, Calls, Good, Buffer, TypeOK
<1>12. CASE Fill_Header
  <2>1. /\ pc = "eor" /\ lim - pos \in Nat /\ HeaderLen - headerLen \in Nat /\ pos \in Nat /\ headerLen \in Nat /\ stop \in Nat
        BY <1>12 DEF Fill_Header, TypeOK, Buffer
  <2>2. PICK n \in Nat : /\ n <= HeaderLen - headerLen /\ pos' = pos + n
                         /\ IF headerLen + n < HeaderLen
                            THEN headerLen' = headerLen + n /\ pc' = "fill" /\ stop' = stop
                            ELSE headerLen' = 0 /\ pc' = "process" /\ stop' = pos'
    <3>1. /\ Min2(HeaderLen - headerLen, lim - pos) \in Nat
          /\ Min2(HeaderLen - headerLen, lim - pos) <= HeaderLen - headerLen
          BY <2>1, SmallerOf
    <3> QED BY <1>12, <3>1 DEF Fill_Header
  <2>3. Base' = Base
        BY <2>1, <2>2 DEF Base
  <2>4. /\ pc' \in {"fill", "process"} /\ UNCHANGED <<script, rec, failed, type, eorStop, contentLen, paddingLen, got>>
        BY <1>12, <2>2 DEF Fill_Header
  <2>5. stop' <= pos'
        BY <1>0, <2>1, <2>2 DEF Astray
  <2> QED BY <1>0, <2>3, <2>4, <2>5 DEF Astray, Loop, Over, Content, RecEnd
<1>13. CASE Header_Misread
      BY <1>13, <1>0 DEF Header_Misread, FillError, AtHeader, Astray, Dead, Over, Base, Content,
        RecEnd, Loop, Readers, Phases, Caller, Calls, Good, Buffer, TypeOK
<1>14. ASSUME NEW k \in 1..Len(script), Header_BadBegin(k) PROVE Over'
  <2>1. pc = "process" /\ AtHeader(k)
        BY <1>14 DEF Header_BadBegin
  <2> QED BY <1>0, <2>1, NoHeader
<1>15. ASSUME NEW k \in 1..Len(script), Header_Multiplexed(k) PROVE Over'
  <2>1. pc = "process" /\ AtHeader(k)
        BY <1>15 DEF Header_Multiplexed
  <2> QED BY <1>0, <2>1, NoHeader
<1>16. ASSUME NEW k \in 1..Len(script), Header_Begin(k) PROVE Over'
  <2>1. pc = "process" /\ AtHeader(k)
        BY <1>16 DEF Header_Begin
  <2> QED BY <1>0, <2>1, NoHeader
<1>17. ASSUME NEW k \in 1..Len(script), Header_GetValues(k) PROVE Over'
  <2>1. pc = "process" /\ AtHeader(k)
        BY <1>17 DEF Header_GetValues
  <2> QED BY <1>0, <2>1, NoHeader
<1>18. ASSUME NEW k \in 1..Len(script), Header_UnknownManagement(k) PROVE Over'
  <2>1. pc = "process" /\ AtHeader(k)
        BY <1>18 DEF Header_UnknownManagement
  <2> QED BY <1>0, <2>1, NoHeader
<1>19. ASSUME NEW k \in 1..Len(script), Header_ReplyFails(k) PROVE Over'
  <2>1. pc = "process" /\ AtHeader(k)
        BY <1>19 DEF Header_ReplyFails
  <2> QED BY <1>0, <2>1, NoHeader
<1>20. ASSUME NEW k \in 1..Len(script), Header_OtherRequest(k) PROVE Over'
  <2>1. pc = "process" /\ AtHeader(k)
        BY <1>20 DEF Header_OtherRequest
  <2> QED BY <1>0, <2>1, NoHeader
<1>21. ASSUME NEW k \in 1..Len(script), Header_WrongType(k) PROVE Over'
  <2>1. pc = "process" /\ AtHeader(k)
        BY <1>21 DEF Header_WrongType
  <2> QED BY <1>0, <2>1, NoHeader
<1>22. ASSUME NEW k \in 1..Len(script), Header_Stream(k) PROVE Over'
  <2>1. pc = "process" /\ AtHeader(k)
        BY <1>22 DEF Header_Stream
  <2> QED BY <1>0, <2>1, NoHeader
<1>23. CASE Body_Complete
      BY <1>23, <1>0 DEF Body_Complete, Astray, Dead, Over, Base, Content, RecEnd, Loop, Readers,
        Phases, Caller, Calls, Good, Buffer, TypeOK
<1>24. CASE Body_More
      BY <1>24, <1>0 DEF Body_More, Astray, Dead, Over, Base, Content, RecEnd, Loop, Readers,
        Phases, Caller, Calls, Good, Buffer, TypeOK
<1>25. CASE Body_Short
      BY <1>25, <1>0 DEF Body_Short, Astray, Dead, Over, Base, Content, RecEnd, Loop, Readers,
        Phases, Caller, Calls, Good, Buffer, TypeOK
<1>26. CASE Values_Take
      BY <1>26, <1>0 DEF Values_Take, TakePairs, Astray, Dead, Over, Base, Content, RecEnd, Loop,
        Readers, Phases, Caller, Calls, Good, Buffer, TypeOK
<1>27. CASE Values_More
      BY <1>27, <1>0 DEF Values_More, Astray, Dead, Over, Base, Content, RecEnd, Loop, Readers,
        Phases, Caller, Calls, Good, Buffer, TypeOK
<1>28. CASE Values_Answer
      BY <1>28, <1>0 DEF Values_Answer, Reply, Astray, Dead, Over, Base, Content, RecEnd, Loop,
        Readers, Phases, Caller, Calls, Good, Buffer, TypeOK
<1>29. CASE Values_Fail
      BY <1>29, <1>0 DEF Values_Fail, Astray, Dead, Over, Base, Content, RecEnd, Loop, Readers,
        Phases, Caller, Calls, Good, Buffer, TypeOK
<1>30. ASSUME NEW s \in Scripts, Accept_New(s) PROVE Over'
      BY <1>30, <1>0 DEF Accept_New, NewReader, Astray, Dead, Over, Base, Content, RecEnd, Loop,
        Readers, Phases, Caller, Calls, Good, Buffer, TypeOK
<1>31. CASE Accept_Kept
      BY <1>31, <1>0 DEF Accept_Kept, NewReader, Astray, Dead, Over, Base, Content, RecEnd, Loop,
        Readers, Phases, Caller, Calls, Good, Buffer, TypeOK
<1>32. CASE Accepted_Refuse
      BY <1>32, <1>0 DEF Accepted_Refuse, TryAgain, Astray, Dead, Over, Base, Content, RecEnd, Loop,
        Readers, Phases, Caller, Calls, Good, Buffer, TypeOK
<1>33. CASE Accepted_Begin
      BY <1>33, <1>0 DEF Accepted_Begin, SetReaderType, Astray, Dead, Over, Base, Content, RecEnd,
        Loop, Readers, Phases, Caller, Calls, Good, Buffer, TypeOK
<1>34. CASE Params_Take
      BY <1>34, <1>0 DEF Params_Take, TakePairs, Astray, Dead, Over, Base, Content, RecEnd, Loop,
        Readers, Phases, Caller, Calls, Good, Buffer, TypeOK
<1>35. CASE Params_More
      BY <1>35, <1>0 DEF Params_More, Astray, Dead, Over, Base, Content, RecEnd, Loop, Readers,
        Phases, Caller, Calls, Good, Buffer, TypeOK
<1>36. CASE Params_Error
      BY <1>36, <1>0 DEF Params_Error, TryAgain, Astray, Dead, Over, Base, Content, RecEnd, Loop,
        Readers, Phases, Caller, Calls, Good, Buffer, TypeOK
<1>37. CASE Params_Complete
      BY <1>37, <1>0 DEF Params_Complete, SetReaderType, Astray, Dead, Over, Base, Content, RecEnd,
        Loop, Readers, Phases, Caller, Calls, Good, Buffer, TypeOK
<1>38. ASSUME NEW n \in 1..MaxGet, FCGX_GetStr(n) PROVE Over'
      BY <1>38, <1>0 DEF FCGX_GetStr, Astray, Dead, Over, Base, Content, RecEnd, Loop, Readers,
        Phases, Caller, Calls, Good, Buffer, TypeOK
<1>39. CASE FCGX_UnGetChar
      BY <1>39, <1>0 DEF FCGX_UnGetChar, Astray, Dead, Over, Base, Content, RecEnd, Loop, Readers,
        Phases, Caller, Calls, Good, Buffer, TypeOK
<1>40. CASE FCGX_StartFilterData
      BY <1>40, <1>0 DEF FCGX_StartFilterData, SetReaderType, Astray, Dead, Over, Base, Content,
        RecEnd, Loop, Readers, Phases, Caller, Calls, Good, Buffer, TypeOK
<1>41. CASE FCGX_FClose
      BY <1>41, <1>0 DEF FCGX_FClose, Astray, Dead, Over, Base, Content, RecEnd, Loop, Readers,
        Phases, Caller, Calls, Good, Buffer, TypeOK
<1>42. CASE FCGX_ClearError
      BY <1>42, <1>0 DEF FCGX_ClearError, Astray, Dead, Over, Base, Content, RecEnd, Loop, Readers,
        Phases, Caller, Calls, Good, Buffer, TypeOK
<1>43. CASE FCGX_Finish_r
  <2>1. pc = "app" /\ failed /\ (ipcOpen' = (keepConnection /\ ~failed) \/ ipcOpen' = FALSE)
        BY <1>43 DEF FCGX_Finish_r, Astray
  <2>2. ~ipcOpen'
        BY <2>1
  <2> QED BY <2>2 DEF Over
<1>44. CASE GetStr_Move
  <2>1. /\ pc = "getstr" /\ pos' = pos + (IF isClosed THEN 0 ELSE Min2(want, stop - pos)) /\ pc' \in {"app", "fill"}
        /\ got' = [got EXCEPT ![type] = got[type] \cup pos..(pos + (IF isClosed THEN 0 ELSE Min2(want, stop - pos)) - 1)]
        BY <1>44 DEF GetStr_Move
  <2>2. (IF isClosed THEN 0 ELSE Min2(want, stop - pos)) = 0
        BY <1>0, <2>1 DEF Astray, Min2, Buffer, Loop, TypeOK
  <2>a. PICK n \in Nat : n = 0 /\ pos' = pos + n /\ got' = [got EXCEPT ![type] = got[type] \cup pos..(pos + n - 1)]
        BY <2>1, <2>2
  <2>b. pos \in Nat
        BY DEF TypeOK
  <2>c. pos + n = pos /\ pos..(pos + n - 1) = {}
        BY <2>a, <2>b
  <2>3. pos' = pos /\ got' = [got EXCEPT ![type] = got[type] \cup {}]
        BY <2>a, <2>c
  <2>4. got'["stdin"] = {}
        BY <1>0, <2>3 DEF Astray, TypeOK, StreamTypes
  <2>5. UNCHANGED <<script, rec, failed, type, eorStop, contentLen, paddingLen, stop, headerLen>>
        BY <1>44 DEF GetStr_Move
  <2>6. Base' = Base
        BY <2>1, <2>3, <2>5 DEF Base
  <2> QED BY <1>0, <2>1, <2>3, <2>4, <2>5, <2>6 DEF Astray, Loop, Over, Content, RecEnd
<1> QED BY <1>1, <1>2, <1>3, <1>4, <1>5, <1>6, <1>7, <1>8, <1>9, <1>10, <1>11, <1>12, <1>13,
   <1>14, <1>15, <1>16, <1>17, <1>18, <1>19, <1>20, <1>21, <1>22, <1>23, <1>24, <1>25,
   <1>26, <1>27, <1>28, <1>29, <1>30, <1>31, <1>32, <1>33, <1>34, <1>35, <1>36, <1>37,
   <1>38, <1>39, <1>40, <1>41, <1>42, <1>43, <1>44 DEF Next, Server, FillBuffProc,
   ProcessHeader, ReadBody, FCGX_Accept_r, App, Library

\* The numbers of the current record.
LEMMA RecordNumbers ==
    ASSUME TypeOK
    PROVE  /\ RecEnd \in Nat /\ RecClen \in Nat /\ RecPlen \in Nat
           /\ rec # 0 => /\ rec \in 1..Len(script) /\ Content(rec) \in Nat
                         /\ RecClen = script[rec].clen /\ RecPlen = script[rec].plen
                         /\ RecEnd = Content(rec) + RecClen + RecPlen
           /\ rec = 0 => RecEnd = 0 /\ RecClen = 0 /\ RecPlen = 0
<1>1. CASE rec = 0
      BY <1>1 DEF RecEnd, RecClen, RecPlen
<1>2. CASE rec # 0
  <2>1. script \in Scripts /\ rec \in 1..Len(script)
        BY <1>2, ScriptRecords DEF TypeOK
  <2>2. PICK a \in Nat, c \in Nat, l \in Nat, h \in Nat :
            /\ a = script[rec].start /\ c = script[rec].clen /\ l = script[rec].plen /\ h = HeaderLen
            /\ End(script[rec]) = a + h + c + l
        BY <2>1, Extent
  <2>3. RecEnd = a + h + c + l /\ RecClen = c /\ RecPlen = l /\ Content(rec) = a + h
        BY <1>2, <2>2 DEF RecEnd, RecClen, RecPlen, Content
  <2>4. RecEnd \in Nat /\ RecEnd = Content(rec) + RecClen + RecPlen /\ Content(rec) \in Nat
        BY <2>3
  <2> QED BY <1>2, <2>1, <2>2, <2>3, <2>4
<1> QED BY <1>1, <1>2

\* As long as the record stays the same, so do its numbers.
LEMMA SameRecord ==
    ASSUME UNCHANGED <<script, rec>>, NEW e, NEW c, NEW l, e = RecEnd, c = RecClen, l = RecPlen, Counts(e, c, l)'
    PROVE  Accounted'
<1>1. e = RecEnd' /\ c = RecClen' /\ l = RecPlen'
      BY DEF RecEnd, RecClen, RecPlen
<1> QED BY <1>1 DEF Accounted, Counts

\* The header of the next record sets the counters.
LEMMA NextLoaded ==
    ASSUME TypeOK, Buffer, Accounted, Sending, pc = "process", NEW k \in 1..Len(script), AtHeader(k),
           LoadHeader(k), UNCHANGED <<script, pos, stop, headerLen>>, pc' \notin {"eor", "process"}
    PROVE  Accounted' /\ k = rec + 1
<1>0. pos = RecEnd + HeaderLen
      BY DEF Accounted, Counts
<1>1. k = rec + 1
      BY <1>0, NextHeader
<1>2. script \in Scripts /\ k # 0
      BY ScriptRecords DEF TypeOK
<1>3. PICK a \in Nat, c \in Nat, l \in Nat, e \in Nat :
          /\ a = script[k].start /\ c = script[k].clen /\ l = script[k].plen
          /\ e = End(script[k]) /\ e = a + HeaderLen + c + l
      BY <1>2, Extent
<1>4. a = pos - HeaderLen /\ stop = pos /\ headerLen = 0 /\ pos \in Nat /\ HeaderLen \in Nat
      BY <1>3, LengthsAssumption DEF AtHeader, Buffer, TypeOK
<1>5. contentLen' = c /\ paddingLen' = l /\ rec' = k
      BY <1>3 DEF LoadHeader
<1>6. pos + c + l = e
      BY <1>3, <1>4
<1>7. Counts(e, c, l)'
  <2>1. pos' = pos /\ stop' = pos /\ headerLen' = 0
        BY <1>4
  <2> QED BY <1>4, <1>5, <1>6, <2>1 DEF Counts
<1>8. RecEnd' = e /\ RecClen' = c /\ RecPlen' = l
      BY <1>2, <1>3, <1>5 DEF RecEnd, RecClen, RecPlen
<1> QED BY <1>1, <1>7, <1>8 DEF Accounted, Counts

\* A byte that can be pushed back is one of the current record.
LEMMA PushedBack ==
    ASSUME TypeOK, Buffer, Calls, Phases, History, Accounted, Exact,
           pc = "app", ~isClosed, (pos - 1) \in got[type]
    PROVE  /\ Own /\ headerLen = 0 /\ pos <= stop /\ rec # 0
           /\ stop = pos /\ contentLen = 0 => paddingLen = RecPlen
<1>1. type \in StreamTypes /\ isBeginProcessed /\ ~eorStop
      BY DEF Phases, Calls, Caller, Loop, StreamTypes
<1>2. Behind /\ Begun /\ Headers
      BY DEF History
<1>3. begin # 0 /\ begin <= rec /\ requestId # 0
      BY <1>1, <1>2 DEF Begun, Behind, GoodBegin, IsBegin
<1>4. rec # 0 /\ begin \in Nat /\ rec \in Nat /\ pos \in Nat /\ stop \in Nat
  <2>1. Len(script) \in Nat /\ begin \in 0..Len(script) /\ rec \in 0..Len(script) /\ pos \in Nat /\ stop \in Nat
        BY ScriptRecords DEF TypeOK
  <2> QED BY <1>3, <2>1
<1>5. (pos - 1) \in ContentOf(type)
      BY <1>1 DEF Exact
<1>6. Base = pos - headerLen /\ pos - 1 < Base /\ headerLen \in Nat
      BY <1>1, <1>2 DEF Behind, Base, TypeOK
<1>7. headerLen = 0 /\ Base = pos
      BY <1>4, <1>6
<1>8. PICK e \in Nat, c \in Nat, l \in Nat, b \in Nat :
          e = RecEnd /\ c = RecClen /\ l = RecPlen /\ b = Content(rec) /\ e = b + c + l /\ c = script[rec].clen
      BY <1>4, RecordNumbers
<1>9. Counts(e, c, l)
      BY <1>8 DEF Accounted
<1>10. b <= pos - 1
  <2>1. rec \in Known
        BY <1>4 DEF Known
  <2>2. b <= pos /\ (b - 1) \notin got[type]
        BY <1>1, <1>2, <1>7, <1>8, <2>1 DEF Behind
  <2> QED BY <1>4, <2>2
<1>11. pos <= stop
      BY DEF Buffer, Loop
<1>12. pos - 1 < e
      BY <1>4, <1>7, <1>9, <1>11 DEF Counts, TypeOK
<1>13. /\ script[rec].type = type /\ script[rec].id = requestId /\ begin < rec
       /\ pos - 1 < b + c
      BY <1>3, <1>4, <1>5, <1>8, <1>10, <1>12, InRecord
<1>14. Own
      BY <1>1, <1>3, <1>4, <1>13 DEF Own, IsStream, StreamTypes
<1>15. ASSUME stop = pos, contentLen = 0 PROVE paddingLen = RecPlen
  <2>1. paddingLen \in Nat /\ pos + paddingLen = e /\ paddingLen <= l
        BY <1>4, <1>7, <1>9, <1>15 DEF Counts, TypeOK
  <2> QED BY <1>4, <1>8, <1>13, <2>1
<1> QED BY <1>4, <1>7, <1>11, <1>14, <1>15

\* The counters account for every byte of the record, unless an error ends its reading.
LEMMA AccountedNext ==
    ASSUME TypeOK, Buffer, Calls, Phases, Body, History, Good, ipcOpen, Aligned, [Next]_vars
    PROVE  Accounted' \/ Over'
<1> USE LengthsAssumption
<1>0. Accounted /\ Current /\ Exact
      BY DEF Aligned
<1>h. Headers /\ Sending
      BY DEF History
<1>t. /\ pos \in Nat /\ stop \in Nat /\ lim \in Nat /\ contentLen \in Nat /\ paddingLen \in Nat /\ headerLen \in Nat
      /\ HeaderLen \in Nat
      BY DEF TypeOK
<1>e. PICK e \in Nat, c \in Nat, l \in Nat : e = RecEnd /\ c = RecClen /\ l = RecPlen
      BY RecordNumbers
<1>c. Counts(e, c, l)
      BY <1>0, <1>e DEF Accounted
<1>1. CASE UNCHANGED vars
      BY <1>1, <1>0 DEF vars, Accounted, Counts, RecEnd, RecClen, RecPlen, Loop
<1>2. CASE ServerSend
  <2>1. UNCHANGED <<script, rec>>
        BY <1>2 DEF ServerSend
  <2>2. Counts(e, c, l)'
        BY <1>2, <1>c, <1>h, <1>t DEF ServerSend, Counts, Loop
  <2> QED BY <1>e, <2>1, <2>2, SameRecord
<1>3. CASE ServerCrash
  <2>1. UNCHANGED <<script, rec>>
        BY <1>3 DEF ServerCrash
  <2>2. Counts(e, c, l)'
        BY <1>3, <1>c, <1>h, <1>t DEF ServerCrash, Counts, Loop
  <2> QED BY <1>e, <2>1, <2>2, SameRecord
<1>4. CASE Fill_Read
  <2>1. UNCHANGED <<script, rec>>
        BY <1>4 DEF Fill_Read
  <2>2. Counts(e, c, l)'
        BY <1>4, <1>c, <1>h, <1>t DEF Fill_Read, Min2, Counts, Loop, Buffer, Headers, TypeOK
  <2> QED BY <1>e, <2>1, <2>2, SameRecord
<1>5. CASE Fill_ReadEnd
  <2>1. UNCHANGED <<script, rec>>
        BY <1>5 DEF Fill_ReadEnd
  <2>2. Counts(e, c, l)'
        BY <1>5, <1>c, <1>h, <1>t DEF Fill_ReadEnd, FillError, Counts, Loop, Buffer, Headers,
          TypeOK, Readers
  <2> QED BY <1>e, <2>1, <2>2, SameRecord
<1>6. CASE Fill_NotEmpty
  <2>1. UNCHANGED <<script, rec>>
        BY <1>6 DEF Fill_NotEmpty
  <2>2. Counts(e, c, l)'
        BY <1>6, <1>c, <1>h, <1>t DEF Fill_NotEmpty, Counts, Loop, Buffer, Headers, TypeOK
  <2> QED BY <1>e, <2>1, <2>2, SameRecord
<1>7. CASE Fill_Deliver
  <2>1. UNCHANGED <<script, rec>>
        BY <1>7 DEF Fill_Deliver
  <2>2. pc = "content" /\ contentLen > 0 /\ stop <= pos /\ lim - pos \in Nat /\ headerLen = 0
        BY <1>7, <1>h, <1>t DEF Fill_Deliver, Buffer, Loop, Headers
  <2>3. PICK n \in Nat : /\ n <= contentLen /\ contentLen' = contentLen - n /\ stop' = pos + n
    <3>1. Min2(contentLen, lim - pos) \in Nat /\ Min2(contentLen, lim - pos) <= contentLen
          BY <1>t, <2>2, SmallerOf
    <3> QED BY <1>7, <3>1 DEF Fill_Deliver
  <2>4. pc' \notin {"eor", "process"} /\ UNCHANGED <<pos, paddingLen, headerLen>>
        BY <1>7 DEF Fill_Deliver, TypeOK, Readers
  <2>5. Counts(e, c, l)'
        BY <1>c, <1>t, <2>2, <2>3, <2>4 DEF Counts
  <2> QED BY <1>e, <2>1, <2>5, SameRecord
<1>8. CASE Fill_Skip
  <2>1. UNCHANGED <<script, rec>>
        BY <1>8 DEF Fill_Skip
  <2>2. Counts(e, c, l)'
        BY <1>8, <1>c, <1>h, <1>t DEF Fill_Skip, Min2, Counts, Loop, Buffer, Headers, TypeOK
  <2> QED BY <1>e, <2>1, <2>2, SameRecord
<1>9. CASE Fill_NoContent
  <2>1. UNCHANGED <<script, rec>>
        BY <1>9 DEF Fill_NoContent
  <2>2. Counts(e, c, l)'
        BY <1>9, <1>c, <1>h, <1>t DEF Fill_NoContent, Counts, Loop, Buffer, Headers, TypeOK
  <2> QED BY <1>e, <2>1, <2>2, SameRecord
<1>10. CASE Fill_Padding
  <2>1. UNCHANGED <<script, rec>>
        BY <1>10 DEF Fill_Padding
  <2>2. Counts(e, c, l)'
        BY <1>10, <1>c, <1>h, <1>t DEF Fill_Padding, Min2, Counts, Loop, Buffer, Headers, TypeOK
  <2> QED BY <1>e, <2>1, <2>2, SameRecord
<1>11. CASE Fill_EndOfRecord
  <2>1. UNCHANGED <<script, rec>>
        BY <1>11 DEF Fill_EndOfRecord
  <2>2. Counts(e, c, l)'
        BY <1>11, <1>c, <1>h, <1>t DEF Fill_EndOfRecord, Counts, Loop, Buffer, Headers, TypeOK,
          Calls
  <2> QED BY <1>e, <2>1, <2>2, SameRecord
<1>12. CASE Fill_Header
  <2>1. UNCHANGED <<script, rec>>
        BY <1>12 DEF Fill_Header
  <2>2. Counts(e, c, l)'
        BY <1>12, <1>c, <1>h, <1>t, SMTT(30) DEF Fill_Header, Min2, Counts, Loop, Buffer, Headers,
          TypeOK
  <2> QED BY <1>e, <2>1, <2>2, SameRecord
<1>13. CASE Header_Misread
  <2>1. pc = "process" /\ \A k \in 1..Len(script) : ~AtHeader(k)
        BY <1>13 DEF Header_Misread
  <2>2. pos = RecEnd + HeaderLen
        BY <1>0, <2>1 DEF Accounted, Counts
  <2> QED BY <1>h, <2>1, <2>2, NextHeader
<1>14. ASSUME NEW k \in 1..Len(script), Header_BadBegin(k) PROVE Accounted' \/ Over'
  <2>1. /\ pc = "process" /\ AtHeader(k) /\ LoadHeader(k) /\ UNCHANGED <<script, pos, stop, headerLen>>
        BY <1>14 DEF Header_BadBegin
  <2>2. pc' \notin {"eor", "process"}
        BY <1>14 DEF Header_BadBegin, FillError, TypeOK, Readers
  <2> QED BY <1>0, <1>h, <2>1, <2>2, NextLoaded
<1>15. ASSUME NEW k \in 1..Len(script), Header_Multiplexed(k) PROVE Accounted' \/ Over'
  <2>1. /\ pc = "process" /\ AtHeader(k) /\ LoadHeader(k) /\ UNCHANGED <<script, pos, stop, headerLen>>
        BY <1>15 DEF Header_Multiplexed
  <2>2. pc' \notin {"eor", "process"}
        BY <1>15 DEF Header_Multiplexed, TypeOK, Readers
  <2> QED BY <1>0, <1>h, <2>1, <2>2, NextLoaded
<1>16. ASSUME NEW k \in 1..Len(script), Header_Begin(k) PROVE Accounted' \/ Over'
  <2>1. /\ pc = "process" /\ AtHeader(k) /\ LoadHeader(k) /\ UNCHANGED <<script, pos, stop, headerLen>>
        BY <1>16 DEF Header_Begin
  <2>2. pc' \notin {"eor", "process"}
        BY <1>16 DEF Header_Begin, TypeOK, Readers
  <2> QED BY <1>0, <1>h, <2>1, <2>2, NextLoaded
<1>17. ASSUME NEW k \in 1..Len(script), Header_GetValues(k) PROVE Accounted' \/ Over'
  <2>1. /\ pc = "process" /\ AtHeader(k) /\ LoadHeader(k) /\ UNCHANGED <<script, pos, stop, headerLen>>
        BY <1>17 DEF Header_GetValues
  <2>2. pc' \notin {"eor", "process"}
        BY <1>17 DEF Header_GetValues, TypeOK, Readers
  <2> QED BY <1>0, <1>h, <2>1, <2>2, NextLoaded
<1>18. ASSUME NEW k \in 1..Len(script), Header_UnknownManagement(k) PROVE Accounted' \/ Over'
  <2>1. /\ pc = "process" /\ AtHeader(k) /\ LoadHeader(k) /\ UNCHANGED <<script, pos, stop, headerLen>>
        BY <1>18 DEF Header_UnknownManagement
  <2>2. pc' \notin {"eor", "process"}
        BY <1>18 DEF Header_UnknownManagement, TypeOK, Readers
  <2> QED BY <1>0, <1>h, <2>1, <2>2, NextLoaded
<1>19. ASSUME NEW k \in 1..Len(script), Header_ReplyFails(k) PROVE Accounted' \/ Over'
  <2>1. /\ pc = "process" /\ AtHeader(k) /\ LoadHeader(k) /\ UNCHANGED <<script, pos, stop, headerLen>>
        BY <1>19 DEF Header_ReplyFails
  <2>2. pc' \notin {"eor", "process"}
        BY <1>19 DEF Header_ReplyFails, FillError, TypeOK, Readers
  <2> QED BY <1>0, <1>h, <2>1, <2>2, NextLoaded
<1>20. ASSUME NEW k \in 1..Len(script), Header_OtherRequest(k) PROVE Accounted' \/ Over'
  <2>1. /\ pc = "process" /\ AtHeader(k) /\ LoadHeader(k) /\ UNCHANGED <<script, pos, stop, headerLen>>
        BY <1>20 DEF Header_OtherRequest
  <2>2. pc' \notin {"eor", "process"}
        BY <1>20 DEF Header_OtherRequest, TypeOK, Readers
  <2> QED BY <1>0, <1>h, <2>1, <2>2, NextLoaded
<1>21. ASSUME NEW k \in 1..Len(script), Header_WrongType(k) PROVE Accounted' \/ Over'
  <2>1. /\ pc = "process" /\ AtHeader(k) /\ LoadHeader(k) /\ UNCHANGED <<script, pos, stop, headerLen>>
        BY <1>21 DEF Header_WrongType
  <2>2. pc' \notin {"eor", "process"}
        BY <1>21 DEF Header_WrongType, FillError, TypeOK, Readers
  <2> QED BY <1>0, <1>h, <2>1, <2>2, NextLoaded
<1>22. ASSUME NEW k \in 1..Len(script), Header_Stream(k) PROVE Accounted' \/ Over'
  <2>1. /\ pc = "process" /\ AtHeader(k) /\ LoadHeader(k) /\ UNCHANGED <<script, pos, stop, headerLen>>
        BY <1>22 DEF Header_Stream
  <2>2. pc' \notin {"eor", "process"}
        BY <1>22 DEF Header_Stream, TypeOK, Readers
  <2> QED BY <1>0, <1>h, <2>1, <2>2, NextLoaded
<1>23. CASE Body_Complete
  <2>1. UNCHANGED <<script, rec>>
        BY <1>23 DEF Body_Complete
  <2>2. Counts(e, c, l)'
        BY <1>23, <1>c, <1>h, <1>t DEF Body_Complete, Counts, Loop, Buffer, Headers, TypeOK, Calls,
          Readers
  <2> QED BY <1>e, <2>1, <2>2, SameRecord
<1>24. CASE Body_More
  <2>1. UNCHANGED <<script, rec>>
        BY <1>24 DEF Body_More
  <2>2. Counts(e, c, l)'
        BY <1>24, <1>c, <1>h, <1>t DEF Body_More, Counts, Loop, Buffer, Headers, TypeOK
  <2> QED BY <1>e, <2>1, <2>2, SameRecord
<1>25. CASE Body_Short
  <2>1. UNCHANGED <<script, rec>>
        BY <1>25 DEF Body_Short
  <2>2. Counts(e, c, l)'
        BY <1>25, <1>c, <1>h, <1>t DEF Body_Short, Counts, Loop, Buffer, Headers, TypeOK, Readers
  <2> QED BY <1>e, <2>1, <2>2, SameRecord
<1>26. CASE Values_Take
  <2>1. UNCHANGED <<script, rec>>
        BY <1>26 DEF Values_Take
  <2>2. Counts(e, c, l)'
        BY <1>26, <1>c, <1>h, <1>t DEF Values_Take, TakePairs, Counts, Loop, Buffer, Headers, TypeOK
  <2> QED BY <1>e, <2>1, <2>2, SameRecord
<1>27. CASE Values_More
  <2>1. UNCHANGED <<script, rec>>
        BY <1>27 DEF Values_More
  <2>2. Counts(e, c, l)'
        BY <1>27, <1>c, <1>h, <1>t DEF Values_More, Counts, Loop, Buffer, Headers, TypeOK
  <2> QED BY <1>e, <2>1, <2>2, SameRecord
<1>28. CASE Values_Answer
  <2>1. UNCHANGED <<script, rec>>
        BY <1>28 DEF Values_Answer
  <2>2. Counts(e, c, l)'
        BY <1>28, <1>c, <1>h, <1>t DEF Values_Answer, Counts, Loop, Buffer, Headers, TypeOK
  <2> QED BY <1>e, <2>1, <2>2, SameRecord
<1>29. CASE Values_Fail
  <2>1. UNCHANGED <<script, rec>>
        BY <1>29 DEF Values_Fail
  <2>2. Counts(e, c, l)'
        BY <1>29, <1>c, <1>h, <1>t DEF Values_Fail, Counts, Loop, Buffer, Headers, TypeOK, Readers
  <2> QED BY <1>e, <2>1, <2>2, SameRecord
<1>30. ASSUME NEW s \in Scripts, Accept_New(s) PROVE Accounted' \/ Over'
      BY <1>30 DEF Accept_New
<1>31. CASE Accept_Kept
  <2>1. UNCHANGED <<script, rec>>
        BY <1>31 DEF Accept_Kept
  <2>2. Counts(e, c, l)'
        BY <1>31, <1>c, <1>h, <1>0, <1>t DEF Accept_Kept, NewReader, Counts, Loop, Buffer, Headers,
          TypeOK, Current
  <2> QED BY <1>e, <2>1, <2>2, SameRecord
<1>32. CASE Accepted_Refuse
      BY <1>32 DEF Accepted_Refuse, TryAgain, Over
<1>33. CASE Accepted_Begin
  <2>1. UNCHANGED <<script, rec>>
        BY <1>33 DEF Accepted_Begin
  <2>2. Counts(e, c, l)'
        BY <1>33, <1>c, <1>h, <1>0, <1>t DEF Accepted_Begin, SetReaderType, Counts, Loop, Buffer,
          Headers, TypeOK, Current, Phases, Caller, Calls
  <2> QED BY <1>e, <2>1, <2>2, SameRecord
<1>34. CASE Params_Take
  <2>1. UNCHANGED <<script, rec>>
        BY <1>34 DEF Params_Take
  <2>2. Counts(e, c, l)'
        BY <1>34, <1>c, <1>h, <1>t DEF Params_Take, TakePairs, Counts, Loop, Buffer, Headers, TypeOK
  <2> QED BY <1>e, <2>1, <2>2, SameRecord
<1>35. CASE Params_More
  <2>1. UNCHANGED <<script, rec>>
        BY <1>35 DEF Params_More
  <2>2. Counts(e, c, l)'
        BY <1>35, <1>c, <1>h, <1>t DEF Params_More, Counts, Loop, Buffer, Headers, TypeOK
  <2> QED BY <1>e, <2>1, <2>2, SameRecord
<1>36. CASE Params_Error
      BY <1>36 DEF Params_Error, TryAgain, Over
<1>37. CASE Params_Complete
  <2>1. UNCHANGED <<script, rec>>
        BY <1>37 DEF Params_Complete
  <2>2. /\ pc = "params" /\ isClosed /\ pc' = "app" /\ type' = "stdin" /\ ~eorStop' /\ contentLen' = 0
        /\ paddingLen' = 0 /\ stop' = pos /\ UNCHANGED <<pos, headerLen, failed, got>>
        BY <1>37 DEF Params_Complete, SetReaderType
  <2>3. CASE contentLen = 0 /\ paddingLen = 0
    <3>1. stop <= pos
          BY <1>0, <2>2 DEF Current
    <3>2. Counts(e, c, l)'
          BY <1>c, <1>t, <2>2, <2>3, <3>1 DEF Counts, Loop
    <3> QED BY <1>e, <2>1, <3>2, SameRecord
  <2>4. CASE ~(contentLen = 0 /\ paddingLen = 0)
    <3>1. failed /\ stop <= pos
          BY <1>0, <2>2, <2>4 DEF Current
    <3>2. headerLen = 0 /\ pos < e
          BY <1>c, <1>h, <1>t, <2>2, <2>4, <3>1 DEF Counts, Headers
    <3>3. rec # 0
          BY <1>c, <1>e, <1>t, <2>4, RecordNumbers DEF Counts
    <3>4. got["stdin"] = {}
          BY <2>2 DEF History, Unreached, Phases, Caller, Calls, Loop
    <3>5. Content(rec) <= pos
      <4>1. rec \in Known /\ Base = pos
            BY <1>t, <2>2, <3>2, <3>3 DEF Known, Base
      <4> QED BY <4>1 DEF History, Behind
    <3>6. Base' = pos /\ Content(rec)' = Content(rec) /\ RecEnd' = e /\ headerLen' = 0
          BY <1>e, <1>t, <2>1, <2>2, <3>2 DEF Base, Content, RecEnd
    <3>7. Astray'
          BY <1>t, <2>1, <2>2, <3>1, <3>2, <3>3, <3>4, <3>5, <3>6 DEF Astray
    <3> QED BY <3>7 DEF Over
  <2> QED BY <2>3, <2>4
<1>38. ASSUME NEW n \in 1..MaxGet, FCGX_GetStr(n) PROVE Accounted' \/ Over'
  <2>1. UNCHANGED <<script, rec>>
        BY <1>38 DEF FCGX_GetStr
  <2>2. Counts(e, c, l)'
        BY <1>38, <1>c, <1>h, <1>t DEF FCGX_GetStr, Counts, Loop, Buffer, Headers, TypeOK
  <2> QED BY <1>e, <2>1, <2>2, SameRecord
<1>39. CASE FCGX_UnGetChar
  <2>1. UNCHANGED <<script, rec>>
        BY <1>39 DEF FCGX_UnGetChar
  <2>2. /\ pc = "app" /\ ~isClosed /\ (pos - 1) \in got[type] /\ pos' = pos - 1
        /\ UNCHANGED <<pc, stop, contentLen, paddingLen, headerLen, failed>>
        BY <1>39 DEF FCGX_UnGetChar
  <2>3. headerLen = 0 /\ pos <= stop /\ (stop = pos /\ contentLen = 0 => paddingLen = l)
        BY <1>0, <1>e, <2>2, PushedBack
  <2>4. Counts(e, c, l)'
        BY <1>c, <1>t, <2>2, <2>3 DEF Counts, Loop
  <2> QED BY <1>e, <2>1, <2>4, SameRecord
<1>40. CASE FCGX_StartFilterData
  <2>1. UNCHANGED <<script, rec>>
        BY <1>40 DEF FCGX_StartFilterData
  <2>2. pc = "app" /\ ~failed /\ UNCHANGED <<pc, pos, headerLen>>
        BY <1>40 DEF FCGX_StartFilterData, Good
  <2>3. CASE role = "filter" /\ isClosed /\ type = "stdin"
    <3>1. contentLen = 0 /\ paddingLen = 0 /\ stop <= pos
          BY <1>0, <2>2, <2>3 DEF Current
    <3>2. contentLen' = 0 /\ paddingLen' = 0 /\ stop' = pos /\ failed' = failed
          BY <1>40, <2>3 DEF FCGX_StartFilterData, SetReaderType
    <3>3. Counts(e, c, l)'
          BY <1>c, <1>t, <2>2, <3>1, <3>2 DEF Counts, Loop
    <3> QED BY <1>e, <2>1, <3>3, SameRecord
  <2>4. CASE ~(role = "filter" /\ isClosed /\ type = "stdin")
    <3>1. failed' /\ isClosed'
          BY <1>40, <2>4 DEF FCGX_StartFilterData
    <3> QED BY <2>2, <3>1 DEF Over, Dead
  <2> QED BY <2>3, <2>4
<1>41. CASE FCGX_FClose
  <2>1. UNCHANGED <<script, rec>>
        BY <1>41 DEF FCGX_FClose
  <2>2. /\ pc = "app" /\ pc' = "app" /\ isClosed /\ isClosed' /\ failed' = failed
        BY <1>41 DEF FCGX_FClose, Good
  <2>3. CASE failed
        BY <2>2, <2>3 DEF Over, Dead
  <2>4. CASE ~failed
    <3>1. stop <= pos
          BY <1>0, <2>2, <2>4 DEF Current
    <3>2. stop' = pos /\ UNCHANGED <<pos, contentLen, paddingLen, headerLen>>
          BY <1>41 DEF FCGX_FClose
    <3>3. Counts(e, c, l)'
          BY <1>c, <1>t, <2>2, <3>1, <3>2 DEF Counts, Loop
    <3> QED BY <1>e, <2>1, <3>3, SameRecord
  <2> QED BY <2>3, <2>4
<1>42. CASE FCGX_ClearError
      BY <1>42 DEF FCGX_ClearError, Good
<1>43. CASE FCGX_Finish_r
  <2>1. UNCHANGED <<script, rec>>
        BY <1>43 DEF FCGX_Finish_r
  <2>2. Counts(e, c, l)'
        BY <1>43, <1>c, <1>h, <1>t DEF FCGX_Finish_r, Counts, Loop, Buffer, Headers, TypeOK
  <2> QED BY <1>e, <2>1, <2>2, SameRecord
<1>44. CASE GetStr_Move
  <2>1. UNCHANGED <<script, rec>>
        BY <1>44 DEF GetStr_Move
  <2>2. Counts(e, c, l)'
        BY <1>44, <1>c, <1>h, <1>t DEF GetStr_Move, Min2, Counts, Loop, Buffer, Headers, TypeOK
  <2> QED BY <1>e, <2>1, <2>2, SameRecord
<1> QED BY <1>1, <1>2, <1>3, <1>4, <1>5, <1>6, <1>7, <1>8, <1>9, <1>10, <1>11, <1>12, <1>13,
   <1>14, <1>15, <1>16, <1>17, <1>18, <1>19, <1>20, <1>21, <1>22, <1>23, <1>24, <1>25,
   <1>26, <1>27, <1>28, <1>29, <1>30, <1>31, <1>32, <1>33, <1>34, <1>35, <1>36, <1>37,
   <1>38, <1>39, <1>40, <1>41, <1>42, <1>43, <1>44 DEF Next, Server, FillBuffProc,
   ProcessHeader, ReadBody, FCGX_Accept_r, App, Library

\* The input of the request has ended with the current record.
LEMMA InputEnded ==
    ASSUME TypeOK, Calls, Phases, History, Aligned, pc = "app", Drained, ~failed
    PROVE  /\ begin \in 1..rec /\ rec \in 1..Len(script) /\ IsBegin(script[begin])
           /\ EndsInput(script, begin, rec) /\ keepConnection = script[begin].keep
<1>1. isBeginProcessed /\ type \in {"stdin", "data"} /\ isClosed /\ (type = "data" => role = "filter")
      BY DEF Phases, Calls, Caller, Loop, Drained
<1>2. Own /\ script[rec].clen = 0
      BY <1>1 DEF Aligned, Current
<1>3. /\ begin # 0 /\ IsBegin(script[begin]) /\ requestId = script[begin].id
      /\ role = script[begin].role /\ keepConnection = script[begin].keep
      BY <1>1 DEF History, Begun, GoodBegin
<1>4. type = IF script[begin].role = "filter" THEN "data" ELSE "stdin"
      BY <1>1, <1>3 DEF Drained
<1>5. begin \in 1..rec /\ rec \in 1..Len(script)
  <2>1. Len(script) \in Nat /\ begin \in 0..Len(script) /\ rec \in 0..Len(script) /\ begin < rec
        BY <1>2, ScriptRecords DEF TypeOK, Own
  <2> QED BY <1>3, <2>1
<1> QED BY <1>2, <1>3, <1>4, <1>5 DEF EndsInput, Own

\* When the input of a request that keeps the connection has ended, nothing is left
\* in the buffer.
LEMMA NothingLeft ==
    ASSUME TypeOK, Buffer, Calls, Phases, History, Supported, Aligned,
           pc = "app", Drained, ~failed, keepConnection
    PROVE  pos = lim
<1>1. /\ begin \in 1..rec /\ rec \in 1..Len(script) /\ IsBegin(script[begin])
      /\ EndsInput(script, begin, rec) /\ script[begin].keep
      BY InputEnded
<1>2. isClosed /\ isBeginProcessed
      BY DEF Drained, Phases, Calls, Caller, Loop
<1>3. contentLen = 0 /\ paddingLen = 0 /\ stop <= pos /\ headerLen = 0
  <2>1. contentLen = 0 /\ paddingLen = 0 /\ stop <= pos
        BY <1>2 DEF Aligned, Current
  <2>2. headerLen = 0
        BY DEF Aligned, Accounted, Counts, Loop, TypeOK
  <2> QED BY <2>1, <2>2
<1>4. PICK e \in Nat : e = RecEnd
      BY Positions
<1>5. pos \in Nat /\ lim \in Nat /\ stop \in Nat /\ pos = e
  <2>1. pos \in Nat /\ lim \in Nat /\ stop \in Nat
        BY DEF TypeOK
  <2>2. pos + 0 + 0 = e + 0
        BY <1>3, <1>4, <2>1 DEF Aligned, Accounted, Counts
  <2> QED BY <2>1, <2>2
<1>6. PICK b \in Nat : b = SentBytes
      BY Positions
<1>7. b <= e
  <2>1. CASE rec = Len(script)
    <3>1. SentBytes <= End(script[rec]) /\ rec # 0
          BY <1>1, <2>1, SentAtMost, ScriptRecords DEF History, TypeOK
    <3> QED BY <1>4, <1>6, <3>1 DEF RecEnd
  <2>2. CASE rec < Len(script)
    <3>1. rec + 1 \in 1..Len(script) /\ script[rec + 1].start = e
          BY <1>4, <2>2, NextStart
    <3>2. Waits(script, rec + 1)
      <4>1. SupportedScript(script)
            BY DEF Supported, SupportedScripts
      <4>2. PICK k \in 1..Len(script) : k = rec + 1 /\ k - 1 = rec /\ begin \in 1..(k - 1)
            BY <1>1, <3>1
      <4>3. IsBegin(script[begin]) /\ script[begin].keep /\ EndsInput(script, begin, k - 1)
            BY <1>1, <4>2
      <4>4. Waits(script, k)
            BY <4>1, <4>2, <4>3 DEF SupportedScript
      <4> QED BY <4>2, <4>4
    <3>3. begin # 0 /\ begin \notin AnsweredRecs
          BY <1>1, <1>2 DEF History, Answers, Serving, Begun
    <3>4. rec < rec + 1
          BY <1>1, ScriptRecords DEF TypeOK
    <3>5. SentBytes <= script[rec + 1].start
          BY <3>1, <3>2, <3>3, <3>4, NotSentYet DEF History
    <3> QED BY <1>6, <3>1, <3>5
  <2> QED BY <1>1, <2>1, <2>2, ScriptRecords DEF TypeOK
<1>8. pos <= lim /\ lim <= b
      BY <1>6 DEF Buffer, History, Sending
<1> QED BY <1>5, <1>7, <1>8

\* What the counters stand for is content of the stream that is read, unless an error ends its reading.
LEMMA CurrentNext ==
    ASSUME TypeOK, Buffer, Calls, Phases, Body, History, Good, ipcOpen, Aligned, Owned,
           [Next]_vars
    PROVE  Current' \/ Over'
<1> USE LengthsAssumption
<1>0. Accounted /\ Current /\ Exact
      BY DEF Aligned
<1>h. Headers /\ Sending
      BY DEF History
<1>b. Behind
      BY DEF History
<1>t. /\ pos \in Nat /\ stop \in Nat /\ lim \in Nat /\ contentLen \in Nat /\ paddingLen \in Nat /\ headerLen \in Nat
      /\ HeaderLen \in Nat
      BY DEF TypeOK
<1>s. SupportedScript(script)
      BY DEF Good, Supported, SupportedScripts
<1>1. CASE UNCHANGED vars
      BY <1>1, <1>0 DEF vars, Current, Own, Foreign, GoodBegin
<1>2. CASE ServerSend
  <2>1. UNCHANGED <<script, rec, begin, requestId, type>>
        BY <1>2 DEF ServerSend
  <2>2. Own' = Own /\ Foreign' = Foreign
        BY <2>1 DEF Own, Foreign, GoodBegin
  <2> QED BY <1>2, <1>0, <1>h, <1>t, <2>1, <2>2 DEF ServerSend, Current, Loop, Buffer, Calls,
        Headers, Phases, Caller, Readers, TypeOK
<1>3. CASE ServerCrash
  <2>1. UNCHANGED <<script, rec, begin, requestId, type>>
        BY <1>3 DEF ServerCrash
  <2>2. Own' = Own /\ Foreign' = Foreign
        BY <2>1 DEF Own, Foreign, GoodBegin
  <2> QED BY <1>3, <1>0, <1>h, <1>t, <2>1, <2>2 DEF ServerCrash, Current, Loop, Buffer, Calls,
        Headers, Phases, Caller, Readers, TypeOK
<1>4. CASE Fill_Read
  <2>1. UNCHANGED <<script, rec, begin, requestId, type>>
        BY <1>4 DEF Fill_Read
  <2>2. Own' = Own /\ Foreign' = Foreign
        BY <2>1 DEF Own, Foreign, GoodBegin
  <2> QED BY <1>4, <1>0, <1>h, <1>t, <2>1, <2>2 DEF Fill_Read, Min2, Current, Loop, Buffer, Calls,
        Headers, Phases, Caller, Readers, TypeOK
<1>5. CASE Fill_ReadEnd
  <2>1. UNCHANGED <<script, rec, begin, requestId, type>>
        BY <1>5 DEF Fill_ReadEnd
  <2>2. Own' = Own /\ Foreign' = Foreign
        BY <2>1 DEF Own, Foreign, GoodBegin
  <2> QED BY <1>5, <1>0, <1>h, <1>t, <2>1, <2>2 DEF Fill_ReadEnd, FillError, Current, Loop, Buffer,
        Calls, Headers, Phases, Caller, Readers, TypeOK
<1>6. CASE Fill_NotEmpty
  <2>1. UNCHANGED <<script, rec, begin, requestId, type>>
        BY <1>6 DEF Fill_NotEmpty
  <2>2. Own' = Own /\ Foreign' = Foreign
        BY <2>1 DEF Own, Foreign, GoodBegin
  <2> QED BY <1>6, <1>0, <1>h, <1>t, <2>1, <2>2 DEF Fill_NotEmpty, Current, Loop, Buffer, Calls,
        Headers, Phases, Caller, Readers, TypeOK
<1>7. CASE Fill_Deliver
  <2>1. UNCHANGED <<script, rec, begin, requestId, type>>
        BY <1>7 DEF Fill_Deliver
  <2>2. Own' = Own /\ Foreign' = Foreign
        BY <2>1 DEF Own, Foreign, GoodBegin
  <2> QED BY <1>7, <1>0, <1>h, <1>t, <2>1, <2>2 DEF Fill_Deliver, Min2, Current, Loop, Buffer,
        Calls, Headers, Phases, Caller, Readers, TypeOK
<1>8. CASE Fill_Skip
  <2>1. UNCHANGED <<script, rec, begin, requestId, type>>
        BY <1>8 DEF Fill_Skip
  <2>2. Own' = Own /\ Foreign' = Foreign
        BY <2>1 DEF Own, Foreign, GoodBegin
  <2> QED BY <1>8, <1>0, <1>h, <1>t, <2>1, <2>2 DEF Fill_Skip, Min2, Current, Loop, Buffer, Calls,
        Headers, Phases, Caller, Readers, TypeOK
<1>9. CASE Fill_NoContent
  <2>1. UNCHANGED <<script, rec, begin, requestId, type>>
        BY <1>9 DEF Fill_NoContent
  <2>2. Own' = Own /\ Foreign' = Foreign
        BY <2>1 DEF Own, Foreign, GoodBegin
  <2> QED BY <1>9, <1>0, <1>h, <1>t, <2>1, <2>2 DEF Fill_NoContent, Current, Loop, Buffer, Calls,
        Headers, Phases, Caller, Readers, TypeOK
<1>10. CASE Fill_Padding
  <2>1. UNCHANGED <<script, rec, begin, requestId, type>>
        BY <1>10 DEF Fill_Padding
  <2>2. Own' = Own /\ Foreign' = Foreign
        BY <2>1 DEF Own, Foreign, GoodBegin
  <2> QED BY <1>10, <1>0, <1>h, <1>t, <2>1, <2>2 DEF Fill_Padding, Min2, Current, Loop, Buffer,
        Calls, Headers, Phases, Caller, Readers, TypeOK
<1>11. CASE Fill_EndOfRecord
  <2>1. UNCHANGED <<script, rec, begin, requestId, type>>
        BY <1>11 DEF Fill_EndOfRecord
  <2>2. Own' = Own /\ Foreign' = Foreign
        BY <2>1 DEF Own, Foreign, GoodBegin
  <2> QED BY <1>11, <1>0, <1>h, <1>t, <2>1, <2>2 DEF Fill_EndOfRecord, Current, Loop, Buffer, Calls,
        Headers, Phases, Caller, Readers, TypeOK
<1>12. CASE Fill_Header
  <2>1. UNCHANGED <<script, rec, begin, requestId, type>>
        BY <1>12 DEF Fill_Header
  <2>2. Own' = Own /\ Foreign' = Foreign
        BY <2>1 DEF Own, Foreign, GoodBegin
  <2> QED BY <1>12, <1>0, <1>h, <1>t, <2>1, <2>2 DEF Fill_Header, Min2, Current, Loop, Buffer,
        Calls, Headers, Phases, Caller, Readers, TypeOK
<1>13. CASE Header_Misread
  <2>1. pc = "process" /\ \A k \in 1..Len(script) : ~AtHeader(k)
        BY <1>13 DEF Header_Misread
  <2>2. pos = RecEnd + HeaderLen
        BY <1>0, <2>1 DEF Accounted, Counts
  <2> QED BY <1>h, <2>1, <2>2, NextHeader
<1>14. ASSUME NEW k \in 1..Len(script), Header_BadBegin(k) PROVE Current' \/ Over'
  <2>1. pc = "process" /\ AtHeader(k) /\ contentLen = 0 /\ ~eorStop /\ stop = pos /\ ~isClosed /\ UNCHANGED <<script, pos, stop, headerLen>>
        BY <1>14, <1>h, <1>t DEF Header_BadBegin, Calls, Buffer, Headers, Loop
  <2>2. rec' = k /\ k = rec + 1
    <3>1. pos = RecEnd + HeaderLen
          BY <1>0, <2>1 DEF Accounted, Counts
    <3> QED BY <1>14, <1>h, <2>1, <3>1, NextHeader DEF Header_BadBegin, LoadHeader
  <2>3. isBeginProcessed => ~skip
        BY <1>0, <2>1 DEF Current
  <2> QED BY <1>14, <2>1, <2>2, <2>3, <1>t DEF Header_BadBegin, FillError, Current, Loop, Phases,
        Caller, Calls, Readers, TypeOK
<1>15. ASSUME NEW k \in 1..Len(script), Header_Multiplexed(k) PROVE Current' \/ Over'
  <2>1. pc = "process" /\ AtHeader(k) /\ contentLen = 0 /\ ~eorStop /\ stop = pos /\ ~isClosed /\ UNCHANGED <<script, pos, stop, headerLen>>
        BY <1>15, <1>h, <1>t DEF Header_Multiplexed, Calls, Buffer, Headers, Loop
  <2>2. rec' = k /\ k = rec + 1
    <3>1. pos = RecEnd + HeaderLen
          BY <1>0, <2>1 DEF Accounted, Counts
    <3> QED BY <1>15, <1>h, <2>1, <3>1, NextHeader DEF Header_Multiplexed, LoadHeader
  <2>3. isBeginProcessed => ~skip
        BY <1>0, <2>1 DEF Current
  <2>4. Foreign'
        BY <1>15, <2>1, <2>2 DEF Header_Multiplexed, Foreign, GoodBegin
  <2>5. GoodBegin(k) /\ contentLen' > 0
        BY <1>15 DEF Header_Multiplexed, LoadHeader, GoodBegin, IsBegin
  <2> QED BY <1>15, <2>1, <2>2, <2>3, <2>4, <2>5, <1>t DEF Header_Multiplexed, Current, Loop,
        Phases, Caller, Calls, Readers, TypeOK
<1>16. ASSUME NEW k \in 1..Len(script), Header_Begin(k) PROVE Current' \/ Over'
  <2>1. pc = "process" /\ AtHeader(k) /\ contentLen = 0 /\ ~eorStop /\ stop = pos /\ ~isClosed /\ UNCHANGED <<script, pos, stop, headerLen>>
        BY <1>16, <1>h, <1>t DEF Header_Begin, Calls, Buffer, Headers, Loop
  <2>2. rec' = k /\ k = rec + 1
    <3>1. pos = RecEnd + HeaderLen
          BY <1>0, <2>1 DEF Accounted, Counts
    <3> QED BY <1>16, <1>h, <2>1, <3>1, NextHeader DEF Header_Begin, LoadHeader
  <2>3. isBeginProcessed => ~skip
        BY <1>0, <2>1 DEF Current
  <2>5. paddingLen' = 0
        BY <1>16, <1>s DEF Header_Begin, LoadHeader, SupportedScript, GoodBegin, IsBegin
  <2> QED BY <1>16, <2>1, <2>2, <2>3, <2>5, <1>t DEF Header_Begin, Current, Loop, Phases, Caller,
        Calls, Readers, TypeOK
<1>17. ASSUME NEW k \in 1..Len(script), Header_GetValues(k) PROVE Current' \/ Over'
  <2>1. pc = "process" /\ AtHeader(k) /\ contentLen = 0 /\ ~eorStop /\ stop = pos /\ ~isClosed /\ UNCHANGED <<script, pos, stop, headerLen>>
        BY <1>17, <1>h, <1>t DEF Header_GetValues, Calls, Buffer, Headers, Loop
  <2>2. rec' = k /\ k = rec + 1
    <3>1. pos = RecEnd + HeaderLen
          BY <1>0, <2>1 DEF Accounted, Counts
    <3> QED BY <1>17, <1>h, <2>1, <3>1, NextHeader DEF Header_GetValues, LoadHeader
  <2>3. isBeginProcessed => ~skip
        BY <1>0, <2>1 DEF Current
  <2> QED BY <1>17, <2>1, <2>2, <2>3, <1>t DEF Header_GetValues, Current, Loop, Phases, Caller,
        Calls, Readers, TypeOK
<1>18. ASSUME NEW k \in 1..Len(script), Header_UnknownManagement(k) PROVE Current' \/ Over'
  <2>1. pc = "process" /\ AtHeader(k) /\ contentLen = 0 /\ ~eorStop /\ stop = pos /\ ~isClosed /\ UNCHANGED <<script, pos, stop, headerLen>>
        BY <1>18, <1>h, <1>t DEF Header_UnknownManagement, Calls, Buffer, Headers, Loop
  <2>2. rec' = k /\ k = rec + 1
    <3>1. pos = RecEnd + HeaderLen
          BY <1>0, <2>1 DEF Accounted, Counts
    <3> QED BY <1>18, <1>h, <2>1, <3>1, NextHeader DEF Header_UnknownManagement, LoadHeader
  <2>3. isBeginProcessed => ~skip
        BY <1>0, <2>1 DEF Current
  <2>5. contentLen' = 0
        BY <1>18, <1>s DEF Header_UnknownManagement, LoadHeader, SupportedScript
  <2> QED BY <1>18, <2>1, <2>2, <2>3, <2>5, <1>t DEF Header_UnknownManagement, Current, Loop,
        Phases, Caller, Calls, Readers, TypeOK
<1>19. ASSUME NEW k \in 1..Len(script), Header_ReplyFails(k) PROVE Current' \/ Over'
  <2>1. pc = "process" /\ AtHeader(k) /\ contentLen = 0 /\ ~eorStop /\ stop = pos /\ ~isClosed /\ UNCHANGED <<script, pos, stop, headerLen>>
        BY <1>19, <1>h, <1>t DEF Header_ReplyFails, Calls, Buffer, Headers, Loop
  <2>2. rec' = k /\ k = rec + 1
    <3>1. pos = RecEnd + HeaderLen
          BY <1>0, <2>1 DEF Accounted, Counts
    <3> QED BY <1>19, <1>h, <2>1, <3>1, NextHeader DEF Header_ReplyFails, LoadHeader
  <2>3. isBeginProcessed => ~skip
        BY <1>0, <2>1 DEF Current
  <2> QED BY <1>19, <2>1, <2>2, <2>3, <1>t DEF Header_ReplyFails, FillError, Current, Loop, Phases,
        Caller, Calls, Readers, TypeOK
<1>20. ASSUME NEW k \in 1..Len(script), Header_OtherRequest(k) PROVE Current' \/ Over'
  <2>1. pc = "process" /\ AtHeader(k) /\ contentLen = 0 /\ ~eorStop /\ stop = pos /\ ~isClosed /\ UNCHANGED <<script, pos, stop, headerLen>>
        BY <1>20, <1>h, <1>t DEF Header_OtherRequest, Calls, Buffer, Headers, Loop
  <2>2. rec' = k /\ k = rec + 1
    <3>1. pos = RecEnd + HeaderLen
          BY <1>0, <2>1 DEF Accounted, Counts
    <3> QED BY <1>20, <1>h, <2>1, <3>1, NextHeader DEF Header_OtherRequest, LoadHeader
  <2>3. isBeginProcessed => ~skip
        BY <1>0, <2>1 DEF Current
  <2>4. Foreign'
        BY <1>20, <2>1, <2>2 DEF Header_OtherRequest, Foreign
  <2>5. isBeginProcessed => contentLen' > 0
    <3>1. /\ script[k].clen \in Nat /\ contentLen' = script[k].clen
          /\ IsStream(script[k]) /\ script[k].id # requestId
          BY <1>20, ScriptRecords DEF Header_OtherRequest, LoadHeader, TypeOK
    <3>2. isBeginProcessed => requestId = Owner(script)
          BY <2>1 DEF Owned, Turns, Serving
    <3>3. script[k].clen = 0 => script[k].id = Owner(script)
          BY <1>s, <3>1 DEF SupportedScript
    <3> QED BY <3>1, <3>2, <3>3
  <2> QED BY <1>20, <2>1, <2>2, <2>3, <2>4, <2>5, <1>t DEF Header_OtherRequest, Current, Loop,
        Phases, Caller, Calls, Readers, TypeOK
<1>21. ASSUME NEW k \in 1..Len(script), Header_WrongType(k) PROVE Current' \/ Over'
  <2>1. pc = "process" /\ AtHeader(k) /\ contentLen = 0 /\ ~eorStop /\ stop = pos /\ ~isClosed /\ UNCHANGED <<script, pos, stop, headerLen>>
        BY <1>21, <1>h, <1>t DEF Header_WrongType, Calls, Buffer, Headers, Loop
  <2>2. rec' = k /\ k = rec + 1
    <3>1. pos = RecEnd + HeaderLen
          BY <1>0, <2>1 DEF Accounted, Counts
    <3> QED BY <1>21, <1>h, <2>1, <3>1, NextHeader DEF Header_WrongType, LoadHeader
  <2>3. isBeginProcessed => ~skip
        BY <1>0, <2>1 DEF Current
  <2> QED BY <1>21, <2>1, <2>2, <2>3, <1>t DEF Header_WrongType, FillError, Current, Loop, Phases,
        Caller, Calls, Readers, TypeOK
<1>22. ASSUME NEW k \in 1..Len(script), Header_Stream(k) PROVE Current' \/ Over'
  <2>1. pc = "process" /\ AtHeader(k) /\ contentLen = 0 /\ ~eorStop /\ stop = pos /\ ~isClosed /\ UNCHANGED <<script, pos, stop, headerLen>>
        BY <1>22, <1>h, <1>t DEF Header_Stream, Calls, Buffer, Headers, Loop
  <2>2. rec' = k /\ k = rec + 1
    <3>1. pos = RecEnd + HeaderLen
          BY <1>0, <2>1 DEF Accounted, Counts
    <3> QED BY <1>22, <1>h, <2>1, <3>1, NextHeader DEF Header_Stream, LoadHeader
  <2>3. isBeginProcessed => ~skip
        BY <1>0, <2>1 DEF Current
  <2>5. /\ script[k].clen = 0 => contentLen' = 0 /\ paddingLen' = 0
        /\ IsStream(script[k]) /\ script[k].id = requestId /\ script[k].type = type
        BY <1>22, <1>s DEF Header_Stream, LoadHeader, SupportedScript
  <2>6. Own'
    <3>1. UNCHANGED <<begin, requestId, type>>
          BY <1>22 DEF Header_Stream
    <3>2. begin \in Nat /\ rec \in Nat /\ begin <= rec
          BY <1>b, ScriptRecords DEF Behind, TypeOK
    <3> QED BY <2>1, <2>2, <2>5, <3>1, <3>2 DEF Own
  <2> QED BY <1>22, <2>1, <2>2, <2>3, <2>5, <2>6, <1>t DEF Header_Stream, Current, Loop, Phases,
        Caller, Calls, Readers, TypeOK
<1>23. CASE Body_Complete
  <2>1. /\ pc = "body" /\ ~isClosed /\ stop - pos >= want /\ pos' = pos + want /\ pc' = outer /\ ret' = outer
        /\ UNCHANGED <<stop, contentLen, paddingLen, skip>> /\ ~eorStop' /\ ~isClosed'
        BY <1>23 DEF Body_Complete
  <2>2. ret = "body" /\ outer = "accepted" /\ want \in Nat /\ pos <= stop
        BY <2>1 DEF Calls, Buffer, Loop, TypeOK
  <2>3. ~skip /\ contentLen = 0 /\ want = stop - pos
        BY <1>t, <2>1, <2>2 DEF Body, Ahead
  <2>4. paddingLen = 0 /\ pos' = stop
        BY <1>0, <1>t, <2>1, <2>2, <2>3 DEF Current
  <2> QED BY <1>t, <2>1, <2>2, <2>3, <2>4 DEF Current
<1>24. CASE Body_More
  <2>1. UNCHANGED <<script, rec, begin, requestId, type>>
        BY <1>24 DEF Body_More
  <2>2. Own' = Own /\ Foreign' = Foreign
        BY <2>1 DEF Own, Foreign, GoodBegin
  <2> QED BY <1>24, <1>0, <1>h, <1>t, <2>1, <2>2 DEF Body_More, Current, Loop, Buffer, Calls,
        Headers, Phases, Caller, Readers, TypeOK
<1>25. CASE Body_Short
  <2>1. UNCHANGED <<script, rec, begin, requestId, type>>
        BY <1>25 DEF Body_Short
  <2>2. Own' = Own /\ Foreign' = Foreign
        BY <2>1 DEF Own, Foreign, GoodBegin
  <2> QED BY <1>25, <1>0, <1>h, <1>t, <2>1, <2>2 DEF Body_Short, Current, Loop, Buffer, Calls,
        Headers, Phases, Caller, Readers, TypeOK
<1>26. CASE Values_Take
  <2>1. UNCHANGED <<script, rec, begin, requestId, type>>
        BY <1>26 DEF Values_Take
  <2>2. Own' = Own /\ Foreign' = Foreign
        BY <2>1 DEF Own, Foreign, GoodBegin
  <2> QED BY <1>26, <1>0, <1>h, <1>t, <2>1, <2>2 DEF Values_Take, TakePairs, Current, Loop, Buffer,
        Calls, Headers, Phases, Caller, Readers, TypeOK
<1>27. CASE Values_More
  <2>1. UNCHANGED <<script, rec, begin, requestId, type>>
        BY <1>27 DEF Values_More
  <2>2. Own' = Own /\ Foreign' = Foreign
        BY <2>1 DEF Own, Foreign, GoodBegin
  <2> QED BY <1>27, <1>0, <1>h, <1>t, <2>1, <2>2 DEF Values_More, Current, Loop, Buffer, Calls,
        Headers, Phases, Caller, Readers, TypeOK
<1>28. CASE Values_Answer
  <2>1. UNCHANGED <<script, rec, begin, requestId, type>>
        BY <1>28 DEF Values_Answer
  <2>2. Own' = Own /\ Foreign' = Foreign
        BY <2>1 DEF Own, Foreign, GoodBegin
  <2> QED BY <1>28, <1>0, <1>h, <1>t, <2>1, <2>2 DEF Values_Answer, Current, Loop, Buffer, Calls,
        Headers, Phases, Caller, Readers, TypeOK, ValuesOK
<1>29. CASE Values_Fail
  <2>1. UNCHANGED <<script, rec, begin, requestId, type>>
        BY <1>29 DEF Values_Fail
  <2>2. Own' = Own /\ Foreign' = Foreign
        BY <2>1 DEF Own, Foreign, GoodBegin
  <2> QED BY <1>29, <1>0, <1>h, <1>t, <2>1, <2>2 DEF Values_Fail, Current, Loop, Buffer, Calls,
        Headers, Phases, Caller, Readers, TypeOK
<1>30. ASSUME NEW s \in Scripts, Accept_New(s) PROVE Current' \/ Over'
      BY <1>30 DEF Accept_New
<1>31. CASE Accept_Kept
  <2>1. UNCHANGED <<script, rec, requestId>>
        BY <1>31 DEF Accept_Kept
  <2> QED BY <1>31, <1>0, <1>h, <1>t, <2>1 DEF Accept_Kept, NewReader, Current, Loop, Buffer, Calls,
        Headers, Phases, Caller, Readers, TypeOK
<1>32. CASE Accepted_Refuse
      BY <1>32 DEF Accepted_Refuse, TryAgain, Over
<1>33. CASE Accepted_Begin
  <2>1. UNCHANGED <<script, rec, begin, requestId>>
        BY <1>33 DEF Accepted_Begin
  <2> QED BY <1>33, <1>0, <1>h, <1>t, <2>1 DEF Accepted_Begin, SetReaderType, Current, Loop, Buffer,
        Calls, Headers, Phases, Caller, Readers, TypeOK
<1>34. CASE Params_Take
  <2>1. UNCHANGED <<script, rec, begin, requestId, type>>
        BY <1>34 DEF Params_Take
  <2>2. Own' = Own /\ Foreign' = Foreign
        BY <2>1 DEF Own, Foreign, GoodBegin
  <2> QED BY <1>34, <1>0, <1>h, <1>t, <2>1, <2>2 DEF Params_Take, TakePairs, Current, Loop, Buffer,
        Calls, Headers, Phases, Caller, Readers, TypeOK
<1>35. CASE Params_More
  <2>1. UNCHANGED <<script, rec, begin, requestId, type>>
        BY <1>35 DEF Params_More
  <2>2. Own' = Own /\ Foreign' = Foreign
        BY <2>1 DEF Own, Foreign, GoodBegin
  <2> QED BY <1>35, <1>0, <1>h, <1>t, <2>1, <2>2 DEF Params_More, Current, Loop, Buffer, Calls,
        Headers, Phases, Caller, Readers, TypeOK
<1>36. CASE Params_Error
      BY <1>36 DEF Params_Error, TryAgain, Over
<1>37. CASE Params_Complete
  <2>1. UNCHANGED <<script, rec, begin, requestId>>
        BY <1>37 DEF Params_Complete
  <2> QED BY <1>37, <1>0, <1>h, <1>t, <2>1 DEF Params_Complete, SetReaderType, Current, Loop,
        Buffer, Calls, Headers, Phases, Caller, Readers, TypeOK
<1>38. ASSUME NEW n \in 1..MaxGet, FCGX_GetStr(n) PROVE Current' \/ Over'
  <2>1. UNCHANGED <<script, rec, begin, requestId, type>>
        BY <1>38 DEF FCGX_GetStr
  <2>2. Own' = Own /\ Foreign' = Foreign
        BY <2>1 DEF Own, Foreign, GoodBegin
  <2> QED BY <1>38, <1>0, <1>h, <1>t, <2>1, <2>2 DEF FCGX_GetStr, Current, Loop, Buffer, Calls,
        Headers, Phases, Caller, Readers, TypeOK
<1>39. CASE FCGX_UnGetChar
  <2>1. UNCHANGED <<script, rec, begin, requestId, type>>
        BY <1>39 DEF FCGX_UnGetChar
  <2>2. Own' = Own /\ Foreign' = Foreign
        BY <2>1 DEF Own, Foreign, GoodBegin
  <2>3. /\ pc = "app" /\ ~isClosed /\ (pos - 1) \in got[type]
        /\ UNCHANGED <<pc, isClosed, skip, eorStop, contentLen, paddingLen, isBeginProcessed, ret>>
        BY <1>39 DEF FCGX_UnGetChar
  <2>4. Own
        BY <1>0, <2>3, PushedBack
  <2> QED BY <1>0, <2>1, <2>2, <2>3, <2>4 DEF Current
<1>40. CASE FCGX_StartFilterData
  <2>1. UNCHANGED <<script, rec, begin, requestId, pc, ret, isBeginProcessed>>
        BY <1>40 DEF FCGX_StartFilterData
  <2>2. pc = "app" /\ ret # "body"
        BY <1>40 DEF FCGX_StartFilterData, Calls, Loop
  <2>3. CASE role = "filter" /\ isClosed /\ type = "stdin"
    <3>1. contentLen' = 0 /\ paddingLen' = 0 /\ stop' = pos /\ ~isClosed' /\ ~skip' /\ pos' = pos
          BY <1>40, <2>3 DEF FCGX_StartFilterData, SetReaderType
    <3> QED BY <1>t, <2>1, <2>2, <3>1 DEF Current
  <2>4. CASE ~(role = "filter" /\ isClosed /\ type = "stdin")
    <3>1. failed' /\ isClosed'
          BY <1>40, <2>4 DEF FCGX_StartFilterData
    <3> QED BY <2>1, <2>2, <3>1 DEF Over, Dead
  <2> QED BY <2>3, <2>4
<1>41. CASE FCGX_FClose
  <2>1. UNCHANGED <<script, rec, begin, requestId, type>>
        BY <1>41 DEF FCGX_FClose
  <2>2. Own' = Own /\ Foreign' = Foreign
        BY <2>1 DEF Own, Foreign, GoodBegin
  <2> QED BY <1>41, <1>0, <1>h, <1>t, <2>1, <2>2 DEF FCGX_FClose, Current, Loop, Buffer, Calls,
        Headers, Phases, Caller, Readers, TypeOK, Good
<1>42. CASE FCGX_ClearError
      BY <1>42 DEF FCGX_ClearError, Good
<1>43. CASE FCGX_Finish_r
  <2>1. /\ pc = "app" /\ pc' = "accept" /\ (ipcOpen' = (keepConnection /\ ~failed) \/ ipcOpen' = FALSE)
        /\ UNCHANGED <<pos, lim, stop, contentLen, paddingLen, headerLen, skip, isBeginProcessed, ret, eorStop, script, rec, begin, requestId>>
        BY <1>43 DEF FCGX_Finish_r
  <2>2. CASE ~ipcOpen'
        BY <2>2 DEF Over
  <2>3. CASE ipcOpen'
    <3>1. keepConnection /\ ~failed
          BY <2>1, <2>3
    <3>2. Drained
          BY <1>43, <3>1 DEF FCGX_Finish_r, Good
    <3>3. pos = lim
          BY <2>1, <3>1, <3>2, NothingLeft DEF Good
    <3>4. contentLen = 0 /\ paddingLen = 0 /\ stop <= pos
          BY <1>0, <2>1, <3>1, <3>2 DEF Current, Drained
    <3>5. headerLen = 0
          BY <1>0, <1>t, <2>1, <3>1 DEF Accounted, Counts, Loop
    <3>6. Foreign' = Foreign
          BY <2>1 DEF Foreign, GoodBegin
    <3> QED BY <1>0, <2>1, <3>3, <3>4, <3>5, <3>6 DEF Current
  <2> QED BY <2>2, <2>3 DEF TypeOK
<1>44. CASE GetStr_Move
  <2>1. UNCHANGED <<script, rec, begin, requestId, type>>
        BY <1>44 DEF GetStr_Move
  <2>2. Own' = Own /\ Foreign' = Foreign
        BY <2>1 DEF Own, Foreign, GoodBegin
  <2> QED BY <1>44, <1>0, <1>h, <1>t, <2>1, <2>2 DEF GetStr_Move, Min2, Current, Loop, Buffer,
        Calls, Headers, Phases, Caller, Readers, TypeOK
<1> QED BY <1>1, <1>2, <1>3, <1>4, <1>5, <1>6, <1>7, <1>8, <1>9, <1>10, <1>11, <1>12, <1>13,
   <1>14, <1>15, <1>16, <1>17, <1>18, <1>19, <1>20, <1>21, <1>22, <1>23, <1>24, <1>25,
   <1>26, <1>27, <1>28, <1>29, <1>30, <1>31, <1>32, <1>33, <1>34, <1>35, <1>36, <1>37,
   <1>38, <1>39, <1>40, <1>41, <1>42, <1>43, <1>44 DEF Next, Server, FillBuffProc,
   ProcessHeader, ReadBody, FCGX_Accept_r, App, Library

\* What is delivered is content of the stream that is read, and of no other.
LEMMA TakenBytes ==
    ASSUME TypeOK, Begun, Behind, Headers, Accounted, Own, begin # 0, pos < stop, pc # "process",
           \A b \in (begin + 1)..rec : ~(GoodBegin(b) /\ script[b].id = requestId),
           NEW p \in Int, pos <= p, p < stop
    PROVE  p \in ContentOf(type) /\ \A t \in StreamTypes : t # type => p \notin ContentOf(t)
<1>1. /\ pos \in Nat /\ stop \in Nat /\ contentLen \in Nat /\ paddingLen \in Nat /\ headerLen \in Nat
      /\ Len(script) \in Nat /\ begin \in Nat /\ rec \in 0..Len(script) /\ begin < rec
      BY ScriptRecords DEF TypeOK, Own
<1>2. rec # 0 /\ rec \in (begin + 1)..Len(script)
      BY <1>1
<1>3. headerLen = 0
      BY <1>1 DEF Headers
<1>4. PICK e \in Nat, c \in Nat, l \in Nat, b \in Nat :
          e = RecEnd /\ c = RecClen /\ l = RecPlen /\ b = Content(rec) /\ e = b + c + l /\ c = script[rec].clen
      BY <1>2, RecordNumbers
<1>5. stop + contentLen + l = e
      BY <1>1, <1>3, <1>4 DEF Accounted, Counts
<1>6. b <= pos
  <2>1. rec \in Known /\ Base = pos
        BY <1>1, <1>2, <1>3 DEF Known, Base
  <2> QED BY <1>4, <2>1 DEF Behind
<1>7. b <= p /\ p < b + c /\ p < e
  <2>1. e = b + c + l
        BY <1>4
  <2> QED BY <1>1, <1>5, <1>6, <2>1
<1>8. p \in ContentOf(type)
  <2>1. p \in b..(b + c - 1)
        BY <1>7
  <2>2. script[rec].type = type /\ script[rec].id = requestId
        BY DEF Own
  <2>3. \E k \in (begin + 1)..Len(script) :
            /\ script[k].type = type /\ script[k].id = requestId
            /\ \A j \in (begin + 1)..k : ~(GoodBegin(j) /\ script[j].id = requestId)
            /\ p \in Content(k)..(Content(k) + script[k].clen - 1)
        BY <1>2, <1>4, <2>1, <2>2
  <2> QED BY <2>3, ContentByte
<1>9. ASSUME NEW t \in StreamTypes, t # type, p \in ContentOf(t) PROVE FALSE
  <2>1. Content(rec) <= p /\ p < RecEnd
        BY <1>4, <1>7
  <2>2. script[rec].type = t
        BY <1>2, <1>9, <2>1, InRecord
  <2> QED BY <1>9, <2>2 DEF Own
<1> QED BY <1>8, <1>9

\* Nothing of a stream is in the bytes of the current record that are passed over.
LEMMA PassedBytes ==
    ASSUME TypeOK, Behind, begin # 0, rec # 0, headerLen = 0, pc # "process",
           NEW t \in StreamTypes, NEW p \in Int, pos <= p, p < RecEnd, p \in ContentOf(t)
    PROVE  /\ script[rec].type = t /\ script[rec].id = requestId /\ ~Foreign
           /\ p < Content(rec) + RecClen
<1>1. PICK b \in Nat : b = Content(rec)
      BY RecordNumbers
<1>2. rec \in Known /\ Base = pos /\ pos \in Nat
      BY DEF Known, Base, TypeOK
<1>3. b <= pos
      BY <1>1, <1>2 DEF Behind
<1>4. Content(rec) <= p
      BY <1>1, <1>2, <1>3
<1>5. /\ script[rec].type = t /\ script[rec].id = requestId /\ begin < rec
      /\ p < Content(rec) + script[rec].clen
      BY <1>4, InRecord
<1> QED BY <1>5 DEF Foreign, GoodBegin, IsBegin, RecClen, StreamTypes

\* A step that takes nothing from a stream, and passes no byte of it.
StreamsAlone ==
    /\ UNCHANGED <<script, begin, requestId, got, pos>>
    /\ type' \in {"stdin", "data"} => type' = type
    /\ type' \in {"stdin", "data"} /\ pc' # "accept" => pc # "accept" /\ params' = params
    /\ isBeginProcessed' /\ pc' # "accept" => isBeginProcessed /\ pc # "accept"
    /\ ~failed' => ~failed

\* The other steps.
StreamsTouched ==
    \/ Fill_Skip \/ Fill_Padding \/ Fill_Header \/ Body_Complete \/ Body_More \/ Values_Take
    \/ Accept_Kept \/ Params_Take \/ Params_Complete \/ FCGX_UnGetChar \/ FCGX_StartFilterData
    \/ FCGX_ClearError \/ GetStr_Move
    \/ \E k \in 1..Len(script) : Header_Begin(k)
    \/ \E s \in Scripts : Accept_New(s)

\* Most steps that do not move the position leave the streams alone.
LEMMA StreamsLeftAlone ==
    ASSUME TypeOK, Buffer, Calls, Phases, [Next]_vars
    PROVE  StreamsAlone \/ StreamsTouched
<1> USE LengthsAssumption DEF StreamsAlone
<1>1. CASE UNCHANGED vars
      BY <1>1 DEF vars, TypeOK
<1>2. CASE ServerSend
      BY <1>2 DEF ServerSend
<1>3. CASE ServerCrash
      BY <1>3 DEF ServerCrash
<1>4. CASE Fill_Read
      BY <1>4 DEF Fill_Read
<1>5. CASE Fill_ReadEnd
      BY <1>5 DEF Fill_ReadEnd, FillError
<1>6. CASE Fill_NotEmpty
      BY <1>6 DEF Fill_NotEmpty
<1>7. CASE Fill_Deliver
      BY <1>7 DEF Fill_Deliver
<1>8. CASE Fill_NoContent
      BY <1>8 DEF Fill_NoContent
<1>9. CASE Fill_EndOfRecord
      BY <1>9 DEF Fill_EndOfRecord
<1>10. CASE Header_Misread
      BY <1>10 DEF Header_Misread, FillError
<1>11. ASSUME NEW k \in 1..Len(script), Header_BadBegin(k) PROVE StreamsAlone
      BY <1>11 DEF Header_BadBegin, FillError
<1>12. ASSUME NEW k \in 1..Len(script), Header_Multiplexed(k) PROVE StreamsAlone
      BY <1>12 DEF Header_Multiplexed
<1>13. ASSUME NEW k \in 1..Len(script), Header_GetValues(k) PROVE StreamsAlone
      BY <1>13 DEF Header_GetValues
<1>14. ASSUME NEW k \in 1..Len(script), Header_UnknownManagement(k) PROVE StreamsAlone
      BY <1>14 DEF Header_UnknownManagement
<1>15. ASSUME NEW k \in 1..Len(script), Header_ReplyFails(k) PROVE StreamsAlone
      BY <1>15 DEF Header_ReplyFails, FillError
<1>16. ASSUME NEW k \in 1..Len(script), Header_OtherRequest(k) PROVE StreamsAlone
      BY <1>16 DEF Header_OtherRequest
<1>17. ASSUME NEW k \in 1..Len(script), Header_WrongType(k) PROVE StreamsAlone
      BY <1>17 DEF Header_WrongType, FillError
<1>18. ASSUME NEW k \in 1..Len(script), Header_Stream(k) PROVE StreamsAlone
      BY <1>18 DEF Header_Stream
<1>19. CASE Body_Short
      BY <1>19 DEF Body_Short
<1>20. CASE Values_More
      BY <1>20 DEF Values_More
<1>21. CASE Values_Answer
      BY <1>21 DEF Values_Answer
<1>22. CASE Values_Fail
      BY <1>22 DEF Values_Fail
<1>23. CASE Accepted_Refuse
      BY <1>23 DEF Accepted_Refuse, TryAgain
<1>24. CASE Accepted_Begin
      BY <1>24 DEF Accepted_Begin, SetReaderType
<1>25. CASE Params_More
      BY <1>25 DEF Params_More
<1>26. CASE Params_Error
      BY <1>26 DEF Params_Error, TryAgain
<1>27. ASSUME NEW n \in 1..MaxGet, FCGX_GetStr(n) PROVE StreamsAlone
      BY <1>27 DEF FCGX_GetStr
<1>28. CASE FCGX_FClose
      BY <1>28 DEF FCGX_FClose
<1>29. CASE FCGX_Finish_r
      BY <1>29 DEF FCGX_Finish_r
<1> QED BY <1>1, <1>2, <1>3, <1>4, <1>5, <1>6, <1>7, <1>8, <1>9, <1>10, <1>11, <1>12, <1>13,
   <1>14, <1>15, <1>16, <1>17, <1>18, <1>19, <1>20, <1>21, <1>22, <1>23, <1>24, <1>25, <1>26,
   <1>27, <1>28, <1>29 DEF StreamsTouched, Next, Server, FillBuffProc, ProcessHeader, ReadBody,
   FCGX_Accept_r, App, Library

\* As long as the reader does not move, ...
LEMMA ExactStays ==
    ASSUME Exact, UNCHANGED <<script, begin, requestId, got, pos>>,
           isBeginProcessed' /\ pc' # "accept" => isBeginProcessed /\ pc # "accept"
    PROVE  Exact'
<1> SUFFICES ASSUME isBeginProcessed', pc' # "accept", NEW t \in StreamTypes
             PROVE  got'[t] = {p \in ContentOf(t)' : p < pos'}
      BY DEF Exact
<1>1. ContentOf(t)' = ContentOf(t)
      BY SameStreams
<1>2. got[t] = {p \in ContentOf(t) : p < pos}
      BY DEF Exact
<1> QED BY <1>1, <1>2

\* The client of a stream has the bytes of that stream that have been passed.
LEMMA ExactNext ==
    ASSUME TypeOK, TypeOK', Buffer, Calls, Phases, Body, History, Good, ipcOpen, Aligned,
           Owned, [Next]_vars
    PROVE  Exact'
<1> USE LengthsAssumption
<1>0. Accounted /\ Current /\ Exact
      BY DEF Aligned
<1>h. Headers /\ Behind
      BY DEF History
<1>k. Begun
      BY DEF History
<1>g. isBeginProcessed => begin # 0 /\ requestId # 0
      BY <1>k DEF Begun, GoodBegin, IsBegin
<1>t. /\ pos \in Nat /\ stop \in Nat /\ lim \in Nat /\ contentLen \in Nat /\ paddingLen \in Nat /\ headerLen \in Nat
      /\ HeaderLen \in Nat
      BY DEF TypeOK
<1>e. PICK e \in Nat, c \in Nat, l \in Nat : e = RecEnd /\ c = RecClen /\ l = RecPlen
      BY RecordNumbers
<1>c. Counts(e, c, l)
      BY <1>0, <1>e DEF Accounted
<1>1. CASE StreamsAlone
      BY <1>1, <1>0, ExactStays DEF StreamsAlone
<1>2. CASE Fill_Skip
  <2>1. pc = "content" /\ contentLen > 0 /\ skip /\ stop <= pos /\ lim - pos \in Nat /\ headerLen = 0
        BY <1>2, <1>h, <1>t DEF Fill_Skip, Buffer, Loop, Headers
  <2>2. PICK n \in Nat : n <= contentLen /\ pos' = pos + n
    <3>1. Min2(contentLen, lim - pos) \in Nat /\ Min2(contentLen, lim - pos) <= contentLen
          BY <1>t, <2>1, SmallerOf
    <3> QED BY <1>2, <3>1 DEF Fill_Skip
  <2>m. pos <= pos'
        BY <1>t, <2>2
  <2>3. pos + n <= e
        BY <1>c, <1>t, <2>1, <2>2 DEF Counts
  <2>n. ASSUME isBeginProcessed, NEW t \in StreamTypes, NEW p \in Int, pos <= p, p < pos' PROVE p \notin ContentOf(t)
    <3>1. Foreign /\ begin # 0
          BY <1>0, <1>g, <2>1, <2>n DEF Current
    <3>2. p < RecEnd
          BY <1>e, <1>t, <2>2, <2>3, <2>n
    <3>3. rec # 0
          BY <1>c, <1>e, <1>t, <2>1, RecordNumbers DEF Counts
    <3> QED BY <1>h, <2>1, <2>n, <3>1, <3>2, <3>3, PassedBytes
  <2>s. UNCHANGED <<script, begin, requestId, got, isBeginProcessed>>
        BY <1>2 DEF Fill_Skip
  <2>p. pc # "accept"
        BY <1>2 DEF Fill_Skip
  <2> SUFFICES ASSUME isBeginProcessed' PROVE Exact'
        BY DEF Exact
  <2>q. \A t \in StreamTypes : got[t] = {p \in ContentOf(t) : p < pos}
        BY <1>0, <2>s, <2>p DEF Exact
  <2>r. \A t \in StreamTypes : \A p \in Int : pos <= p /\ p < pos' => p \notin ContentOf(t)
        BY <2>n, <2>s
  <2>z. \A t \in StreamTypes : got'[t] = {p \in ContentOf(t)' : p < pos'}
        BY <2>m, <2>q, <2>r, <2>s, ExactSkips
  <2> QED BY <2>z DEF Exact
<1>3. CASE Fill_Padding
  <2>1. pc = "padding" /\ contentLen = 0 /\ stop <= pos /\ lim - pos \in Nat
        BY <1>3, <1>h, <1>t DEF Fill_Padding, Buffer, Loop, Headers
  <2>2. PICK n \in Nat : n <= paddingLen /\ pos' = pos + n
    <3>1. Min2(paddingLen, lim - pos) \in Nat /\ Min2(paddingLen, lim - pos) <= paddingLen
          BY <1>t, <2>1, SmallerOf
    <3> QED BY <1>3, <3>1 DEF Fill_Padding
  <2>m. pos <= pos'
        BY <1>t, <2>2
  <2>3. paddingLen > 0 => headerLen = 0 /\ pos + paddingLen = e /\ paddingLen <= l
        BY <1>c, <1>t, <2>1 DEF Counts
  <2>n. ASSUME isBeginProcessed, NEW t \in StreamTypes, NEW p \in Int, pos <= p, p < pos' PROVE p \notin ContentOf(t)
    <3>1. begin # 0 /\ paddingLen > 0
          BY <1>g, <1>t, <2>2, <2>n
    <3>2. rec # 0
          BY <1>c, <1>e, <1>t, <3>1, RecordNumbers DEF Counts
    <3>3. p < RecEnd
          BY <1>e, <1>t, <2>2, <2>3, <2>n, <3>1
    <3>4. PICK b \in Nat : b = Content(rec) /\ e = b + c + l
          BY <1>e, <3>2, RecordNumbers
    <3>5. ~(p < b + c)
          BY <1>t, <2>3, <2>n, <3>1, <3>4
    <3>6. ASSUME p \in ContentOf(t) PROVE p < b + c
          BY <1>e, <1>h, <2>1, <2>3, <2>n, <3>1, <3>2, <3>3, <3>4, <3>6, PassedBytes
    <3> QED BY <3>5, <3>6
  <2>s. UNCHANGED <<script, begin, requestId, got, isBeginProcessed>>
        BY <1>3 DEF Fill_Padding
  <2>p. pc # "accept"
        BY <1>3 DEF Fill_Padding
  <2> SUFFICES ASSUME isBeginProcessed' PROVE Exact'
        BY DEF Exact
  <2>q. \A t \in StreamTypes : got[t] = {p \in ContentOf(t) : p < pos}
        BY <1>0, <2>s, <2>p DEF Exact
  <2>r. \A t \in StreamTypes : \A p \in Int : pos <= p /\ p < pos' => p \notin ContentOf(t)
        BY <2>n, <2>s
  <2>z. \A t \in StreamTypes : got'[t] = {p \in ContentOf(t)' : p < pos'}
        BY <2>m, <2>q, <2>r, <2>s, ExactSkips
  <2> QED BY <2>z DEF Exact
<1>4. CASE Fill_Header
  <2>1. /\ pc = "eor" /\ stop <= pos /\ contentLen = 0 /\ paddingLen = 0 /\ pos = e + headerLen
        /\ lim - pos \in Nat /\ HeaderLen - headerLen \in Nat
        BY <1>4, <1>c, <1>h, <1>t DEF Fill_Header, Buffer, Loop, Headers, Counts, TypeOK
  <2>2. PICK n \in Nat : n <= HeaderLen - headerLen /\ pos' = pos + n
    <3>1. /\ Min2(HeaderLen - headerLen, lim - pos) \in Nat
          /\ Min2(HeaderLen - headerLen, lim - pos) <= HeaderLen - headerLen
          BY <2>1, SmallerOf
    <3> QED BY <1>4, <3>1 DEF Fill_Header
  <2>m. pos <= pos'
        BY <1>t, <2>2
  <2>n. ASSUME isBeginProcessed, NEW t \in StreamTypes, NEW p \in Int, pos <= p, p < pos' PROVE p \notin ContentOf(t)
    <3>1. e <= p /\ p < e + HeaderLen
          BY <1>t, <2>1, <2>2, <2>n
    <3>2. RecEnd <= p /\ p < RecEnd + HeaderLen /\ begin # 0
          BY <1>e, <1>g, <2>n, <3>1
    <3> QED BY <3>2, InHeader
  <2>s. UNCHANGED <<script, begin, requestId, got, isBeginProcessed>>
        BY <1>4 DEF Fill_Header
  <2>p. pc # "accept"
        BY <1>4 DEF Fill_Header
  <2> SUFFICES ASSUME isBeginProcessed' PROVE Exact'
        BY DEF Exact
  <2>q. \A t \in StreamTypes : got[t] = {p \in ContentOf(t) : p < pos}
        BY <1>0, <2>s, <2>p DEF Exact
  <2>r. \A t \in StreamTypes : \A p \in Int : pos <= p /\ p < pos' => p \notin ContentOf(t)
        BY <2>n, <2>s
  <2>z. \A t \in StreamTypes : got'[t] = {p \in ContentOf(t)' : p < pos'}
        BY <2>m, <2>q, <2>r, <2>s, ExactSkips
  <2> QED BY <2>z DEF Exact
<1>5. ASSUME NEW k \in 1..Len(script), Header_Begin(k) PROVE Exact'
  <2>1. ~isBeginProcessed'
        BY <1>5 DEF Header_Begin
  <2> QED BY <2>1 DEF Exact
<1>6. CASE Body_Complete
  <2>1. /\ pc = "body" /\ ~isClosed /\ stop - pos >= want /\ pos' = pos + want
        /\ UNCHANGED <<script, begin, requestId, got>>
        BY <1>6 DEF Body_Complete
  <2>2. ret = "body" /\ want \in Nat /\ pos <= stop /\ eorStop /\ ~isBeginProcessed
        BY <2>1 DEF Calls, Buffer, Loop, TypeOK, Phases, Caller
  <2>3. contentLen = 0 /\ want = stop - pos
        BY <1>t, <2>1, <2>2 DEF Body, Ahead
  <2>4. paddingLen = 0 /\ pos' = stop /\ headerLen = 0 /\ begin = rec /\ begin # 0
        BY <1>0, <1>h, <1>k, <1>t, <2>1, <2>2, <2>3 DEF Current, Headers, Begun
  <2>5. pos' = e
        BY <1>c, <1>t, <2>1, <2>2, <2>3, <2>4 DEF Counts
  <2>6. ASSUME NEW t \in StreamTypes PROVE got'[t] = {p \in ContentOf(t)' : p < pos'}
    <3>1. ContentOf(t)' = ContentOf(t) /\ ContentOf(t) \subseteq Int
          BY <2>1, SameStreams, ContentInts
    <3>2. got'[t] = {}
          BY <2>1, <2>2 DEF History, Unreached, StreamTypes
    <3>3. ASSUME NEW p \in ContentOf(t) PROVE ~(p < e)
      <4>1. PICK k \in (begin + 1)..Len(script) : p \in Content(k)..(Content(k) + script[k].clen - 1)
            BY <2>4, ContentByte
      <4>2. script \in Scripts /\ Len(script) \in Nat /\ rec \in 1..Len(script) /\ k \in 1..Len(script) /\ rec < k
            BY <2>4, ScriptRecords DEF TypeOK
      <4>3. PICK a \in Nat, n \in Nat : a = script[k].start /\ n = script[k].clen /\ Content(k) = a + HeaderLen
            BY <4>2, Extent DEF Content
      <4>4. e <= a
            BY <1>e, <2>4, <4>2, <4>3, InOrder DEF RecEnd
      <4>5. p \in (a + HeaderLen)..(a + HeaderLen + n - 1)
            BY <4>1, <4>3
      <4> QED BY <1>t, <4>4, <4>5
    <3> QED BY <2>5, <3>1, <3>2, <3>3
  <2> QED BY <2>6 DEF Exact
<1>7. CASE Body_More
  <2>1. pc = "body" /\ isBeginProcessed' = isBeginProcessed
        BY <1>7 DEF Body_More
  <2>2. ~isBeginProcessed
        BY <2>1 DEF Calls, Phases, Caller, Loop
  <2> QED BY <2>1, <2>2 DEF Exact
<1>8. CASE Values_Take
  <2>1. pc = "values" /\ ret = "values" /\ eorStop /\ pos < stop /\ pos' = stop /\ headerLen = 0
        BY <1>8, <1>h DEF Values_Take, TakePairs, Calls, Headers
  <2>m. pos <= pos'
        BY <1>t, <2>1
  <2>2. rec # 0 /\ IsManagement(script[rec])
        BY <2>1 DEF History, Answers
  <2>3. stop <= e
        BY <1>c, <1>t, <2>1 DEF Counts
  <2>n. ASSUME isBeginProcessed, NEW t \in StreamTypes, NEW p \in Int, pos <= p, p < pos' PROVE p \notin ContentOf(t)
    <3>1. begin # 0 /\ requestId # 0
          BY <1>g, <2>n
    <3>2. p < RecEnd
          BY <1>e, <1>t, <2>1, <2>3, <2>n
    <3> QED BY <1>h, <2>1, <2>2, <2>n, <3>1, <3>2, PassedBytes DEF IsManagement
  <2>s. UNCHANGED <<script, begin, requestId, got, isBeginProcessed>>
        BY <1>8 DEF Values_Take
  <2>p. pc # "accept"
        BY <1>8 DEF Values_Take
  <2> SUFFICES ASSUME isBeginProcessed' PROVE Exact'
        BY DEF Exact
  <2>q. \A t \in StreamTypes : got[t] = {p \in ContentOf(t) : p < pos}
        BY <1>0, <2>s, <2>p DEF Exact
  <2>r. \A t \in StreamTypes : \A p \in Int : pos <= p /\ p < pos' => p \notin ContentOf(t)
        BY <2>n, <2>s
  <2>z. \A t \in StreamTypes : got'[t] = {p \in ContentOf(t)' : p < pos'}
        BY <2>m, <2>q, <2>r, <2>s, ExactSkips
  <2> QED BY <2>z DEF Exact
<1>9. ASSUME NEW s \in Scripts, Accept_New(s) PROVE Exact'
  <2>1. ~isBeginProcessed'
        BY <1>9 DEF Accept_New
  <2> QED BY <2>1 DEF Exact
<1>10. CASE Accept_Kept
  <2>1. ~isBeginProcessed'
        BY <1>10 DEF Accept_Kept, NewReader
  <2> QED BY <2>1 DEF Exact
<1>11. CASE Params_Take
  <2>1. /\ pc = "params" /\ ~isClosed /\ pos < stop /\ pos' = stop
        /\ got' = [got EXCEPT !["params"] = got["params"] \cup pos..(stop - 1)]
        /\ UNCHANGED <<script, begin, requestId>>
        BY <1>11 DEF Params_Take, TakePairs
  <2>2. isBeginProcessed /\ type = "params" /\ ~eorStop
        BY <2>1 DEF Calls, Phases, Caller, Loop
  <2>4. begin # 0 /\ \A b \in (begin + 1)..rec : ~(GoodBegin(b) /\ script[b].id = requestId)
        BY <1>g, <2>1, <2>2 DEF Owned, Turns, Serving
  <2>5. ASSUME pos < stop
        PROVE  \A p \in Int : pos <= p /\ p < stop =>
                   p \in ContentOf(type) /\ \A t \in StreamTypes : t # type => p \notin ContentOf(t)
    <3>1. Own
          BY <1>0, <2>1, <2>2, <2>5 DEF Current
    <3> QED BY <1>0, <1>h, <1>k, <2>1, <2>4, <2>5, <3>1, TakenBytes
  <2>6. \A t \in StreamTypes : got[t] = {p \in ContentOf(t) : p < pos}
        BY <1>0, <2>1, <2>2 DEF Exact
  <2>7. \A t \in StreamTypes : got'[t] = {p \in ContentOf(t)' : p < pos'}
    <3>1. pos <= pos' /\ "params" \in StreamTypes
          BY <1>t, <2>1 DEF StreamTypes
    <3>2. got' = [got EXCEPT !["params"] = got["params"] \cup pos..(pos' - 1)]
          BY <2>1
    <3>3. /\ \A p \in Int : pos <= p /\ p < pos' => p \in ContentOf("params")
          /\ \A t \in StreamTypes : t # "params" => \A p \in Int : pos <= p /\ p < pos' => p \notin ContentOf(t)
          BY <2>1, <2>2, <2>5
    <3> QED BY <2>1, <2>6, <3>1, <3>2, <3>3, ExactTakes
  <2> QED BY <2>7 DEF Exact
<1>12. CASE Params_Complete
  <2>1. /\ UNCHANGED <<script, begin, requestId, got, pos>>
        /\ isBeginProcessed' /\ pc' # "accept" => isBeginProcessed /\ pc # "accept"
        BY <1>12 DEF Params_Complete
  <2> QED BY <1>0, <2>1, ExactStays
<1>13. CASE FCGX_UnGetChar
  <2>1. /\ pc = "app" /\ (pos - 1) \in got[type] /\ pos' = pos - 1
        /\ got' = [got EXCEPT ![type] = got[type] \ {pos - 1}]
        /\ UNCHANGED <<script, begin, requestId>>
        BY <1>13 DEF FCGX_UnGetChar
  <2>2. isBeginProcessed /\ type \in StreamTypes
        BY <2>1 DEF Calls, Phases, Caller, Loop, StreamTypes
  <2>3. ASSUME NEW t \in StreamTypes PROVE got'[t] = {p \in ContentOf(t)' : p < pos'}
    <3>1. ContentOf(t)' = ContentOf(t) /\ ContentOf(t) \subseteq Int
          BY <2>1, SameStreams, ContentInts
    <3>2. got[t] = {p \in ContentOf(t) : p < pos}
          BY <1>0, <2>1, <2>2 DEF Exact
    <3>3. \A p \in Int : p < pos - 1 <=> p < pos /\ p # pos - 1
          BY <1>t
    <3>4. got'[t] = got[t] \ {pos - 1}
      <4>1. t = type => got'[t] = got[t] \ {pos - 1}
            BY <2>1 DEF TypeOK
      <4>2. t # type => got'[t] = got[t] /\ (pos - 1) \notin got[t]
        <5>1. t # type => got[t] \cap got[type] = {}
              BY <1>h, <2>2 DEF Behind
        <5> QED BY <2>1, <5>1 DEF TypeOK
      <4> QED BY <4>1, <4>2
    <3>5. \A p \in ContentOf(t) : p \in got'[t] <=> p < pos - 1
          BY <3>1, <3>2, <3>3, <3>4
    <3>6. got'[t] \subseteq ContentOf(t)
          BY <3>2, <3>4
    <3>7. got'[t] = {p \in ContentOf(t) : p < pos - 1}
          BY <3>5, <3>6
    <3> QED BY <2>1, <3>1, <3>7
  <2> QED BY <2>3 DEF Exact
<1>14. CASE FCGX_StartFilterData
  <2>1. /\ UNCHANGED <<script, begin, requestId, got, pos>>
        /\ isBeginProcessed' /\ pc' # "accept" => isBeginProcessed /\ pc # "accept"
        BY <1>14 DEF FCGX_StartFilterData
  <2> QED BY <1>0, <2>1, ExactStays
<1>15. CASE FCGX_ClearError
  <2>1. /\ UNCHANGED <<script, begin, requestId, got, pos>>
        /\ isBeginProcessed' /\ pc' # "accept" => isBeginProcessed /\ pc # "accept"
        BY <1>15 DEF FCGX_ClearError
  <2> QED BY <1>0, <2>1, ExactStays
<1>16. CASE GetStr_Move
  <2>1. /\ pc = "getstr" /\ UNCHANGED <<script, begin, requestId, isBeginProcessed>> /\ pc' # "accept"
        BY <1>16 DEF GetStr_Move
  <2>2. isBeginProcessed /\ type \in StreamTypes /\ ~eorStop /\ (~isClosed => pos <= stop)
        BY <2>1 DEF Calls, Phases, Caller, Loop, StreamTypes, Buffer
  <2>3. PICK m \in Nat : /\ pos' = pos + m /\ got' = [got EXCEPT ![type] = got[type] \cup pos..(pos + m - 1)]
                         /\ m > 0 => ~isClosed /\ pos + m <= stop
    <3>1. PICK m : m = IF isClosed THEN 0 ELSE Min2(want, stop - pos)
          OBVIOUS
    <3>2. m \in Nat /\ (m > 0 => ~isClosed /\ pos + m <= stop)
          BY <2>2, <3>1 DEF Min2, TypeOK
    <3>3. pos' = pos + m /\ got' = [got EXCEPT ![type] = got[type] \cup pos..(pos + m - 1)]
          BY <1>16, <3>1 DEF GetStr_Move
    <3> QED BY <3>2, <3>3
  <2>a. CASE m = 0
    <3>1. pos' = pos /\ pos..(pos + m - 1) = {}
          BY <1>t, <2>3, <2>a
    <3>2. got' = [got EXCEPT ![type] = got[type] \cup {}]
          BY <2>3, <3>1
    <3>3. got' = got
          BY <2>2, <3>2 DEF TypeOK
    <3> QED BY <1>0, <2>1, <3>1, <3>3, ExactStays
  <2>b. CASE m > 0
    <3>0. pos < stop /\ ~isClosed
          BY <1>t, <2>3, <2>b
    <3>4. begin # 0 /\ \A b \in (begin + 1)..rec : ~(GoodBegin(b) /\ script[b].id = requestId)
          BY <1>g, <2>1, <2>2 DEF Owned, Turns, Serving
    <3>5. ASSUME pos < stop
          PROVE  \A p \in Int : pos <= p /\ p < stop =>
                     p \in ContentOf(type) /\ \A t \in StreamTypes : t # type => p \notin ContentOf(t)
      <4>1. Own
            BY <1>0, <2>1, <2>2, <3>0, <3>5 DEF Current
      <4> QED BY <1>0, <1>h, <1>k, <2>1, <3>4, <3>5, <4>1, TakenBytes
    <3>6. \A t \in StreamTypes : got[t] = {p \in ContentOf(t) : p < pos}
          BY <1>0, <2>1, <2>2 DEF Exact
    <3>7. \A t \in StreamTypes : got'[t] = {p \in ContentOf(t)' : p < pos'}
      <4>1. pos <= pos'
            BY <1>t, <2>3
      <4>2. got' = [got EXCEPT ![type] = got[type] \cup pos..(pos' - 1)]
        <5>1. pos + m - 1 = pos' - 1
              BY <1>t, <2>3
        <5> QED BY <2>3, <5>1
      <4>3. \A p \in Int : pos <= p /\ p < pos' => pos <= p /\ p < stop
            BY <1>t, <2>3, <2>b
      <4>4. /\ \A p \in Int : pos <= p /\ p < pos' => p \in ContentOf(type)
            /\ \A t \in StreamTypes : t # type => \A p \in Int : pos <= p /\ p < pos' => p \notin ContentOf(t)
            BY <3>0, <3>5, <4>3
      <4> QED BY <2>1, <2>2, <3>6, <4>1, <4>2, <4>4, ExactTakes
    <3> QED BY <3>7 DEF Exact
  <2> QED BY <2>a, <2>b
<1> QED BY <1>1, <1>2, <1>3, <1>4, <1>5, <1>6, <1>7, <1>8, <1>9, <1>10, <1>11, <1>12, <1>13,
   <1>14, <1>15, <1>16, StreamsLeftAlone DEF StreamsTouched

\* Until the next connection, the server and the application stay the same.
LEMMA SameServer ==
    ASSUME Calls, [Next]_vars
    PROVE  careful' = careful /\ ((script' = script /\ (ipcOpen' => ipcOpen)) \/ \E t \in Scripts : Accept_New(t))
<1> USE LengthsAssumption
<1>1. CASE UNCHANGED vars
      BY <1>1 DEF vars
<1>2. CASE ServerSend
      BY <1>2 DEF ServerSend
<1>3. CASE ServerCrash
      BY <1>3 DEF ServerCrash
<1>4. CASE Fill_Read
      BY <1>4 DEF Fill_Read
<1>5. CASE Fill_ReadEnd
      BY <1>5 DEF Fill_ReadEnd
<1>6. CASE Fill_NotEmpty
      BY <1>6 DEF Fill_NotEmpty
<1>7. CASE Fill_Deliver
      BY <1>7 DEF Fill_Deliver
<1>8. CASE Fill_Skip
      BY <1>8 DEF Fill_Skip
<1>9. CASE Fill_NoContent
      BY <1>9 DEF Fill_NoContent
<1>10. CASE Fill_Padding
      BY <1>10 DEF Fill_Padding
<1>11. CASE Fill_EndOfRecord
      BY <1>11 DEF Fill_EndOfRecord
<1>12. CASE Fill_Header
      BY <1>12 DEF Fill_Header
<1>13. CASE Header_Misread
      BY <1>13 DEF Header_Misread
<1>14. ASSUME NEW k \in 1..Len(script), Header_BadBegin(k) PROVE careful' = careful /\ ((script' = script /\ (ipcOpen' => ipcOpen)) \/ \E t \in Scripts : Accept_New(t))
      BY <1>14 DEF Header_BadBegin
<1>15. ASSUME NEW k \in 1..Len(script), Header_Multiplexed(k) PROVE careful' = careful /\ ((script' = script /\ (ipcOpen' => ipcOpen)) \/ \E t \in Scripts : Accept_New(t))
      BY <1>15 DEF Header_Multiplexed
<1>16. ASSUME NEW k \in 1..Len(script), Header_Begin(k) PROVE careful' = careful /\ ((script' = script /\ (ipcOpen' => ipcOpen)) \/ \E t \in Scripts : Accept_New(t))
      BY <1>16 DEF Header_Begin
<1>17. ASSUME NEW k \in 1..Len(script), Header_GetValues(k) PROVE careful' = careful /\ ((script' = script /\ (ipcOpen' => ipcOpen)) \/ \E t \in Scripts : Accept_New(t))
      BY <1>17 DEF Header_GetValues
<1>18. ASSUME NEW k \in 1..Len(script), Header_UnknownManagement(k) PROVE careful' = careful /\ ((script' = script /\ (ipcOpen' => ipcOpen)) \/ \E t \in Scripts : Accept_New(t))
      BY <1>18 DEF Header_UnknownManagement
<1>19. ASSUME NEW k \in 1..Len(script), Header_ReplyFails(k) PROVE careful' = careful /\ ((script' = script /\ (ipcOpen' => ipcOpen)) \/ \E t \in Scripts : Accept_New(t))
      BY <1>19 DEF Header_ReplyFails
<1>20. ASSUME NEW k \in 1..Len(script), Header_OtherRequest(k) PROVE careful' = careful /\ ((script' = script /\ (ipcOpen' => ipcOpen)) \/ \E t \in Scripts : Accept_New(t))
      BY <1>20 DEF Header_OtherRequest
<1>21. ASSUME NEW k \in 1..Len(script), Header_WrongType(k) PROVE careful' = careful /\ ((script' = script /\ (ipcOpen' => ipcOpen)) \/ \E t \in Scripts : Accept_New(t))
      BY <1>21 DEF Header_WrongType
<1>22. ASSUME NEW k \in 1..Len(script), Header_Stream(k) PROVE careful' = careful /\ ((script' = script /\ (ipcOpen' => ipcOpen)) \/ \E t \in Scripts : Accept_New(t))
      BY <1>22 DEF Header_Stream
<1>23. CASE Body_Complete
      BY <1>23 DEF Body_Complete
<1>24. CASE Body_More
      BY <1>24 DEF Body_More
<1>25. CASE Body_Short
      BY <1>25 DEF Body_Short
<1>26. CASE Values_Take
      BY <1>26 DEF Values_Take
<1>27. CASE Values_More
      BY <1>27 DEF Values_More
<1>28. CASE Values_Answer
      BY <1>28 DEF Values_Answer
<1>29. CASE Values_Fail
      BY <1>29 DEF Values_Fail
<1>30. ASSUME NEW s \in Scripts, Accept_New(s) PROVE careful' = careful /\ ((script' = script /\ (ipcOpen' => ipcOpen)) \/ \E t \in Scripts : Accept_New(t))
  <2>1. careful' = careful
        BY <1>30 DEF Accept_New
  <2> QED BY <1>30, <2>1
<1>31. CASE Accept_Kept
      BY <1>31 DEF Accept_Kept
<1>32. CASE Accepted_Refuse
      BY <1>32 DEF Accepted_Refuse, TryAgain
<1>33. CASE Accepted_Begin
      BY <1>33 DEF Accepted_Begin
<1>34. CASE Params_Take
      BY <1>34 DEF Params_Take
<1>35. CASE Params_More
      BY <1>35 DEF Params_More
<1>36. CASE Params_Error
      BY <1>36 DEF Params_Error, TryAgain
<1>37. CASE Params_Complete
      BY <1>37 DEF Params_Complete
<1>38. ASSUME NEW n \in 1..MaxGet, FCGX_GetStr(n) PROVE careful' = careful /\ ((script' = script /\ (ipcOpen' => ipcOpen)) \/ \E t \in Scripts : Accept_New(t))
      BY <1>38 DEF FCGX_GetStr
<1>39. CASE FCGX_UnGetChar
      BY <1>39 DEF FCGX_UnGetChar
<1>40. CASE FCGX_StartFilterData
      BY <1>40 DEF FCGX_StartFilterData
<1>41. CASE FCGX_FClose
      BY <1>41 DEF FCGX_FClose
<1>42. CASE FCGX_ClearError
      BY <1>42 DEF FCGX_ClearError
<1>43. CASE FCGX_Finish_r
  <2>1. careful' = careful /\ script' = script /\ pc = "app"
        BY <1>43 DEF FCGX_Finish_r
  <2> QED BY <2>1 DEF Calls
<1>44. CASE GetStr_Move
      BY <1>44 DEF GetStr_Move
<1> QED BY <1>1, <1>2, <1>3, <1>4, <1>5, <1>6, <1>7, <1>8, <1>9, <1>10, <1>11, <1>12, <1>13,
   <1>14, <1>15, <1>16, <1>17, <1>18, <1>19, <1>20, <1>21, <1>22, <1>23, <1>24, <1>25,
   <1>26, <1>27, <1>28, <1>29, <1>30, <1>31, <1>32, <1>33, <1>34, <1>35, <1>36, <1>37,
   <1>38, <1>39, <1>40, <1>41, <1>42, <1>43, <1>44 DEF Next, Server, FillBuffProc,
   ProcessHeader, ReadBody, FCGX_Accept_r, App, Library

\* On a new connection the reader is in step with the server.
LEMMA NewConnection ==
    ASSUME NEW s \in Scripts, Accept_New(s) PROVE Aligned'
<1>1. /\ rec' = 0 /\ pos' = 0 /\ lim' = 0 /\ stop' = 0 /\ pc' = "fill" /\ ret' = "accepted"
      /\ ~isBeginProcessed'
      BY DEF Accept_New
<1>2. contentLen' = 0 /\ paddingLen' = 0 /\ headerLen' = 0
      BY DEF Accept_New, NewReader
<1>3. RecEnd' = 0 /\ RecClen' = 0 /\ RecPlen' = 0
      BY <1>1 DEF RecEnd, RecClen, RecPlen
<1>4. Counts(0, 0, 0)'
      BY <1>1, <1>2 DEF Counts, Loop
<1>5. Accounted'
      BY <1>3, <1>4 DEF Accounted, Counts
<1>6. Current'
      BY <1>1 DEF Current
<1>7. Exact'
      BY <1>1 DEF Exact
<1> QED BY <1>5, <1>6, <1>7 DEF Aligned

\* The reader is in step with a server that is supported, or has reported an error.
LEMMA FollowingNext ==
    ASSUME Control, History, Following, Owned, [Next]_vars PROVE Following'
<1>1. TypeOK /\ Buffer /\ Calls /\ Phases /\ Body /\ TypeOK'
      BY CommonNext DEF Control
<1> SUFFICES ASSUME Good', ipcOpen' PROVE Aligned' \/ Dead' \/ Astray'
      BY DEF Following
<1>2. CASE \E s \in Scripts : Accept_New(s)
      BY <1>2, NewConnection
<1>3. CASE ~\E s \in Scripts : Accept_New(s)
  <2>1. careful' = careful /\ script' = script /\ (ipcOpen' => ipcOpen)
        BY <1>1, <1>3, SameServer
  <2>2. Good /\ ipcOpen
        BY <2>1 DEF Good, Supported, SupportedScripts
  <2>3. Aligned \/ Dead \/ Astray
        BY <2>2 DEF Following
  <2>4. CASE Dead
        BY <1>1, <2>2, <2>4, DeadNext
  <2>5. CASE Astray
        BY <1>1, <2>2, <2>5, AstrayNext DEF Over
  <2>6. CASE Aligned
    <3>1. Accounted' \/ Over'
          BY <1>1, <2>2, <2>6, AccountedNext
    <3>2. Current' \/ Over'
          BY <1>1, <2>2, <2>6, CurrentNext
    <3>3. Exact'
          BY <1>1, <2>2, <2>6, ExactNext
    <3> QED BY <3>1, <3>2, <3>3 DEF Aligned, Over
  <2> QED BY <2>3, <2>4, <2>5, <2>6
<1> QED BY <1>2, <1>3

\* As long as no record is read, the requests stay the same.
LEMMA TurnsStay ==
    ASSUME Turns, UNCHANGED <<script, requestId, begin, rec>>, Serving' = Serving, ~failed' => ~failed
    PROVE  Turns'
BY DEF Turns, Open, GoodBegin

\* A record that does not begin a request of the owner.
LEMMA TurnsOn ==
    ASSUME TypeOK, Turns, NEW k \in 1..Len(script), k = rec + 1, rec' = k, UNCHANGED <<script, requestId, begin>>,
           Serving' = Serving, ~failed' => ~failed,
           Serving => ~(GoodBegin(k) /\ script[k].id = requestId),
           ~failed' => ~(GoodBegin(k) /\ script[k].id = Owner(script))
    PROVE  Turns'
<1>1. rec \in Nat /\ begin \in Nat /\ Len(script) \in Nat
      BY ScriptRecords DEF TypeOK
<1>2. Open' = Open
      BY DEF Open
<1>3. ASSUME Serving', NEW b \in (begin + 1)..k PROVE ~(GoodBegin(b) /\ script[b].id = requestId)
  <2>1. b = k \/ b \in (begin + 1)..rec
        BY <1>1
  <2> QED BY <1>3, <2>1 DEF Turns
<1>4. ASSUME ~failed', NEW b \in 1..k, GoodBegin(b), script[b].id = Owner(script), b # Open
      PROVE  \E e \in b..k : EndsInput(script, b, e)
  <2>1. b \in 1..rec
        BY <1>1, <1>4
  <2>2. PICK e \in b..rec : EndsInput(script, b, e)
        BY <1>4, <2>1 DEF Turns
  <2>3. e \in b..k
        BY <1>1
  <2> QED BY <2>2, <2>3
<1>5. \A b : GoodBegin(b)' = GoodBegin(b)
      BY DEF GoodBegin
<1> QED BY <1>2, <1>3, <1>4, <1>5 DEF Turns

\* The id of the request that is served is not used again before it is answered.
LEMMA NoReuse ==
    ASSUME TypeOK, Buffer, History, Supported, Accounted, Turns, isBeginProcessed, pc = "process",
           NEW k \in 1..Len(script), AtHeader(k), GoodBegin(k), script[k].id = requestId
    PROVE  FALSE
<1>1. pos = RecEnd + HeaderLen
      BY DEF Accounted, Counts
<1>2. k = rec + 1 /\ script[rec + 1].start = RecEnd /\ RecEnd < SentBytes
      BY <1>1, NextHeader DEF History
<1>3. begin # 0 /\ GoodBegin(begin) /\ requestId = script[begin].id /\ begin <= rec /\ begin \notin AnsweredRecs
      BY DEF History, Begun, Behind, Answers, Serving
<1>4. begin \in 1..(k - 1) /\ rec < k
      BY <1>2, <1>3, ScriptRecords DEF TypeOK
<1>5. requestId = Owner(script)
      BY DEF Turns, Serving
<1>6. Waits(script, k)
  <2>1. SupportedScript(script)
        BY DEF Supported, SupportedScripts
  <2>2. IsBegin(script[begin]) /\ IsBegin(script[k]) /\ script[begin].id = script[k].id /\ script[k].id = Owner(script)
        BY <1>3, <1>5 DEF GoodBegin
  <2> QED BY <1>4, <2>1, <2>2 DEF SupportedScript
<1>7. SentBytes <= script[k].start
      BY <1>3, <1>4, <1>6, NotSentYet DEF History
<1>8. RecEnd \in Nat /\ SentBytes \in Nat
      BY Positions
<1> QED BY <1>2, <1>7, <1>8

\* A request is read after the input of the one before it has ended.
LEMMA TurnsNext ==
    ASSUME TypeOK, Buffer, Calls, Phases, History, Good, ipcOpen, Following, Turns,
           [Next]_vars
    PROVE  Turns' \/ ~ipcOpen'
<1> USE LengthsAssumption
<1>p. ASSUME pc = "process", NEW k \in 1..Len(script), AtHeader(k) PROVE Accounted
  <2>1. ~Dead /\ ~Astray
        BY <1>p, NoHeader DEF Dead
  <2> QED BY <2>1 DEF Following, Aligned
<1>n. ASSUME pc = "process", NEW k \in 1..Len(script), AtHeader(k), Accounted PROVE k = rec + 1
  <2>1. pos = RecEnd + HeaderLen
        BY <1>n DEF Accounted, Counts
  <2> QED BY <1>n, <2>1, NextHeader DEF History
<1>1. CASE RecordsAlone
      BY <1>1, TurnsStay DEF RecordsAlone
<1>2. CASE Fill_ReadEnd
  <2>1. UNCHANGED <<script, requestId, begin, rec>>
        BY <1>2 DEF Fill_ReadEnd
  <2>2. Serving' = Serving
        BY <1>2 DEF Fill_ReadEnd, FillError, Serving, Calls, Loop, TypeOK, Readers
  <2>3. ~failed' => ~failed
        BY <1>2 DEF Fill_ReadEnd, FillError
  <2> QED BY <2>1, <2>2, <2>3, TurnsStay
<1>3. CASE Header_Misread
  <2>1. pc = "process" /\ \A k \in 1..Len(script) : ~AtHeader(k)
        BY <1>3 DEF Header_Misread
  <2>2. UNCHANGED <<script, requestId, begin, rec>> /\ Serving' = Serving /\ (~failed' => ~failed)
        BY <1>3 DEF Header_Misread, FillError, Serving, Calls, TypeOK, Readers
  <2> QED BY <2>2, TurnsStay
<1>4. ASSUME NEW k \in 1..Len(script), Header_BadBegin(k) PROVE Turns' \/ ~ipcOpen'
  <2>1. /\ pc = "process" /\ AtHeader(k) /\ rec' = k /\ UNCHANGED <<script, requestId, begin>>
        BY <1>4 DEF Header_BadBegin, LoadHeader
  <2>2. Serving' = Serving /\ (~failed' => ~failed)
        BY <1>4 DEF Header_BadBegin, FillError, Serving, Calls, TypeOK, Readers
  <2>3. Accounted
        BY <2>1, <1>p
  <2>4. k = rec + 1
        BY <2>1, <2>3, <1>n
  <2>5. ~GoodBegin(k)
        BY <1>4 DEF Header_BadBegin, GoodBegin, IsBegin
  <2> QED BY <2>1, <2>2, <2>4, <2>5, TurnsOn
<1>5. ASSUME NEW k \in 1..Len(script), Header_Multiplexed(k) PROVE Turns' \/ ~ipcOpen'
  <2>1. /\ pc = "process" /\ AtHeader(k) /\ rec' = k /\ UNCHANGED <<script, requestId, begin>>
        BY <1>5 DEF Header_Multiplexed, LoadHeader
  <2>2. Serving' = Serving /\ (~failed' => ~failed)
        BY <1>5 DEF Header_Multiplexed, Serving, Calls, TypeOK, Readers
  <2>3. Accounted
        BY <2>1, <1>p
  <2>4. k = rec + 1
        BY <2>1, <2>3, <1>n
  <2>5. script[k].id # requestId /\ requestId = Owner(script)
    <3>1. GoodBegin(k) /\ isBeginProcessed
          BY <1>5 DEF Header_Multiplexed
    <3>2. requestId = Owner(script)
          BY <2>1, <3>1 DEF Turns, Serving
    <3> QED BY <2>1, <2>3, <3>1, <3>2, NoReuse DEF Good
  <2> QED BY <2>1, <2>2, <2>4, <2>5, TurnsOn
<1>6. ASSUME NEW k \in 1..Len(script), Header_Begin(k) PROVE Turns' \/ ~ipcOpen'
  <2>1. /\ pc = "process" /\ AtHeader(k) /\ rec' = k /\ begin' = k /\ requestId' = script[k].id
        /\ GoodBegin(k) /\ ~isBeginProcessed /\ UNCHANGED <<script, failed>>
        /\ ret' = "body" /\ pc' = "body"
        BY <1>6 DEF Header_Begin, LoadHeader
  <2>2. k = rec + 1
        BY <2>1, <1>p, <1>n
  <2>3. ~failed /\ ~Serving
        BY <2>1 DEF Phases, Loop, Calls, Serving
  <2>4. Open = 0 /\ Open' = k /\ Serving'
        BY <2>1, <2>3 DEF Open, Serving
  <2>5. rec \in Nat /\ k - 1 = rec
        BY <2>2, ScriptRecords DEF TypeOK
  <2>6. ASSUME NEW b \in 1..rec, GoodBegin(b), script[b].id = Owner(script)
        PROVE  \E e \in b..rec : EndsInput(script, b, e)
    <3>1. b # 0
          BY <2>5
    <3> QED BY <2>3, <2>4, <2>6, <3>1 DEF Turns
  <2>7. script[k].id = Owner(script)
    <3>1. ASSUME script[k].id # Owner(script) PROVE FALSE
      <4>1. SupportedScript(script)
            BY DEF Good, Supported, SupportedScripts
      <4>2. PICK b \in 1..(k - 1) : /\ IsBegin(script[b]) /\ script[b].id = Owner(script)
                                    /\ \A e \in b..(k - 1) : ~EndsInput(script, b, e)
            BY <2>1, <3>1, <4>1 DEF SupportedScript, GoodBegin
      <4>3. b \in 1..rec /\ GoodBegin(b) /\ \A e \in b..rec : ~EndsInput(script, b, e)
            BY <2>5, <4>2 DEF GoodBegin
      <4> QED BY <2>6, <4>2, <4>3
    <3> QED BY <3>1
  <2>8. (k + 1)..k = {}
        BY <2>2, <2>5
  <2>9. ASSUME NEW b \in 1..k, GoodBegin(b), script[b].id = Owner(script), b # k
        PROVE  \E e \in b..k : EndsInput(script, b, e)
    <3>1. b \in 1..rec
          BY <2>2, <2>5, <2>9
    <3>2. PICK e \in b..rec : EndsInput(script, b, e)
          BY <2>6, <2>9, <3>1
    <3>3. e \in b..k
          BY <2>2, <2>5
    <3> QED BY <3>2, <3>3
  <2> QED BY <2>1, <2>4, <2>7, <2>8, <2>9 DEF Turns, GoodBegin
<1>7. ASSUME NEW k \in 1..Len(script), Header_GetValues(k) PROVE Turns' \/ ~ipcOpen'
  <2>1. /\ pc = "process" /\ AtHeader(k) /\ rec' = k /\ UNCHANGED <<script, requestId, begin>>
        BY <1>7 DEF Header_GetValues, LoadHeader
  <2>2. Serving' = Serving /\ (~failed' => ~failed)
        BY <1>7 DEF Header_GetValues, Serving, Calls, TypeOK, Readers
  <2>3. Accounted
        BY <2>1, <1>p
  <2>4. k = rec + 1
        BY <2>1, <2>3, <1>n
  <2>5. ~GoodBegin(k)
        BY <1>7 DEF Header_GetValues, GoodBegin, IsBegin, IsManagement
  <2> QED BY <2>1, <2>2, <2>4, <2>5, TurnsOn
<1>8. ASSUME NEW k \in 1..Len(script), Header_UnknownManagement(k) PROVE Turns' \/ ~ipcOpen'
  <2>1. /\ pc = "process" /\ AtHeader(k) /\ rec' = k /\ UNCHANGED <<script, requestId, begin>>
        BY <1>8 DEF Header_UnknownManagement, LoadHeader
  <2>2. Serving' = Serving /\ (~failed' => ~failed)
        BY <1>8 DEF Header_UnknownManagement, Serving, Calls, TypeOK, Readers
  <2>3. Accounted
        BY <2>1, <1>p
  <2>4. k = rec + 1
        BY <2>1, <2>3, <1>n
  <2>5. ~GoodBegin(k)
        BY <1>8 DEF Header_UnknownManagement, GoodBegin, IsBegin, IsManagement
  <2> QED BY <2>1, <2>2, <2>4, <2>5, TurnsOn
<1>9. ASSUME NEW k \in 1..Len(script), Header_ReplyFails(k) PROVE Turns' \/ ~ipcOpen'
  <2>1. /\ pc = "process" /\ AtHeader(k) /\ rec' = k /\ UNCHANGED <<script, requestId, begin>>
        BY <1>9 DEF Header_ReplyFails, LoadHeader
  <2>2. Serving' = Serving /\ (~failed' => ~failed)
        BY <1>9 DEF Header_ReplyFails, FillError, Serving, Calls, TypeOK, Readers
  <2>3. Accounted
        BY <2>1, <1>p
  <2>4. k = rec + 1
        BY <2>1, <2>3, <1>n
  <2>5. failed' /\ ~(GoodBegin(k) /\ script[k].id = requestId)
    <3>1. failed' /\ (GoodBegin(k) => isBeginProcessed)
          BY <1>9 DEF Header_ReplyFails, FillError, GoodBegin, IsBegin, IsManagement
    <3> QED BY <2>1, <2>3, <3>1, NoReuse DEF Good
  <2> QED BY <2>1, <2>2, <2>4, <2>5, TurnsOn
<1>10. ASSUME NEW k \in 1..Len(script), Header_OtherRequest(k) PROVE Turns' \/ ~ipcOpen'
  <2>1. /\ pc = "process" /\ AtHeader(k) /\ rec' = k /\ UNCHANGED <<script, requestId, begin>>
        BY <1>10 DEF Header_OtherRequest, LoadHeader
  <2>2. Serving' = Serving /\ (~failed' => ~failed)
        BY <1>10 DEF Header_OtherRequest, Serving, Calls, TypeOK, Readers
  <2>3. Accounted
        BY <2>1, <1>p
  <2>4. k = rec + 1
        BY <2>1, <2>3, <1>n
  <2>5. ~GoodBegin(k)
        BY <1>10 DEF Header_OtherRequest, GoodBegin, IsBegin, IsStream
  <2> QED BY <2>1, <2>2, <2>4, <2>5, TurnsOn
<1>11. ASSUME NEW k \in 1..Len(script), Header_WrongType(k) PROVE Turns' \/ ~ipcOpen'
  <2>1. /\ pc = "process" /\ AtHeader(k) /\ rec' = k /\ UNCHANGED <<script, requestId, begin>>
        BY <1>11 DEF Header_WrongType, LoadHeader
  <2>2. Serving' = Serving /\ (~failed' => ~failed)
        BY <1>11 DEF Header_WrongType, FillError, Serving, Calls, TypeOK, Readers
  <2>3. Accounted
        BY <2>1, <1>p
  <2>4. k = rec + 1
        BY <2>1, <2>3, <1>n
  <2>5. ~GoodBegin(k)
        BY <1>11 DEF Header_WrongType, GoodBegin, IsBegin, IsStream
  <2> QED BY <2>1, <2>2, <2>4, <2>5, TurnsOn
<1>12. ASSUME NEW k \in 1..Len(script), Header_Stream(k) PROVE Turns' \/ ~ipcOpen'
  <2>1. /\ pc = "process" /\ AtHeader(k) /\ rec' = k /\ UNCHANGED <<script, requestId, begin>>
        BY <1>12 DEF Header_Stream, LoadHeader
  <2>2. Serving' = Serving /\ (~failed' => ~failed)
        BY <1>12 DEF Header_Stream, Serving, Calls, TypeOK, Readers
  <2>3. Accounted
        BY <2>1, <1>p
  <2>4. k = rec + 1
        BY <2>1, <2>3, <1>n
  <2>5. ~GoodBegin(k)
        BY <1>12 DEF Header_Stream, GoodBegin, IsBegin, IsStream
  <2> QED BY <2>1, <2>2, <2>4, <2>5, TurnsOn
<1>13. CASE Body_Short
  <2>1. failed' /\ ret' = outer /\ isBeginProcessed' = isBeginProcessed /\ pc = "body"
        BY <1>13 DEF Body_Short
  <2>2. ~isBeginProcessed /\ outer # "body"
        BY <2>1 DEF Calls, Phases, Caller, Loop
  <2>3. ~Serving'
        BY <2>1, <2>2 DEF Serving
  <2> QED BY <2>1, <2>3 DEF Turns
<1>14. CASE Values_Answer
  <2>1. UNCHANGED <<script, requestId, begin, rec>>
        BY <1>14 DEF Values_Answer
  <2>2. Serving' = Serving
        BY <1>14 DEF Values_Answer, Serving, Calls, Loop, TypeOK, Readers
  <2>3. ~failed' => ~failed
        BY <1>14 DEF Values_Answer
  <2> QED BY <2>1, <2>2, <2>3, TurnsStay
<1>15. CASE Values_Fail
  <2>1. UNCHANGED <<script, requestId, begin, rec>>
        BY <1>15 DEF Values_Fail
  <2>2. Serving' = Serving
        BY <1>15 DEF Values_Fail, Serving, Calls, Loop, TypeOK, Readers
  <2>3. ~failed' => ~failed
        BY <1>15 DEF Values_Fail
  <2> QED BY <2>1, <2>2, <2>3, TurnsStay
<1>16. ASSUME NEW s \in Scripts, Accept_New(s) PROVE Turns' \/ ~ipcOpen'
      BY <1>16 DEF Accept_New
<1>17. CASE Accept_Kept
  <2>1. pc = "accept" /\ UNCHANGED <<script, rec>> /\ ~isBeginProcessed' /\ ret' = "accepted"
        BY <1>17 DEF Accept_Kept
  <2>2. ~failed /\ ~Serving /\ ~Serving'
        BY <2>1 DEF Phases, Serving
  <2>3. Open = 0 /\ Open' = 0
        BY <2>2 DEF Open
  <2> QED BY <2>1, <2>2, <2>3 DEF Turns, GoodBegin
<1>18. CASE Accepted_Refuse
      BY <1>18 DEF Accepted_Refuse, TryAgain
<1>19. CASE Params_Take
  <2>1. UNCHANGED <<script, requestId, begin, rec>>
        BY <1>19 DEF Params_Take
  <2>2. Serving' = Serving
        BY <1>19 DEF Params_Take, Serving, Calls, Loop, TypeOK, Readers
  <2>3. ~failed' => ~failed
        BY <1>19 DEF Params_Take
  <2> QED BY <2>1, <2>2, <2>3, TurnsStay
<1>20. CASE Params_Error
      BY <1>20 DEF Params_Error, TryAgain
<1>21. CASE FCGX_UnGetChar
  <2>1. UNCHANGED <<script, requestId, begin, rec>>
        BY <1>21 DEF FCGX_UnGetChar
  <2>2. Serving' = Serving
        BY <1>21 DEF FCGX_UnGetChar, Serving, Calls, Loop, TypeOK, Readers
  <2>3. ~failed' => ~failed
        BY <1>21 DEF FCGX_UnGetChar
  <2> QED BY <2>1, <2>2, <2>3, TurnsStay
<1>22. CASE FCGX_ClearError
      BY <1>22 DEF FCGX_ClearError, Good
<1>23. CASE FCGX_Finish_r
  <2>1. /\ pc = "app" /\ pc' = "accept" /\ (ipcOpen' = (keepConnection /\ ~failed) \/ ipcOpen' = FALSE)
        /\ UNCHANGED <<script, rec, begin, failed>>
        BY <1>23 DEF FCGX_Finish_r
  <2>2. CASE ~ipcOpen'
        BY <2>2
  <2>3. CASE ipcOpen'
    <3>1. keepConnection /\ ~failed
          BY <2>1, <2>3
    <3>2. Drained
          BY <1>23, <3>1 DEF FCGX_Finish_r, Good
    <3>3. Aligned
          BY <3>1 DEF Following, Dead, Astray
    <3>4. begin \in 1..rec /\ EndsInput(script, begin, rec)
          BY <2>1, <3>1, <3>2, <3>3, InputEnded
    <3>5. rec \in begin..rec
          BY <3>4, ScriptRecords DEF TypeOK
    <3>6. Open = begin /\ ~Serving' /\ Open' = 0
      <4>1. isBeginProcessed
            BY <2>1 DEF Phases, Calls, Caller, Loop
      <4> QED BY <2>1, <4>1 DEF Open, Serving
    <3>7. ASSUME NEW b \in 1..rec, GoodBegin(b), script[b].id = Owner(script)
          PROVE  \E e \in b..rec : EndsInput(script, b, e)
      <4>1. CASE b = begin
            BY <3>4, <3>5, <4>1
      <4>2. CASE b # begin
            BY <3>1, <3>6, <3>7, <4>2 DEF Turns
      <4> QED BY <4>1, <4>2
    <3> QED BY <2>1, <3>6, <3>7 DEF Turns, GoodBegin
  <2> QED BY <2>2, <2>3
<1>24. CASE GetStr_Move
  <2>1. UNCHANGED <<script, requestId, begin, rec>>
        BY <1>24 DEF GetStr_Move
  <2>2. Serving' = Serving
        BY <1>24 DEF GetStr_Move, Serving, Calls, Loop, TypeOK, Readers
  <2>3. ~failed' => ~failed
        BY <1>24 DEF GetStr_Move
  <2> QED BY <2>1, <2>2, <2>3, TurnsStay
<1> QED BY <1>1, <1>2, <1>3, <1>4, <1>5, <1>6, <1>7, <1>8, <1>9, <1>10, <1>11, <1>12, <1>13,
   <1>14, <1>15, <1>16, <1>17, <1>18, <1>19, <1>20, <1>21, <1>22, <1>23, <1>24, RecordsLeftAlone
   DEF RecordsTouched

\* The requests on the connection are those of its owner.
LEMMA OwnedNext ==
    ASSUME Control, History, Following, Owned, [Next]_vars PROVE Owned'
<1>1. TypeOK /\ Buffer /\ Calls /\ Phases /\ Body
      BY DEF Control
<1> SUFFICES ASSUME Good', ipcOpen' PROVE Turns'
      BY DEF Owned
<1>2. ASSUME NEW s \in Scripts, Accept_New(s) PROVE Turns'
  <2>1. rec' = 0 /\ ~isBeginProcessed' /\ ret' = "accepted"
        BY <1>2 DEF Accept_New
  <2>2. ~Serving' /\ 1..0 = {}
        BY <2>1 DEF Serving
  <2> QED BY <2>1, <2>2 DEF Turns
<1>3. CASE ~\E s \in Scripts : Accept_New(s)
  <2>1. careful' = careful /\ script' = script /\ (ipcOpen' => ipcOpen)
        BY <1>1, <1>3, SameServer
  <2>2. Good /\ ipcOpen
        BY <2>1 DEF Good, Supported, SupportedScripts
  <2>3. Turns
        BY <2>2 DEF Owned
  <2> QED BY <1>1, <2>2, <2>3, TurnsNext
<1> QED BY <1>2, <1>3

\* As long as no record is read, what is settled stays so.
LEMMA AnsweringStays ==
    ASSUME UNCHANGED <<script, rec>>, begin' \in {0, begin}, AnsweredRecs \subseteq AnsweredRecs',
           ret = "values" => ret' = "values" \/ rec \in AnsweredRecs', Answering
    PROVE  Answering'
<1>1. \A k : NeedsAnswer(k)' => NeedsAnswer(k)
      BY DEF NeedsAnswer, GoodBegin
<1>2. \A k : Settled(k) => Settled(k)'
      BY DEF Settled
<1> QED BY <1>1, <1>2 DEF Answering

\* The next record is settled when it needs no answer, has it or is a query.
LEMMA AnsweringOn ==
    ASSUME TypeOK, NEW k \in 1..Len(script), k = rec + 1, rec' = k, script' = script, begin' \in {begin, k},
           ret # "values", AnsweredRecs \subseteq AnsweredRecs', Answering, NeedsAnswer(k)' => Settled(k)'
    PROVE  Answering'
<1>1. rec \in Nat /\ Len(script) \in Nat
      BY ScriptRecords DEF TypeOK
<1>2. ASSUME NEW j \in 1..k, NeedsAnswer(j)' PROVE Settled(j)'
  <2>1. CASE j = k
        BY <1>2, <2>1
  <2>2. CASE j # k
    <3>1. j \in 1..rec /\ ~(j > k)
          BY <1>1, <2>2
    <3>2. NeedsAnswer(j)
          BY <1>2, <3>1 DEF NeedsAnswer, GoodBegin
    <3>3. j \in AnsweredRecs
          BY <3>1, <3>2 DEF Answering, Settled
    <3> QED BY <3>3 DEF Settled
  <2> QED BY <2>1, <2>2
<1> QED BY <1>2 DEF Answering

\* A record is answered before the next one is looked at, as long as nothing fails.
LEMMA AnsweringNext ==
    ASSUME TypeOK, Buffer, Calls, Phases, History, Good, ipcOpen, Following, failed \/
           Answering, [Next]_vars
    PROVE  failed' \/ Answering' \/ ~ipcOpen'
<1> USE LengthsAssumption
<1>n. ASSUME pc = "process", NEW k \in 1..Len(script), AtHeader(k) PROVE k = rec + 1
  <2>1. ~Dead /\ ~Astray
        BY <1>n, NoHeader DEF Dead
  <2>2. pos = RecEnd + HeaderLen
        BY <1>n, <2>1 DEF Following, Aligned, Accounted, Counts
  <2> QED BY <1>n, <2>2, NextHeader DEF History
<1>1. CASE RecordsAlone
  <2>1. UNCHANGED <<script, rec>> /\ begin' \in {0, begin} /\ AnsweredRecs' = AnsweredRecs
        BY <1>1 DEF RecordsAlone, AnsweredRecs
  <2> QED BY <1>1, <2>1, AnsweringStays DEF RecordsAlone
<1>2. CASE Fill_ReadEnd
      BY <1>2 DEF Fill_ReadEnd, FillError
<1>3. CASE Header_Misread
      BY <1>3 DEF Header_Misread, FillError
<1>4. ASSUME NEW k \in 1..Len(script), Header_BadBegin(k) PROVE failed' \/ Answering' \/ ~ipcOpen'
      BY <1>4 DEF Header_BadBegin, FillError
<1>5. ASSUME NEW k \in 1..Len(script), Header_Multiplexed(k) PROVE failed' \/ Answering' \/ ~ipcOpen'
  <2>1. /\ pc = "process" /\ AtHeader(k) /\ rec' = k /\ script' = script /\ begin' \in {begin, k} /\ failed' = failed
        BY <1>5 DEF Header_Multiplexed, LoadHeader
  <2>2. k = rec + 1
        BY <2>1, <1>n
  <2>3. AnsweredRecs' = AnsweredRecs \cup {k}
    <3>1. k \in 0..Len(script) /\ Reply("cant_mpx", k)
          BY <1>5, ScriptRecords DEF Header_Multiplexed, TypeOK
    <3> QED BY <3>1, AnsweredMore
  <2>4. ret # "values"
        BY <2>1 DEF Calls
  <2>5. Settled(k)'
        BY <2>3 DEF Settled
  <2> QED BY <2>1, <2>2, <2>3, <2>4, <2>5, AnsweringOn
<1>6. ASSUME NEW k \in 1..Len(script), Header_Begin(k) PROVE failed' \/ Answering' \/ ~ipcOpen'
  <2>1. /\ pc = "process" /\ AtHeader(k) /\ rec' = k /\ script' = script /\ begin' \in {begin, k} /\ failed' = failed
        BY <1>6 DEF Header_Begin, LoadHeader
  <2>2. k = rec + 1
        BY <2>1, <1>n
  <2>3. AnsweredRecs' = AnsweredRecs
        BY <1>6 DEF Header_Begin, AnsweredRecs
  <2>4. ret # "values"
        BY <2>1 DEF Calls
  <2>5. ~NeedsAnswer(k)'
    <3>1. k \in Nat /\ begin' = k /\ script' = script /\ script[k].type = "begin"
          BY <1>6, ScriptRecords DEF Header_Begin, GoodBegin, IsBegin, TypeOK
    <3> QED BY <3>1 DEF NeedsAnswer, IsManagement
  <2> QED BY <2>1, <2>2, <2>3, <2>4, <2>5, AnsweringOn
<1>7. ASSUME NEW k \in 1..Len(script), Header_GetValues(k) PROVE failed' \/ Answering' \/ ~ipcOpen'
  <2>1. /\ pc = "process" /\ AtHeader(k) /\ rec' = k /\ script' = script /\ begin' \in {begin, k} /\ failed' = failed
        BY <1>7 DEF Header_GetValues, LoadHeader
  <2>2. k = rec + 1
        BY <2>1, <1>n
  <2>3. AnsweredRecs' = AnsweredRecs
        BY <1>7 DEF Header_GetValues, AnsweredRecs
  <2>4. ret # "values"
        BY <2>1 DEF Calls
  <2>5. Settled(k)'
        BY <1>7, <2>1 DEF Header_GetValues, Settled
  <2> QED BY <2>1, <2>2, <2>3, <2>4, <2>5, AnsweringOn
<1>8. ASSUME NEW k \in 1..Len(script), Header_UnknownManagement(k) PROVE failed' \/ Answering' \/ ~ipcOpen'
  <2>1. /\ pc = "process" /\ AtHeader(k) /\ rec' = k /\ script' = script /\ begin' \in {begin, k} /\ failed' = failed
        BY <1>8 DEF Header_UnknownManagement, LoadHeader
  <2>2. k = rec + 1
        BY <2>1, <1>n
  <2>3. AnsweredRecs' = AnsweredRecs \cup {k}
    <3>1. k \in 0..Len(script) /\ Reply("unknown_type", k)
          BY <1>8, ScriptRecords DEF Header_UnknownManagement, TypeOK
    <3> QED BY <3>1, AnsweredMore
  <2>4. ret # "values"
        BY <2>1 DEF Calls
  <2>5. Settled(k)'
        BY <2>3 DEF Settled
  <2> QED BY <2>1, <2>2, <2>3, <2>4, <2>5, AnsweringOn
<1>9. ASSUME NEW k \in 1..Len(script), Header_ReplyFails(k) PROVE failed' \/ Answering' \/ ~ipcOpen'
      BY <1>9 DEF Header_ReplyFails, FillError
<1>10. ASSUME NEW k \in 1..Len(script), Header_OtherRequest(k) PROVE failed' \/ Answering' \/ ~ipcOpen'
  <2>1. /\ pc = "process" /\ AtHeader(k) /\ rec' = k /\ script' = script /\ begin' \in {begin, k} /\ failed' = failed
        BY <1>10 DEF Header_OtherRequest, LoadHeader
  <2>2. k = rec + 1
        BY <2>1, <1>n
  <2>3. AnsweredRecs' = AnsweredRecs
        BY <1>10 DEF Header_OtherRequest, AnsweredRecs
  <2>4. ret # "values"
        BY <2>1 DEF Calls
  <2>5. ~NeedsAnswer(k)'
        BY <1>10, <2>1 DEF Header_OtherRequest, IsStream, NeedsAnswer, IsManagement, GoodBegin,
          IsBegin
  <2> QED BY <2>1, <2>2, <2>3, <2>4, <2>5, AnsweringOn
<1>11. ASSUME NEW k \in 1..Len(script), Header_WrongType(k) PROVE failed' \/ Answering' \/ ~ipcOpen'
      BY <1>11 DEF Header_WrongType, FillError
<1>12. ASSUME NEW k \in 1..Len(script), Header_Stream(k) PROVE failed' \/ Answering' \/ ~ipcOpen'
  <2>1. /\ pc = "process" /\ AtHeader(k) /\ rec' = k /\ script' = script /\ begin' \in {begin, k} /\ failed' = failed
        BY <1>12 DEF Header_Stream, LoadHeader
  <2>2. k = rec + 1
        BY <2>1, <1>n
  <2>3. AnsweredRecs' = AnsweredRecs
        BY <1>12 DEF Header_Stream, AnsweredRecs
  <2>4. ret # "values"
        BY <2>1 DEF Calls
  <2>5. ~NeedsAnswer(k)'
        BY <1>12, <2>1 DEF Header_Stream, IsStream, NeedsAnswer, IsManagement, GoodBegin, IsBegin
  <2> QED BY <2>1, <2>2, <2>3, <2>4, <2>5, AnsweringOn
<1>13. CASE Body_Short
      BY <1>13 DEF Body_Short
<1>14. CASE Values_Answer
  <2>1. UNCHANGED <<script, rec>> /\ begin' \in {0, begin}
        BY <1>14 DEF Values_Answer
  <2>2. AnsweredRecs' = AnsweredRecs \cup {rec}
    <3>1. rec \in 0..Len(script) /\ Reply("values", rec)
          BY <1>14, ScriptRecords DEF Values_Answer, TypeOK
    <3> QED BY <3>1, AnsweredMore
  <2>3. ret = "values" => ret' = "values" \/ rec \in AnsweredRecs'
        BY <1>14, <2>2 DEF Values_Answer, Calls, Loop, Readers, TypeOK
  <2>4. ~failed' => ~failed
        BY <1>14 DEF Values_Answer
  <2> QED BY <2>1, <2>2, <2>3, <2>4, AnsweringStays
<1>15. CASE Values_Fail
      BY <1>15 DEF Values_Fail
<1>16. ASSUME NEW s \in Scripts, Accept_New(s) PROVE failed' \/ Answering' \/ ~ipcOpen'
      BY <1>16 DEF Accept_New
<1>17. CASE Accept_Kept
  <2>1. UNCHANGED <<script, rec>> /\ begin' \in {0, begin}
        BY <1>17 DEF Accept_Kept
  <2>2. AnsweredRecs' = AnsweredRecs
        BY <1>17 DEF Accept_Kept, AnsweredRecs
  <2>3. ret = "values" => ret' = "values" \/ rec \in AnsweredRecs'
        BY <1>17, <2>2 DEF Accept_Kept, Calls, Loop, Readers, TypeOK
  <2>4. ~failed' => ~failed
        BY <1>17 DEF Accept_Kept, Phases
  <2> QED BY <2>1, <2>2, <2>3, <2>4, AnsweringStays
<1>18. CASE Accepted_Refuse
      BY <1>18 DEF Accepted_Refuse, TryAgain
<1>19. CASE Params_Take
  <2>1. UNCHANGED <<script, rec>> /\ begin' \in {0, begin}
        BY <1>19 DEF Params_Take
  <2>2. AnsweredRecs' = AnsweredRecs
        BY <1>19 DEF Params_Take, AnsweredRecs
  <2>3. ret = "values" => ret' = "values" \/ rec \in AnsweredRecs'
        BY <1>19, <2>2 DEF Params_Take, Calls, Loop, Readers, TypeOK
  <2>4. ~failed' => ~failed
        BY <1>19 DEF Params_Take
  <2> QED BY <2>1, <2>2, <2>3, <2>4, AnsweringStays
<1>20. CASE Params_Error
      BY <1>20 DEF Params_Error, TryAgain
<1>21. CASE FCGX_UnGetChar
  <2>1. UNCHANGED <<script, rec>> /\ begin' \in {0, begin}
        BY <1>21 DEF FCGX_UnGetChar
  <2>2. AnsweredRecs' = AnsweredRecs
        BY <1>21 DEF FCGX_UnGetChar, AnsweredRecs
  <2>3. ret = "values" => ret' = "values" \/ rec \in AnsweredRecs'
        BY <1>21, <2>2 DEF FCGX_UnGetChar, Calls, Loop, Readers, TypeOK
  <2>4. ~failed' => ~failed
        BY <1>21 DEF FCGX_UnGetChar
  <2> QED BY <2>1, <2>2, <2>3, <2>4, AnsweringStays
<1>22. CASE FCGX_ClearError
      BY <1>22 DEF FCGX_ClearError, Good
<1>23. CASE FCGX_Finish_r
  <2>1. UNCHANGED <<script, rec>> /\ begin' \in {0, begin}
        BY <1>23 DEF FCGX_Finish_r
  <2>2. AnsweredRecs' = AnsweredRecs \cup {begin}
    <3>1. begin \in 0..Len(script) /\ Reply("end", begin)
          BY <1>23, ScriptRecords DEF FCGX_Finish_r, TypeOK
    <3> QED BY <3>1, AnsweredMore
  <2>3. ret = "values" => ret' = "values" \/ rec \in AnsweredRecs'
        BY <1>23, <2>2 DEF FCGX_Finish_r, Calls, Loop, Readers, TypeOK
  <2>4. ~failed' => ~failed
        BY <1>23 DEF FCGX_Finish_r
  <2> QED BY <2>1, <2>2, <2>3, <2>4, AnsweringStays
<1>24. CASE GetStr_Move
  <2>1. UNCHANGED <<script, rec>> /\ begin' \in {0, begin}
        BY <1>24 DEF GetStr_Move
  <2>2. AnsweredRecs' = AnsweredRecs
        BY <1>24 DEF GetStr_Move, AnsweredRecs
  <2>3. ret = "values" => ret' = "values" \/ rec \in AnsweredRecs'
        BY <1>24, <2>2 DEF GetStr_Move, Calls, Loop, Readers, TypeOK
  <2>4. ~failed' => ~failed
        BY <1>24 DEF GetStr_Move
  <2> QED BY <2>1, <2>2, <2>3, <2>4, AnsweringStays
<1> QED BY <1>1, <1>2, <1>3, <1>4, <1>5, <1>6, <1>7, <1>8, <1>9, <1>10, <1>11, <1>12, <1>13,
   <1>14, <1>15, <1>16, <1>17, <1>18, <1>19, <1>20, <1>21, <1>22, <1>23, <1>24, RecordsLeftAlone
   DEF RecordsTouched

\* Every record that calls for an answer has it.
LEMMA AllAnsweredNext ==
    ASSUME Control, History, Following, AllAnswered, [Next]_vars PROVE AllAnswered'
<1>1. TypeOK /\ Buffer /\ Calls /\ Phases /\ Body
      BY DEF Control
<1> SUFFICES ASSUME Good', ipcOpen' PROVE failed' \/ Answering'
      BY DEF AllAnswered
<1>2. ASSUME NEW s \in Scripts, Accept_New(s) PROVE Answering'
  <2>1. rec' = 0 /\ 1..0 = {}
        BY <1>2 DEF Accept_New
  <2> QED BY <2>1 DEF Answering
<1>3. CASE ~\E s \in Scripts : Accept_New(s)
  <2>1. careful' = careful /\ script' = script /\ (ipcOpen' => ipcOpen)
        BY <1>1, <1>3, SameServer
  <2>2. Good /\ ipcOpen
        BY <2>1 DEF Good, Supported, SupportedScripts
  <2>3. failed \/ Answering
        BY <2>2 DEF AllAnswered
  <2> QED BY <1>1, <2>2, <2>3, AnsweringNext
<1> QED BY <1>2, <1>3

\* A server that has gone does not come back on the connection.
LEMMA ServerStays ==
    ASSUME [Next]_vars, ~\E s \in Scripts : Accept_New(s)
    PROVE  srvOpen' => srvOpen
<1> USE LengthsAssumption
<1>1. CASE UNCHANGED vars
      BY <1>1 DEF vars
<1>2. CASE ServerSend
      BY <1>2 DEF ServerSend
<1>3. CASE ServerCrash
      BY <1>3 DEF ServerCrash
<1>4. CASE Fill_Read
      BY <1>4 DEF Fill_Read
<1>5. CASE Fill_ReadEnd
      BY <1>5 DEF Fill_ReadEnd
<1>6. CASE Fill_NotEmpty
      BY <1>6 DEF Fill_NotEmpty
<1>7. CASE Fill_Deliver
      BY <1>7 DEF Fill_Deliver
<1>8. CASE Fill_Skip
      BY <1>8 DEF Fill_Skip
<1>9. CASE Fill_NoContent
      BY <1>9 DEF Fill_NoContent
<1>10. CASE Fill_Padding
      BY <1>10 DEF Fill_Padding
<1>11. CASE Fill_EndOfRecord
      BY <1>11 DEF Fill_EndOfRecord
<1>12. CASE Fill_Header
      BY <1>12 DEF Fill_Header
<1>13. CASE Header_Misread
      BY <1>13 DEF Header_Misread
<1>14. ASSUME NEW k \in 1..Len(script), Header_BadBegin(k) PROVE srvOpen' => srvOpen
      BY <1>14 DEF Header_BadBegin
<1>15. ASSUME NEW k \in 1..Len(script), Header_Multiplexed(k) PROVE srvOpen' => srvOpen
      BY <1>15 DEF Header_Multiplexed
<1>16. ASSUME NEW k \in 1..Len(script), Header_Begin(k) PROVE srvOpen' => srvOpen
      BY <1>16 DEF Header_Begin
<1>17. ASSUME NEW k \in 1..Len(script), Header_GetValues(k) PROVE srvOpen' => srvOpen
      BY <1>17 DEF Header_GetValues
<1>18. ASSUME NEW k \in 1..Len(script), Header_UnknownManagement(k) PROVE srvOpen' => srvOpen
      BY <1>18 DEF Header_UnknownManagement
<1>19. ASSUME NEW k \in 1..Len(script), Header_ReplyFails(k) PROVE srvOpen' => srvOpen
      BY <1>19 DEF Header_ReplyFails
<1>20. ASSUME NEW k \in 1..Len(script), Header_OtherRequest(k) PROVE srvOpen' => srvOpen
      BY <1>20 DEF Header_OtherRequest
<1>21. ASSUME NEW k \in 1..Len(script), Header_WrongType(k) PROVE srvOpen' => srvOpen
      BY <1>21 DEF Header_WrongType
<1>22. ASSUME NEW k \in 1..Len(script), Header_Stream(k) PROVE srvOpen' => srvOpen
      BY <1>22 DEF Header_Stream
<1>23. CASE Body_Complete
      BY <1>23 DEF Body_Complete
<1>24. CASE Body_More
      BY <1>24 DEF Body_More
<1>25. CASE Body_Short
      BY <1>25 DEF Body_Short
<1>26. CASE Values_Take
      BY <1>26 DEF Values_Take
<1>27. CASE Values_More
      BY <1>27 DEF Values_More
<1>28. CASE Values_Answer
      BY <1>28 DEF Values_Answer
<1>29. CASE Values_Fail
      BY <1>29 DEF Values_Fail
<1>30. ASSUME NEW s \in Scripts, Accept_New(s) PROVE srvOpen' => srvOpen
      BY <1>30
<1>31. CASE Accept_Kept
      BY <1>31 DEF Accept_Kept
<1>32. CASE Accepted_Refuse
      BY <1>32 DEF Accepted_Refuse, TryAgain
<1>33. CASE Accepted_Begin
      BY <1>33 DEF Accepted_Begin
<1>34. CASE Params_Take
      BY <1>34 DEF Params_Take
<1>35. CASE Params_More
      BY <1>35 DEF Params_More
<1>36. CASE Params_Error
      BY <1>36 DEF Params_Error, TryAgain
<1>37. CASE Params_Complete
      BY <1>37 DEF Params_Complete
<1>38. ASSUME NEW n \in 1..MaxGet, FCGX_GetStr(n) PROVE srvOpen' => srvOpen
      BY <1>38 DEF FCGX_GetStr
<1>39. CASE FCGX_UnGetChar
      BY <1>39 DEF FCGX_UnGetChar
<1>40. CASE FCGX_StartFilterData
      BY <1>40 DEF FCGX_StartFilterData
<1>41. CASE FCGX_FClose
      BY <1>41 DEF FCGX_FClose
<1>42. CASE FCGX_ClearError
      BY <1>42 DEF FCGX_ClearError
<1>43. CASE FCGX_Finish_r
      BY <1>43 DEF FCGX_Finish_r
<1>44. CASE GetStr_Move
      BY <1>44 DEF GetStr_Move
<1> QED BY <1>1, <1>2, <1>3, <1>4, <1>5, <1>6, <1>7, <1>8, <1>9, <1>10, <1>11, <1>12, <1>13,
   <1>14, <1>15, <1>16, <1>17, <1>18, <1>19, <1>20, <1>21, <1>22, <1>23, <1>24, <1>25,
   <1>26, <1>27, <1>28, <1>29, <1>30, <1>31, <1>32, <1>33, <1>34, <1>35, <1>36, <1>37,
   <1>38, <1>39, <1>40, <1>41, <1>42, <1>43, <1>44 DEF Next, Server, FillBuffProc,
   ProcessHeader, ReadBody, FCGX_Accept_r, App, Library

\* As long as no record is read, queries that have been answered stay so.
LEMMA AskedStays ==
    ASSUME UNCHANGED <<script, rec>>, AnsweredRecs \subseteq AnsweredRecs',
           ret = "values" => ret' = "values" \/ rec \in AnsweredRecs', Asked
    PROVE  Asked'
<1>1. \A k : Query(k)' => Query(k)
      BY DEF Query
<1>2. \A k : Settled(k) => Settled(k)'
      BY DEF Settled
<1> QED BY <1>1, <1>2 DEF Asked

\* The next record is no query, or it is read before anything else.
LEMMA AskedOn ==
    ASSUME TypeOK, NEW k \in 1..Len(script), k = rec + 1, rec' = k, script' = script,
           ret # "values", AnsweredRecs \subseteq AnsweredRecs', Asked, Query(k) => Settled(k)'
    PROVE  Asked'
<1>1. rec \in Nat /\ Len(script) \in Nat
      BY ScriptRecords DEF TypeOK
<1>2. ASSUME NEW j \in 1..k, Query(j)' PROVE Settled(j)'
  <2>0. Query(j)
        BY <1>2 DEF Query
  <2>1. CASE j = k
        BY <2>0, <2>1
  <2>2. CASE j # k
    <3>1. j \in 1..rec
          BY <1>1, <2>2
    <3>2. j \in AnsweredRecs
          BY <2>0, <3>1 DEF Asked, Settled
    <3> QED BY <3>2 DEF Settled
  <2> QED BY <2>1, <2>2
<1> QED BY <1>2 DEF Asked

\* A query is answered before the next record is looked at, or the server has gone or the
\* reader is read no more.
LEMMA AskedNext ==
    ASSUME TypeOK, Buffer, Calls, Phases, History, Good, ipcOpen, srvOpen, ~Dead, Following,
           Asked, ret = "values" => Reading, [Next]_vars
    PROVE  Asked' \/ Dead' \/ ~srvOpen' \/ ~ipcOpen'
<1> USE LengthsAssumption
<1>n. ASSUME pc = "process", NEW k \in 1..Len(script), AtHeader(k) PROVE k = rec + 1
  <2>1. ~Astray
        BY <1>n, NoHeader
  <2>2. pos = RecEnd + HeaderLen
        BY <1>n, <2>1 DEF Following, Aligned, Accounted, Counts
  <2> QED BY <1>n, <2>2, NextHeader DEF History
<1>1. CASE RecordsAlone
  <2>1. UNCHANGED <<script, rec>> /\ AnsweredRecs' = AnsweredRecs
        BY <1>1 DEF RecordsAlone, AnsweredRecs
  <2> QED BY <1>1, <2>1, AskedStays DEF RecordsAlone
<1>2. CASE Fill_ReadEnd
  <2>1. UNCHANGED <<script, rec>>
        BY <1>2 DEF Fill_ReadEnd
  <2>2. AnsweredRecs' = AnsweredRecs
        BY <1>2 DEF Fill_ReadEnd, AnsweredRecs
  <2>3. ret = "values" => ret' = "values" \/ rec \in AnsweredRecs'
        BY <1>2, <2>2 DEF Fill_ReadEnd, Calls, Loop, Readers, TypeOK
  <2> QED BY <2>1, <2>2, <2>3, AskedStays
<1>3. CASE Header_Misread
  <2>1. UNCHANGED <<script, rec>>
        BY <1>3 DEF Header_Misread
  <2>2. AnsweredRecs' = AnsweredRecs
        BY <1>3 DEF Header_Misread, AnsweredRecs
  <2>3. ret = "values" => ret' = "values" \/ rec \in AnsweredRecs'
        BY <1>3, <2>2 DEF Header_Misread, Calls, Loop, Readers, TypeOK
  <2> QED BY <2>1, <2>2, <2>3, AskedStays
<1>4. ASSUME NEW k \in 1..Len(script), Header_BadBegin(k) PROVE Asked' \/ Dead' \/ ~srvOpen' \/ ~ipcOpen'
  <2>1. pc = "process" /\ AtHeader(k) /\ rec' = k /\ script' = script
        BY <1>4 DEF Header_BadBegin, LoadHeader
  <2>2. k = rec + 1
        BY <2>1, <1>n
  <2>3. AnsweredRecs' = AnsweredRecs
        BY <1>4 DEF Header_BadBegin, AnsweredRecs
  <2>4. ret # "values"
        BY <2>1 DEF Calls
  <2>5. ~Query(k)
        BY <1>4 DEF Header_BadBegin, IsStream, IsManagement, GoodBegin, IsBegin, Query
  <2> QED BY <2>1, <2>2, <2>3, <2>4, <2>5, AskedOn
<1>5. ASSUME NEW k \in 1..Len(script), Header_Multiplexed(k) PROVE Asked' \/ Dead' \/ ~srvOpen' \/ ~ipcOpen'
  <2>1. pc = "process" /\ AtHeader(k) /\ rec' = k /\ script' = script
        BY <1>5 DEF Header_Multiplexed, LoadHeader
  <2>2. k = rec + 1
        BY <2>1, <1>n
  <2>3. AnsweredRecs' = AnsweredRecs \cup {k}
    <3>1. k \in 0..Len(script) /\ Reply("cant_mpx", k)
          BY <1>5, ScriptRecords DEF Header_Multiplexed, TypeOK
    <3> QED BY <3>1, AnsweredMore
  <2>4. ret # "values"
        BY <2>1 DEF Calls
  <2>5. ~Query(k)
        BY <1>5 DEF Header_Multiplexed, IsStream, IsManagement, GoodBegin, IsBegin, Query
  <2> QED BY <2>1, <2>2, <2>3, <2>4, <2>5, AskedOn
<1>6. ASSUME NEW k \in 1..Len(script), Header_Begin(k) PROVE Asked' \/ Dead' \/ ~srvOpen' \/ ~ipcOpen'
  <2>1. pc = "process" /\ AtHeader(k) /\ rec' = k /\ script' = script
        BY <1>6 DEF Header_Begin, LoadHeader
  <2>2. k = rec + 1
        BY <2>1, <1>n
  <2>3. AnsweredRecs' = AnsweredRecs
        BY <1>6 DEF Header_Begin, AnsweredRecs
  <2>4. ret # "values"
        BY <2>1 DEF Calls
  <2>5. ~Query(k)
        BY <1>6 DEF Header_Begin, IsStream, IsManagement, GoodBegin, IsBegin, Query
  <2> QED BY <2>1, <2>2, <2>3, <2>4, <2>5, AskedOn
<1>7. ASSUME NEW k \in 1..Len(script), Header_GetValues(k) PROVE Asked' \/ Dead' \/ ~srvOpen' \/ ~ipcOpen'
  <2>1. pc = "process" /\ AtHeader(k) /\ rec' = k /\ script' = script
        BY <1>7 DEF Header_GetValues, LoadHeader
  <2>2. k = rec + 1
        BY <2>1, <1>n
  <2>3. AnsweredRecs' = AnsweredRecs
        BY <1>7 DEF Header_GetValues, AnsweredRecs
  <2>4. ret # "values"
        BY <2>1 DEF Calls
  <2>5. Settled(k)'
        BY <1>7, <2>1 DEF Header_GetValues, Settled
  <2> QED BY <2>1, <2>2, <2>3, <2>4, <2>5, AskedOn
<1>8. ASSUME NEW k \in 1..Len(script), Header_UnknownManagement(k) PROVE Asked' \/ Dead' \/ ~srvOpen' \/ ~ipcOpen'
  <2>1. pc = "process" /\ AtHeader(k) /\ rec' = k /\ script' = script
        BY <1>8 DEF Header_UnknownManagement, LoadHeader
  <2>2. k = rec + 1
        BY <2>1, <1>n
  <2>3. AnsweredRecs' = AnsweredRecs \cup {k}
    <3>1. k \in 0..Len(script) /\ Reply("unknown_type", k)
          BY <1>8, ScriptRecords DEF Header_UnknownManagement, TypeOK
    <3> QED BY <3>1, AnsweredMore
  <2>4. ret # "values"
        BY <2>1 DEF Calls
  <2>5. ~Query(k)
        BY <1>8 DEF Header_UnknownManagement, IsStream, IsManagement, GoodBegin, IsBegin, Query
  <2> QED BY <2>1, <2>2, <2>3, <2>4, <2>5, AskedOn
<1>9. ASSUME NEW k \in 1..Len(script), Header_ReplyFails(k) PROVE Asked' \/ Dead' \/ ~srvOpen' \/ ~ipcOpen'
      BY <1>9 DEF Header_ReplyFails
<1>10. ASSUME NEW k \in 1..Len(script), Header_OtherRequest(k) PROVE Asked' \/ Dead' \/ ~srvOpen' \/ ~ipcOpen'
  <2>1. pc = "process" /\ AtHeader(k) /\ rec' = k /\ script' = script
        BY <1>10 DEF Header_OtherRequest, LoadHeader
  <2>2. k = rec + 1
        BY <2>1, <1>n
  <2>3. AnsweredRecs' = AnsweredRecs
        BY <1>10 DEF Header_OtherRequest, AnsweredRecs
  <2>4. ret # "values"
        BY <2>1 DEF Calls
  <2>5. ~Query(k)
        BY <1>10 DEF Header_OtherRequest, IsStream, IsManagement, GoodBegin, IsBegin, Query
  <2> QED BY <2>1, <2>2, <2>3, <2>4, <2>5, AskedOn
<1>11. ASSUME NEW k \in 1..Len(script), Header_WrongType(k) PROVE Asked' \/ Dead' \/ ~srvOpen' \/ ~ipcOpen'
  <2>1. pc = "process" /\ AtHeader(k) /\ rec' = k /\ script' = script
        BY <1>11 DEF Header_WrongType, LoadHeader
  <2>2. k = rec + 1
        BY <2>1, <1>n
  <2>3. AnsweredRecs' = AnsweredRecs
        BY <1>11 DEF Header_WrongType, AnsweredRecs
  <2>4. ret # "values"
        BY <2>1 DEF Calls
  <2>5. ~Query(k)
        BY <1>11 DEF Header_WrongType, IsStream, IsManagement, GoodBegin, IsBegin, Query
  <2> QED BY <2>1, <2>2, <2>3, <2>4, <2>5, AskedOn
<1>12. ASSUME NEW k \in 1..Len(script), Header_Stream(k) PROVE Asked' \/ Dead' \/ ~srvOpen' \/ ~ipcOpen'
  <2>1. pc = "process" /\ AtHeader(k) /\ rec' = k /\ script' = script
        BY <1>12 DEF Header_Stream, LoadHeader
  <2>2. k = rec + 1
        BY <2>1, <1>n
  <2>3. AnsweredRecs' = AnsweredRecs
        BY <1>12 DEF Header_Stream, AnsweredRecs
  <2>4. ret # "values"
        BY <2>1 DEF Calls
  <2>5. ~Query(k)
        BY <1>12 DEF Header_Stream, IsStream, IsManagement, GoodBegin, IsBegin, Query
  <2> QED BY <2>1, <2>2, <2>3, <2>4, <2>5, AskedOn
<1>13. CASE Body_Short
  <2>1. UNCHANGED <<script, rec>>
        BY <1>13 DEF Body_Short
  <2>2. AnsweredRecs' = AnsweredRecs
        BY <1>13 DEF Body_Short, AnsweredRecs
  <2>3. ret = "values" => ret' = "values" \/ rec \in AnsweredRecs'
        BY <1>13, <2>2 DEF Body_Short, Calls, Loop, Readers, TypeOK
  <2> QED BY <2>1, <2>2, <2>3, AskedStays
<1>14. CASE Values_Answer
  <2>1. UNCHANGED <<script, rec>>
        BY <1>14 DEF Values_Answer
  <2>2. AnsweredRecs' = AnsweredRecs \cup {rec}
    <3>1. rec \in 0..Len(script) /\ Reply("values", rec)
          BY <1>14, ScriptRecords DEF Values_Answer, TypeOK
    <3> QED BY <3>1, AnsweredMore
  <2>3. ret = "values" => ret' = "values" \/ rec \in AnsweredRecs'
        BY <1>14, <2>2 DEF Values_Answer, Calls, Loop, Readers, TypeOK
  <2> QED BY <2>1, <2>2, <2>3, AskedStays
<1>15. CASE Values_Fail
  <2>1. /\ pc = "values" /\ isClosed /\ ~ValuesOK /\ isClosed' /\ failed' /\ pc' = outer
        /\ UNCHANGED <<script, rec, replies>>
        BY <1>15 DEF Values_Fail
  <2>2. ret = "values" /\ eorStop
        BY <2>1 DEF Calls
  <2>3. CASE outer \in {"accepted", "getstr"}
        BY <2>1, <2>3 DEF Dead
  <2>4. CASE outer = "params"
    <3>1. type = "params"
          BY <2>2, <2>4 DEF Phases, Caller
    <3>2. ~failed /\ contentLen = 0 /\ stop <= pos
          BY <2>1, <2>2, <3>1 DEF Reading
    <3>3. half["values"]
          BY <2>1, <3>2 DEF ValuesOK
    <3>4. half["values"] = ((script[rec].clen - contentLen - Ahead) % 2 = 1)
          BY <2>2, <3>3 DEF Reading
    <3>5. PICK n \in Nat : n = script[rec].clen
      <4>1. rec \in 1..Len(script)
            BY <2>2, ScriptRecords DEF History, Answers, TypeOK
      <4> QED BY <4>1, ScriptRecords DEF TypeOK
    <3>6. Ahead = 0
          BY <3>2 DEF Ahead, TypeOK
    <3>7. (n - 0 - 0) % 2 = 1
          BY <3>2, <3>3, <3>4, <3>5, <3>6
    <3>8. n % 2 # 0
          BY <3>7
    <3>9. ~Query(rec)
          BY <3>5, <3>8 DEF Query
    <3>10. AnsweredRecs' = AnsweredRecs
          BY <2>1 DEF AnsweredRecs
    <3>11. ASSUME NEW k \in 1..rec, Query(k) PROVE k \in AnsweredRecs
          BY <3>9, <3>11 DEF Asked, Settled
    <3>12. \A k : Query(k)' => Query(k)
          BY <2>1 DEF Query
    <3> QED BY <2>1, <3>10, <3>11, <3>12 DEF Asked, Settled
  <2> QED BY <2>3, <2>4 DEF TypeOK, Readers
<1>16. ASSUME NEW s \in Scripts, Accept_New(s) PROVE Asked' \/ Dead' \/ ~srvOpen' \/ ~ipcOpen'
      BY <1>16 DEF Accept_New
<1>17. CASE Accept_Kept
  <2>1. UNCHANGED <<script, rec>>
        BY <1>17 DEF Accept_Kept
  <2>2. AnsweredRecs' = AnsweredRecs
        BY <1>17 DEF Accept_Kept, AnsweredRecs
  <2>3. ret = "values" => ret' = "values" \/ rec \in AnsweredRecs'
        BY <1>17, <2>2 DEF Accept_Kept, Calls, Loop, Readers, TypeOK
  <2> QED BY <2>1, <2>2, <2>3, AskedStays
<1>18. CASE Accepted_Refuse
      BY <1>18 DEF Accepted_Refuse, TryAgain
<1>19. CASE Params_Take
  <2>1. UNCHANGED <<script, rec>>
        BY <1>19 DEF Params_Take
  <2>2. AnsweredRecs' = AnsweredRecs
        BY <1>19 DEF Params_Take, AnsweredRecs
  <2>3. ret = "values" => ret' = "values" \/ rec \in AnsweredRecs'
        BY <1>19, <2>2 DEF Params_Take, Calls, Loop, Readers, TypeOK
  <2> QED BY <2>1, <2>2, <2>3, AskedStays
<1>20. CASE Params_Error
      BY <1>20 DEF Params_Error, TryAgain
<1>21. CASE FCGX_UnGetChar
  <2>1. UNCHANGED <<script, rec>>
        BY <1>21 DEF FCGX_UnGetChar
  <2>2. AnsweredRecs' = AnsweredRecs
        BY <1>21 DEF FCGX_UnGetChar, AnsweredRecs
  <2>3. ret = "values" => ret' = "values" \/ rec \in AnsweredRecs'
        BY <1>21, <2>2 DEF FCGX_UnGetChar, Calls, Loop, Readers, TypeOK
  <2> QED BY <2>1, <2>2, <2>3, AskedStays
<1>22. CASE FCGX_ClearError
  <2>1. UNCHANGED <<script, rec>>
        BY <1>22 DEF FCGX_ClearError
  <2>2. AnsweredRecs' = AnsweredRecs
        BY <1>22 DEF FCGX_ClearError, AnsweredRecs
  <2>3. ret = "values" => ret' = "values" \/ rec \in AnsweredRecs'
        BY <1>22, <2>2 DEF FCGX_ClearError, Calls, Loop, Readers, TypeOK
  <2> QED BY <2>1, <2>2, <2>3, AskedStays
<1>23. CASE FCGX_Finish_r
  <2>1. UNCHANGED <<script, rec>>
        BY <1>23 DEF FCGX_Finish_r
  <2>2. AnsweredRecs' = AnsweredRecs \cup {begin}
    <3>1. begin \in 0..Len(script) /\ Reply("end", begin)
          BY <1>23, ScriptRecords DEF FCGX_Finish_r, TypeOK
    <3> QED BY <3>1, AnsweredMore
  <2>3. ret = "values" => ret' = "values" \/ rec \in AnsweredRecs'
        BY <1>23, <2>2 DEF FCGX_Finish_r, Calls, Loop, Readers, TypeOK
  <2> QED BY <2>1, <2>2, <2>3, AskedStays
<1>24. CASE GetStr_Move
  <2>1. UNCHANGED <<script, rec>>
        BY <1>24 DEF GetStr_Move
  <2>2. AnsweredRecs' = AnsweredRecs
        BY <1>24 DEF GetStr_Move, AnsweredRecs
  <2>3. ret = "values" => ret' = "values" \/ rec \in AnsweredRecs'
        BY <1>24, <2>2 DEF GetStr_Move, Calls, Loop, Readers, TypeOK
  <2> QED BY <2>1, <2>2, <2>3, AskedStays
<1> QED BY <1>1, <1>2, <1>3, <1>4, <1>5, <1>6, <1>7, <1>8, <1>9, <1>10, <1>11, <1>12, <1>13,
   <1>14, <1>15, <1>16, <1>17, <1>18, <1>19, <1>20, <1>21, <1>22, <1>23, <1>24, RecordsLeftAlone
   DEF RecordsTouched

\* The steps that leave a query alone.
LEMMA ReadingStays ==
    ASSUME Reading, UNCHANGED <<script, rec, isClosed, paddingLen, contentLen, stop, pos, half, skip, type>>,
           srvOpen' => srvOpen, failed' = failed, pc' # "eor" => pc # "eor" \/ isClosed
    PROVE  Reading'
<1>1. Ahead' = Ahead
      BY DEF Ahead
<1> QED BY <1>1 DEF Reading

\* The parity of what is left when n bytes are taken.
LEMMA Parity ==
    ASSUME NEW c \in Int, NEW d \in Int, NEW n \in Int
    PROVE  (((c - d - n) % 2 = 1) # (n % 2 = 1)) <=> ((c - d - 0) % 2 = 1)
OBVIOUS

\* A query is read to its end, in pairs, before anything else.
LEMMA ReadingNext ==
    ASSUME TypeOK, Buffer, Calls, Phases, History, Good, ipcOpen, ret = "values" => Reading,
           [Next]_vars
    PROVE  ret' = "values" => Reading'
<1> USE LengthsAssumption
<1>h. Headers /\ Answers
      BY DEF History
<1>t. /\ pos \in Nat /\ stop \in Nat /\ lim \in Nat /\ contentLen \in Nat /\ paddingLen \in Nat
      BY DEF TypeOK
<1>1. CASE UNCHANGED vars
  <2>1. /\ UNCHANGED <<script, rec, isClosed, paddingLen, contentLen, stop, pos, half, skip, type, failed, ret>>
        /\ (srvOpen' => srvOpen) /\ (pc' # "eor" => pc # "eor" \/ isClosed)
        BY <1>1 DEF vars
  <2> QED BY <2>1, ReadingStays
<1>2. CASE ServerSend
  <2>1. /\ UNCHANGED <<script, rec, isClosed, paddingLen, contentLen, stop, pos, half, skip, type, failed, ret>>
        /\ (srvOpen' => srvOpen) /\ (pc' # "eor" => pc # "eor" \/ isClosed)
        BY <1>2 DEF ServerSend
  <2> QED BY <2>1, ReadingStays
<1>3. CASE ServerCrash
  <2>1. /\ UNCHANGED <<script, rec, isClosed, paddingLen, contentLen, stop, pos, half, skip, type, failed, ret>>
        /\ (srvOpen' => srvOpen) /\ (pc' # "eor" => pc # "eor" \/ isClosed)
        BY <1>3 DEF ServerCrash
  <2> QED BY <2>1, ReadingStays
<1>4. CASE Fill_Read
  <2>1. /\ UNCHANGED <<script, rec, isClosed, paddingLen, contentLen, stop, pos, half, skip, type, failed, ret>>
        /\ (srvOpen' => srvOpen) /\ (pc' # "eor" => pc # "eor" \/ isClosed)
        BY <1>4 DEF Fill_Read
  <2> QED BY <2>1, ReadingStays
<1>5. CASE Fill_ReadEnd
  <2> SUFFICES ASSUME ret' = "values" PROVE Reading'
        OBVIOUS
  <2>r. Reading /\ pc \in Loop /\ stop <= pos /\ ~isClosed /\ lim - pos \in Nat
        BY <1>5, <1>t DEF Fill_ReadEnd, Buffer, Loop
  <2>a. Ahead = 0
        BY <1>t, <2>r DEF Ahead
  <2>1. /\ UNCHANGED <<script, rec, contentLen, stop, pos, half, skip, srvOpen>> /\ ~srvOpen /\ isClosed' /\ failed'
        BY <1>5 DEF Fill_ReadEnd, FillError
  <2>2. Ahead' = Ahead
        BY <2>1 DEF Ahead
  <2> QED BY <2>1, <2>2, <2>r DEF Reading
<1>6. CASE Fill_NotEmpty
  <2>1. /\ UNCHANGED <<script, rec, isClosed, paddingLen, contentLen, stop, pos, half, skip, type, failed, ret>>
        /\ (srvOpen' => srvOpen) /\ (pc' # "eor" => pc # "eor" \/ isClosed)
        BY <1>6 DEF Fill_NotEmpty
  <2> QED BY <2>1, ReadingStays
<1>7. CASE Fill_Deliver
  <2> SUFFICES ASSUME ret' = "values" PROVE Reading'
        OBVIOUS
  <2>r. Reading /\ pc \in Loop /\ stop <= pos /\ ~isClosed /\ lim - pos \in Nat
        BY <1>7, <1>t DEF Fill_Deliver, Buffer, Loop
  <2>a. Ahead = 0
        BY <1>t, <2>r DEF Ahead
  <2>1. /\ UNCHANGED <<script, rec, paddingLen, pos, half, skip, isClosed, failed, type, srvOpen>>
        /\ pc = "content" /\ contentLen > 0 /\ ~skip
        BY <1>7 DEF Fill_Deliver
  <2>2. PICK n \in Nat : contentLen' = contentLen - n /\ stop' = pos + n /\ n <= contentLen
    <3>1. Min2(contentLen, lim - pos) \in Nat /\ Min2(contentLen, lim - pos) <= contentLen
          BY <1>t, <2>r, SmallerOf
    <3> QED BY <1>7, <3>1 DEF Fill_Deliver
  <2>3. Ahead' = n
        BY <1>t, <2>1, <2>2 DEF Ahead
  <2>4. half["values"] = ((script[rec].clen - contentLen - 0) % 2 = 1)
        BY <2>1, <2>a, <2>r DEF Reading
  <2>5. PICK c : c = script[rec].clen /\ script'[rec'].clen = c
        BY <2>1
  <2>6. c \in Nat
    <3>1. rec \in 1..Len(script)
          BY <1>7, <2>r, <1>h, ScriptRecords DEF Fill_Deliver, Answers, TypeOK
    <3> QED BY <2>5, <3>1, ScriptRecords DEF TypeOK
  <2>7. c - (contentLen - n) - n = c - contentLen - 0
        BY <1>t, <2>2, <2>6
  <2>8. half'["values"] = ((script'[rec'].clen - contentLen' - Ahead') % 2 = 1)
        BY <2>1, <2>2, <2>3, <2>4, <2>5, <2>7
  <2>9. paddingLen' > 0 /\ ~isClosed' /\ (failed' /\ type' = "params" => ~srvOpen')
        BY <2>1, <2>r DEF Reading
  <2> QED BY <2>1, <2>8, <2>9 DEF Reading
<1>8. CASE Fill_Skip
  <2> SUFFICES ASSUME ret' = "values" PROVE Reading'
        OBVIOUS
  <2>r. Reading /\ pc \in Loop /\ stop <= pos /\ ~isClosed /\ lim - pos \in Nat
        BY <1>8, <1>t DEF Fill_Skip, Buffer, Loop
  <2>a. Ahead = 0
        BY <1>t, <2>r DEF Ahead
  <2>1. /\ UNCHANGED <<script, rec, paddingLen, stop, half, isClosed, failed, type, srvOpen>>
        /\ pc = "content" /\ contentLen > 0 /\ skip
        BY <1>8 DEF Fill_Skip
  <2>2. PICK n \in Nat : contentLen' = contentLen - n /\ pos' = pos + n /\ n <= contentLen /\ skip' = (contentLen > n)
    <3>1. Min2(contentLen, lim - pos) \in Nat /\ Min2(contentLen, lim - pos) <= contentLen
          BY <1>t, <2>r, SmallerOf
    <3> QED BY <1>8, <3>1 DEF Fill_Skip
  <2>3. stop' <= pos' /\ (skip' \/ contentLen' = 0)
    <3>1. stop <= pos + n /\ (contentLen > n \/ contentLen - n = 0)
          BY <1>t, <2>2, <2>r
    <3> QED BY <2>1, <2>2, <3>1
  <2>4. ~half'["values"]
        BY <2>1, <2>r DEF Reading
  <2>5. paddingLen' > 0 /\ ~isClosed' /\ (failed' /\ type' = "params" => ~srvOpen')
        BY <2>1, <2>r DEF Reading
  <2> QED BY <2>3, <2>4, <2>5 DEF Reading
<1>9. CASE Fill_NoContent
  <2>1. /\ UNCHANGED <<script, rec, isClosed, paddingLen, contentLen, stop, pos, half, skip, type, failed, ret>>
        /\ (srvOpen' => srvOpen) /\ (pc' # "eor" => pc # "eor" \/ isClosed)
        BY <1>9 DEF Fill_NoContent
  <2> QED BY <2>1, ReadingStays
<1>10. CASE Fill_Padding
  <2> SUFFICES ASSUME ret' = "values" PROVE Reading'
        OBVIOUS
  <2>r. Reading /\ pc \in Loop /\ stop <= pos /\ ~isClosed /\ lim - pos \in Nat
        BY <1>10, <1>t DEF Fill_Padding, Buffer, Loop
  <2>a. Ahead = 0
        BY <1>t, <2>r DEF Ahead
  <2>1. /\ UNCHANGED <<script, rec, contentLen, skip, stop, half, isClosed, failed, type, srvOpen>>
        /\ pc = "padding"
        BY <1>10 DEF Fill_Padding
  <2>2. PICK n \in Nat : pos' = pos + n /\ (pc' # "eor" => paddingLen' > 0)
    <3>1. Min2(paddingLen, lim - pos) \in Nat
          BY <1>t, <2>r, SmallerOf
    <3> QED BY <1>10, <1>t, <3>1 DEF Fill_Padding
  <2>3. stop' <= pos' /\ Ahead' = 0
        BY <1>t, <2>1, <2>2, <2>r DEF Ahead
  <2> QED BY <2>1, <2>2, <2>3, <2>a, <2>r DEF Reading
<1>11. CASE Fill_EndOfRecord
  <2> SUFFICES ASSUME ret' = "values" PROVE Reading'
        OBVIOUS
  <2>r. Reading /\ pc \in Loop /\ stop <= pos /\ ~isClosed /\ lim - pos \in Nat
        BY <1>11, <1>t DEF Fill_EndOfRecord, Buffer, Loop
  <2>a. Ahead = 0
        BY <1>t, <2>r DEF Ahead
  <2>1. /\ UNCHANGED <<script, rec, contentLen, skip, pos, half, failed, type, srvOpen>>
        /\ pc = "eor" /\ stop' = pos /\ isClosed' /\ contentLen = 0
        BY <1>11, <1>h DEF Fill_EndOfRecord, Headers
  <2>2. stop' <= pos' /\ Ahead' = 0
        BY <1>t, <2>1 DEF Ahead
  <2> QED BY <2>1, <2>2, <2>a, <2>r DEF Reading
<1>12. CASE Fill_Header
      BY <1>12 DEF Fill_Header, Calls, Loop, TypeOK, Readers
<1>13. CASE Header_Misread
      BY <1>13 DEF Header_Misread, Calls, Loop, TypeOK, Readers
<1>14. ASSUME NEW k \in 1..Len(script), Header_BadBegin(k) PROVE ret' = "values" => Reading'
      BY <1>14 DEF Header_BadBegin, Calls
<1>15. ASSUME NEW k \in 1..Len(script), Header_Multiplexed(k) PROVE ret' = "values" => Reading'
      BY <1>15 DEF Header_Multiplexed, Calls
<1>16. ASSUME NEW k \in 1..Len(script), Header_Begin(k) PROVE ret' = "values" => Reading'
      BY <1>16 DEF Header_Begin, Calls
<1>17. ASSUME NEW k \in 1..Len(script), Header_GetValues(k) PROVE ret' = "values" => Reading'
  <2>1. /\ pc = "process" /\ IsManagement(script[k]) /\ script[k].type = "getvalues" /\ LoadHeader(k)
        /\ UNCHANGED <<script, srvOpen, pos, stop, skip, isClosed, failed, type>>
        /\ half' = [half EXCEPT !["values"] = FALSE]
        BY <1>17 DEF Header_GetValues
  <2>2. stop = pos /\ ~isClosed
        BY <2>1 DEF Buffer, Loop
  <2>3. Ahead' = 0
        BY <1>t, <2>1, <2>2 DEF Ahead
  <2>4. PICK c \in Nat, l \in Nat : c = script[k].clen /\ l = script[k].plen
        BY ScriptRecords DEF TypeOK
  <2>5. l > 0
        BY <2>1, <2>4 DEF Good, Supported, SupportedScripts, SupportedScript
  <2>6. contentLen' = c /\ paddingLen' = l /\ script'[rec'].clen = c
        BY <2>1, <2>4 DEF LoadHeader
  <2>7. ~half'["values"]
        BY <2>1 DEF TypeOK
  <2>8. ~(failed /\ type = "params")
        BY <2>1 DEF Phases, Good, Loop
  <2>9. ~((c - c - 0) % 2 = 1)
        BY <2>4
  <2>10. stop' <= pos'
        BY <1>t, <2>1, <2>2
  <2>11. skip' \/ (~skip' /\ half'["values"] = ((script'[rec'].clen - contentLen' - Ahead') % 2 = 1))
    <3>1. ~((script'[rec'].clen - contentLen' - Ahead') % 2 = 1)
          BY <2>3, <2>6, <2>9
    <3>2. half'["values"] \in BOOLEAN
          BY <2>1 DEF TypeOK
    <3> QED BY <2>7, <3>1, <3>2, Zenon
  <2> QED BY <2>1, <2>2, <2>5, <2>6, <2>7, <2>8, <2>10, <2>11 DEF Reading
<1>18. ASSUME NEW k \in 1..Len(script), Header_UnknownManagement(k) PROVE ret' = "values" => Reading'
      BY <1>18 DEF Header_UnknownManagement, Calls
<1>19. ASSUME NEW k \in 1..Len(script), Header_ReplyFails(k) PROVE ret' = "values" => Reading'
      BY <1>19 DEF Header_ReplyFails, Calls
<1>20. ASSUME NEW k \in 1..Len(script), Header_OtherRequest(k) PROVE ret' = "values" => Reading'
      BY <1>20 DEF Header_OtherRequest, Calls
<1>21. ASSUME NEW k \in 1..Len(script), Header_WrongType(k) PROVE ret' = "values" => Reading'
      BY <1>21 DEF Header_WrongType, Calls
<1>22. ASSUME NEW k \in 1..Len(script), Header_Stream(k) PROVE ret' = "values" => Reading'
      BY <1>22 DEF Header_Stream, Calls
<1>23. CASE Body_Complete
      BY <1>23 DEF Body_Complete, Calls, Loop, TypeOK, Readers
<1>24. CASE Body_More
      BY <1>24 DEF Body_More, Calls, Loop, TypeOK, Readers
<1>25. CASE Body_Short
      BY <1>25 DEF Body_Short, Calls, Loop, TypeOK, Readers
<1>26. CASE Values_Take
  <2> SUFFICES ASSUME ret' = "values" PROVE Reading'
        OBVIOUS
  <2>1. /\ UNCHANGED <<script, rec, contentLen, paddingLen, skip, stop, isClosed, failed, type, srvOpen>>
        /\ pc = "values" /\ ~isClosed /\ pos < stop /\ pos' = stop
        /\ half' = [half EXCEPT ![pc] = (half[pc] # ((stop - pos) % 2 = 1))]
        BY <1>26 DEF Values_Take, TakePairs
  <2>2. Reading
        BY <2>1 DEF Calls
  <2>3. PICK n \in Nat : n = stop - pos
        BY <1>t, <2>1
  <2>4. Ahead = n /\ Ahead' = 0
        BY <1>t, <2>1, <2>3 DEF Ahead
  <2>5. ~skip /\ half["values"] = ((script[rec].clen - contentLen - n) % 2 = 1)
        BY <1>t, <2>1, <2>2, <2>4 DEF Reading
  <2>6. half'["values"] = (half["values"] # (n % 2 = 1))
    <3>1. half' = [half EXCEPT !["values"] = (half["values"] # (n % 2 = 1))]
          BY <2>1, <2>3
    <3> QED BY <3>1 DEF TypeOK
  <2>7. PICK c \in Nat : c = script[rec].clen
    <3>1. rec \in 1..Len(script)
          BY <1>h, <2>1, ScriptRecords DEF Calls, Answers, TypeOK
    <3> QED BY <3>1, ScriptRecords DEF TypeOK
  <2>8. (((c - contentLen - n) % 2 = 1) # (n % 2 = 1)) <=> ((c - contentLen - 0) % 2 = 1)
        BY <1>t, Parity
  <2>9. half'["values"] = ((c - contentLen - 0) % 2 = 1)
        BY <2>5, <2>6, <2>7, <2>8 DEF TypeOK
  <2>10. half'["values"] = ((script'[rec'].clen - contentLen' - Ahead') % 2 = 1)
        BY <2>1, <2>4, <2>7, <2>9
  <2> QED BY <2>1, <2>2, <2>5, <2>10 DEF Reading
<1>27. CASE Values_More
  <2>1. /\ UNCHANGED <<script, rec, isClosed, paddingLen, contentLen, stop, pos, half, skip, type, failed, ret>>
        /\ (srvOpen' => srvOpen) /\ (pc' # "eor" => pc # "eor" \/ isClosed)
        BY <1>27 DEF Values_More
  <2> QED BY <2>1, ReadingStays
<1>28. CASE Values_Answer
      BY <1>28 DEF Values_Answer, Calls, Loop, TypeOK, Readers
<1>29. CASE Values_Fail
      BY <1>29 DEF Values_Fail, Calls, Loop, TypeOK, Readers
<1>30. ASSUME NEW s \in Scripts, Accept_New(s) PROVE ret' = "values" => Reading'
      BY <1>30 DEF Accept_New, Calls, Loop, TypeOK, Readers
<1>31. CASE Accept_Kept
      BY <1>31 DEF Accept_Kept, Calls, Loop, TypeOK, Readers
<1>32. CASE Accepted_Refuse
      BY <1>32 DEF Accepted_Refuse, TryAgain, Calls, Loop, TypeOK, Readers
<1>33. CASE Accepted_Begin
      BY <1>33 DEF Accepted_Begin, Calls, Loop, TypeOK, Readers
<1>34. CASE Params_Take
      BY <1>34 DEF Params_Take, Calls, Loop, TypeOK, Readers
<1>35. CASE Params_More
      BY <1>35 DEF Params_More, Calls, Loop, TypeOK, Readers
<1>36. CASE Params_Error
      BY <1>36 DEF Params_Error, TryAgain, Calls, Loop, TypeOK, Readers
<1>37. CASE Params_Complete
      BY <1>37 DEF Params_Complete, Calls, Loop, TypeOK, Readers
<1>38. ASSUME NEW n \in 1..MaxGet, FCGX_GetStr(n) PROVE ret' = "values" => Reading'
      BY <1>38 DEF FCGX_GetStr, Calls, Loop, TypeOK, Readers
<1>39. CASE FCGX_UnGetChar
      BY <1>39 DEF FCGX_UnGetChar, Calls, Loop, TypeOK, Readers
<1>40. CASE FCGX_StartFilterData
      BY <1>40 DEF FCGX_StartFilterData, Calls, Loop, TypeOK, Readers
<1>41. CASE FCGX_FClose
      BY <1>41 DEF FCGX_FClose, Calls, Loop, TypeOK, Readers
<1>42. CASE FCGX_ClearError
      BY <1>42 DEF FCGX_ClearError, Calls, Loop, TypeOK, Readers
<1>43. CASE FCGX_Finish_r
      BY <1>43 DEF FCGX_Finish_r, Calls, Loop, TypeOK, Readers
<1>44. CASE GetStr_Move
      BY <1>44 DEF GetStr_Move, Calls, Loop, TypeOK, Readers
<1> QED BY <1>1, <1>2, <1>3, <1>4, <1>5, <1>6, <1>7, <1>8, <1>9, <1>10, <1>11, <1>12, <1>13,
   <1>14, <1>15, <1>16, <1>17, <1>18, <1>19, <1>20, <1>21, <1>22, <1>23, <1>24, <1>25,
   <1>26, <1>27, <1>28, <1>29, <1>30, <1>31, <1>32, <1>33, <1>34, <1>35, <1>36, <1>37,
   <1>38, <1>39, <1>40, <1>41, <1>42, <1>43, <1>44 DEF Next, Server, FillBuffProc,
   ProcessHeader, ReadBody, FCGX_Accept_r, App, Library

\* Every query has its answer, but the one that is being read.
LEMMA QueriesNext ==
    ASSUME Control, History, Following, Queries, [Next]_vars PROVE Queries'
<1>1. TypeOK /\ Buffer /\ Calls /\ Phases /\ Body
      BY DEF Control
<1>2. ASSUME NEW s \in Scripts, Accept_New(s) PROVE Queries'
  <2>1. rec' = 0 /\ 1..0 = {} /\ ret' = "accepted"
        BY <1>2 DEF Accept_New
  <2> QED BY <2>1 DEF Queries, Asked
<1>3. CASE ~\E s \in Scripts : Accept_New(s)
  <2>1. careful' = careful /\ script' = script /\ (ipcOpen' => ipcOpen)
        BY <1>1, <1>3, SameServer
  <2>2. Good' => Good
        BY <2>1 DEF Good, Supported, SupportedScripts
  <2>3. Good /\ ret = "values" => Reading
        BY DEF Queries
  <2>4. ASSUME Good', ret' = "values" PROVE Reading'
    <3>1. ipcOpen
      <4>1. Calls'
            BY CommonNext DEF Control
      <4>2. pc' # "accept"
            BY <2>4, <4>1 DEF Calls, Loop
      <4> QED BY <2>1, <4>1, <4>2 DEF Calls
    <3> QED BY <1>1, <2>2, <2>3, <2>4, <3>1, ReadingNext
  <2>5. ASSUME Good', ipcOpen', srvOpen', ~Dead' PROVE Asked'
    <3>1. Good /\ ipcOpen
          BY <2>1, <2>2, <2>5
    <3>2. ~Dead
          BY <1>1, <2>5, <3>1, DeadNext
    <3>3. srvOpen
          BY <1>3, <2>5, ServerStays
    <3>4. Asked
          BY <3>1, <3>2, <3>3 DEF Queries
    <3> QED BY <1>1, <2>3, <2>5, <3>1, <3>2, <3>3, <3>4, AskedNext
  <2> QED BY <2>4, <2>5 DEF Queries
<1> QED BY <1>2, <1>3

\* The bytes of a stream before a position are a beginning of it.
LEMMA Beginning ==
    ASSUME NEW C, C \subseteq Int, NEW n \in Int, NEW S, S = {p \in C : p < n}
    PROVE  S \subseteq C /\ \A q \in S, p \in C : p < q => p \in S
<1>1. ASSUME NEW q \in S, NEW p \in C, p < q PROVE p \in S
  <2>1. q \in Int /\ p \in Int /\ q < n
        OBVIOUS
  <2>2. p < n
        BY <1>1, <2>1
  <2> QED BY <2>2
<1> QED BY <1>1

\* A stream that ends without an error has been received completely.
LEMMA StreamEnds ==
    ASSUME TypeOK, Calls, Phases, History, Supported, Aligned, pc \in {"params", "app"}, isClosed, ~failed
    PROVE  got[type] = ContentOf(type)
<1>1. /\ Own /\ script[rec].clen = 0 /\ contentLen = 0 /\ paddingLen = 0 /\ stop <= pos
      BY DEF Aligned, Current
<1>2. /\ isBeginProcessed /\ type \in StreamTypes /\ begin # 0
      BY DEF Calls, Phases, Caller, Loop, StreamTypes, History, Begun
<1>3. pos \in Nat /\ stop \in Nat /\ headerLen \in Nat /\ rec \in Nat /\ begin \in Nat
      BY ScriptRecords DEF TypeOK
<1>4. PICK e \in Nat, c \in Nat, l \in Nat : e = RecEnd /\ c = RecClen /\ l = RecPlen
      BY RecordNumbers
<1>5. pos = e + headerLen
      BY <1>1, <1>3, <1>4 DEF Aligned, Accounted, Counts
<1>6. begin < rec /\ rec # 0 /\ IsStream(script[rec]) /\ script[rec].id = requestId /\ script[rec].type = type
      BY <1>1, <1>3 DEF Own
<1>7. ASSUME NEW p \in ContentOf(type) PROVE p < pos
  <2>1. p \in Int /\ p < RecEnd
        BY <1>1, <1>2, <1>6, EndMeansAll
  <2> QED BY <1>3, <1>4, <1>5, <2>1
<1>8. got[type] = {p \in ContentOf(type) : p < pos}
      BY <1>2 DEF Aligned, Exact
<1> QED BY <1>7, <1>8

\* No header is read where no record begins, as long as nothing has failed.
LEMMA NoMisread ==
    ASSUME TypeOK, Buffer, Calls, History, Good, Following, ~misread, Header_Misread
    PROVE  ~misread'
<1>1. pc = "process" /\ (\A k \in 1..Len(script) : ~AtHeader(k)) /\ misread' = (misread \/ ~failed)
      BY DEF Header_Misread
<1>2. ASSUME ~failed PROVE FALSE
  <2>1. Aligned
        BY <1>1, <1>2 DEF Following, Calls, Dead, Astray
  <2>2. pos = RecEnd + HeaderLen
        BY <1>1, <2>1 DEF Aligned, Accounted, Counts
  <2> QED BY <1>1, <2>2, NextHeader DEF History
<1> QED BY <1>1, <1>2

\* Nothing is added to the streams, ...
LEMMA BeginningsStay ==
    ASSUME Beginnings, UNCHANGED <<script, begin, requestId, got>>
    PROVE  Beginnings'
<1>1. \A t \in StreamTypes : ContentOf(t)' = ContentOf(t)
      BY SameStreams
<1> QED BY <1>1 DEF Beginnings

\* ... what is added is next in turn, ...
LEMMA BeginningsMove ==
    ASSUME TypeOK, TypeOK', UNCHANGED <<script, begin, requestId>>,
           Exact', isBeginProcessed', pc' # "accept"
    PROVE  Beginnings'
<1> SUFFICES ASSUME NEW t \in StreamTypes
             PROVE  /\ got'[t] \subseteq ContentOf(t)'
                    /\ \A q \in got'[t], p \in ContentOf(t)' : p < q => p \in got'[t]
      BY DEF Beginnings
<1>1. ContentOf(t)' = ContentOf(t) /\ ContentOf(t) \subseteq Int
      BY SameStreams, ContentInts
<1>2. got'[t] = {p \in ContentOf(t)' : p < pos'}
      BY DEF Exact
<1>3. PICK n \in Int : n = pos'
      BY DEF TypeOK
<1>4. got'[t] = {p \in ContentOf(t) : p < n}
      BY <1>1, <1>2, <1>3
<1>5. /\ got'[t] \subseteq ContentOf(t)
      /\ \A q \in got'[t], p \in ContentOf(t) : p < q => p \in got'[t]
      BY <1>1, <1>4, Beginning
<1> QED BY <1>1, <1>5

\* ... or no stream has been begun.
LEMMA NothingBegun ==
    ASSUME \A t \in StreamTypes : got'[t] = {}
    PROVE  Beginnings'
BY DEF Beginnings

\* Streams that are complete stay so.
LEMMA InTurnStays ==
    ASSUME InTurn, UNCHANGED <<script, begin, requestId>>, ~failed' => ~failed,
           type' \in {"stdin", "data"} => type \in {"stdin", "data"} /\ got'["params"] = got["params"],
           type' \in {"stdin", "data"} /\ pc' # "accept" => pc # "accept" /\ params' = params,
           type' = "data" => type = "data" /\ got'["stdin"] = got["stdin"]
    PROVE  InTurn'
<1>1. ContentOf("params")' = ContentOf("params") /\ ContentOf("stdin")' = ContentOf("stdin")
      BY SameStreams
<1> QED BY <1>1 DEF InTurn

\* What the client has of a stream is a beginning of it.
LEMMA BeginningsNext ==
    ASSUME TypeOK, TypeOK', Buffer, Calls, Phases, Body, History, Good, Following, Owned,
           Beginnings, [Next]_vars
    PROVE  Beginnings'
<1> USE LengthsAssumption
<1>h. Unreached
      BY DEF History
<1>1. CASE StreamsAlone
      BY <1>1, BeginningsStay DEF StreamsAlone
<1>2. CASE Fill_Skip
  <2>1. UNCHANGED <<script, begin, requestId, got>>
        BY <1>2 DEF Fill_Skip
  <2> QED BY <2>1, BeginningsStay
<1>3. CASE Fill_Padding
  <2>1. UNCHANGED <<script, begin, requestId, got>>
        BY <1>3 DEF Fill_Padding
  <2> QED BY <2>1, BeginningsStay
<1>4. CASE Fill_Header
  <2>1. UNCHANGED <<script, begin, requestId, got>>
        BY <1>4 DEF Fill_Header
  <2> QED BY <2>1, BeginningsStay
<1>5. ASSUME NEW k \in 1..Len(script), Header_Begin(k) PROVE Beginnings'
  <2>1. \A t \in StreamTypes : got'[t] = {}
        BY <1>5, <1>h DEF Header_Begin, Unreached, StreamTypes
  <2> QED BY <2>1, NothingBegun
<1>6. CASE Body_Complete
  <2>1. UNCHANGED <<script, begin, requestId, got>>
        BY <1>6 DEF Body_Complete
  <2> QED BY <2>1, BeginningsStay
<1>7. CASE Body_More
  <2>1. UNCHANGED <<script, begin, requestId, got>>
        BY <1>7 DEF Body_More
  <2> QED BY <2>1, BeginningsStay
<1>8. CASE Values_Take
  <2>1. UNCHANGED <<script, begin, requestId, got>>
        BY <1>8 DEF Values_Take
  <2> QED BY <2>1, BeginningsStay
<1>9. ASSUME NEW s \in Scripts, Accept_New(s) PROVE Beginnings'
  <2>1. \A t \in StreamTypes : got'[t] = {}
        BY <1>9 DEF Accept_New
  <2> QED BY <2>1, NothingBegun
<1>10. CASE Accept_Kept
  <2>1. \A t \in StreamTypes : got'[t] = {}
        BY <1>10 DEF Accept_Kept
  <2> QED BY <2>1, NothingBegun
<1>11. CASE Params_Take
  <2>1. UNCHANGED <<script, begin, requestId, isBeginProcessed>> /\ pc = "params" /\ pc' # "accept"
        BY <1>11 DEF Params_Take, TakePairs
  <2>2. isBeginProcessed /\ ipcOpen /\ isBeginProcessed'
        BY <2>1 DEF Calls, Phases, Caller, Loop
  <2>m. CASE Aligned
    <3>1. Exact'
          BY <2>2, <2>m, ExactNext
    <3> QED BY <2>1, <2>2, <2>m, <3>1, BeginningsMove
  <2> QED BY <2>1, <2>2, <2>m DEF Following, Dead, Astray, Loop
<1>12. CASE Params_Complete
  <2>1. UNCHANGED <<script, begin, requestId, got>>
        BY <1>12 DEF Params_Complete
  <2> QED BY <2>1, BeginningsStay
<1>13. CASE FCGX_UnGetChar
  <2>1. UNCHANGED <<script, begin, requestId, isBeginProcessed>> /\ pc = "app" /\ pc' # "accept"
        BY <1>13 DEF FCGX_UnGetChar
  <2>2. isBeginProcessed /\ ipcOpen /\ isBeginProcessed'
        BY <2>1 DEF Calls, Phases, Caller, Loop
  <2>m. CASE Aligned
    <3>1. Exact'
          BY <2>2, <2>m, ExactNext
    <3> QED BY <2>1, <2>2, <2>m, <3>1, BeginningsMove
  <2>3. ~isClosed /\ (pos - 1) \in got[type]
        BY <1>13 DEF FCGX_UnGetChar
  <2>4. ~Dead /\ ~Astray
        BY <2>3 DEF Dead, Astray
  <2> QED BY <2>2, <2>4, <2>m DEF Following
<1>14. CASE FCGX_StartFilterData
  <2>1. UNCHANGED <<script, begin, requestId, got>>
        BY <1>14 DEF FCGX_StartFilterData
  <2> QED BY <2>1, BeginningsStay
<1>15. CASE FCGX_ClearError
  <2>1. UNCHANGED <<script, begin, requestId, got>>
        BY <1>15 DEF FCGX_ClearError
  <2> QED BY <2>1, BeginningsStay
<1>16. CASE GetStr_Move
  <2>1. UNCHANGED <<script, begin, requestId, isBeginProcessed>> /\ pc = "getstr" /\ pc' # "accept"
        BY <1>16 DEF GetStr_Move
  <2>2. isBeginProcessed /\ ipcOpen /\ isBeginProcessed'
        BY <2>1 DEF Calls, Phases, Caller, Loop
  <2>m. CASE Aligned
    <3>1. Exact'
          BY <2>2, <2>m, ExactNext
    <3> QED BY <2>1, <2>2, <2>m, <3>1, BeginningsMove
  <2>3. CASE Dead \/ Astray
    <3>1. type \in StreamTypes /\ (isClosed \/ (stop <= pos /\ pos <= stop))
          BY <2>1, <2>3 DEF Dead, Astray, Buffer, Loop, Calls, Phases, Caller, StreamTypes
    <3>2. PICK m : /\ m = IF isClosed THEN 0 ELSE Min2(want, stop - pos)
                   /\ got' = [got EXCEPT ![type] = got[type] \cup pos..(pos + m - 1)]
          BY <1>16 DEF GetStr_Move
    <3>3. m = 0
      <4>1. CASE isClosed
            BY <3>2, <4>1
      <4>2. CASE ~isClosed
        <5>1. stop - pos = 0 /\ want \in Nat
              BY <3>1, <4>2 DEF TypeOK
        <5>2. Min2(want, 0) = 0
              BY <5>1 DEF Min2
        <5> QED BY <3>2, <4>2, <5>1, <5>2
      <4> QED BY <4>1, <4>2
    <3>4. pos..(pos + m - 1) = {}
          BY <3>3 DEF TypeOK
    <3>5. got' = [got EXCEPT ![type] = got[type]]
          BY <3>2, <3>4
    <3>6. got' = got
          BY <3>1, <3>5 DEF TypeOK
    <3> QED BY <2>1, <3>6, BeginningsStay
  <2> QED BY <2>2, <2>3, <2>m DEF Following
<1> QED BY <1>1, <1>2, <1>3, <1>4, <1>5, <1>6, <1>7, <1>8, <1>9, <1>10, <1>11, <1>12, <1>13,
   <1>14, <1>15, <1>16, StreamsLeftAlone DEF StreamsTouched

\* Earlier streams are complete when a stream is read.
LEMMA InTurnNext ==
    ASSUME TypeOK, Buffer, Calls, Phases, History, Good, Following, InTurn, [Next]_vars
    PROVE  InTurn'
<1> USE LengthsAssumption
<1>h. Unreached /\ Environment
      BY DEF History
<1>y. /\ pc = "params" => type = "params"
      /\ pc \in {"app", "getstr"} => type \in {"stdin", "data"}
      /\ \A t \in StreamTypes : got[t] = got[t]
      /\ got \in [StreamTypes -> SUBSET Nat] /\ StreamTypes = {"params", "stdin", "data"}
      BY DEF Calls, Phases, Caller, Loop, TypeOK, StreamTypes
<1>1. CASE StreamsAlone
  <2>1. UNCHANGED <<script, begin, requestId>> /\ (~failed' => ~failed)
        BY <1>1 DEF StreamsAlone
  <2>2. type' \in {"stdin", "data"} => type \in {"stdin", "data"} /\ got'["params"] = got["params"]
        BY <1>1 DEF StreamsAlone
  <2>3. type' \in {"stdin", "data"} /\ pc' # "accept" => pc # "accept" /\ params' = params
        BY <1>1 DEF StreamsAlone
  <2>4. type' = "data" => type = "data" /\ got'["stdin"] = got["stdin"]
        BY <1>1 DEF StreamsAlone
  <2> QED BY <2>1, <2>2, <2>3, <2>4, InTurnStays
<1>2. CASE Fill_Skip
  <2>1. UNCHANGED <<script, begin, requestId>> /\ (~failed' => ~failed)
        BY <1>2 DEF Fill_Skip
  <2>2. type' \in {"stdin", "data"} => type \in {"stdin", "data"} /\ got'["params"] = got["params"]
        BY <1>2 DEF Fill_Skip
  <2>3. type' \in {"stdin", "data"} /\ pc' # "accept" => pc # "accept" /\ params' = params
        BY <1>2 DEF Fill_Skip
  <2>4. type' = "data" => type = "data" /\ got'["stdin"] = got["stdin"]
        BY <1>2 DEF Fill_Skip
  <2> QED BY <2>1, <2>2, <2>3, <2>4, InTurnStays
<1>3. CASE Fill_Padding
  <2>1. UNCHANGED <<script, begin, requestId>> /\ (~failed' => ~failed)
        BY <1>3 DEF Fill_Padding
  <2>2. type' \in {"stdin", "data"} => type \in {"stdin", "data"} /\ got'["params"] = got["params"]
        BY <1>3 DEF Fill_Padding
  <2>3. type' \in {"stdin", "data"} /\ pc' # "accept" => pc # "accept" /\ params' = params
        BY <1>3 DEF Fill_Padding
  <2>4. type' = "data" => type = "data" /\ got'["stdin"] = got["stdin"]
        BY <1>3 DEF Fill_Padding
  <2> QED BY <2>1, <2>2, <2>3, <2>4, InTurnStays
<1>4. CASE Fill_Header
  <2>1. UNCHANGED <<script, begin, requestId>> /\ (~failed' => ~failed)
        BY <1>4 DEF Fill_Header
  <2>2. type' \in {"stdin", "data"} => type \in {"stdin", "data"} /\ got'["params"] = got["params"]
        BY <1>4 DEF Fill_Header
  <2>3. type' \in {"stdin", "data"} /\ pc' # "accept" => pc # "accept" /\ params' = params
        BY <1>4 DEF Fill_Header
  <2>4. type' = "data" => type = "data" /\ got'["stdin"] = got["stdin"]
        BY <1>4 DEF Fill_Header
  <2> QED BY <2>1, <2>2, <2>3, <2>4, InTurnStays
<1>5. ASSUME NEW k \in 1..Len(script), Header_Begin(k) PROVE InTurn'
  <2>1. type' = "none"
        BY <1>5, <1>h DEF Header_Begin, Unreached
  <2> QED BY <2>1 DEF InTurn
<1>6. CASE Body_Complete
  <2>1. UNCHANGED <<script, begin, requestId>> /\ (~failed' => ~failed)
        BY <1>6 DEF Body_Complete
  <2>2. type' \in {"stdin", "data"} => type \in {"stdin", "data"} /\ got'["params"] = got["params"]
        BY <1>6 DEF Body_Complete
  <2>3. type' \in {"stdin", "data"} /\ pc' # "accept" => pc # "accept" /\ params' = params
        BY <1>6 DEF Body_Complete
  <2>4. type' = "data" => type = "data" /\ got'["stdin"] = got["stdin"]
        BY <1>6 DEF Body_Complete
  <2> QED BY <2>1, <2>2, <2>3, <2>4, InTurnStays
<1>7. CASE Body_More
  <2>1. UNCHANGED <<script, begin, requestId>> /\ (~failed' => ~failed)
        BY <1>7 DEF Body_More
  <2>2. type' \in {"stdin", "data"} => type \in {"stdin", "data"} /\ got'["params"] = got["params"]
        BY <1>7 DEF Body_More
  <2>3. type' \in {"stdin", "data"} /\ pc' # "accept" => pc # "accept" /\ params' = params
        BY <1>7 DEF Body_More
  <2>4. type' = "data" => type = "data" /\ got'["stdin"] = got["stdin"]
        BY <1>7 DEF Body_More
  <2> QED BY <2>1, <2>2, <2>3, <2>4, InTurnStays
<1>8. CASE Values_Take
  <2>1. UNCHANGED <<script, begin, requestId>> /\ (~failed' => ~failed)
        BY <1>8 DEF Values_Take
  <2>2. type' \in {"stdin", "data"} => type \in {"stdin", "data"} /\ got'["params"] = got["params"]
        BY <1>8 DEF Values_Take
  <2>3. type' \in {"stdin", "data"} /\ pc' # "accept" => pc # "accept" /\ params' = params
        BY <1>8 DEF Values_Take
  <2>4. type' = "data" => type = "data" /\ got'["stdin"] = got["stdin"]
        BY <1>8 DEF Values_Take
  <2> QED BY <2>1, <2>2, <2>3, <2>4, InTurnStays
<1>9. ASSUME NEW s \in Scripts, Accept_New(s) PROVE InTurn'
  <2>1. type' = "none"
        BY <1>9, <1>h DEF Accept_New, NewReader
  <2> QED BY <2>1 DEF InTurn
<1>10. CASE Accept_Kept
  <2>1. type' = "none"
        BY <1>10, <1>h DEF Accept_Kept, NewReader
  <2> QED BY <2>1 DEF InTurn
<1>11. CASE Params_Take
  <2>1. UNCHANGED <<script, begin, requestId>> /\ (~failed' => ~failed)
        BY <1>11 DEF Params_Take
  <2>2. type' \in {"stdin", "data"} => type \in {"stdin", "data"} /\ got'["params"] = got["params"]
        BY <1>11, <1>y DEF Params_Take
  <2>3. type' \in {"stdin", "data"} /\ pc' # "accept" => pc # "accept" /\ params' = params
        BY <1>11, <1>y DEF Params_Take
  <2>4. type' = "data" => type = "data" /\ got'["stdin"] = got["stdin"]
        BY <1>11, <1>y DEF Params_Take
  <2> QED BY <2>1, <2>2, <2>3, <2>4, InTurnStays
<1>12. CASE Params_Complete
  <2>1. /\ pc = "params" /\ isClosed /\ ~half["params"] /\ type' = "stdin"
        /\ UNCHANGED <<script, begin, requestId, got, params, failed>>
        BY <1>12 DEF Params_Complete, SetReaderType
  <2> SUFFICES ASSUME ~failed PROVE InTurn'
        BY <2>1 DEF InTurn
  <2>2. type = "params" /\ ipcOpen /\ Caller = "params"
        BY <2>1 DEF Calls, Phases, Caller, Loop
  <2>3. Aligned
        BY <2>2 DEF Following, Dead, Astray
  <2>4. got["params"] = ContentOf("params")
        BY <2>1, <2>2, <2>3, StreamEnds DEF Good
  <2>5. params.cur \in Nat /\ Cardinality(got["params"]) = 2 * (params.cur - 1) /\ params.cur >= 1
    <3>1. /\ params.cur >= 1 /\ params.cur \in Nat
          /\ Cardinality(got["params"]) = 2 * (params.cur - 1) + (IF half["params"] THEN 1 ELSE 0)
          BY <1>h, <2>2 DEF Environment, TypeOK
    <3>2. PICK n \in Nat : n = params.cur
          BY <3>1
    <3>3. 2 * (n - 1) + 0 = 2 * (n - 1)
          OBVIOUS
    <3> QED BY <2>1, <3>1, <3>2, <3>3
  <2>6. PICK n \in Nat : n = params.cur /\ n >= 1
        BY <2>5
  <2>7. (2 * (n - 1)) \div 2 = n - 1
        BY <2>6
  <2>8. n = 1 + (2 * (n - 1)) \div 2
        BY <2>6, <2>7
  <2>9. params.cur = 1 + Cardinality(ContentOf("params")) \div 2
        BY <2>4, <2>5, <2>6, <2>8
  <2>10. ContentOf("params")' = ContentOf("params")
        BY <2>1, SameStreams
  <2> QED BY <2>1, <2>4, <2>9, <2>10 DEF InTurn
<1>13. CASE FCGX_UnGetChar
  <2>1. UNCHANGED <<script, begin, requestId>> /\ (~failed' => ~failed)
        BY <1>13 DEF FCGX_UnGetChar
  <2>2. type' \in {"stdin", "data"} => type \in {"stdin", "data"} /\ got'["params"] = got["params"]
        BY <1>13, <1>y DEF FCGX_UnGetChar
  <2>3. type' \in {"stdin", "data"} /\ pc' # "accept" => pc # "accept" /\ params' = params
        BY <1>13, <1>y DEF FCGX_UnGetChar
  <2>4. type' = "data" => type = "data" /\ got'["stdin"] = got["stdin"]
        BY <1>13, <1>y DEF FCGX_UnGetChar
  <2> QED BY <2>1, <2>2, <2>3, <2>4, InTurnStays
<1>14. CASE FCGX_StartFilterData
  <2>1. /\ pc = "app" /\ ~failed /\ UNCHANGED <<script, begin, requestId, got, params, pc>>
        BY <1>14 DEF FCGX_StartFilterData, Good
  <2>2. ContentOf("params")' = ContentOf("params") /\ ContentOf("stdin")' = ContentOf("stdin")
        BY <2>1, SameStreams
  <2>3. type \in {"stdin", "data"} /\ ipcOpen
        BY <2>1 DEF Calls, Phases, Caller, Loop
  <2>4. CASE type' = type
        BY <2>1, <2>2, <2>3, <2>4 DEF InTurn
  <2>5. CASE isClosed /\ type = "stdin" /\ type' = "data"
    <3>1. Aligned
          BY <2>1, <2>3 DEF Following, Dead, Astray
    <3>2. got["stdin"] = ContentOf("stdin")
          BY <2>1, <2>5, <3>1, StreamEnds DEF Good
    <3> QED BY <2>1, <2>2, <2>3, <2>5, <3>2 DEF InTurn
  <2> QED BY <1>14, <2>4, <2>5 DEF FCGX_StartFilterData, SetReaderType
<1>15. CASE FCGX_ClearError
  <2>1. UNCHANGED <<script, begin, requestId>> /\ (~failed' => ~failed)
        BY <1>15 DEF FCGX_ClearError, Good
  <2>2. type' \in {"stdin", "data"} => type \in {"stdin", "data"} /\ got'["params"] = got["params"]
        BY <1>15 DEF FCGX_ClearError
  <2>3. type' \in {"stdin", "data"} /\ pc' # "accept" => pc # "accept" /\ params' = params
        BY <1>15 DEF FCGX_ClearError
  <2>4. type' = "data" => type = "data" /\ got'["stdin"] = got["stdin"]
        BY <1>15 DEF FCGX_ClearError
  <2> QED BY <2>1, <2>2, <2>3, <2>4, InTurnStays
<1>16. CASE GetStr_Move
  <2>1. UNCHANGED <<script, begin, requestId>> /\ (~failed' => ~failed)
        BY <1>16 DEF GetStr_Move
  <2>2. type' \in {"stdin", "data"} => type \in {"stdin", "data"} /\ got'["params"] = got["params"]
        BY <1>16, <1>y DEF GetStr_Move
  <2>3. type' \in {"stdin", "data"} /\ pc' # "accept" => pc # "accept" /\ params' = params
        BY <1>16, <1>y DEF GetStr_Move
  <2>4. type' = "data" => type = "data" /\ got'["stdin"] = got["stdin"]
        BY <1>16, <1>y DEF GetStr_Move
  <2> QED BY <2>1, <2>2, <2>3, <2>4, InTurnStays
<1> QED BY <1>1, <1>2, <1>3, <1>4, <1>5, <1>6, <1>7, <1>8, <1>9, <1>10, <1>11, <1>12, <1>13,
   <1>14, <1>15, <1>16, StreamsLeftAlone DEF StreamsTouched

\* Headers are only read where a record begins.
LEMMA MisreadNext ==
    ASSUME TypeOK, Buffer, Calls, History, Good, Following, ~misread, [Next]_vars
    PROVE  ~misread'
<1> USE LengthsAssumption
<1>1. CASE UNCHANGED vars
      BY <1>1 DEF vars
<1>2. CASE ServerSend
      BY <1>2 DEF ServerSend
<1>3. CASE ServerCrash
      BY <1>3 DEF ServerCrash
<1>4. CASE Fill_Read
      BY <1>4 DEF Fill_Read
<1>5. CASE Fill_ReadEnd
      BY <1>5 DEF Fill_ReadEnd
<1>6. CASE Fill_NotEmpty
      BY <1>6 DEF Fill_NotEmpty
<1>7. CASE Fill_Deliver
      BY <1>7 DEF Fill_Deliver
<1>8. CASE Fill_Skip
      BY <1>8 DEF Fill_Skip
<1>9. CASE Fill_NoContent
      BY <1>9 DEF Fill_NoContent
<1>10. CASE Fill_Padding
      BY <1>10 DEF Fill_Padding
<1>11. CASE Fill_EndOfRecord
      BY <1>11 DEF Fill_EndOfRecord
<1>12. CASE Fill_Header
      BY <1>12 DEF Fill_Header
<1>13. CASE Header_Misread
      BY <1>13, NoMisread
<1>14. ASSUME NEW k \in 1..Len(script), Header_BadBegin(k) PROVE ~misread'
      BY <1>14 DEF Header_BadBegin
<1>15. ASSUME NEW k \in 1..Len(script), Header_Multiplexed(k) PROVE ~misread'
      BY <1>15 DEF Header_Multiplexed
<1>16. ASSUME NEW k \in 1..Len(script), Header_Begin(k) PROVE ~misread'
      BY <1>16 DEF Header_Begin
<1>17. ASSUME NEW k \in 1..Len(script), Header_GetValues(k) PROVE ~misread'
      BY <1>17 DEF Header_GetValues
<1>18. ASSUME NEW k \in 1..Len(script), Header_UnknownManagement(k) PROVE ~misread'
      BY <1>18 DEF Header_UnknownManagement
<1>19. ASSUME NEW k \in 1..Len(script), Header_ReplyFails(k) PROVE ~misread'
      BY <1>19 DEF Header_ReplyFails
<1>20. ASSUME NEW k \in 1..Len(script), Header_OtherRequest(k) PROVE ~misread'
      BY <1>20 DEF Header_OtherRequest
<1>21. ASSUME NEW k \in 1..Len(script), Header_WrongType(k) PROVE ~misread'
      BY <1>21 DEF Header_WrongType
<1>22. ASSUME NEW k \in 1..Len(script), Header_Stream(k) PROVE ~misread'
      BY <1>22 DEF Header_Stream
<1>23. CASE Body_Complete
      BY <1>23 DEF Body_Complete
<1>24. CASE Body_More
      BY <1>24 DEF Body_More
<1>25. CASE Body_Short
      BY <1>25 DEF Body_Short
<1>26. CASE Values_Take
      BY <1>26 DEF Values_Take
<1>27. CASE Values_More
      BY <1>27 DEF Values_More
<1>28. CASE Values_Answer
      BY <1>28 DEF Values_Answer
<1>29. CASE Values_Fail
      BY <1>29 DEF Values_Fail
<1>30. ASSUME NEW s \in Scripts, Accept_New(s) PROVE ~misread'
      BY <1>30 DEF Accept_New
<1>31. CASE Accept_Kept
      BY <1>31 DEF Accept_Kept
<1>32. CASE Accepted_Refuse
      BY <1>32 DEF Accepted_Refuse, TryAgain
<1>33. CASE Accepted_Begin
      BY <1>33 DEF Accepted_Begin
<1>34. CASE Params_Take
      BY <1>34 DEF Params_Take
<1>35. CASE Params_More
      BY <1>35 DEF Params_More
<1>36. CASE Params_Error
      BY <1>36 DEF Params_Error, TryAgain
<1>37. CASE Params_Complete
      BY <1>37 DEF Params_Complete
<1>38. ASSUME NEW n \in 1..MaxGet, FCGX_GetStr(n) PROVE ~misread'
      BY <1>38 DEF FCGX_GetStr
<1>39. CASE FCGX_UnGetChar
      BY <1>39 DEF FCGX_UnGetChar
<1>40. CASE FCGX_StartFilterData
      BY <1>40 DEF FCGX_StartFilterData
<1>41. CASE FCGX_FClose
      BY <1>41 DEF FCGX_FClose
<1>42. CASE FCGX_ClearError
      BY <1>42 DEF FCGX_ClearError
<1>43. CASE FCGX_Finish_r
      BY <1>43 DEF FCGX_Finish_r
<1>44. CASE GetStr_Move
      BY <1>44 DEF GetStr_Move
<1> QED BY <1>1, <1>2, <1>3, <1>4, <1>5, <1>6, <1>7, <1>8, <1>9, <1>10, <1>11, <1>12, <1>13,
   <1>14, <1>15, <1>16, <1>17, <1>18, <1>19, <1>20, <1>21, <1>22, <1>23, <1>24, <1>25,
   <1>26, <1>27, <1>28, <1>29, <1>30, <1>31, <1>32, <1>33, <1>34, <1>35, <1>36, <1>37,
   <1>38, <1>39, <1>40, <1>41, <1>42, <1>43, <1>44 DEF Next, Server, FillBuffProc,
   ProcessHeader, ReadBody, FCGX_Accept_r, App, Library

\* What has been received, as long as the server is supported.
LEMMA ReceivedNext ==
    ASSUME Control, History, Following, Owned, Received, [Next]_vars PROVE Received'
<1>1. TypeOK /\ Buffer /\ Calls /\ Phases /\ Body /\ TypeOK'
      BY CommonNext DEF Control
<1> SUFFICES ASSUME Good' PROVE ~misread' /\ Beginnings' /\ InTurn'
      BY DEF Received
<1>2. ASSUME NEW s \in Scripts, Accept_New(s) PROVE ~misread' /\ Beginnings' /\ InTurn'
  <2>1. ~misread' /\ type' = "none" /\ \A t \in StreamTypes : got'[t] = {}
        BY <1>2 DEF Accept_New, NewReader
  <2>2. Beginnings'
        BY <2>1, NothingBegun
  <2>3. InTurn'
        BY <2>1 DEF InTurn
  <2> QED BY <2>1, <2>2, <2>3
<1>3. CASE ~\E s \in Scripts : Accept_New(s)
  <2>1. careful' = careful /\ script' = script
        BY <1>1, <1>3, SameServer
  <2>2. Good
        BY <2>1 DEF Good, Supported, SupportedScripts
  <2>3. ~misread /\ Beginnings /\ InTurn
        BY <2>2 DEF Received
  <2>4. ~misread'
        BY <1>1, <2>2, <2>3, MisreadNext
  <2>5. Beginnings'
        BY <1>1, <2>2, <2>3, BeginningsNext
  <2>6. InTurn'
        BY <1>1, <2>2, <2>3, InTurnNext
  <2> QED BY <2>4, <2>5, <2>6
<1> QED BY <1>2, <1>3

\* What has been sent ends no earlier than each record that has been sent.
LEMMA SentEnd ==
    ASSUME TypeOK, NEW k \in 1..sent
    PROVE  End(script[k]) <= SentBytes
<1>1. script \in Scripts /\ Len(script) \in Nat /\ sent \in 1..Len(script) /\ k \in 1..Len(script) /\ cut \in Nat
      BY ScriptRecords DEF TypeOK
<1>2. PICK a \in Nat, b \in Nat, c \in Nat : a = End(script[k]) /\ b = End(script[sent]) /\ c = script[sent].start /\ c < b
      BY <1>1, Extent
<1>3. SentBytes = b + cut
      BY <1>1, <1>2 DEF SentBytes
<1>4. a <= b
  <2>1. CASE k = sent
        BY <1>2, <2>1
  <2>2. CASE k < sent
    <3>1. a <= c
          BY <1>1, <1>2, <2>2, InOrder
    <3> QED BY <1>2, <3>1
  <2> QED BY <1>1, <2>1, <2>2
<1> QED BY <1>1, <1>2, <1>3, <1>4

\* A reader that waits has looked at every record that has been sent, ...
LEMMA AllLookedAt ==
    ASSUME TypeOK, Buffer, Sending, Blocked, Aligned \/ Astray, NEW k \in 1..sent
    PROVE  k \in 1..rec
<1> USE LengthsAssumption
<1> SUFFICES ASSUME ~(k <= rec) PROVE FALSE
      BY DEF TypeOK
<1>1. /\ script \in Scripts /\ Len(script) \in Nat /\ sent \in Nat /\ rec \in Nat /\ rec < sent /\ rec < Len(script)
      BY ScriptRecords DEF TypeOK
<1>2. pc = "fill" /\ stop <= pos /\ pos = SentBytes
      BY DEF Blocked, Buffer, Loop
<1>3. /\ pos \in Nat /\ stop \in Nat /\ contentLen \in Nat /\ paddingLen \in Nat /\ headerLen \in Nat
      /\ headerLen < HeaderLen /\ HeaderLen \in Nat
      BY DEF TypeOK
<1>4. PICK e \in Nat, s \in Nat, f \in Nat :
          e = RecEnd /\ s = SentBytes /\ f = End(script[rec + 1]) /\ e + HeaderLen <= f
  <2>1. rec + 1 \in 1..Len(script) /\ script[rec + 1].start = RecEnd
        BY <1>1, NextStart
  <2>2. script[rec + 1].start + HeaderLen <= End(script[rec + 1]) /\ End(script[rec + 1]) \in Nat
        BY <1>1, <2>1, Extent
  <2> QED BY <2>1, <2>2, Positions
<1>5. f <= s
  <2>1. rec + 1 \in 1..sent
        BY <1>1
  <2> QED BY <1>4, <2>1, SentEnd
<1>6. pos <= e + headerLen
  <2>1. CASE Aligned
    <3>1. pos + contentLen + paddingLen = e + headerLen
          BY <1>2, <1>3, <1>4, <2>1 DEF Aligned, Accounted, Counts
    <3> QED BY <1>3, <1>4, <3>1
  <2>2. CASE Astray
    <3>1. pos - headerLen < e
          BY <1>2, <1>4, <2>2 DEF Astray, Base
    <3> QED BY <1>3, <1>4, <3>1
  <2> QED BY <2>1, <2>2
<1>7. pos = s
      BY <1>2, <1>4
<1> QED BY <1>3, <1>4, <1>5, <1>6, <1>7

\* ... and is not within a query.
LEMMA NoQueryRead ==
    ASSUME TypeOK, Buffer, Calls, History, Good, Queries, Blocked, Aligned \/ Astray, rec \in 1..sent
    PROVE  ret # "values"
<1> SUFFICES ASSUME ret = "values" PROVE FALSE
      OBVIOUS
<1>1. eorStop /\ pc = "fill" /\ stop <= pos /\ ~isClosed /\ pos = SentBytes
      BY DEF Calls, Blocked, Buffer, Loop
<1>2. Aligned
      BY <1>1 DEF Astray
<1>3. paddingLen > 0 /\ headerLen = 0
      BY <1>1 DEF Queries, Reading, History, Headers
<1>4. pos \in Nat /\ stop \in Nat /\ contentLen \in Nat /\ paddingLen \in Nat
      BY DEF TypeOK
<1>5. PICK e \in Nat, s \in Nat : e = RecEnd /\ s = SentBytes
      BY Positions
<1>6. pos + contentLen + paddingLen = e
      BY <1>1, <1>2, <1>3, <1>4, <1>5 DEF Aligned, Accounted, Counts
<1>7. e <= s
  <2>1. rec # 0
        BY DEF TypeOK
  <2> QED BY <1>5, <2>1, SentEnd DEF RecEnd
<1> QED BY <1>1, <1>3, <1>4, <1>5, <1>6, <1>7

\* The invariant holds at the start: there is no connection, ...
LEMMA IInvInit == Init => IInv
<1> SUFFICES ASSUME Init PROVE IInv
      OBVIOUS
<1>1. Control /\ History
      BY CommonInit
<1>2. ~ipcOpen /\ ret = "accepted" /\ type = "none" /\ ~misread /\ \A t \in StreamTypes : got[t] = {}
      BY DEF Init
<1>3. Following /\ Owned /\ AllAnswered /\ Queries
      BY <1>2 DEF Following, Owned, AllAnswered, Queries
<1>4. Received
      BY <1>2 DEF Received, Beginnings, InTurn
<1> QED BY <1>1, <1>3, <1>4 DEF IInv

\* ... and every step keeps it.
LEMMA IInvNext == IInv /\ [Next]_vars => IInv'
<1> SUFFICES ASSUME IInv, [Next]_vars PROVE IInv'
      OBVIOUS
<1>0. Control /\ History /\ Following /\ Owned /\ AllAnswered /\ Queries /\ Received
      BY DEF IInv
<1>1. Control' /\ History'
      BY <1>0, CommonNext
<1>2. Following'
      BY <1>0, FollowingNext
<1>3. Owned'
      BY <1>0, OwnedNext
<1>4. AllAnswered'
      BY <1>0, AllAnsweredNext
<1>5. Queries'
      BY <1>0, QueriesNext
<1>6. Received'
      BY <1>0, ReceivedNext
<1> QED BY <1>1, <1>2, <1>3, <1>4, <1>5, <1>6 DEF IInv

\* The inductive invariant: FillBuffProc and the Process* functions follow a server that is
\* supported record by record, or have reported an error.
THEOREM ReaderFollows == Spec => []IInv
BY IInvInit, IInvNext, PTL DEF Spec

\* Whatever the fragmentation of the reads by FillBuffProc and whatever records lie
\* between, the client of a stream receives its bytes in order and without a gap, and an
\* end of file without an error means that it has received all of them, also when the
\* server drops the connection at any byte.
THEOREM ReaderDelivered == Spec => []Delivered
<1>1. IInv => Delivered
  <2> SUFFICES ASSUME IInv, Supported, careful
               PROVE  Beginnings /\ EveryEndMeansAll
        BY DEF Delivered, Beginnings
  <2>1. TypeOK /\ Calls /\ Phases /\ History /\ Following /\ Received /\ Good
        BY DEF IInv, Control, Good
  <2>2. ASSUME pc = "app", isClosed, ~failed PROVE got[type] = ContentOf(type)
    <3>1. Aligned
          BY <2>1, <2>2 DEF Following, Calls, Dead, Astray
    <3> QED BY <2>1, <2>2, <3>1, StreamEnds
  <2> QED BY <2>1, <2>2 DEF Received, EveryEndMeansAll
<1> QED BY <1>1, ReaderFollows, PTL

\* The streams are read in turn: a request that reaches the application without an error
\* has its complete environment, every pair of it in the vector of PutParam with room for
\* the NULL behind it, and FCGX_StartFilterData begins the data after all of STDIN.
THEOREM ReaderStreamsInTurn == Spec => []StreamsInTurn
<1>1. IInv => StreamsInTurn
  <2> SUFFICES ASSUME IInv PROVE StreamsInTurn
        OBVIOUS
  <2>1. Calls /\ Phases /\ Environment /\ Received
        BY DEF IInv, Control, History
  <2>2. pc = "app" => type \in {"stdin", "data"}
        BY <2>1 DEF Calls, Phases, Caller, Loop
  <2>3. Supported /\ careful => InTurn
        BY <2>1 DEF Received, Good
  <2>4. params # NoParams => params.cur < params.length
        BY <2>1 DEF Environment
  <2> QED BY <2>2, <2>3, <2>4 DEF StreamsInTurn, InTurn
<1> QED BY <1>1, ReaderFollows, PTL

\* As long as no error has been reported ProcessHeader is only called where a record
\* begins, and contentLen, paddingLen and headerLen account for every byte up to the end
\* of the current record, across recursive calls, skips and changes of stream.
THEOREM ReaderPositionAccounted == Spec => []PositionAccounted
<1>1. IInv => PositionAccounted
  <2> SUFFICES ASSUME IInv, Supported, careful
               PROVE  /\ ~misread
                      /\ ipcOpen /\ rec # 0 /\ ~failed =>
                             IF pc = "process"
                             THEN pos = End(script[rec]) + HeaderLen
                             ELSE (IF stop > pos THEN stop ELSE pos) + contentLen + paddingLen
                                      = End(script[rec]) + headerLen
        BY DEF PositionAccounted
  <2>1. Following /\ Received /\ Good
        BY DEF IInv, Good
  <2>2. ASSUME ipcOpen, rec # 0, ~failed
        PROVE  IF pc = "process"
               THEN pos = End(script[rec]) + HeaderLen
               ELSE (IF stop > pos THEN stop ELSE pos) + contentLen + paddingLen
                        = End(script[rec]) + headerLen
    <3>1. Aligned
          BY <2>1, <2>2 DEF Following, Dead, Astray
    <3>2. RecEnd = End(script[rec])
          BY <2>2 DEF RecEnd
    <3> QED BY <3>1, <3>2 DEF Aligned, Accounted, Counts
  <2> QED BY <2>1, <2>2 DEF Received
<1> QED BY <1>1, ReaderFollows, PTL

\* ProcessManagementRecord and ProcessBeginRecord have answered every management record
\* and every attempt to multiplex the connection that has been passed, and no record is
\* answered twice.
THEOREM ReaderPassedAnswered == Spec => []PassedAnswered
<1>1. IInv => PassedAnswered
  <2> SUFFICES ASSUME IInv PROVE PassedAnswered
        OBVIOUS
  <2>1. TypeOK /\ AllAnswered /\ Answers
        BY DEF IInv, Control, History
  <2>2. ASSUME Supported, careful, ~failed, ipcOpen, NEW k \in 1..(rec - 1), NeedsAnswer(k)
        PROVE  Answered(k)
    <3>1. k \in 1..rec /\ k # rec
          BY <2>1 DEF TypeOK
    <3>2. k \in AnsweredRecs
          BY <2>1, <2>2, <3>1 DEF AllAnswered, Good, Answering, Settled
    <3> QED BY <3>2 DEF AnsweredRecs, Answered
  <2> QED BY <2>1, <2>2 DEF PassedAnswered, Answers
<1> QED BY <1>1, ReaderFollows, PTL

\* A padded FCGI_GET_VALUES record is answered, before and within a request, before
\* FillBuffProc waits for more input: a server that waits for the answer gets it.
THEOREM ReaderQueryAnswered == Spec => []QueryAnswered
<1>1. IInv => QueryAnswered
  <2> SUFFICES ASSUME IInv, Supported, careful, Blocked, QueryPending PROVE FALSE
        BY DEF QueryAnswered, EveryQueryAnswered
  <2>1. TypeOK /\ Buffer /\ Calls /\ History /\ Sending /\ Following /\ Queries /\ Good
        BY DEF IInv, Control, History, Good
  <2>2. PICK k \in 1..sent : Query(k) /\ \A i \in 1..Len(replies) : replies[i].rec # k
        BY DEF QueryPending, Query
  <2>3. ipcOpen /\ srvOpen /\ ~Dead
        BY DEF Blocked, Dead
  <2>4. Aligned \/ Astray
        BY <2>1, <2>3 DEF Following
  <2>5. k \in 1..rec
        BY <2>1, <2>4, AllLookedAt
  <2>6. k \notin AnsweredRecs
        BY <2>2 DEF AnsweredRecs
  <2>7. k = rec /\ ret = "values"
        BY <2>1, <2>2, <2>3, <2>5, <2>6 DEF Queries, Asked, Settled
  <2> QED BY <2>1, <2>4, <2>7, NoQueryRead
<1> QED BY <1>1, ReaderFollows, PTL
=============================================================================
